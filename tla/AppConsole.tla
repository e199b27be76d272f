----------------------------- MODULE AppConsole -----------------------------
(***************************************************************************)
(* The output of the app on its way to the host:                           *)
(*                                                                         *)
(*   - the guest's console bridge (cmd/sandbox-init/console.go): one pump  *)
(*     per output channel that outlives both the app generation            *)
(*     (rewireApp) and the MUX session (closeLiveMUX, reattach), and the   *)
(*     drain before power-off (appExited);                                 *)
(*   - the MUX session (pkg/mux): frames, send credit, and the MUX_CLOSE   *)
(*     handshake;                                                          *)
(*   - the host's link (pkg/guestlink/muxlink.go) and bridge (pkg/stdio).  *)
(*                                                                         *)
(* A byte is the number of the write it came from, counted per channel.    *)
(***************************************************************************)
EXTENDS Naturals, Sequences, FiniteSetsExt

CONSTANTS
    Roles,         \* the output channels, e.g. stdout and stderr
    Window,        \* receive window of a stream
    MaxWrites,     \* bytes the app writes, over all channels
    MaxGens,       \* app generations
    MaxSessions,   \* MUX sessions
    MaxFaults      \* broken connections

VARIABLES
    app,      \* the app instance: generation, alive, bytes written
    pipe,     \* per channel: written and not read yet
    bridge,   \* generation, drained roles, appClosed, whether the ends are open
    task,     \* what rewireApp, closeLiveMUX or appExited is doing
    pump,     \* the app-to-host pumps
    holder,   \* current session (0: none), and shut down
    sess,     \* the sessions, both ends and the connection between
    link,     \* host: current session, and what the sinks received
    fault     \* broken connections so far; whether bytes were given up

vars == <<app, pipe, bridge, task, pump, holder, sess, link, fault>>

NewSession ==
    [init |-> FALSE, retired |-> FALSE, credit |-> [r \in Roles |-> Window],
     wire |-> <<>>, back |-> [r \in Roles |-> 0], ack |-> FALSE, open |-> TRUE,
     buf |-> [r \in Roles |-> <<>>], bad |-> FALSE]

Init ==
    /\ app = [gen |-> 1, alive |-> TRUE, wrote |-> [r \in Roles |-> 0]]
    /\ pipe = [r \in Roles |-> <<>>]
    /\ bridge = [gen |-> 1, drained |-> {}, closed |-> FALSE, ends |-> TRUE]
    /\ task = [restart |-> "idle", close |-> "idle", exit |-> "idle", acked |-> FALSE]
    /\ pump = [r \in Roles |-> [pc |-> "read", gen |-> 1, chunk |-> <<>>, s |-> 0]]
    /\ holder = [s |-> 1, closed |-> FALSE]
    /\ sess = <<NewSession>>
    /\ link = [s |-> 1, sink |-> [r \in Roles |-> <<>>]]
    /\ fault = [count |-> 0, lossy |-> FALSE]

\* A bounded wait lapses, or a connection breaks, and bytes may be given up.
GiveUp(bytes) == fault' = [fault EXCEPT !.lossy = @ \/ bytes]

InFlight(s) == \E i \in 1..Len(sess[s].wire) : sess[s].wire[i].kind = "DATA"

-----------------------------------------------------------------------------
(* The app.                                                                *)

AppWrites(r) ==
    /\ app.alive /\ MapThenSumSet(LAMBDA q : app.wrote[q], Roles) < MaxWrites
    /\ app' = [app EXCEPT !.wrote[r] = @ + 1]
    /\ pipe' = [pipe EXCEPT ![r] = Append(@, app.wrote[r] + 1)]
    /\ UNCHANGED <<bridge, task, pump, holder, sess, link, fault>>

\* The reaper either restarts the app in place or ends the sandbox.
AppExits ==
    /\ app.alive
    /\ app' = [app EXCEPT !.alive = FALSE]
    /\ \/ app.gen < MaxGens /\ task' = [task EXCEPT !.restart = "draining"]
       \/ task' = [task EXCEPT !.exit = "close"]
    /\ UNCHANGED <<pipe, bridge, pump, holder, sess, link, fault>>

-----------------------------------------------------------------------------
(* rewireApp: wait for the old generation's drain, close the old ends,     *)
(* install the new ones.                                                   *)

rewireAppAtOnce ==
    /\ task.restart = "draining"
    /\ pipe' = [r \in Roles |-> <<>>]
    /\ bridge' = [bridge EXCEPT !.ends = FALSE]
    /\ task' = [task EXCEPT !.restart = "install"]
    /\ UNCHANGED <<app, pump, holder, sess, link, fault>>

rewireApp ==
    /\ task.restart = "draining"
    /\ \/ bridge.drained = Roles /\ UNCHANGED fault
       \/ bridge.drained # Roles /\ GiveUp(TRUE)
    /\ pipe' = [r \in Roles |-> <<>>]
    /\ bridge' = [bridge EXCEPT !.ends = FALSE]
    /\ task' = [task EXCEPT !.restart = "install"]
    /\ UNCHANGED <<app, pump, holder, sess, link>>

setEndsLocked ==
    /\ task.restart = "install"
    /\ bridge' = [bridge EXCEPT !.gen = @ + 1, !.drained = {}, !.ends = TRUE]
    /\ app' = [app EXCEPT !.gen = @ + 1, !.alive = TRUE]
    /\ task' = [task EXCEPT !.restart = "idle"]
    /\ UNCHANGED <<pipe, pump, holder, sess, link, fault>>

-----------------------------------------------------------------------------
(* pumpAppToHost.                                                          *)

\* One read takes everything the pipe holds; an empty pipe reads EOF once
\* the app is gone, and an error once the ends are closed.
pumpRead(r) ==
    LET p == pump[r]
        stale == p.gen # bridge.gen \/ ~bridge.ends
        eof == stale \/ (pipe[r] = <<>> /\ ~app.alive)
    IN
    /\ p.pc = "read"
    /\ eof \/ pipe[r] # <<>>
    /\ pump' = [pump EXCEPT ![r] = [p EXCEPT !.pc = IF eof THEN "eof" ELSE "send",
                                             !.chunk = IF eof THEN <<>> ELSE pipe[r]]]
    /\ pipe' = IF eof THEN pipe ELSE [pipe EXCEPT ![r] = <<>>]
    /\ UNCHANGED <<app, bridge, task, holder, sess, link, fault>>

\* holder.wait: the session the whole Write call stays with.
pumpWait(r) ==
    /\ pump[r].pc \in {"send", "final"} /\ pump[r].s = 0
    /\ \/ /\ holder.s # 0
          /\ pump' = [pump EXCEPT ![r].s = holder.s]
          /\ UNCHANGED fault
       \/ /\ holder.closed
          /\ pump' = [pump EXCEPT ![r].pc = "done", ![r].chunk = <<>>]
          /\ fault' = [fault EXCEPT !.lossy = @ \/ pump[r].chunk # <<>>]
    /\ UNCHANGED <<app, pipe, bridge, task, holder, sess, link>>

Take(q, n) == SubSeq(q, 1, n)
Drop(q, n) == SubSeq(q, n + 1, Len(q))
Least(a, b) == IF a < b THEN a ELSE b

refuseWrites(s) == sess[s].init \/ sess[s].retired

\* writeData sends as much of the chunk as there is credit for, frame by frame.
writeData(r) ==
    LET p == pump[r]
        n == Least(Len(p.chunk), sess[p.s].credit[r])
    IN
    /\ p.pc = "send" /\ p.s # 0 /\ n > 0 /\ ~refuseWrites(p.s)
    /\ sess' = [sess EXCEPT ![p.s].wire = Append(@, [kind |-> "DATA", role |-> r,
                                                     bytes |-> Take(p.chunk, n)]),
                            ![p.s].credit[r] = @ - n]
    /\ pump' = [pump EXCEPT ![r] =
                  IF n = Len(p.chunk)
                  THEN [p EXCEPT !.pc = "read", !.chunk = <<>>, !.s = 0]
                  ELSE [p EXCEPT !.chunk = Drop(p.chunk, n)]]
    /\ UNCHANGED <<app, pipe, bridge, task, holder, link, fault>>

invalidate(s) == [holder EXCEPT !.s = IF @ = s THEN 0 ELSE @]

\* The write is refused: the rest of the chunk waits for the next session.
pumpRefused(r) ==
    /\ pump[r].pc \in {"send", "final"} /\ pump[r].s # 0
    /\ refuseWrites(pump[r].s)
    /\ holder' = invalidate(pump[r].s)
    /\ pump' = [pump EXCEPT ![r].s = 0]
    /\ UNCHANGED <<app, pipe, bridge, task, sess, link, fault>>

\* EOF of this generation: mark the drain, park for the next generation, or
\* close the stream when the bridge is shut.
waitNextFd(r) ==
    LET p == pump[r] IN
    /\ \/ /\ p.pc = "eof"
          /\ bridge' = IF p.gen = bridge.gen
                       THEN [bridge EXCEPT !.drained = @ \union {r}] ELSE bridge
          /\ pump' = [pump EXCEPT ![r].pc = "next"]
       \/ /\ p.pc = "next" /\ p.gen < bridge.gen
          /\ pump' = [pump EXCEPT ![r].pc = "read", ![r].gen = bridge.gen]
          /\ UNCHANGED bridge
       \/ /\ p.pc = "next" /\ p.gen = bridge.gen /\ bridge.closed
          /\ pump' = [pump EXCEPT ![r].pc = "final"]
          /\ UNCHANGED bridge
    /\ UNCHANGED <<app, pipe, task, holder, sess, link, fault>>

CloseWrite(r) ==
    /\ pump[r].pc = "final" /\ pump[r].s # 0 /\ ~refuseWrites(pump[r].s)
    /\ sess' = [sess EXCEPT ![pump[r].s].wire =
                  Append(@, [kind |-> "EOF", role |-> r, bytes |-> <<>>])]
    /\ pump' = [pump EXCEPT ![r].pc = "done", ![r].s = 0]
    /\ UNCHANGED <<app, pipe, bridge, task, holder, link, fault>>

-----------------------------------------------------------------------------
(* The session.                                                            *)

InitMuxClose(s) ==
    [sess EXCEPT ![s].init = TRUE,
                 ![s].wire = Append(@, [kind |-> "CLOSE", role |-> "control",
                                        bytes |-> <<>>])]

\* The guest's read loop: WINDOW_UPDATE, and MUX_CLOSE_ACK, which ends it.
readLoopGuest(s) ==
    /\ ~sess[s].retired
    /\ \/ \E r \in Roles :
            /\ sess[s].back[r] > 0
            /\ sess' = [sess EXCEPT ![s].credit[r] = @ + sess[s].back[r],
                                    ![s].back[r] = 0]
       \/ sess[s].ack /\ sess' = [sess EXCEPT ![s].retired = TRUE]
    /\ UNCHANGED <<app, pipe, bridge, task, pump, holder, link, fault>>

\* The host's read loop: DATA within the window, EOF, and MUX_CLOSE, which
\* it acknowledges before it closes the connection.
dispatch(s) ==
    /\ sess[s].open /\ sess[s].wire # <<>>
    /\ LET f == Head(sess[s].wire)
           rest == [sess EXCEPT ![s].wire = Tail(@)]
       IN sess' = CASE f.kind = "DATA" ->
                         IF Len(sess[s].buf[f.role]) + Len(f.bytes) > Window
                         THEN [rest EXCEPT ![s].bad = TRUE, ![s].open = FALSE]
                         ELSE [rest EXCEPT ![s].buf[f.role] = @ \o f.bytes]
                    [] f.kind = "EOF" -> rest
                    [] f.kind = "CLOSE" -> [rest EXCEPT ![s].ack = TRUE, ![s].open = FALSE]
    /\ UNCHANGED <<app, pipe, bridge, task, pump, holder, link, fault>>

\* The host's bridge copies the buffer to the sink; Read returns the credit.
Bridge(s, r) ==
    /\ sess[s].buf[r] # <<>>
    /\ link' = [link EXCEPT !.sink[r] = @ \o sess[s].buf[r]]
    /\ sess' = [sess EXCEPT ![s].buf[r] = <<>>,
                            ![s].back[r] = IF sess[s].open THEN @ + Len(sess[s].buf[r]) ELSE @]
    /\ UNCHANGED <<app, pipe, bridge, task, pump, holder, fault>>

\* The connection breaks: both read loops end, what is under way is lost.
Broken(s) == [sess EXCEPT ![s].retired = TRUE, ![s].open = FALSE, ![s].wire = <<>>]

ConnectionBreaks(s) ==
    /\ sess[s].open /\ ~sess[s].retired
    /\ fault.count < MaxFaults
    /\ fault' = [count |-> fault.count + 1, lossy |-> fault.lossy \/ InFlight(s)]
    /\ sess' = Broken(s)
    /\ UNCHANGED <<app, pipe, bridge, task, pump, holder, link>>

-----------------------------------------------------------------------------
(* closeLiveMUX (quiesce, attach) and Reattach.                            *)

closeLiveMUX ==
    /\ \/ /\ task.close = "idle" /\ task.exit = "idle"
          /\ holder.s # 0 /\ holder.s < MaxSessions /\ ~refuseWrites(holder.s)
          /\ sess' = InitMuxClose(holder.s)
          /\ task' = [task EXCEPT !.close = "wait"]
          /\ UNCHANGED <<holder, fault>>
       \/ /\ task.close = "wait"
          /\ LET s == link.s IN
             \/ sess[s].retired /\ UNCHANGED <<sess, fault>>
             \/ ~sess[s].retired /\ GiveUp(InFlight(s)) /\ sess' = Broken(s)
          /\ holder' = invalidate(link.s)
          /\ task' = [task EXCEPT !.close = "idle"]
    /\ UNCHANGED <<app, pipe, bridge, pump, link>>

\* Teardown closes the old connection and joins its copies; attach opens the
\* next session.
Reattach ==
    /\ Len(sess) < MaxSessions /\ task.close = "idle" /\ task.exit # "off"
    /\ ~sess[link.s].open
    /\ \A r \in Roles : sess[link.s].buf[r] = <<>>
    /\ ~holder.closed
    /\ sess' = Append(sess, NewSession)
    /\ holder' = [holder EXCEPT !.s = Len(sess) + 1]
    /\ link' = [link EXCEPT !.s = Len(sess) + 1]
    /\ UNCHANGED <<app, pipe, bridge, task, pump, fault>>

-----------------------------------------------------------------------------
(* appExited: let the pumps drain, then have MUX_CLOSE acknowledged, then  *)
(* close and power off.                                                    *)

appExited ==
    \/ /\ task.exit = "close" /\ task.close = "idle"
       /\ bridge' = [bridge EXCEPT !.closed = TRUE]
       /\ task' = [task EXCEPT !.exit = "drain"]
       /\ UNCHANGED <<app, pipe, pump, holder, sess, link, fault>>
    \/ /\ task.exit = "drain"
       /\ \/ /\ \A r \in Roles : pump[r].pc = "done"
             /\ IF holder.s # 0 /\ ~refuseWrites(holder.s)
                THEN sess' = InitMuxClose(holder.s) /\ task' = [task EXCEPT !.exit = "ack"]
                ELSE task' = [task EXCEPT !.exit = "shut"] /\ UNCHANGED sess
             /\ UNCHANGED fault
          \/ /\ \E r \in Roles : pump[r].pc # "done"
             /\ GiveUp(TRUE)
             /\ task' = [task EXCEPT !.exit = "shut"]
             /\ UNCHANGED sess
       /\ UNCHANGED <<app, pipe, bridge, pump, holder, link>>
    \/ /\ task.exit = "ack"
       /\ \/ /\ sess[link.s].retired
             /\ task' = [task EXCEPT !.exit = "shut", !.acked = sess[link.s].ack]
             /\ UNCHANGED fault
          \/ /\ ~sess[link.s].retired
             /\ GiveUp(InFlight(link.s))
             /\ task' = [task EXCEPT !.exit = "shut"]
       /\ UNCHANGED <<app, pipe, bridge, pump, holder, sess, link>>

\* The VM is gone: nothing more leaves the guest.
PowerOff ==
    /\ task.exit = "shut"
    /\ bridge' = [bridge EXCEPT !.ends = FALSE]
    /\ holder' = [s |-> 0, closed |-> TRUE]
    /\ sess' = Broken(link.s)
    /\ task' = [task EXCEPT !.exit = "off"]
    /\ UNCHANGED <<app, pipe, pump, link, fault>>

Terminated == task.exit = "off" /\ UNCHANGED vars

Next ==
    \/ \E r \in Roles :
          \/ AppWrites(r) \/ pumpRead(r) \/ pumpWait(r) \/ writeData(r)
          \/ pumpRefused(r) \/ waitNextFd(r) \/ CloseWrite(r)
          \/ \E s \in 1..Len(sess) : Bridge(s, r)
    \/ \E s \in 1..Len(sess) : readLoopGuest(s) \/ dispatch(s) \/ ConnectionBreaks(s)
    \/ AppExits \/ rewireApp \/ setEndsLocked
    \/ closeLiveMUX \/ Reattach \/ appExited \/ PowerOff \/ Terminated

Spec == Init /\ [][Next]_vars

-----------------------------------------------------------------------------
(* Properties.                                                             *)

Upto(n) == [i \in 1..n |-> i]

Received(r) == link.sink[r] \o sess[link.s].buf[r]

\* What the host received on a channel is the app's output in order and
\* without duplicates, across restarts of the app and changes of the session;
\* without a gap as long as no connection broke and no bounded wait lapsed;
\* and complete when the power-off followed an acknowledged MUX_CLOSE
\* (pumpAppToHost, rewireApp, appExited).  No frame exceeds the receiver's
\* window (Stream.deliver).
OutputExact ==
    /\ \A s \in 1..Len(sess) : ~sess[s].bad
    /\ \A r \in Roles :
        LET q == Received(r) IN
        /\ \A i \in 1..Len(q) - 1 : q[i] < q[i + 1]
        /\ ~fault.lossy => q = Upto(Len(q))
        /\ task.exit = "off" /\ task.acked /\ ~fault.lossy => q = Upto(app.wrote[r])
=============================================================================

------------------------------ MODULE VhostBlk ------------------------------
(***************************************************************************)
(* One vhost-user block device of pkg/vhost: the thread that serves the    *)
(* master's messages, the worker of the one virtqueue, Stop, and the       *)
(* Quiesce/Resume window of a capture, over a ring that the guest fills.   *)
(*                                                                         *)
(* Requests are numbered by their place in the available ring.  A request  *)
(* is one step of I/O per segment; bytes, descriptors and features that    *)
(* only change a reply are left out.  The master keeps to the protocol: it *)
(* configures a ring only while the ring is stopped.                       *)
(***************************************************************************)
EXTENDS Naturals, Sequences

CONSTANTS
    MaxReqs,      \* requests the guest submits
    MaxEvents,    \* connections of the master and quiesced windows together
    Segments      \* data segments of a request

VARIABLES
    serve,     \* program counter of Serve
    masters,   \* connections accepted so far
    sstop,     \* Server.stop is closed
    ctxDone,   \* the context of Serve has ended
    stopper,   \* program counter of Stop
    mem,       \* generation of the translations, 0 when there are none
    feat,      \* featuresSet, and the implicit start of a ring
    q,         \* the virtq
    drainMu,   \* holder of q.drainMu
    event,     \* the kick eventfd is readable
    w,         \* the worker
    gate,      \* holder of pauseGate
    quiescer,  \* program counter of Quiesce and Resume
    captures,  \* quiesced windows so far
    inflight,  \* Server.inflight is not zero
    fatal,     \* onReadFatal has been called
    bound,     \* BackendSet.binding is set
    avail,     \* avail.idx of the guest
    kicked,    \* avail.idx when the guest last kicked
    used,      \* the used ring: the completed requests with their status
    notified,  \* length of the used ring at the last call interrupt
    disk,      \* segments of each request that reached the backend
    answer     \* the base of the last GET_VRING_BASE, or 0

vars == <<serve, masters, sstop, ctxDone, stopper, mem, feat, q, drainMu, event,
          w, gate, quiescer, captures, inflight, fatal, bound, avail, kicked, used,
          notified, disk, answer>>
ringVars == <<captures, avail, kicked, used, notified, disk>>
serverVars == <<masters, sstop, ctxDone, stopper, mem, feat, answer>>

FreshQueue == [num |-> FALSE, addr |-> FALSE, based |-> FALSE, base |-> 0,
               kick |-> FALSE, call |-> FALSE, enabled |-> FALSE, armed |-> FALSE,
               parked |-> FALSE, stop |-> "nil"]
Idle == [pc |-> "none", head |-> 0, pin |-> "none", seg |-> 0, status |-> "none",
         tr |-> 0, terminal |-> "none"]

Init ==
    /\ serve = "accept" /\ masters = 0
    /\ sstop = FALSE /\ ctxDone = FALSE /\ stopper = "idle"
    /\ mem = 0 /\ feat = [set |-> FALSE, implicit |-> FALSE]
    /\ q = FreshQueue /\ drainMu = "free" /\ event = FALSE
    /\ w = Idle /\ gate = "free" /\ quiescer = "idle" /\ captures = 0 /\ inflight = FALSE
    /\ fatal = FALSE /\ bound = FALSE
    /\ avail = 0 /\ kicked = 0 /\ used = <<>> /\ notified = 0
    /\ disk = [i \in 1 .. MaxReqs |-> 0]
    /\ answer = 0

Stopped == q.stop = "closed" \/ ctxDone
Joined == w.pc = "none"

(***************************************************************************)
(* The control connection.                                                 *)
(***************************************************************************)
Accept ==
    /\ serve = "accept" /\ ~sstop /\ masters + captures < MaxEvents
    /\ serve' = "read" /\ masters' = masters + 1 /\ answer' = 0
    /\ UNCHANGED <<sstop, ctxDone, stopper, mem, feat, q, drainMu, event, w, gate,
                   quiescer, inflight, fatal, bound>> /\ UNCHANGED ringVars

ServeReturns ==
    \/ /\ serve = "accept" /\ sstop
       /\ serve' = "leave" /\ UNCHANGED mem
    \/ /\ serve = "leave" /\ stopper = "done"
       /\ serve' = "returned" /\ mem' = 0

\* Deferred Stop and cleanup of Serve.
Leave ==
    /\ ServeReturns
    /\ UNCHANGED <<masters, sstop, ctxDone, stopper, feat, q, drainMu, event, w,
                   gate, quiescer, inflight, fatal, bound, answer>>
    /\ UNCHANGED ringVars

\* A handler that changes the queue and then looks whether it can start.
Message ==
    /\ serve = "read" /\ ~sstop /\ serve' = "start"
    /\ UNCHANGED <<masters, sstop, ctxDone, stopper, mem, drainMu, event, w, gate,
                   quiescer, inflight, fatal, bound, answer>>
    /\ UNCHANGED ringVars

SetFeatures ==
    /\ Message /\ ~feat.set
    /\ \E i \in BOOLEAN : feat' = [set |-> TRUE, implicit |-> i]
    /\ UNCHANGED q

\* The ring is configured while it is stopped, features first and then in the
\* master's order.
Ring(ready, q1) ==
    Message /\ feat.set /\ q.stop = "nil" /\ ready /\ q' = q1 /\ UNCHANGED feat

SetVringNum == Ring(~q.num, [q EXCEPT !.num = TRUE])

SetVringAddr == Ring(q.num, [q EXCEPT !.addr = TRUE])

\* The base is the used index of a new ring, or what GET_VRING_BASE answered.
SetVringBase ==
    \/ Ring(q.addr /\ ~q.based, [q EXCEPT !.base = Len(used), !.based = TRUE])
    \/ Ring(answer > 0, [q EXCEPT !.base = answer - 1])

\* The handlers of KICK and CALL hold drainMu.
SetVringCall == Ring(q.based /\ drainMu = "free", [q EXCEPT !.call = TRUE])

SetVringKick == Ring(q.call /\ drainMu = "free", [q EXCEPT !.kick = TRUE, !.armed = TRUE])

SetVringEnable ==
    /\ Message /\ q.based /\ ~feat.implicit
    /\ \E e \in BOOLEAN : q' = [q EXCEPT !.enabled = e] /\ UNCHANGED feat

Configured == feat.set /\ mem # 0 /\ q.num

maybeStartWorker ==
    /\ serve = "start" /\ serve' = "read"
    /\ ~Configured \/ drainMu = "free"
    /\ IF /\ Configured /\ ~sstop
          /\ q.enabled \/ (feat.implicit /\ q.armed)
          /\ q.kick /\ q.call /\ q.addr /\ q.stop = "nil"
       THEN /\ q' = [q EXCEPT !.stop = "open"] /\ answer' = 0
            /\ w' = [Idle EXCEPT !.pc = "top"]
       ELSE UNCHANGED <<q, w, answer>>
    /\ UNCHANGED <<drainMu, event, gate, quiescer, inflight, fatal, bound>>
    /\ UNCHANGED <<masters, sstop, ctxDone, stopper, mem, feat>> /\ UNCHANGED ringVars

NextMem == IF mem = 1 THEN 2 ELSE 1

\* SET_MEM_TABLE: without old regions nothing runs; with them the worker is
\* cancelled, woken and joined under drainMu before they are replaced.
SetMemTable ==
    /\ serve = "read" /\ ~sstop
    /\ \/ /\ mem = 0
          /\ serve' = "start" /\ mem' = NextMem
          /\ UNCHANGED <<q, drainMu, event>>
       \/ /\ mem # 0 /\ drainMu = "free"
          /\ serve' = "mem" /\ drainMu' = "serve"
          /\ q' = IF q.stop = "open" THEN [q EXCEPT !.stop = "closed"] ELSE q
          /\ event' = (event \/ q.stop # "nil")
          /\ UNCHANGED mem
    /\ UNCHANGED <<masters, sstop, ctxDone, stopper, feat, answer, w, gate, quiescer,
                   inflight, fatal, bound>> /\ UNCHANGED ringVars

SetRegionsForgetsKick ==
    /\ serve = "mem" /\ Joined
    /\ serve' = "start" /\ drainMu' = "free" /\ mem' = NextMem
    /\ q' = IF sstop THEN q ELSE [q EXCEPT !.stop = "nil"]
    /\ UNCHANGED <<event, masters, sstop, ctxDone, stopper, feat, answer, w, gate,
                   quiescer, inflight, fatal, bound>> /\ UNCHANGED ringVars

\* After the join: new translations, a queue that may start again, and a kick
\* in place of the one that the old worker may have consumed.
SetRegions ==
    /\ serve = "mem" /\ Joined
    /\ serve' = "start" /\ drainMu' = "free" /\ mem' = NextMem
    /\ IF sstop THEN UNCHANGED <<q, event>>
       ELSE /\ q' = [q EXCEPT !.stop = "nil",
                              !.parked = @ \/ ~(q.enabled \/ feat.implicit)]
            /\ event' = (event \/ (q.stop # "nil" /\ (q.enabled \/ feat.implicit)))
    /\ UNCHANGED <<masters, sstop, ctxDone, stopper, feat, answer, w, gate, quiescer,
                   inflight, fatal, bound>> /\ UNCHANGED ringVars

GetVringBaseEarly ==
    \/ /\ serve = "read" /\ ~sstop /\ drainMu = "free" /\ q.stop # "nil"
       /\ serve' = "base" /\ drainMu' = "serve" /\ answer' = q.base + 1
       /\ q' = [q EXCEPT !.stop = "closed"] /\ event' = TRUE
       /\ UNCHANGED <<masters, sstop, ctxDone, stopper, mem, feat>>
    \/ /\ serve = "base" /\ Joined
       /\ serve' = "read" /\ drainMu' = "free"
       /\ q' = [q EXCEPT !.enabled = FALSE, !.armed = FALSE, !.parked = TRUE,
                         !.stop = IF sstop THEN @ ELSE "nil"]
       /\ UNCHANGED event /\ UNCHANGED serverVars

\* GET_VRING_BASE: stop and join the worker if there is one, then answer.
BaseReply ==
    /\ serve' = "read" /\ drainMu' = "free" /\ answer' = q.base + 1
    /\ q' = [q EXCEPT !.enabled = FALSE, !.armed = FALSE, !.parked = TRUE,
                      !.stop = IF sstop THEN @ ELSE "nil"]
    /\ UNCHANGED <<event, masters, sstop, ctxDone, stopper, mem, feat>>

HandleGetVringBase ==
    \/ /\ serve = "read" /\ ~sstop /\ drainMu = "free" /\ q.based /\ q.stop = "nil"
       /\ BaseReply
    \/ /\ serve = "read" /\ ~sstop /\ drainMu = "free" /\ q.stop # "nil"
       /\ serve' = "base" /\ drainMu' = "serve"
       /\ q' = [q EXCEPT !.stop = "closed"] /\ event' = TRUE
       /\ UNCHANGED serverVars
    \/ /\ serve = "base" /\ Joined /\ BaseReply

GetVringBase ==
    /\ HandleGetVringBase
    /\ UNCHANGED <<w, gate, quiescer, inflight, fatal, bound>> /\ UNCHANGED ringVars

\* The master leaves, sends something that is refused, or Stop has closed the
\* connection: the queues are detached and the features forgotten.
Detach ==
    /\ serve = "read" /\ serve' = "drain"
    /\ feat' = [set |-> FALSE, implicit |-> FALSE]
    /\ UNCHANGED <<masters, sstop, ctxDone, stopper, mem, answer, q, drainMu, event,
                   w, gate, quiescer, inflight, fatal, bound>> /\ UNCHANGED ringVars

StopReading == q' = [q EXCEPT !.stop = IF @ = "nil" THEN @ ELSE "closed", !.kick = FALSE]

\* stopAndDrainQueues up to the join: cancel, wake by the eventfd, close it.
DrainBegins(who) ==
    /\ drainMu = "free" /\ drainMu' = who
    /\ StopReading /\ event' = (event \/ q.kick)

\* The kicks and interrupts of the old eventfds are the master's to repeat.
Reset ==
    /\ \/ /\ serve = "drain" /\ DrainBegins("serve")
          /\ serve' = "join" /\ UNCHANGED <<mem, kicked, notified>>
       \/ /\ serve = "join" /\ Joined
          /\ serve' = "accept" /\ drainMu' = "free" /\ mem' = 0
          /\ q' = FreshQueue /\ event' = FALSE
          /\ kicked' = Len(used) /\ notified' = Len(used)
    /\ UNCHANGED <<masters, sstop, ctxDone, stopper, feat, answer, w, gate, quiescer,
                   captures, inflight, fatal, bound, avail, used, disk>>

ContextEnds ==
    /\ ~ctxDone /\ serve # "returned" /\ ctxDone' = TRUE
    /\ UNCHANGED <<serve, masters, sstop, stopper, mem, feat, answer, q, drainMu, event,
                   w, gate, quiescer, inflight, fatal, bound>> /\ UNCHANGED ringVars

\* Stop, called once the context has ended: close the channel, the listener and the connection; take the queues
\* that are attached; drain them under drainMu.
Stop ==
    /\ \/ /\ stopper = "idle" /\ ctxDone /\ stopper' = "closed" /\ sstop' = TRUE
          /\ UNCHANGED <<q, drainMu, event>>
       \/ /\ stopper = "closed"
          /\ stopper' = IF serve \in {"drain", "join"} THEN "done" ELSE "drain"
          /\ UNCHANGED <<sstop, q, drainMu, event>>
       \/ /\ stopper = "drain" /\ DrainBegins("stop")
          /\ stopper' = "join" /\ UNCHANGED sstop
       \/ /\ stopper = "join" /\ Joined
          /\ stopper' = "done" /\ drainMu' = "free"
          /\ q' = [q EXCEPT !.call = FALSE] /\ UNCHANGED <<sstop, event>>
    /\ UNCHANGED <<serve, masters, ctxDone, mem, feat, answer, w, gate, quiescer,
                   inflight, fatal, bound>> /\ UNCHANGED ringVars

(***************************************************************************)
(* The worker of the queue.                                                *)
(***************************************************************************)
WorkerFrame ==
    /\ UNCHANGED <<serve, drainMu, quiescer, captures, gate, bound, avail, kicked>>
    /\ UNCHANGED serverVars
NoIO == UNCHANGED <<used, notified, disk>>
Goto(pc) == w' = [w EXCEPT !.pc = pc]
Exit == w' = Idle
Terminal(t) == w' = [Idle EXCEPT !.pc = "report", !.terminal = t]

\* The loop looks at q.stop only; the blocking read ends with a kick, or with
\* EBADF when a drain has closed the eventfd.
WorkerWait ==
    /\ \/ /\ w.pc = "top" /\ (IF q.stop = "closed" THEN Exit ELSE Goto("read"))
          /\ UNCHANGED event
       \/ /\ w.pc = "read" /\ event /\ event' = FALSE /\ Goto("gate")
       \/ /\ w.pc = "read" /\ ~q.kick /\ Exit /\ UNCHANGED event
    /\ WorkerFrame /\ NoIO /\ UNCHANGED <<q, inflight, fatal>>

\* pauseGate.lock gives up when the queue is stopped; inside, a stopped queue
\* leaves and another one is counted in flight before the gate is released.
Enter ==
    /\ w.pc = "gate"
    /\ \/ Stopped /\ Exit /\ UNCHANGED inflight
       \/ gate = "free" /\ ~Stopped /\ Goto("avail") /\ inflight' = TRUE
    /\ WorkerFrame /\ NoIO /\ UNCHANGED <<q, event, fatal>>

\* Every translation loads its pages: it ends with the queue or for ever.
Untranslated == (Stopped /\ Terminal("canceled")) \/ Terminal("fatal")

readAvailRing ==
    /\ w.pc = "avail"
    /\ \/ Untranslated
       \/ ~Stopped /\ w' = [w EXCEPT !.pc = "chain", !.head = avail, !.tr = mem]
    /\ WorkerFrame /\ NoIO /\ UNCHANGED <<q, event, inflight, fatal>>

\* A request pins one view of the binding for all its segments.
requestBackend == IF bound THEN "real" ELSE "unbound"

\* walkChain: a chain that is not well formed is completed without a status.
walkChain ==
    /\ w.pc = "chain" /\ q.base # w.head
    /\ \/ Untranslated
       \/ ~Stopped /\ w' = [w EXCEPT !.pc = "publish", !.status = "none"]
       \/ /\ ~Stopped
          /\ \E k \in {"in", "out", "discard"} :
                w' = [w EXCEPT !.pc = k, !.seg = 0, !.status = "ok", !.tr = mem,
                               !.pin = requestBackend]
    /\ WorkerFrame /\ NoIO /\ UNCHANGED <<q, event, inflight, fatal>>

Reaches(n) == disk' = [disk EXCEPT ![q.base + 1] = IF @ > n THEN @ ELSE n]
IOFrame == WorkerFrame /\ UNCHANGED <<q, event, inflight, fatal, used, notified>>
IOError == w' = [w EXCEPT !.pc = "status", !.status = "error"] /\ UNCHANGED disk

\* A read is delivered in windows; a short or failed one is an I/O error, a
\* terminal one and a stopped queue end the worker without a status.
readPayload ==
    /\ w.pc = "in"
    /\ \/ w.pin = "real" /\ w.seg < Segments /\ ~Stopped
          /\ Reaches(w.seg + 1) /\ w' = [w EXCEPT !.seg = @ + 1]
       \/ w.seg = Segments /\ Goto("status") /\ UNCHANGED disk
       \/ w.seg < Segments /\ IOError
       \/ w.pin = "real" /\ Untranslated /\ UNCHANGED disk
    /\ IOFrame

\* A write goes out one segment after the other up to the first error; the
\* queue is looked at after each, so that what was written may be repeated.
processChain ==
    /\ w.pc = "out"
    /\ \/ /\ w.pin = "real" /\ w.seg < Segments /\ Reaches(w.seg + 1)
          /\ \/ ~Stopped /\ w' = [w EXCEPT !.seg = @ + 1]
             \/ Stopped /\ Terminal("canceled")
       \/ w.seg = Segments /\ Goto("status") /\ UNCHANGED disk
       \/ w.seg < Segments /\ IOError
       \/ w.pin = "real" /\ Untranslated /\ UNCHANGED disk
    /\ IOFrame

\* A discard is one call that no context ends.
discardChain ==
    /\ w.pc = "discard"
    /\ \/ w.pin = "real" /\ Reaches(Segments) /\ Goto("status")
       \/ IOError
    /\ IOFrame

writeStatus ==
    /\ w.pc = "status"
    /\ IF Stopped THEN Terminal("canceled") ELSE Goto("publish")
    /\ WorkerFrame /\ NoIO /\ UNCHANGED <<q, event, inflight, fatal>>

\* The queue may be stopped after it was last looked at.
publishUsed ==
    /\ w.pc = "publish"
    /\ \/ Untranslated /\ UNCHANGED <<q, used>>
       \/ /\ w' = [Idle EXCEPT !.pc = "chain", !.head = w.head, !.tr = w.tr]
          /\ used' = Append(used, [req |-> q.base + 1, status |-> w.status])
          /\ q' = [q EXCEPT !.base = @ + 1]
    /\ WorkerFrame /\ UNCHANGED <<event, inflight, fatal, notified, disk>>

\* The interrupt comes once, after the last request of the scan.
notifyCall ==
    /\ w.pc = "chain" /\ q.base = w.head /\ w' = [Idle EXCEPT !.pc = "finish"]
    /\ notified' = IF q.stop = "closed" THEN notified ELSE Len(used)
    /\ WorkerFrame /\ UNCHANGED <<q, event, inflight, fatal, used, disk>>

\* A terminal cause is reported before inflight.Done lets Quiesce pass.
Report ==
    /\ \/ /\ w.pc = "report" /\ Goto("finish")
          /\ fatal' = (fatal \/ w.terminal = "fatal") /\ UNCHANGED inflight
       \/ /\ w.pc = "finish" /\ inflight' = FALSE /\ UNCHANGED fatal
          /\ IF w.terminal = "none" THEN w' = [Idle EXCEPT !.pc = "top"] ELSE Exit
    /\ WorkerFrame /\ NoIO /\ UNCHANGED <<q, event>>

Worker ==
    \/ WorkerWait \/ Enter \/ readAvailRing \/ walkChain \/ readPayload
    \/ processChain \/ discardChain \/ writeStatus \/ publishUsed \/ notifyCall \/ Report

(***************************************************************************)
(* The capture, the launch and the guest.                                  *)
(***************************************************************************)
Quiesce ==
    /\ \/ /\ quiescer = "idle" /\ masters + captures < MaxEvents /\ gate = "free"
          /\ gate' = "quiescer" /\ quiescer' = "wait" /\ captures' = captures + 1
       \/ /\ quiescer = "wait" /\ ~inflight /\ quiescer' = "held"
          /\ UNCHANGED <<gate, captures>>
    /\ UNCHANGED <<serve, q, drainMu, event, w, inflight, fatal, bound>>
    /\ UNCHANGED serverVars /\ UNCHANGED <<avail, kicked, used, notified, disk>>

Resume ==
    /\ quiescer = "held" /\ quiescer' = "idle" /\ gate' = "free"
    /\ UNCHANGED <<serve, q, drainMu, event, w, inflight, fatal, bound>>
    /\ UNCHANGED serverVars /\ UNCHANGED ringVars

Bind ==
    /\ ~bound /\ bound' = TRUE
    /\ UNCHANGED <<serve, q, drainMu, event, w, gate, quiescer, inflight, fatal>>
    /\ UNCHANGED serverVars /\ UNCHANGED ringVars

Submit ==
    /\ q.based /\ q.kick /\ avail < MaxReqs
    /\ avail' = avail + 1
    /\ UNCHANGED <<serve, q, drainMu, event, w, gate, quiescer, inflight, fatal, bound,
                   captures, kicked, used, notified, disk>> /\ UNCHANGED serverVars

Kick ==
    /\ q.kick /\ kicked < avail
    /\ kicked' = avail /\ event' = TRUE
    /\ UNCHANGED <<serve, q, drainMu, w, gate, quiescer, inflight, fatal, bound,
                   captures, avail, used, notified, disk>> /\ UNCHANGED serverVars

\* Serve has returned: the only state in which nothing need happen any more.
Terminated == serve = "returned" /\ UNCHANGED vars

Master ==
    \/ SetFeatures \/ SetVringNum \/ SetVringAddr \/ SetVringBase \/ SetVringKick
    \/ SetVringCall \/ SetVringEnable

Next ==
    \/ Accept \/ Leave \/ Master \/ maybeStartWorker \/ SetMemTable \/ SetRegions
    \/ GetVringBase \/ Detach \/ Reset \/ ContextEnds \/ Stop \/ Worker
    \/ Quiesce \/ Resume \/ Bind \/ Submit \/ Kick \/ Terminated

Spec == Init /\ [][Next]_vars

\* Requests are completed in ring order and each once, over any stops of the
\* worker (SET_MEM_TABLE, GET_VRING_BASE, a new master), and a success is only
\* reported for a request whose segments all reached the bound backend.
CompletionsExact ==
    \A i \in 1 .. Len(used) :
        /\ used[i].req = i /\ i <= avail
        /\ used[i].status = "ok" => disk[i] = Segments

\* Between Quiesce and Resume no worker is inside a request, and what a worker
\* has translated belongs to the memory table that is in force: translations
\* are replaced or cleared only after the worker is joined.
WorkerConfined ==
    /\ quiescer = "held" => w.pc \in {"none", "top", "read", "gate"}
    /\ w.pc \in {"chain", "in", "out", "discard", "status", "publish"} => w.tr = mem

\* A worker that waits for a kick has nothing to do: every request the guest
\* has kicked is completed and announced or the eventfd is readable.  A capture
\* or a new memory table in between loses no kick.  Left out are rings that the
\* master parked: GET_VRING_BASE, or a new memory table while disabled, may
\* consume a kick, and the master has to kick again when it restarts the ring.
KickNotLost ==
    (w.pc = "read" /\ q.stop = "open" /\ q.enabled /\ ~q.parked /\ ~event)
        => notified >= kicked
=============================================================================

---------------------------- MODULE GuestQuiesce ----------------------------
(***************************************************************************)
(* The capture barrier inside the guest (cmd/sandbox-init): the handlers   *)
(* of the reverse-channel requests quiesce, attach and restore against     *)
(* everything that runs beside them in PID 1:                              *)
(*                                                                         *)
(*   - exec sessions              (exec.go, execRegistry)                  *)
(*   - port-forward sessions      (connect.go, connRegistry and            *)
(*                                 acceptListeners)                        *)
(*   - the restart of the app     (main.go, restartApp)                    *)
(*   - the relaunch of a plugin   (plugin.go, pluginRegistry)              *)
(*   - memory reports             (main.go, memReportStream)               *)
(*   - the usage connection       (usage.go, usageService)                 *)
(*   - the stdio MUX              (console.go, closeLiveMUX and reattach)  *)
(*                                                                         *)
(* Every request is served by a goroutine of its own                       *)
(* (serveReverseChannelDynamic), so the host that gives a handler up and   *)
(* sends the next request leaves two handlers running.                     *)
(***************************************************************************)
EXTENDS Naturals, FiniteSets

CONSTANTS
    Execs,        \* exec sessions the host opens
    Forwards,     \* port-forward sessions the host opens
    MaxCaptures,  \* captures the host attempts
    MaxWork,      \* exits, sessions, reports and usage connections that begin
    MaxSlow       \* bounded waits that lapse, and requests the host gives up

VARIABLES
    gate,      \* the quiescing flags, TRUE while the gate is closed
    cgroup,    \* cgroup.freeze as written, and cgroup.events as read
    app,       \* the app, or its restartApp goroutine
    plugin,    \* processes of the plugin, and its pending mark
    launch,    \* who runs pluginRegistry.launch, and how far it got
    exec,      \* the exec sessions
    forward,   \* the port-forward sessions
    listening, \* an accept listener is bound
    report,    \* memReportStream: admission word and the attempts
    usage,     \* usageService: gate, connection, generation
    mux,       \* a stdio MUX session is live
    handler,   \* the request handlers
    host,      \* the host side of the exchange
    budget     \* captures, work and lapses so far

lifecycle == <<gate, cgroup, handler, host>>
processes == <<app, plugin, launch>>
sessions == <<exec, forward, listening>>
streams == <<report, usage, mux>>
vars == <<lifecycle, processes, sessions, streams, budget>>

Handlers == {"quiesce", "attach", "retry"}
Launchers == {"timer", "attach", "retry"}

goto(h, pc) == handler' = [handler EXCEPT ![h].pc = pc]

Init ==
    /\ gate = [restart |-> FALSE, plugin |-> FALSE, exec |-> FALSE,
               conn |-> FALSE, accept |-> FALSE]
    /\ cgroup = [freeze |-> FALSE, frozen |-> FALSE]
    /\ app = "running"
    /\ plugin = [live |-> 1, pending |-> FALSE]
    /\ launch = [l \in Launchers |-> "idle"]
    /\ exec = [e \in Execs |-> "idle"]
    /\ forward = [c \in Forwards |-> [pc |-> "idle", open |-> FALSE]]
    /\ listening = FALSE
    /\ report = [paused |-> FALSE, active |-> 0, attempts |-> 0]
    /\ usage = [paused |-> FALSE, resuming |-> FALSE, conn |-> FALSE, gen |-> 0]
    /\ mux = TRUE
    /\ handler = [h \in Handlers |->
                    [pc |-> "idle", rollback |-> FALSE, gen |-> 0]]
    /\ host = [pc |-> "running", newHost |-> FALSE]
    /\ budget = [captures |-> 0, work |-> 0, slow |-> 0]

Begins ==
    /\ budget.work < MaxWork
    /\ budget' = [budget EXCEPT !.work = @ + 1]

Lapse ==
    /\ budget.slow < MaxSlow
    /\ budget' = [budget EXCEPT !.slow = @ + 1]

-----------------------------------------------------------------------------
(* The application cgroup.  The kernel reports frozen 1 some time after    *)
(* cgroup.freeze was written, once the last task has stopped.              *)

Settle ==
    /\ cgroup.freeze /\ ~cgroup.frozen
    /\ cgroup' = [cgroup EXCEPT !.frozen = TRUE]
    /\ UNCHANGED <<gate, handler, host, processes, sessions, streams, budget>>

-----------------------------------------------------------------------------
(* The app: handleAppExit starts restartApp, which sleeps, waits out a     *)
(* quiesce window, rewires the stdio and forks.                            *)

handleAppExit ==
    /\ app = "running" /\ ~cgroup.frozen
    /\ Begins
    /\ app' = "backoff"
    /\ UNCHANGED <<lifecycle, plugin, launch, sessions, streams>>

restartApp ==
    /\ \/ app = "backoff" /\ ~gate.restart /\ app' = "rewire"
       \/ app = "rewire" /\ app' = "cloning"
    /\ UNCHANGED <<lifecycle, plugin, launch, sessions, streams, budget>>

\* clone3 with CLONE_INTO_CGROUP returns once the child has left the fork,
\* which a child in a frozen cgroup does not.
phase2ForkApp ==
    /\ app = "cloning" /\ ~cgroup.freeze
    /\ app' = "running"
    /\ UNCHANGED <<lifecycle, plugin, launch, sessions, streams, budget>>

-----------------------------------------------------------------------------
(* The plugin: onExit starts a delayed launch; launch tests the gate,      *)
(* unlocks the registry and forks; onSpawn registers the child.            *)

onExit ==
    /\ plugin.live > 0 /\ ~cgroup.frozen
    /\ launch["timer"] = "idle"
    /\ Begins
    /\ plugin' = [plugin EXCEPT !.live = @ - 1]
    /\ launch' = [launch EXCEPT !["timer"] = "due"]
    /\ UNCHANGED <<lifecycle, app, sessions, streams>>

launchCheck(l) ==
    /\ launch[l] = "due"
    /\ launch' = [launch EXCEPT ![l] = IF gate.plugin THEN "idle" ELSE "fork"]
    /\ plugin' = [plugin EXCEPT !.pending = @ \/ gate.plugin]
    /\ UNCHANGED <<lifecycle, app, sessions, streams, budget>>

startPluginProcess(l) ==
    /\ \/ /\ launch[l] = "fork"
          /\ launch' = [launch EXCEPT ![l] = "cloning"]
          /\ UNCHANGED plugin
       \/ /\ launch[l] = "cloning" /\ ~cgroup.freeze
          /\ launch' = [launch EXCEPT ![l] = "idle"]
          /\ plugin' = [live |-> plugin.live + 1, pending |-> FALSE]
    /\ UNCHANGED <<lifecycle, app, sessions, streams, budget>>

-----------------------------------------------------------------------------
(* Exec sessions.                                                          *)

beginSessionUngated(e) ==
    /\ exec[e] = "idle"
    /\ Begins
    /\ exec' = [exec EXCEPT ![e] = "admitted"]
    /\ UNCHANGED <<lifecycle, processes, forward, listening, streams>>

beginSession(e) ==
    /\ exec[e] = "idle" /\ ~gate.exec
    /\ Begins
    /\ exec' = [exec EXCEPT ![e] = "admitted"]
    /\ UNCHANGED <<lifecycle, processes, forward, listening, streams>>

\* register tells a session whose child was forked behind the gate to kill
\* it; beginQuiesce kills the children registered before.
forkExecChild(e) ==
    /\ \/ exec[e] = "admitted" /\ exec' = [exec EXCEPT ![e] = "cloning"]
       \/ /\ exec[e] = "cloning" /\ ~cgroup.freeze
          /\ exec' = [exec EXCEPT ![e] = IF gate.exec THEN "ending" ELSE "running"]
    /\ UNCHANGED <<lifecycle, processes, forward, listening, streams, budget>>

\* The command exits, the host goes away, or the set-up fails: the session
\* drains its output, reports the status and closes its connection, and only
\* then endSession takes it out of the registry.
endSession(e) ==
    /\ \/ exec[e] \in {"admitted", "ending"}
       \/ exec[e] = "running" /\ ~cgroup.frozen
    /\ exec' = [exec EXCEPT ![e] = "idle"]
    /\ UNCHANGED <<lifecycle, processes, forward, listening, streams, budget>>

-----------------------------------------------------------------------------
(* Port-forward sessions, in dial mode and in accept mode.  open: the      *)
(* session is registered and its reverse connection is not closed yet.     *)

add(c) ==
    /\ forward[c].pc = "idle" /\ ~gate.conn
    /\ Begins
    /\ \E mode \in {"dialing", "binding"} :
          forward' = [forward EXCEPT ![c] = [pc |-> mode, open |-> TRUE]]
    /\ UNCHANGED <<lifecycle, processes, exec, listening, streams>>

remove(c) == forward' = [forward EXCEPT ![c] = [pc |-> "idle", open |-> FALSE]]

getOrCreate(c) ==
    /\ forward[c].pc = "binding"
    /\ IF gate.accept
       THEN remove(c) /\ UNCHANGED listening
       ELSE /\ forward' = [forward EXCEPT ![c].pc = "accepting"]
            /\ listening' = TRUE
    /\ UNCHANGED <<lifecycle, processes, exec, streams, budget>>

\* The dial or the accept returned.  A session that quiesce has snapshotted
\* finds the gate closed, disposes of the target and ends.
promote(c) ==
    /\ forward[c].pc \in {"dialing", "accepting"}
    /\ IF gate.conn
       THEN remove(c)
       ELSE forward' = [forward EXCEPT ![c].pc = "relay"]
    /\ UNCHANGED <<lifecycle, processes, exec, listening, streams, budget>>

\* The relay ends, the dial fails, or Accept fails (always, once the listener
\* is closed).
sessionEnds(c) ==
    /\ forward[c].pc \in {"dialing", "accepting", "relay"}
    /\ remove(c)
    /\ UNCHANGED <<lifecycle, processes, exec, listening, streams, budget>>

-----------------------------------------------------------------------------
(* Memory reports: the admission word packs the pause bit and the number   *)
(* of attempts; attempts counts the goroutines that will still give theirs *)
(* back.                                                                   *)

beginAttempt ==
    /\ ~report.paused /\ report.attempts < 2
    /\ Begins
    /\ report' = [report EXCEPT !.active = @ + 1, !.attempts = @ + 1]
    /\ UNCHANGED <<lifecycle, processes, sessions, usage, mux>>

endAttempt ==
    /\ report.attempts > 0
    /\ report' = [report EXCEPT !.active = @ - 1, !.attempts = @ - 1]
    /\ UNCHANGED <<lifecycle, processes, sessions, usage, mux, budget>>

resumeEpochStoresZero == [report EXCEPT !.paused = FALSE, !.active = 0]

resumeEpoch == [report EXCEPT !.paused = FALSE]

-----------------------------------------------------------------------------
(* The usage connection, at most one.                                      *)

serve ==
    /\ \/ /\ ~usage.paused /\ ~usage.conn
          /\ Begins
          /\ usage' = [usage EXCEPT !.conn = TRUE]
       \/ /\ usage.conn
          /\ usage' = [usage EXCEPT !.conn = FALSE]
          /\ UNCHANGED budget
    /\ UNCHANGED <<lifecycle, processes, sessions, report, mux>>

pauseLocked == [usage EXCEPT !.paused = TRUE, !.resuming = FALSE, !.gen = @ + 1]

resume == [usage EXCEPT !.paused = FALSE, !.gen = @ + 1,
                        !.resuming = usage.paused \/ usage.resuming]

rollbackResume(h) ==
    IF handler[h].rollback /\ usage.gen = handler[h].gen
    THEN pauseLocked ELSE usage

commitResume(h) ==
    [usage EXCEPT !.resuming = @ /\ usage.gen # handler[h].gen]

-----------------------------------------------------------------------------
(* The quiesce handler.  It answers only when every step succeeded; on the *)
(* others it returns and the caller closes the connection.                 *)

Waits(h) == host.pc = h

\* A handler that returns closes its connection: a host that still waits
\* reads EOF and goes on to the next attempt, or gives the runtime up.
NextAttempt(h) ==
    [host EXCEPT !.pc = CASE h = "quiesce" -> "recover"
                          [] h = "attach" /\ ~host.newHost -> "again"
                          [] OTHER -> "gone"]

Returns(h) ==
    /\ handler' = [handler EXCEPT ![h].pc = "idle"]
    /\ host' = IF Waits(h) THEN NextAttempt(h) ELSE host

quiesceUsage ==
    /\ handler["quiesce"].pc = "usage"
    /\ usage' = pauseLocked
    /\ goto("quiesce", "usageDone")
    /\ UNCHANGED <<gate, cgroup, host, processes, sessions, report, mux, budget>>

quiesceGates ==
    /\ handler["quiesce"].pc = "usageDone"
    /\ \/ /\ ~usage.conn
          /\ gate' = [gate EXCEPT !.restart = TRUE, !.plugin = TRUE]
          /\ goto("quiesce", "exec")
          /\ UNCHANGED <<host, budget>>
       \/ usage.conn /\ Lapse /\ Returns("quiesce") /\ UNCHANGED gate
    /\ UNCHANGED <<cgroup, processes, sessions, streams>>

quiesceExecSessions ==
    /\ handler["quiesce"].pc = "exec"
    /\ gate' = [gate EXCEPT !.exec = TRUE]
    /\ exec' = [e \in Execs |-> IF exec[e] = "running" THEN "ending" ELSE exec[e]]
    /\ goto("quiesce", "execDrained")
    /\ UNCHANGED <<cgroup, host, processes, forward, listening, streams, budget>>

\* Every session has ended within execDrainTimeout; pauseAndDrain closes the
\* admission of reports.
pauseAndDrain ==
    /\ handler["quiesce"].pc = "execDrained"
    /\ \/ /\ \A e \in Execs : exec[e] = "idle"
          /\ report' = [report EXCEPT !.paused = TRUE]
          /\ goto("quiesce", "reports")
          /\ UNCHANGED <<host, budget>>
       \/ /\ \E e \in Execs : exec[e] # "idle"
          /\ Lapse /\ Returns("quiesce") /\ UNCHANGED report
    /\ UNCHANGED <<gate, cgroup, processes, sessions, usage, mux>>

cgroupFreeze ==
    /\ \/ /\ handler["quiesce"].pc = "reports"
          /\ report.paused /\ report.active = 0
          /\ cgroup' = [cgroup EXCEPT !.freeze = TRUE]
          /\ goto("quiesce", "confirm")
          /\ UNCHANGED <<host, budget>>
       \/ /\ handler["quiesce"].pc = "confirm"
          /\ UNCHANGED cgroup
          /\ \/ cgroup.frozen /\ goto("quiesce", "forwards") /\ UNCHANGED <<host, budget>>
             \/ ~cgroup.frozen /\ Lapse /\ Returns("quiesce")
    /\ UNCHANGED <<gate, processes, sessions, streams>>

\* runQuiesce syncs; closeConnectSessions closes the gate, then the listeners,
\* then tears every registered session down with SO_LINGER and waits for it.
closeConnectSessions ==
    /\ \/ /\ handler["quiesce"].pc = "forwards"
          /\ gate' = [gate EXCEPT !.conn = TRUE]
          /\ goto("quiesce", "listeners")
          /\ UNCHANGED <<forward, listening>>
       \/ /\ handler["quiesce"].pc = "listeners"
          /\ gate' = [gate EXCEPT !.accept = TRUE]
          /\ listening' = FALSE
          /\ forward' = [c \in Forwards |-> [forward[c] EXCEPT !.open = FALSE]]
          /\ goto("quiesce", "mux")
    /\ UNCHANGED <<cgroup, host, processes, exec, streams, budget>>

closeLiveMUX(h, next) ==
    /\ mux' = FALSE
    /\ goto(h, next)
    /\ UNCHANGED <<gate, cgroup, host, processes, sessions, report, usage, budget>>

quiesceMUX == handler["quiesce"].pc = "mux" /\ closeLiveMUX("quiesce", "reply")

quiesced ==
    /\ handler["quiesce"].pc = "reply"
    /\ handler' = [handler EXCEPT !["quiesce"].pc = "idle"]
    /\ host' = IF Waits("quiesce") THEN [host EXCEPT !.pc = "captured"] ELSE host
    /\ UNCHANGED <<gate, cgroup, processes, sessions, streams, budget>>

-----------------------------------------------------------------------------
(* The attach and the restore handlers share finishReattach.               *)

Reattaching == {"attach", "retry"}

restoreBarrier(h) ==
    /\ \/ /\ handler[h].pc = "usage"
          /\ usage' = pauseLocked
          /\ goto(h, "usageDone")
          /\ UNCHANGED <<host, report, budget>>
       \/ /\ handler[h].pc = "usageDone" /\ ~usage.conn
          /\ report' = [report EXCEPT !.paused = TRUE]
          /\ goto(h, "epoch")
          /\ UNCHANGED <<usage, host, budget>>
       \/ /\ handler[h].pc = "usageDone" /\ usage.conn
          /\ Lapse /\ Returns(h) /\ UNCHANGED <<usage, report>>
       \/ /\ handler[h].pc = "epoch" /\ report.active = 0
          /\ goto(h, "close")
          /\ UNCHANGED <<usage, report, host, budget>>
    /\ UNCHANGED <<gate, cgroup, processes, sessions, mux>>

reattachClose(h) == handler[h].pc = "close" /\ closeLiveMUX(h, "resume")

finishResume(h) ==
    /\ handler[h].pc = "resume"
    /\ usage' = resume
    /\ handler' = [handler EXCEPT ![h] =
                     [pc |-> "thaw", gen |-> resume.gen, rollback |-> resume.resuming]]
    /\ UNCHANGED <<gate, cgroup, host, processes, sessions, report, mux, budget>>

\* A restore thaws unconditionally, an attach only when cgroup.events reads
\* frozen 1.
thaw(h) ==
    /\ handler[h].pc = "thaw"
    /\ cgroup' = IF host.newHost \/ cgroup.frozen
                 THEN [freeze |-> FALSE, frozen |-> FALSE] ELSE cgroup
    /\ goto(h, "gates")
    /\ UNCHANGED <<gate, host, processes, sessions, streams, budget>>

\* resumeAfterThaw: every gate reopens; endQuiesce runs the pending launch on
\* this goroutine.
resumeAfterThaw(h) ==
    /\ \/ /\ handler[h].pc = "gates"
          /\ gate' = [gate EXCEPT !.exec = FALSE, !.conn = FALSE,
                                  !.accept = FALSE, !.plugin = FALSE]
          /\ launch' = [launch EXCEPT ![h] = IF plugin.pending THEN "due" ELSE "idle"]
          /\ goto(h, "launched")
       \/ /\ handler[h].pc = "launched" /\ launch[h] = "idle"
          /\ gate' = [gate EXCEPT !.restart = FALSE]
          /\ goto(h, "ack")
          /\ UNCHANGED launch
    /\ UNCHANGED <<cgroup, host, app, plugin, sessions, streams, budget>>

\* The write to a host that has gone away may fail; then the usage gate is
\* closed again.
writeAck(h) ==
    /\ handler[h].pc = "ack"
    /\ \/ /\ Waits(h)
          /\ host' = [pc |-> "running", newHost |-> FALSE]
          /\ goto(h, "mux")
          /\ UNCHANGED usage
       \/ /\ ~Waits(h)
          /\ \/ goto(h, "mux") /\ UNCHANGED usage
             \/ goto(h, "idle") /\ usage' = rollbackResume(h)
          /\ UNCHANGED host
    /\ UNCHANGED <<gate, cgroup, processes, sessions, report, mux, budget>>

reattachMUX(h) ==
    /\ handler[h].pc = "mux"
    /\ mux' = TRUE
    /\ report' = resumeEpoch
    /\ usage' = commitResume(h)
    /\ goto(h, "idle")
    /\ UNCHANGED <<gate, cgroup, host, processes, sessions, budget>>

-----------------------------------------------------------------------------
(* The host.  It starts a capture when the last one is over, gives a       *)
(* request up at its deadline or when the operation is cancelled, and      *)
(* recovers by attach, twice at most (MUXLink.Reattach).  A capture that   *)
(* succeeded is resumed in place, or its memory is restored under a new    *)
(* host.                                                                   *)

HandlersIdle == \A h \in Handlers : handler[h].pc = "idle"

SendQuiesce ==
    /\ host.pc = "running" /\ HandlersIdle
    /\ budget.captures < MaxCaptures
    /\ budget' = [budget EXCEPT !.captures = @ + 1]
    /\ host' = [host EXCEPT !.pc = "quiesce"]
    /\ goto("quiesce", "usage")
    /\ UNCHANGED <<gate, cgroup, processes, sessions, streams>>

\* A request is given up only once its handler has begun: the first step takes
\* a mutex and the deadlines are seconds.
GivesUp ==
    /\ host.pc \in Handlers /\ handler[host.pc].pc # "usage"
    /\ Lapse
    /\ host' = NextAttempt(host.pc)
    /\ UNCHANGED <<gate, cgroup, handler, processes, sessions, streams>>

OpenMUXViaAttach ==
    /\ \/ host.pc \in {"recover", "captured"} /\ handler["attach"].pc = "idle"
          /\ host' = [host EXCEPT !.pc = "attach"] /\ goto("attach", "close")
       \/ host.pc = "again" /\ handler["retry"].pc = "idle"
          /\ host' = [host EXCEPT !.pc = "retry"] /\ goto("retry", "close")
    /\ UNCHANGED <<gate, cgroup, processes, sessions, streams, budget>>

OpenMUXViaRestore ==
    /\ host.pc = "captured"
    /\ host' = [pc |-> "attach", newHost |-> TRUE]
    /\ goto("attach", "usage")
    /\ UNCHANGED <<gate, cgroup, processes, sessions, streams, budget>>

Next ==
    \/ Settle \/ handleAppExit \/ restartApp \/ phase2ForkApp \/ onExit
    \/ \E l \in Launchers : launchCheck(l) \/ startPluginProcess(l)
    \/ \E e \in Execs : beginSession(e) \/ forkExecChild(e) \/ endSession(e)
    \/ \E c \in Forwards :
          add(c) \/ getOrCreate(c) \/ promote(c) \/ sessionEnds(c)
    \/ beginAttempt \/ endAttempt \/ serve
    \/ quiesceUsage \/ quiesceGates \/ quiesceExecSessions \/ pauseAndDrain
    \/ cgroupFreeze \/ closeConnectSessions \/ quiesceMUX \/ quiesced
    \/ \E h \in Reattaching :
          \/ restoreBarrier(h) \/ reattachClose(h) \/ finishResume(h) \/ thaw(h)
          \/ resumeAfterThaw(h) \/ writeAck(h) \/ reattachMUX(h)
    \/ SendQuiesce \/ GivesUp \/ OpenMUXViaAttach \/ OpenMUXViaRestore

Spec == Init /\ [][Next]_vars

-----------------------------------------------------------------------------
(* Properties.                                                             *)

\* When the host has received `quiesced` it pauses the VM.  At that moment the
\* app is confirmed frozen, no exec session, port-forward connection,
\* listener, usage connection or memory report is alive, and the stdio MUX is
\* closed: nothing of the old host's connections is captured
\* (handleReverseConnShutdown, TypeQuiesce).
QuiescedIsStill ==
    host.pc = "captured" =>
        /\ cgroup.frozen /\ ~mux /\ ~usage.conn /\ ~listening
        /\ \A e \in Execs : exec[e] = "idle"
        /\ \A c \in Forwards : ~forward[c].open
        /\ report.attempts = 0

\* After a failed capture the sandbox keeps running: once the host has its
\* attach_ack and no handler is left, the app is not frozen.
RecoveredRuns ==
    host.pc = "running" /\ HandlersIdle => ~cgroup.freeze
=============================================================================

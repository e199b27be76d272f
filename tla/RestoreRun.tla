----------------------------- MODULE RestoreRun -----------------------------
(***************************************************************************)
(* One restored sandbox from restore.Run to its return: the sequence of    *)
(* checks and acquisitions, the deferred releases that undo them in the    *)
(* reverse order, the shared back half sandbox.ServeAndWait with its       *)
(* backend goroutines, the Cloud Hypervisor process with its single        *)
(* reaper, the synchronous settle protocol PostSpawn, the fatal I/O        *)
(* reporter, and the shutdown escalation a host signal starts.             *)
(*                                                                         *)
(* A step of the set-up is a record: what it acquires, what it must have   *)
(* to do so, which goroutine it starts.  Every step may fail, and then     *)
(* what was acquired so far is released, last first.                       *)
(***************************************************************************)
EXTENDS Naturals, Sequences, SequencesExt

CONSTANTS
  MaxSignals,    \* shutdown signals the host sends (at most the 4 queued)
  MaxCaptures    \* captures that take the memory.high lock

VARIABLES
  at,        \* next step of the set-up
  phase,     \* where restore.Run is
  settle,    \* steps of PostSpawn already taken
  held,      \* resources acquired and not released
  defers,    \* their deferred releases, the last one to run first
  running,   \* goroutines that use them
  cancelled, \* contexts cancelled: "run", "post", "backend"
  ch,        \* the Cloud Hypervisor process
  told,      \* what has been sent to it
  fatal,     \* the fatal I/O reporter: "none", "marked", "done"
  signals,   \* [left, queued]
  loop,      \* [initiated, timers] of waitForCHWithSignalEscalation
  high,      \* holder of the memory.high lifecycle lock
  captures,  \* captures still to come
  ready      \* ReadinessReady was emitted

vars == <<at, phase, settle, held, defers, running, cancelled, ch, told,
          fatal, signals, loop, high, captures, ready>>

engineVars == <<at, settle, held, defers>>

signalVars == <<signals, loop, high, captures>>

-----------------------------------------------------------------------------

Check == [get |-> "", uses |-> {}, starts |-> {}]

Owns(r, uses) == [get |-> r, uses |-> uses, starts |-> {}]

Starts(r, uses, u) == [get |-> r, uses |-> uses, starts |-> u]

\* Options are checked, and the storage is borrowed, before anything is opened.
borrowStorage == <<Check, Owns("storage", {})>>

openRootSnapshot == <<Owns("root", {"storage"})>>

openReferencedSandbox == <<Owns("sandbox", {"storage"})>>

\* The source files are pinned first, then the target directory is locked;
\* what is materialized is kept until every disk on it is closed.
prepareRestoreCheckpoint ==
  <<Owns("pins", {"storage", "sandbox"}), Owns("directory", {}),
    Owns("material", {"pins"})>>

\* Rules, bindings, topology, capacity and balloon: deterministic checks.
applyRestoreRules == <<Check>>

preflightRestoreDiskGraph == <<[Check EXCEPT !.uses = {"storage", "sandbox"}]>>

validateSnapshot == <<[Check EXCEPT !.uses = {"root"}]>>

openMemoryParentLayers == <<Owns("layers", {"storage"})>>

rewriteConfigPaths == <<Check>>

\* The first effects outside the process: run directory, cgroup, reservation.
acquireRun ==
  <<Owns("identity", {}), Owns("rundir", {"identity"}),
    Owns("cgroup", {"rundir"}), Owns("lease", {"cgroup"}),
    [Check EXCEPT !.uses = {"lease"}]>>

startMemoryPrefetch ==
  <<Starts("prefetch", {"root", "storage"}, {"prefetch"})>>

newCache == <<Owns("cache", {})>>

\* One logical disk: the layered base, the writable diff, the erofs device.
Root == [base |-> "base0", cow |-> "cow0", erofs |-> "erofs0"]

Data == [base |-> "base1", cow |-> "cow1", erofs |-> "erofs1"]

Disks == {Root, Data}

openLayeredDiskBase(d) == Owns(d.base, {"storage", "material"})

\* The diff of a reopened checkpoint needs its sources pinned.
reconstructDisk(d) ==
  <<openLayeredDiskBase(d),
    Owns(d.cow, {d.base, "cache", "pins", "directory"}),
    Owns(d.erofs, {"storage"})>>

\* The pins are released once every writer is open and registered.
reconstructRestoreDisks ==
  reconstructDisk(Root) \o reconstructDisk(Data)
    \o <<[Check EXCEPT !.get = "releasePins"]>>

acquireNetwork == <<Owns("tap", {})>>

\* memfd and its mapping, then the holder of the page handler to come.
serveMemory == <<Owns("memfd", {}), Owns("uffd", {"memfd"})>>

serveReport == <<Owns("vareport", {"uffd"})>>

addServers == <<Owns("vhost", {d.cow : d \in Disks} \cup {"memfd"})>>

\* The launch listener is closed by Serve alone: no release is deferred.
listenLaunch == <<Owns("launch", {"rundir"})>>

startUsage == <<Owns("usage", {"rundir"})>>

listenCtl ==
  <<Owns("owner", {"directory"}), Owns("ctl", {"rundir"}), Owns("mux", {})>>

BackendUsers == {"vhost", "launch", "vareport", "ctl"}

serveBackends == <<Starts("serve", {"vhost", "ctl", "vareport"}, BackendUsers)>>

startForwards ==
  <<Owns("forwards", {}), Owns("pinger", {}), Owns("memory", {"lease", "cgroup"})>>

buildCmd == <<Owns("stdio", {}), [Check EXCEPT !.uses = {"cgroup"}]>>

Setup ==
  borrowStorage \o openRootSnapshot \o openReferencedSandbox
    \o prepareRestoreCheckpoint \o applyRestoreRules
    \o preflightRestoreDiskGraph \o validateSnapshot
    \o openMemoryParentLayers \o rewriteConfigPaths \o acquireRun
    \o startMemoryPrefetch \o newCache \o reconstructRestoreDisks
    \o acquireNetwork \o serveMemory \o serveReport \o addServers
    \o listenLaunch \o startUsage \o listenCtl \o serveBackends
    \o startForwards \o buildCmd

\* What each goroutine, and the virtual machine itself, works on.
Needs(u) ==
  CASE u = "prefetch" -> {"root", "storage"}
    [] u = "uffd" -> {"root", "layers", "memfd", "uffd"}
    [] u = "vhost" ->
         {"memfd", "uffd", "vhost"} \cup UNION {{d.cow, d.erofs, d.base} : d \in Disks}
    [] u = "launch" -> {"mux", "lease", "cgroup"}
    [] u = "vareport" -> {"uffd", "memfd", "vareport"}
    [] u = "ctl" -> {"memfd", "storage", "cgroup", "owner", "usage"}
                      \cup {d.cow : d \in Disks}
    [] u = "pinger" -> {"pinger", "mux"}
    [] u = "memory" -> {"memory", "lease", "cgroup"}
    [] u = "usage" -> {"usage", "cgroup", "rundir"}
    [] OTHER -> {"rundir", "cgroup", "lease", "identity", "memfd", "tap"}

\* The usage sampler is waited for two seconds at most.
WaitBounded == {"usage"}

\* The goroutines whose end a deferred release waits for.
Joins(r) ==
  CASE r = "serve" -> BackendUsers
    [] r \in {"prefetch", "uffd", "pinger", "memory", "usage"} -> {r}
    [] OTHER -> {}

-----------------------------------------------------------------------------

Init ==
  /\ at = 1 /\ phase = "setup" /\ settle = 0
  /\ held = {} /\ defers = <<>> /\ running = {} /\ cancelled = {}
  /\ ch = "none" /\ told = {} /\ fatal = "none"
  /\ signals = [left |-> MaxSignals, queued |-> 0]
  /\ loop = [initiated |-> FALSE, timers |-> {}]
  /\ high = "none" /\ captures = MaxCaptures /\ ready = FALSE

\* Returning towards the deferred releases: what only the engine read is dead.
Leave ==
  /\ phase' = "unwind" /\ at' = 0 /\ settle' = 0 /\ told' = {}
  /\ signals' = [left |-> 0, queued |-> 0] /\ captures' = 0
  /\ loop' = [initiated |-> FALSE, timers |-> {}]
  /\ UNCHANGED <<held, defers, running, cancelled, fatal, ready>>

\* One step of the set-up succeeds.
SetUp ==
  /\ phase = "setup" /\ at <= Len(Setup)
  /\ LET s == Setup[at] IN
       /\ held' = IF s.get = "releasePins" THEN held \ {"pins"}
                  ELSE held \cup ({s.get} \ {""})
       /\ defers' = IF s.get \in {"", "releasePins", "launch"} THEN defers
                    ELSE Append(defers, s.get)
       /\ running' = running \cup s.starts
  /\ at' = at + 1
  /\ UNCHANGED <<phase, settle, cancelled, ch, told, fatal, signalVars, ready>>

\* A step fails, or is refused because the run was cancelled.
SetUpFails ==
  /\ phase = "setup" /\ at <= Len(Setup)
  /\ Leave
  /\ UNCHANGED <<ch, high>>

\* The last test before the process exists: a shutdown that came before it
\* creates no virtual machine.
startCH ==
  /\ phase = "setup" /\ at > Len(Setup)
  /\ \/ Leave /\ UNCHANGED <<ch, high>>
     \/ /\ "run" \notin cancelled
        /\ ch' = "up" /\ phase' = "spawned"
        /\ UNCHANGED <<engineVars, running, cancelled, told, fatal, signalVars,
                       ready>>

\* The process is published, only then is an earlier fatal error read, and the
\* usage sampler starts.
publishProcess ==
  /\ phase = "spawned"
  /\ phase' = "settle"
  /\ told' = IF fatal # "none" THEN told \cup {"kill"} ELSE told
  /\ running' = running \cup {"usage"}
  /\ UNCHANGED <<engineVars, cancelled, ch, fatal, signalVars, ready>>

-----------------------------------------------------------------------------

\* vm.info, vm.resume, restore_ack with the MUX, readiness, then the services.
SettleSteps == 5

\* Readiness is not emitted once a fatal error is recorded.
notifyReady == IF settle = 3 THEN fatal = "none" ELSE ready

PostSpawn ==
  /\ phase = "settle" /\ settle < SettleSteps
  /\ ch = "up" \/ settle >= 3
  /\ settle' = settle + 1
  /\ ready' = notifyReady
  /\ running' = IF settle = 4 THEN running \cup {"pinger", "memory"} ELSE running
  /\ UNCHANGED <<at, phase, held, defers, cancelled, ch, told, fatal, signalVars>>

PostSpawnReturns ==
  /\ phase = "settle" /\ settle = SettleSteps
  /\ phase' = "wait"
  /\ UNCHANGED <<engineVars, running, cancelled, ch, told, fatal, signalVars,
                 ready>>

\* A shutdown that interrupts the settle protocol falls through to the
\* escalation loop; any other failure kills the process and waits for it.
PostSpawnFails ==
  /\ phase = "settle" /\ settle < 3
  /\ IF fatal = "none" /\ "run" \in cancelled
       THEN phase' = "wait" /\ UNCHANGED told
       ELSE phase' = "killed" /\ told' = told \cup {"kill"}
  /\ UNCHANGED <<engineVars, running, cancelled, ch, fatal, signalVars, ready>>

\* Cloud Hypervisor hands over its userfaultfd: the page handler starts.
OnReady ==
  /\ ch = "up" /\ "vareport" \in running /\ "backend" \notin cancelled
  /\ "uffd" \notin running
  /\ running' = running \cup {"uffd"}
  /\ UNCHANGED <<engineVars, phase, cancelled, ch, told, fatal, signalVars,
                 ready>>

CHExits ==
  /\ ch = "up"
  /\ ch' = "exited"
  /\ UNCHANGED <<engineVars, phase, running, cancelled, told, fatal, signalVars,
                 ready>>

\* The only reaper, on every path after the spawn.
ReapCH ==
  /\ ch = "exited" /\ phase \in {"settle", "wait", "killed"}
  /\ ch' = "reaped"
  /\ cancelled' = cancelled \cup {"post", "backend"}
  /\ UNCHANGED <<engineVars, phase, running, told, fatal, signalVars, ready>>

\* The failed settle protocol returns once the process is reaped.
KilledReturns ==
  /\ phase = "killed" /\ ch = "reaped"
  /\ Leave
  /\ UNCHANGED <<ch, high>>

-----------------------------------------------------------------------------

\* A reader, a disk writer or the page handler reports a fatal error: it is
\* recorded and the contexts are cancelled ...
reportReadFatal ==
  /\ fatal = "none" /\ phase # "unwind"
  /\ running \cap {"vhost", "uffd"} # {}
  /\ fatal' = "marked"
  /\ cancelled' = cancelled \cup {"post", "backend"}
  /\ UNCHANGED <<engineVars, phase, running, ch, told, signalVars, ready>>

\* ... and then the process, if it is published by now, is killed.
reportReadFatalKills ==
  /\ fatal = "marked"
  /\ fatal' = "done"
  /\ told' = IF phase \notin {"setup", "spawned"} /\ ch # "none"
               THEN told \cup {"kill"} ELSE told
  /\ UNCHANGED <<engineVars, phase, running, cancelled, ch, signalVars, ready>>

\* Consecutive pings failed: the process gets SIGTERM, and nothing else.
PingFatal ==
  /\ "pinger" \in running /\ ch = "up" /\ "term" \notin told
  /\ told' = told \cup {"term"}
  /\ UNCHANGED <<engineVars, phase, running, cancelled, ch, fatal, signalVars,
                 ready>>

\* The pump of newRunSignalContext queues the signal and cancels the run.
\* Signals that come while the releases run reach nobody.
Signal ==
  /\ signals.left > 0 /\ phase \notin {"unwind", "done"}
  /\ signals' = [left |-> signals.left - 1, queued |-> signals.queued + 1]
  /\ cancelled' = cancelled \cup {"run", "post"}
  /\ UNCHANGED <<engineVars, phase, running, ch, told, fatal, loop, high,
                 captures, ready>>

\* A capture lifts memory.high for its duration, under the same lock.
CaptureLifts ==
  /\ captures > 0 /\ "ctl" \in running /\ ch = "up" /\ high = "none"
  /\ "backend" \notin cancelled
  /\ high' = "capture" /\ captures' = captures - 1
  /\ UNCHANGED <<engineVars, phase, running, cancelled, ch, told, fatal,
                 signals, loop, ready>>

CaptureRestores ==
  /\ high = "capture"
  /\ high' = "none"
  /\ UNCHANGED <<engineVars, phase, running, cancelled, ch, told, fatal,
                 signals, loop, captures, ready>>

-----------------------------------------------------------------------------

\* finishShutdownRequest: vmm.shutdown, or SIGTERM when it is not to be used
\* or fails; the grace timer starts in either case.
finishShutdownRequest(useAPI) ==
  \E how \in {"term"} \cup (IF useAPI /\ ch = "up" THEN {"api"} ELSE {}) :
    /\ told' = told \cup {how}
    /\ loop' = [initiated |-> TRUE, timers |-> {"kill"}]

\* Whether tasks throttled under the old memory.high are to be waited for.
vmmMemoryHighThrottleDrainDelay == BOOLEAN

\* A busy lock is tried again for a while and then given up; with the lock
\* taken and memory.high lifted, throttled tasks may have to be waited for.
attemptShutdownRequest ==
  \/ /\ high = "capture"
     /\ loop' = [initiated |-> TRUE, timers |-> {"retry"}]
     /\ UNCHANGED <<told, high>>
  \/ /\ finishShutdownRequest(FALSE)
     /\ UNCHANGED high
  \/ /\ high = "none"
     /\ high' = "loop"
     /\ \E delayed \in vmmMemoryHighThrottleDrainDelay :
          IF delayed
            THEN loop' = [initiated |-> TRUE, timers |-> {"drain"}] /\ UNCHANGED told
            ELSE finishShutdownRequest(TRUE)

loopUnchanged ==
  UNCHANGED <<engineVars, running, cancelled, ch, fatal, captures, ready>>

\* The first signal asks, any later one kills and stops the timers.
OnSignal ==
  /\ phase = "wait" /\ signals.queued > 0
  /\ signals' = [signals EXCEPT !.queued = @ - 1]
  /\ IF loop.initiated
       THEN /\ told' = told \cup {"kill"}
            /\ loop' = [loop EXCEPT !.timers = {}]
            /\ UNCHANGED high
       ELSE attemptShutdownRequest
  /\ UNCHANGED phase
  /\ loopUnchanged

OnTimer ==
  /\ phase = "wait"
  /\ \/ "retry" \in loop.timers /\ attemptShutdownRequest
     \/ "drain" \in loop.timers /\ finishShutdownRequest(TRUE) /\ UNCHANGED high
     \/ /\ "kill" \in loop.timers
        /\ told' = told \cup {"kill"}
        /\ loop' = [loop EXCEPT !.timers = {}]
        /\ UNCHANGED high
  /\ UNCHANGED <<phase, signals>>
  /\ loopUnchanged

\* doneCh: the lock is closed only now.
OnDone ==
  /\ phase = "wait" /\ ch = "reaped"
  /\ high' = IF high = "loop" THEN "none" ELSE high
  /\ Leave
  /\ UNCHANGED ch

-----------------------------------------------------------------------------

\* A goroutine ends: the prefetch at any time, the backends once their context
\* is cancelled, the others when their release stops them.
GoroutineEnds(u) ==
  /\ u \in running
  /\ \/ u = "prefetch"
     \/ u \in BackendUsers \cup WaitBounded /\ "backend" \in cancelled
     \/ u \in WaitBounded /\ u \notin held
     \/ phase = "unwind" /\ defers # <<>> /\ u \in Joins(Last(defers))
  /\ u = "ctl" => high # "capture"
  /\ running' = running \ {u}
  /\ held' = IF u = "launch" THEN held \ {"launch"} ELSE held
  /\ UNCHANGED <<at, phase, settle, defers, cancelled, ch, told, fatal,
                 signalVars, ready>>

\* Mutant: the deferred releases run in the order of the acquisitions.
unwindsForward ==
  /\ phase = "unwind" /\ defers # <<>>
  /\ Joins(Head(defers)) \cap running \subseteq WaitBounded
  /\ held' = held \ {Head(defers)}
  /\ defers' = Tail(defers)
  /\ UNCHANGED <<at, phase, settle, running, cancelled, ch, told, fatal,
                 signalVars, ready>>

\* The deferred releases run in the reverse order, each waiting for the
\* goroutines it joins.
Unwind ==
  /\ phase = "unwind" /\ defers # <<>>
  /\ Joins(Last(defers)) \cap running \subseteq WaitBounded
  /\ held' = held \ {Last(defers)}
  /\ defers' = Front(defers)
  /\ UNCHANGED <<at, phase, settle, running, cancelled, ch, told, fatal,
                 signalVars, ready>>

Return ==
  /\ phase = "unwind" /\ defers = <<>>
  /\ phase' = "done"
  /\ UNCHANGED <<engineVars, running, cancelled, ch, told, fatal, signalVars,
                 ready>>

\* A virtual machine that was asked nothing, or only by the pinger, may run
\* for ever; a returned run stays returned.
Rests ==
  /\ \/ phase = "done"
     \/ phase = "wait" /\ ch = "up" /\ ~ loop.initiated /\ signals.queued = 0
  /\ UNCHANGED vars

Next ==
  \/ SetUp \/ SetUpFails \/ startCH \/ publishProcess
  \/ PostSpawn \/ PostSpawnReturns \/ PostSpawnFails
  \/ OnReady \/ CHExits \/ ReapCH \/ KilledReturns
  \/ reportReadFatal \/ reportReadFatalKills \/ PingFatal \/ Signal
  \/ CaptureLifts \/ CaptureRestores
  \/ OnSignal \/ OnTimer \/ OnDone
  \/ \E u \in running : GoroutineEnds(u)
  \/ Unwind \/ Return \/ Rests

Spec == Init /\ [][Next]_vars

-----------------------------------------------------------------------------

\* Nothing is released under a user: a set-up step has what it uses, every
\* running goroutine and the live virtual machine have what they work on; and
\* when restore.Run returns, all is released and the process is reaped.  Only
\* a launch listener that was never served may be left open, and a usage
\* sampler that did not stop in time left behind.
\* A fatal error is never lost between its reporter and the publication of
\* the process: a virtual machine that is up has been sent the kill
\* (reportReadFatal, publishProcess).  And Cloud Hypervisor is asked for an
\* ordered shutdown only with memory.high lifted, under the lock that keeps
\* it so until the process is reaped (waitForCHWithSignalEscalation).
ReleasedInOrder ==
  /\ phase = "setup" /\ at <= Len(Setup) => Setup[at].uses \subseteq held
  /\ \A u \in running \ WaitBounded : Needs(u) \subseteq held
  /\ ch \in {"up", "exited"} => Needs("ch") \subseteq held
  /\ phase = "done" =>
       /\ held \subseteq {"launch"} /\ running \subseteq WaitBounded /\ ch \in {"none", "reaped"}
       /\ high # "loop"
  /\ fatal = "done" /\ ch = "up" /\ phase # "spawned" => "kill" \in told
  /\ "api" \in told /\ phase = "wait" => high = "loop"
=============================================================================

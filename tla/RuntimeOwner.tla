---------------------------- MODULE RuntimeOwner ----------------------------
(***************************************************************************)
(* The Runtime owner of one MicroVM (pkg/sandbox/runtime_sdk.go) together  *)
(* with the engine goroutine that serves it (ServeAndWait in               *)
(* pkg/sandbox/serveandwait.go), the CH reaper, the signal pump            *)
(* (run_signal.go), the Launch caller, the Start caller, the guest launch  *)
(* handshake as the owner sees it, fatal I/O reporters and the operations  *)
(* a client runs against the VM.                                           *)
(*                                                                         *)
(* Every goroutine has a program counter; everything the code does under   *)
(* one mutex is one step.  "CH" is the Cloud Hypervisor child process.     *)
(***************************************************************************)
EXTENDS Naturals, FiniteSets

CONSTANTS
    Ops,     \* concurrent SDK operations (Snapshot, Export, Exec, Stats)
    NDisks   \* disks that one Launch opens

ASSUME OwnerAssumption == IsFiniteSet(Ops) /\ NDisks \in Nat

VARIABLES
    mode,               \* "cold" (StartRuntime, Launch) or "restore" (RunLifecycle)
    compatible,         \* the guest's hello is one this host accepts
    state,              \* Runtime.state
    closeRequested,     \* Runtime.closeOnce has run
    lifeCancelled,      \* Runtime.cancelLife was called
    signals,            \* signals in the Runtime.signals channel
    forwarded,          \* signals the pump passed on to the engine
    shutdown,           \* the pump closed its shutdown channel
    engine,             \* the ServeAndWait / finishExit goroutine
    engineErr,          \* the error ServeAndWait returns
    ch,                 \* the CH process and its reaper
    killed,             \* SIGKILL was sent to CH
    chProcess,          \* chProcess is published to the fatal reporter
    termArmed,          \* the first signal was handled: grace timer running
    postSpawnCancelled, \* cancelPostSpawn was called
    backendsCancelled,  \* cancelBackends was called
    readFatal,          \* firstReadFatal: "none", "recorded", "reported"
    ready,              \* readiness.commitReadyLocked happened
    baseReady,          \* baseReady (cold) / readyDone (restore) is closed
    start,              \* the StartRuntime / RunLifecycle caller
    startCtx,           \* the caller's start context is cancelled
    launch,             \* the Launch caller
    launchCtx,          \* the caller's Launch context is cancelled
    workMu,             \* holder of Runtime.workMu
    disks,              \* disks opened by Launch and not closed
    specPublished,      \* installLaunch published the spec and launchContext
    handshake,          \* the launch conversation with the guest
    app,                \* lifecycle states the guest has published so far
    fact,               \* Runtime.initialLaunchState
    launchFailure,      \* Runtime.launchFailure
    launchSucceeded,    \* Runtime.launchSucceeded
    notifier,           \* the notifyInitialReady goroutine
    ops,                \* opsWG members
    released,           \* cleanupResources has run
    exit                \* Runtime.exit: "none", "ok", "err"

sigVars == <<signals, forwarded, shutdown>>
engVars == <<engine, engineErr, chProcess, termArmed>>
chVars == <<ch, killed>>
ctxVars == <<postSpawnCancelled, backendsCancelled>>
startVars == <<start, startCtx, baseReady>>
launchVars == <<launch, launchCtx, disks, specPublished>>
factVars == <<app, fact, launchFailure, launchSucceeded>>
ownVars == <<state, closeRequested, lifeCancelled>>
constVars == <<mode, compatible>>
endVars == <<released, exit>>

vars == <<mode, compatible, state, closeRequested, lifeCancelled, signals,
          forwarded, shutdown, engine, engineErr, ch, killed, chProcess,
          termArmed, postSpawnCancelled, backendsCancelled, readFatal, ready,
          baseReady, start, startCtx, launch, launchCtx, workMu, disks,
          specPublished, handshake, app, fact, launchFailure, launchSucceeded,
          notifier, ops, released, exit>>

States == {"starting", "ready", "launching", "running", "closing", "closed"}
Causes == {"none", "fact", "handshake", "wait"}

(* Runtime.lifeCtx / VMParams.Ctx: any forwarded signal or cancelLife ends it. *)
LifeDone == shutdown \/ lifeCancelled
(* postSpawnCtx is derived from VMParams.Ctx. *)
PostSpawnDone == LifeDone \/ postSpawnCancelled
(* Mutant: the backends derive their context from the signal-cancelled one. *)
BackendsDoneOnSignal == LifeDone \/ backendsCancelled
(* backendCtx is derived from VMLifecycleContext, which a signal does not cancel. *)
BackendsDone == lifeCancelled \/ backendsCancelled
(* opCtx of Launch: the caller's context, cancelled by lifeCtx as well. *)
LaunchCtxDone == launchCtx \/ LifeDone
(* Mutant: the join of SDK operations is dropped. *)
OpsNotJoined == TRUE
(* r.opsWG.Wait() returns. *)
OpsDrained == \A o \in Ops : ops[o] # "active"
(* r.workMu.Lock() can be taken. *)
WorkMuFree == workMu = "free"

-----------------------------------------------------------------------------
(* Owner primitives, each one critical section of Runtime.mu.               *)

(* markExiting: closing, unless already closed. *)
MarkExiting(s) == IF s = "closed" THEN s ELSE "closing"

(* requestClose: once; closing, and one SIGTERM on the private stream. *)
RequestClose ==
    /\ closeRequested' = TRUE
    /\ IF closeRequested \/ state = "closed"
         THEN UNCHANGED <<state, signals>>
         ELSE state' = "closing" /\ signals' = signals + 1

(* OnLaunchFailure: the first failure is kept; the owner is asked to close
   but not waited for, because the handler is joined by that very close. *)
OnLaunchFailure ==
    /\ launchFailure' = IF launchFailure = "none" THEN "handshake" ELSE launchFailure
    /\ RequestClose

(* Mutant: commitLaunch does not look at launchFailure. *)
CommitLaunchDespiteFailure ==
    /\ state = "launching" /\ specPublished /\ ~LaunchCtxDone
    /\ fact = "started" /\ handshake = "mux"

(* commitLaunch: the one point at which a launch becomes successful. *)
CommitLaunch ==
    /\ state = "launching"
    /\ specPublished
    /\ ~LaunchCtxDone
    /\ launchFailure = "none"
    /\ fact = "started"
    /\ handshake = "mux"

-----------------------------------------------------------------------------
Init ==
    /\ mode \in {"cold", "restore"}
    /\ compatible \in BOOLEAN /\ (mode = "restore" => compatible)
    /\ state = "starting" /\ closeRequested = FALSE /\ lifeCancelled = FALSE
    /\ signals = 0 /\ forwarded = 0 /\ shutdown = FALSE
    /\ engine = IF mode = "cold" THEN "idle" ELSE "entry"
    /\ engineErr = FALSE
    /\ ch = "none" /\ killed = FALSE /\ chProcess = FALSE /\ termArmed = FALSE
    /\ postSpawnCancelled = FALSE /\ backendsCancelled = FALSE
    /\ readFatal = "none" /\ ready = FALSE
    /\ start = IF mode = "cold" THEN "prepare" ELSE "wait"
    /\ startCtx = FALSE /\ baseReady = FALSE
    /\ launch = "idle" /\ launchCtx = FALSE /\ workMu = "free" /\ disks = 0
    /\ specPublished = FALSE
    /\ handshake = "none" /\ app = {} /\ fact = "none"
    /\ launchFailure = "none" /\ launchSucceeded = FALSE /\ notifier = "idle"
    /\ ops = [o \in Ops |-> "idle"]
    /\ released = FALSE /\ exit = "none"

-----------------------------------------------------------------------------
(* The Start caller.                                                        *)

(* startRuntime fails before the engine exists: cleanup() releases all. *)
StartPrepareFails ==
    /\ start = "prepare"
    /\ start' = "err" /\ lifeCancelled' = TRUE /\ released' = TRUE
    /\ UNCHANGED <<constVars, state, closeRequested, sigVars, engVars, chVars,
                   ctxVars, readFatal, ready, startCtx, baseReady, launchVars,
                   workMu, handshake, factVars, notifier, ops, exit>>

(* engineStarted = true; go ServeAndWait. *)
StartEngine ==
    /\ start = "prepare"
    /\ start' = "wait" /\ engine' = "entry"
    /\ UNCHANGED <<constVars, ownVars, sigVars, engineErr, chProcess, termArmed,
                   chVars, ctxVars, readFatal, ready, startCtx, baseReady,
                   launchVars, workMu, handshake, factVars, notifier, ops, endVars>>

(* The caller's context ends.  Cold start has an AfterFunc that turns this
   into a SIGTERM until stopOperation() removes it. *)
StartCtxCancel ==
    /\ ~startCtx
    /\ startCtx' = TRUE
    /\ signals' = IF mode = "cold" /\ start \in {"prepare", "wait"}
                    THEN signals + 1 ELSE signals
    /\ UNCHANGED <<constVars, ownVars, forwarded, shutdown, engVars, chVars,
                   ctxVars, readFatal, ready, start, baseReady, launchVars, workMu,
                   handshake, factVars, notifier, ops, endVars>>

(* <-baseReady, then stopOperation(). *)
StartObservesReady ==
    /\ start = "wait" /\ baseReady
    /\ start' = "decide"
    /\ UNCHANGED <<constVars, ownVars, sigVars, engVars, chVars, ctxVars, readFatal,
                   ready, startCtx, baseReady, launchVars, workMu, handshake,
                   factVars, notifier, ops, endVars>>

(* Under mu: the runtime is returned only if the context is still live and
   nothing has begun to close it. *)
StartDecide ==
    /\ start = "decide"
    /\ IF ~startCtx /\ state = (IF mode = "cold" THEN "ready" ELSE "running")
         THEN start' = "ok" /\ UNCHANGED <<closeRequested, state, signals>>
         ELSE start' = "closing" /\ RequestClose
    /\ UNCHANGED <<constVars, lifeCancelled, forwarded, shutdown, engVars, chVars,
                   ctxVars, readFatal, ready, startCtx, baseReady, launchVars, workMu,
                   handshake, factVars, notifier, ops, endVars>>

(* <-ctx.Done(): Close() on the error path. *)
StartInterrupted ==
    /\ start = "wait" /\ startCtx
    /\ start' = "closing" /\ RequestClose
    /\ UNCHANGED <<constVars, lifeCancelled, forwarded, shutdown, engVars, chVars,
                   ctxVars, readFatal, ready, startCtx, baseReady, launchVars, workMu,
                   handshake, factVars, notifier, ops, endVars>>

(* <-exitDone, from the wait or at the end of Close(). *)
StartReturnsError ==
    /\ start \in {"wait", "closing"} /\ exit # "none"
    /\ start' = "err"
    /\ UNCHANGED <<constVars, ownVars, sigVars, engVars, chVars, ctxVars, readFatal,
                   ready, startCtx, baseReady, launchVars, workMu, handshake,
                   factVars, notifier, ops, endVars>>

(* Runtime.Close by the client that holds the returned runtime. *)
ClientClose ==
    /\ start = "ok" /\ ~closeRequested
    /\ RequestClose
    /\ UNCHANGED <<constVars, lifeCancelled, forwarded, shutdown, engVars, chVars,
                   ctxVars, readFatal, ready, startVars, launchVars, workMu,
                   handshake, factVars, notifier, ops, endVars>>

-----------------------------------------------------------------------------
(* The signal pump of newRunSignalContext; stopSignals ends it in cleanup.  *)
PumpSignal ==
    /\ signals > 0 /\ ~released
    /\ signals' = signals - 1
    /\ forwarded' = IF forwarded < 4 THEN forwarded + 1 ELSE forwarded
    /\ shutdown' = TRUE
    /\ UNCHANGED <<constVars, ownVars, engVars, chVars, ctxVars, readFatal, ready,
                   startVars, launchVars, workMu, handshake, factVars, notifier,
                   ops, endVars>>

-----------------------------------------------------------------------------
(* The engine goroutine.                                                    *)

EngineMoves == UNCHANGED <<constVars, closeRequested, sigVars, readFatal, startCtx,
                           start, launchVars, handshake, factVars, notifier, ops>>

(* ServeAndWait entry, its setup (listeners, backends, BuildCmd) and the last
   check of p.Ctx before the spawn; an error unwinds without a VM. *)
EngineSetup ==
    /\ engine \in {"entry", "setup"}
    /\ \/ /\ ~LifeDone
          /\ engine' = IF engine = "entry" THEN "setup" ELSE "spawn"
          /\ UNCHANGED <<engineErr, backendsCancelled>>
       \/ /\ LifeDone \/ engine = "setup"
          /\ engine' = "finish" /\ engineErr' = TRUE /\ backendsCancelled' = TRUE
    /\ EngineMoves
    /\ UNCHANGED <<state, lifeCancelled, chProcess, termArmed, chVars,
                   postSpawnCancelled, ready, baseReady, workMu, endVars>>

(* startCH succeeds or fails. *)
EngineSpawn ==
    /\ engine = "spawn"
    /\ \/ /\ engine' = "spawned" /\ ch' = "alive"
          /\ UNCHANGED <<engineErr, backendsCancelled>>
       \/ /\ engine' = "finish" /\ engineErr' = TRUE /\ backendsCancelled' = TRUE
          /\ UNCHANGED ch
    /\ EngineMoves
    /\ UNCHANGED <<state, lifeCancelled, chProcess, termArmed, killed,
                   postSpawnCancelled, ready, baseReady, workMu, endVars>>

(* chProcess = cmd.Process. *)
EnginePublishProcess ==
    /\ engine = "spawned"
    /\ engine' = "recheck" /\ chProcess' = TRUE
    /\ EngineMoves
    /\ UNCHANGED <<state, lifeCancelled, engineErr, termArmed, chVars, ctxVars,
                   ready, baseReady, workMu, endVars>>

(* A fatal recorded before the process was published is killed here. *)
EngineRecheckFatal ==
    /\ engine = "recheck"
    /\ engine' = "post" /\ killed' = (killed \/ readFatal # "none")
    /\ EngineMoves
    /\ UNCHANGED <<state, lifeCancelled, engineErr, chProcess, termArmed, ch, ctxVars,
                   ready, baseReady, workMu, endVars>>

(* PostSpawn's barrier: the guest's hello (cold) or the restored guest's MUX
   (restore), with the context checked once more behind it. *)
EnginePostSpawnBarrier ==
    /\ engine = "post" /\ ~PostSpawnDone
    /\ IF mode = "cold" THEN handshake \notin {"none", "refused"} ELSE ch = "alive"
    /\ engine' = "mark"
    /\ EngineMoves
    /\ UNCHANGED <<state, lifeCancelled, engineErr, chProcess, termArmed, chVars,
                   ctxVars, ready, baseReady, workMu, endVars>>

(* PostSpawn's end: cold runtimes become ready; restore goes through
   notifyReady, which a recorded fatal refuses. *)
EngineMarkReady ==
    /\ engine = "mark"
    /\ engine' = "wait"
    /\ IF state = "starting" /\ (mode = "cold" \/ readFatal = "none")
         THEN /\ state' = IF mode = "cold" THEN "ready" ELSE "running"
              /\ baseReady' = TRUE
         ELSE UNCHANGED <<state, baseReady>>
    /\ IF mode = "restore" /\ readFatal = "none" THEN ready' = TRUE ELSE UNCHANGED ready
    /\ EngineMoves
    /\ UNCHANGED <<lifeCancelled, engineErr, chProcess, termArmed, chVars, ctxVars,
                   workMu, endVars>>

(* PostSpawn failed: kill at once on a fatal or when no shutdown was asked
   for; otherwise the queued signal drives the normal escalation. *)
EnginePostSpawnFails ==
    /\ engine = "post"
    /\ PostSpawnDone \/ mode = "restore"
    /\ IF readFatal # "none" \/ ~shutdown
         THEN killed' = TRUE /\ engine' = "reap" /\ engineErr' = TRUE
         ELSE engine' = "wait" /\ UNCHANGED <<killed, engineErr>>
    /\ EngineMoves
    /\ UNCHANGED <<state, lifeCancelled, chProcess, termArmed, ch, ctxVars, ready,
                   baseReady, workMu, endVars>>

(* waitForCHWithSignalEscalation: the first signal asks CH to shut down and
   arms the grace timer, the second one kills. *)
EngineSignal ==
    /\ engine = "wait" /\ forwarded > 0
    /\ forwarded' = forwarded - 1
    /\ termArmed' = TRUE /\ killed' = (killed \/ termArmed)
    /\ UNCHANGED <<constVars, ownVars, signals, shutdown, engine, engineErr, chProcess,
                   ch, ctxVars, readFatal, ready, startVars, launchVars, workMu,
                   handshake, factVars, notifier, ops, endVars>>

(* The grace timer fires. *)
EngineGraceExpires ==
    /\ engine = "wait" /\ termArmed /\ ~killed
    /\ killed' = TRUE
    /\ EngineMoves
    /\ UNCHANGED <<state, lifeCancelled, engVars, ch, ctxVars, ready, baseReady,
                   workMu, endVars>>

(* Mutant: the recorded fatal is not part of the result. *)
EngineReapedForgetsFatal ==
    /\ engine \in {"wait", "reap"} /\ ch = "reaped"
    /\ handshake \notin {"sent", "acked", "bridged"}
    /\ engine' = "joinStop" /\ backendsCancelled' = TRUE
    /\ EngineMoves
    /\ UNCHANGED <<state, lifeCancelled, engineErr, chProcess, termArmed, chVars,
                   postSpawnCancelled, ready, baseReady, workMu, endVars>>

(* <-doneCh; cancelBackends; backendWG.Wait, which joins the handler of the
   launch conversation; a recorded fatal is the result. *)
EngineReaped ==
    /\ engine \in {"wait", "reap"} /\ ch = "reaped"
    /\ handshake \notin {"sent", "acked", "bridged"}
    /\ engine' = "joinStop"
    /\ engineErr' = (engineErr \/ readFatal # "none")
    /\ backendsCancelled' = TRUE
    /\ EngineMoves
    /\ UNCHANGED <<state, lifeCancelled, chProcess, termArmed, chVars,
                   postSpawnCancelled, ready, baseReady, workMu, endVars>>

(* The owner's deferred join in ServeAndWait (stopForExit, workMu, opsWG),
   then finishExit (stopForExit, opsWG.Wait, workMu.Lock). *)
EngineJoin ==
    /\ \/ /\ engine \in {"joinStop", "finish"}
          /\ engine' = IF engine = "joinStop" THEN "joinWork" ELSE "finishOps"
          /\ state' = MarkExiting(state) /\ lifeCancelled' = TRUE
          /\ UNCHANGED workMu
       \/ /\ engine = "joinWork" /\ WorkMuFree
          /\ engine' = "joinOps"
          /\ UNCHANGED <<state, lifeCancelled, workMu>>
       \/ /\ engine = "joinOps" /\ OpsDrained
          /\ engine' = "finish"
          /\ UNCHANGED <<state, lifeCancelled, workMu>>
       \/ /\ engine = "finishOps" /\ OpsDrained /\ WorkMuFree
          /\ engine' = "cleanup" /\ workMu' = "cleanup"
          /\ UNCHANGED <<state, lifeCancelled>>
    /\ EngineMoves
    /\ UNCHANGED <<engineErr, chProcess, termArmed, chVars, ctxVars, ready, baseReady,
                   endVars>>

(* cleanupResources under workMu, which may report an error of its own, then
   the result and close(exitDone). *)
EngineCleanup ==
    /\ engine = "cleanup"
    /\ engine' = "done" /\ workMu' = "free"
    /\ disks' = 0 /\ released' = TRUE
    /\ \E cleanupErr \in BOOLEAN :
          exit' = IF engineErr \/ launchFailure # "none" \/ cleanupErr
                    THEN "err" ELSE "ok"
    /\ state' = "closed"
    /\ UNCHANGED <<constVars, closeRequested, lifeCancelled, sigVars, engineErr,
                   chProcess, termArmed, chVars, ctxVars, readFatal, ready, startVars,
                   launch, launchCtx, specPublished, handshake, factVars, notifier, ops>>

-----------------------------------------------------------------------------
(* CH and its reaper goroutine.                                             *)

CHExit ==
    /\ ch = "alive" /\ ch' = "dead"
    /\ UNCHANGED <<constVars, ownVars, sigVars, engVars, killed, ctxVars, readFatal,
                   ready, startVars, launchVars, workMu, handshake, factVars,
                   notifier, ops, endVars>>

(* The reaper goroutine starts behind the fatal recheck. *)
ReaperRunning == engine \notin {"spawned", "recheck"}

(* waitid(WNOWAIT) returned: markExiting, contexts still live. *)
ReaperObserve ==
    /\ ch = "dead" /\ ch' = "observed" /\ ReaperRunning
    /\ state' = MarkExiting(state)
    /\ UNCHANGED <<constVars, closeRequested, lifeCancelled, sigVars, engVars, killed,
                   ctxVars, readFatal, ready, startVars, launchVars, workMu,
                   handshake, factVars, notifier, ops, endVars>>

(* cmd.Wait (also after a failed waitid); stopForExit; cancelPostSpawn;
   cancelBackends; doneCh. *)
ReaperReap ==
    /\ ch \in {"dead", "observed"} /\ ch' = "reaped" /\ ReaperRunning
    /\ state' = MarkExiting(state) /\ lifeCancelled' = TRUE
    /\ postSpawnCancelled' = TRUE /\ backendsCancelled' = TRUE
    /\ UNCHANGED <<constVars, closeRequested, sigVars, engVars, killed, readFatal,
                   ready, startVars, launchVars, workMu, handshake, factVars,
                   notifier, ops, endVars>>

-----------------------------------------------------------------------------
(* Fatal I/O: reportReadFatal records first, then cancels and kills.        *)

ReadFatalRecord ==
    /\ readFatal = "none"
    /\ engine \in {"setup", "spawn", "spawned", "recheck", "post", "mark", "wait",
                  "reap"}
    /\ readFatal' = "recorded"
    /\ UNCHANGED <<constVars, ownVars, sigVars, engVars, chVars, ctxVars, ready,
                   startVars, launchVars, workMu, handshake, factVars, notifier,
                   ops, endVars>>

(* Mutant: a fatal only cancels contexts and leaves CH alive. *)
ReadFatalOnlyCancels ==
    /\ readFatal = "recorded"
    /\ readFatal' = "reported"
    /\ postSpawnCancelled' = TRUE /\ backendsCancelled' = TRUE
    /\ UNCHANGED <<constVars, ownVars, sigVars, engVars, chVars, ready, startVars,
                   launchVars, workMu, handshake, factVars, notifier, ops, endVars>>

ReadFatalTerminate ==
    /\ readFatal = "recorded"
    /\ readFatal' = "reported"
    /\ postSpawnCancelled' = TRUE /\ backendsCancelled' = TRUE
    /\ killed' = (killed \/ chProcess)
    /\ UNCHANGED <<constVars, ownVars, sigVars, engVars, ch, ready, startVars,
                   launchVars, workMu, handshake, factVars, notifier, ops, endVars>>

-----------------------------------------------------------------------------
(* Launch.                                                                  *)

LaunchMoves == UNCHANGED <<constVars, lifeCancelled, forwarded, shutdown, engVars,
                           chVars, ctxVars, readFatal, ready, startVars, launchCtx,
                           handshake, app, launchSucceeded, ops, endVars>>

(* Admission under mu: the work lock is taken before mu is released. *)
LaunchBegin ==
    /\ start = "ok" /\ launch = "idle" /\ state = "ready"
    /\ state' = "launching" /\ launch' = "prepare" /\ workMu' = "launch"
    /\ fact' = "pending"
    /\ LaunchMoves
    /\ UNCHANGED <<closeRequested, signals, disks, specPublished, launchFailure,
                   notifier>>

LaunchCtxCancel ==
    /\ launch \in {"prepare", "wait"} /\ ~launchCtx
    /\ launchCtx' = TRUE
    /\ UNCHANGED <<constVars, ownVars, sigVars, engVars, chVars, ctxVars, readFatal,
                   ready, startVars, launch, disks, specPublished, workMu, handshake,
                   factVars, notifier, ops, endVars>>

(* One disk of the preparation is opened and appended to r.disks. *)
LaunchOpenDisk ==
    /\ launch = "prepare" /\ disks < NDisks
    /\ disks' = disks + 1
    /\ LaunchMoves
    /\ UNCHANGED <<state, closeRequested, signals, launch, workMu, specPublished,
                   fact, launchFailure, notifier>>

(* The storage, checkpoint, cache or disk preparation fails. *)
LaunchPrepareFails ==
    /\ launch = "prepare"
    /\ launch' = "closing" /\ workMu' = "free" /\ RequestClose
    /\ LaunchMoves
    /\ UNCHANGED <<disks, specPublished, fact, launchFailure, notifier>>

(* Under mu: launching still holds and the context is live, then installLaunch
   binds the devices and publishes the launch spec last; it may fail. *)
LaunchInstall ==
    /\ launch = "prepare" /\ disks = NDisks
    /\ \/ /\ state = "launching" /\ ~LaunchCtxDone
          /\ launch' = "wait" /\ specPublished' = TRUE
          /\ UNCHANGED <<state, closeRequested, signals>>
       \/ /\ launch' = "closing" /\ RequestClose
          /\ UNCHANGED specPublished
    /\ workMu' = "free"
    /\ LaunchMoves
    /\ UNCHANGED <<disks, fact, launchFailure, notifier>>

(* ACK, MUX and a started fact are in: go r.notifyInitialReady(), once. *)
LaunchConfirm ==
    /\ launch = "wait" /\ ~launchSucceeded /\ launchFailure = "none"
    /\ handshake = "mux" /\ fact = "started" /\ notifier = "idle"
    /\ notifier' = "pending"
    /\ LaunchMoves
    /\ UNCHANGED <<state, closeRequested, signals, launch, disks, workMu,
                   specPublished, fact, launchFailure>>

(* notifyReady: no commit behind a recorded fatal; otherwise commitLaunch and
   the ready event, all under readiness.mu. *)
NotifyReady ==
    /\ notifier = "pending"
    /\ notifier' = "done"
    /\ IF readFatal = "none" /\ CommitLaunch
         THEN launchSucceeded' = TRUE /\ state' = "running" /\ ready' = TRUE
         ELSE UNCHANGED <<launchSucceeded, state, ready>>
    /\ UNCHANGED <<constVars, closeRequested, lifeCancelled, sigVars, engVars, chVars,
                   ctxVars, readFatal, startVars, launchVars, workMu, handshake, app,
                   fact, launchFailure, ops, endVars>>

(* The loop head sees success. *)
LaunchSucceeds ==
    /\ launch = "wait" /\ launchSucceeded
    /\ launch' = "ok"
    /\ LaunchMoves
    /\ UNCHANGED <<state, closeRequested, signals, disks, workMu, specPublished, fact,
                   launchFailure, notifier>>

(* A failure, the context or the exit ends the wait. *)
LaunchWaitEnds ==
    /\ launch = "wait"
    /\ \/ launchFailure # "none"
       \/ LaunchCtxDone
       \/ exit # "none"
    /\ launch' = "decide"
    /\ LaunchMoves
    /\ UNCHANGED <<state, closeRequested, signals, disks, workMu, specPublished, fact,
                   launchFailure, notifier>>

(* The post-ACK timer, when AppStartDeadline configures one. *)
LaunchTimeout ==
    /\ launch = "wait" /\ handshake \in {"acked", "bridged", "mux"}
    /\ launch' = "decide"
    /\ LaunchMoves
    /\ UNCHANGED <<state, closeRequested, signals, disks, workMu, specPublished, fact,
                   launchFailure, notifier>>

(* Under mu: success that came first wins; otherwise the failure is frozen
   before Close so that a queued notifier cannot commit. *)
LaunchDecide ==
    /\ launch = "decide"
    /\ launch' = IF launchSucceeded THEN "ok" ELSE "fail"
    /\ launchFailure' = IF launchSucceeded \/ launchFailure # "none"
                          THEN launchFailure ELSE "wait"
    /\ LaunchMoves
    /\ UNCHANGED <<state, closeRequested, signals, disks, workMu, specPublished, fact,
                   notifier>>

(* fail(): Close(), whose wait is LaunchReturnsError. *)
LaunchFails ==
    /\ launch = "fail"
    /\ launch' = "closing" /\ RequestClose
    /\ LaunchMoves
    /\ UNCHANGED <<disks, workMu, specPublished, fact, launchFailure, notifier>>

LaunchReturnsError ==
    /\ launch = "closing" /\ exit # "none"
    /\ launch' = "err"
    /\ LaunchMoves
    /\ UNCHANGED <<state, closeRequested, signals, disks, workMu, specPublished, fact,
                   launchFailure, notifier>>

-----------------------------------------------------------------------------
(* The launch server's conversation with the guest (launchsrv.go), as far   *)
(* as the owner is concerned.                                               *)

GuestMoves == UNCHANGED <<constVars, lifeCancelled, forwarded, shutdown, engVars,
                          chVars, ctxVars, readFatal, ready, startVars, launchVars,
                          workMu, app, fact, launchSucceeded, notifier, ops, endVars>>

(* A connection handler may still run: backendWG is not joined yet. *)
HandlerLive == engine \in {"spawned", "recheck", "post", "mark", "wait", "reap"}
Serving == mode = "cold" /\ ch = "alive" /\ ~BackendsDone

(* The guest's hello: runtimeReady is closed, or the guest is refused. *)
GuestHello ==
    /\ Serving /\ handshake = "none"
    /\ IF compatible
         THEN handshake' = "hello" /\ UNCHANGED <<launchFailure, state, closeRequested, signals>>
         ELSE handshake' = "refused" /\ OnLaunchFailure
    /\ GuestMoves

(* SetSpec released the parked hello: the launch message is sent, unless the
   guest lacks the discard mode the spec needs. *)
GuestSendLaunch ==
    /\ HandlerLive /\ handshake = "hello" /\ specPublished
    /\ \/ handshake' = "sent" /\ UNCHANGED <<launchFailure, state, closeRequested, signals>>
       \/ handshake' = "failed" /\ OnLaunchFailure
    /\ GuestMoves

(* launch_ack arrived and its ACK was written, or the exchange broke. *)
GuestAck ==
    /\ handshake = "sent"
    /\ \/ /\ Serving /\ handshake' = "acked"
          /\ UNCHANGED <<launchFailure, state, closeRequested, signals>>
       \/ handshake' = "failed" /\ OnLaunchFailure
    /\ GuestMoves

(* OnMUXReady: the bridge is set up or its error is a launch failure. *)
GuestBridge ==
    /\ handshake = "acked"
    /\ handshake' = "bridged"
    /\ \/ OnLaunchFailure
       \/ UNCHANGED <<launchFailure, state, closeRequested, signals>>
    /\ GuestMoves

(* close(muxReady), after OnMUXReady returned. *)
GuestMUXReady ==
    /\ handshake = "bridged"
    /\ handshake' = "mux"
    /\ GuestMoves /\ UNCHANGED <<launchFailure, state, closeRequested, signals>>

(* The application in the guest: started or failed, and exited later. *)
GuestApp ==
    /\ ch = "alive" /\ handshake \in {"sent", "acked", "bridged", "mux"}
    /\ \/ app = {} /\ app' \in {{"started"}, {"failed"}}
       \/ app = {"started"} /\ app' = {"started", "exited"}
    /\ UNCHANGED <<constVars, ownVars, sigVars, engVars, chVars, ctxVars, readFatal,
                   ready, startVars, launchVars, workMu, handshake, fact,
                   launchFailure, launchSucceeded, notifier, ops, endVars>>

(* observeInitialLaunch, from app_started or a Pong: any state the guest was
   ever in may arrive, late, again or out of order. *)
ObserveInitialLaunch ==
    /\ state = "launching" /\ launchFailure = "none"
    /\ \E f \in app :
          /\ fact' = IF f = "started" THEN f ELSE fact
          /\ launchFailure' = IF f = "started" THEN launchFailure ELSE "fact"
    /\ UNCHANGED <<constVars, ownVars, sigVars, engVars, chVars, ctxVars, readFatal,
                   ready, startVars, launchVars, workMu, handshake, app,
                   launchSucceeded, notifier, ops, endVars>>

-----------------------------------------------------------------------------
(* SDK operations: counted in opsWG under mu while the state admits them.   *)

OpBegin(o) ==
    /\ start = "ok" /\ ops[o] = "idle" /\ state \in {"ready", "launching", "running"}
    /\ ops' = [ops EXCEPT ![o] = "active"]
    /\ UNCHANGED <<constVars, ownVars, sigVars, engVars, chVars, ctxVars, readFatal,
                   ready, startVars, launchVars, workMu, handshake, factVars,
                   notifier, endVars>>

OpEnd(o) ==
    /\ ops[o] = "active"
    /\ ops' = [ops EXCEPT ![o] = "done"]
    /\ UNCHANGED <<constVars, ownVars, sigVars, engVars, chVars, ctxVars, readFatal,
                   ready, startVars, launchVars, workMu, handshake, factVars,
                   notifier, endVars>>

-----------------------------------------------------------------------------
StartStep == \/ StartPrepareFails \/ StartEngine \/ StartObservesReady
             \/ StartDecide \/ StartInterrupted \/ StartReturnsError
EngineStep == \/ EngineSetup \/ EngineSpawn \/ EnginePublishProcess
              \/ EngineRecheckFatal \/ EnginePostSpawnBarrier \/ EngineMarkReady
              \/ EnginePostSpawnFails \/ EngineSignal \/ EngineGraceExpires
              \/ EngineReaped \/ EngineJoin \/ EngineCleanup
LaunchStep == \/ LaunchOpenDisk \/ LaunchPrepareFails \/ LaunchInstall
              \/ LaunchConfirm \/ LaunchSucceeds \/ LaunchWaitEnds \/ LaunchDecide
              \/ LaunchFails \/ LaunchReturnsError
GuestStep == \/ GuestHello \/ GuestSendLaunch \/ GuestAck \/ GuestBridge
             \/ GuestMUXReady \/ GuestApp \/ ObserveInitialLaunch
OpStep == \E o \in Ops : OpBegin(o) \/ OpEnd(o)

Next == \/ StartStep \/ StartCtxCancel \/ ClientClose \/ PumpSignal
        \/ EngineStep
        \/ CHExit \/ ReaperObserve \/ ReaperReap
        \/ ReadFatalRecord \/ ReadFatalTerminate
        \/ LaunchBegin \/ LaunchCtxCancel \/ LaunchTimeout \/ LaunchStep \/ NotifyReady
        \/ GuestStep \/ OpStep

(* Goroutines of the host keep running; a killed process dies; an operation
   and the Launch preparation end once the context that covers them does.
   The guest, the client and faults owe nothing. *)
Fairness ==
    /\ WF_vars(StartStep) /\ WF_vars(PumpSignal)
    /\ WF_vars(EngineStep /\ (engine = "post" /\ mode = "restore" => PostSpawnDone))
    /\ WF_vars(CHExit /\ killed) /\ WF_vars(ReaperObserve \/ ReaperReap)
    /\ WF_vars(ReadFatalTerminate)
    /\ WF_vars((GuestAck /\ BackendsDone) \/ GuestBridge \/ GuestMUXReady)
    /\ WF_vars(LaunchStep /\ (launch = "prepare" => LaunchCtxDone))
    /\ \A o \in Ops : WF_vars(OpEnd(o) /\ BackendsDone)

Spec == Init /\ [][Next]_vars /\ Fairness

-----------------------------------------------------------------------------
(* Properties.                                                              *)

OwnerTypes ==
    /\ mode \in {"cold", "restore"} /\ compatible \in BOOLEAN
    /\ state \in States
    /\ closeRequested \in BOOLEAN /\ lifeCancelled \in BOOLEAN
    /\ start \in {"prepare", "wait", "decide", "closing", "ok", "err"}
    /\ startCtx \in BOOLEAN /\ baseReady \in BOOLEAN
    /\ released \in BOOLEAN /\ exit \in {"none", "ok", "err"}
SignalTypes == signals \in 0..2 /\ forwarded \in 0..2 /\ shutdown \in BOOLEAN
EngineTypes ==
    /\ engine \in {"idle", "entry", "setup", "spawn", "spawned", "recheck", "post",
                   "mark", "wait", "reap", "joinStop", "joinWork", "joinOps",
                   "finish", "finishOps", "cleanup", "done"}
    /\ engineErr \in BOOLEAN /\ chProcess \in BOOLEAN /\ termArmed \in BOOLEAN
    /\ ch \in {"none", "alive", "dead", "observed", "reaped"} /\ killed \in BOOLEAN
    /\ postSpawnCancelled \in BOOLEAN /\ backendsCancelled \in BOOLEAN
    /\ readFatal \in {"none", "recorded", "reported"} /\ ready \in BOOLEAN
LaunchTypes ==
    /\ launch \in {"idle", "prepare", "wait", "decide", "fail", "closing", "ok", "err"}
    /\ launchCtx \in BOOLEAN /\ workMu \in {"free", "launch", "cleanup"}
    /\ disks \in 0..NDisks /\ specPublished \in BOOLEAN
    /\ handshake \in {"none", "refused", "hello", "sent", "acked", "bridged", "mux",
                      "failed"}
    /\ app \subseteq {"started", "failed", "exited"}
    /\ fact \in {"none", "pending", "started"}
    /\ launchFailure \in Causes /\ launchSucceeded \in BOOLEAN
    /\ notifier \in {"idle", "pending", "done"}
    /\ ops \in [Ops -> {"idle", "active", "done"}]

(* Every program counter and flag stays in the range the code uses; the
   private signal channel (capacity 4) never fills, so no sender blocks. *)
TypeOK == OwnerTypes /\ SignalTypes /\ EngineTypes /\ LaunchTypes

(* A launch has one outcome: the commit made by the readiness goroutine and
   the failure recorded by a guest fact, the handshake, a timer or a cancelled
   context exclude each other, and Launch returns the one that was recorded. *)
OneLaunchOutcome ==
    /\ ~(launchSucceeded /\ launchFailure # "none")
    /\ launch = "ok" => launchSucceeded
    /\ launch \in {"fail", "closing", "err"} => ~launchSucceeded

(* cleanupResources never runs under a user of what it releases: CH is gone
   and reaped, no SDK operation is in flight, no Launch preparation is still
   opening disks, and none of the disks it opened stays open. *)
ResourcesOutliveUsers ==
    released => /\ ch \in {"none", "reaped"}
                /\ \A o \in Ops : ops[o] # "active"
                /\ launch # "prepare"
                /\ disks = 0

(* A failed StartRuntime, RunLifecycle or Launch is terminal: when the caller
   gets the error, the VM is gone and everything it held is released. *)
FailureIsTerminal ==
    start = "err" \/ launch = "err" => released /\ ch \in {"none", "reaped"}

(* The vhost, uffd and launch backends serve CH until it exits; only a fatal
   I/O error takes them away from a live CH, a shutdown signal never does. *)
BackendsOutliveCH ==
    ch = "alive" /\ BackendsDone => readFatal # "none"

(* A runtime handed to the caller is stopped only through requestClose: the
   start context's AfterFunc cannot signal it after StartRuntime returned. *)
ReturnedRuntimeNotSignalled ==
    start = "ok" /\ (signals > 0 \/ shutdown) => closeRequested

(* Launch takes workMu while it holds mu, so workMu must be free in every
   state in which Launch is admitted; otherwise mu would be held for the
   length of somebody else's work. *)
WorkMuFreeAtAdmission == state = "ready" => workMu = "free"

(* The result the owner publishes is an error whenever fatal I/O or a launch
   failure told by the guest was recorded; only the failure that Launch itself
   derives from the exit may come after it. *)
ExitTellsFailure ==
    exit = "ok" => readFatal = "none" /\ launchFailure \in {"none", "wait"}

(* The owner ends once it was asked to close or recorded a fatal, whatever
   that races with, a fatal between startCH and the publication of the process
   included: CH is stopped and reaped and the exit is published.  A caller of
   StartRuntime or Launch whose context is cancelled gets an answer. *)
EndTerminates ==
    /\ closeRequested \/ readFatal # "none" ~> exit # "none"
    /\ startCtx ~> start \in {"ok", "err"}
    /\ launchCtx ~> launch \in {"ok", "err"}
=============================================================================

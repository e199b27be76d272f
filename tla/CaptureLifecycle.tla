-------------------------- MODULE CaptureLifecycle --------------------------
(***************************************************************************)
(* Snapshot and export of a live MicroVM: the capture gate and the two     *)
(* request handlers of pkg/sandbox/lifecycle.go, snapshot.Take and         *)
(* snapshot.Export, the recovery of a failed capture, and the destruction  *)
(* of the VM that a successful capture without resume hands to the ctl     *)
(* response.  A handler acquires the usage sampler, the memory Budget      *)
(* barrier, the memory.high lifecycle lock, the port forwarder and the     *)
(* pinger, each released by a deferred function: "defers" is that stack.   *)
(*                                                                         *)
(* Around it move the pinger's ticker, forwarded connections, the memory   *)
(* controller, the signal path that shuts CH down, disks failing in the    *)
(* background, contexts being cancelled and CH exiting at any point.       *)
(***************************************************************************)
EXTENDS Naturals, Sequences

CONSTANTS
    Reqs,        \* capture requests, snapshot or export
    MaxInflight  \* bound on concurrently forwarded connections

ASSUME CaptureAssumption ==
    /\ MaxInflight \in Nat
    /\ \A r \in Reqs : r \notin {"none", "controller", "signal"}

VARIABLES
    gate,       \* captureGate: active, terminal
    h,          \* the handler of each request
    usage,      \* usage.Sampler: "running", "paused"
    barrier,    \* holder of the balloon mutation gate
    high,       \* memory.high of the VMM cgroup: "limit", "max"
    highLock,   \* holder of the memory.high lifecycle flock
    forwarder,  \* Forwarder.quiescing and its inflight count
    pinger,     \* Pinger.paused and whether a probe is admitted
    guest,      \* the guest: "running" or "frozen" (quiesced, MUX closed)
    vm,         \* CH: "running" or "paused"
    backends,   \* vhost backends: "running" or "quiesced"
    ch,         \* the CH process: "alive", "stopping", "killed", "exited"
    diskErr,    \* some writable disk has failed in the background
    abandoned   \* history: a committed destroy capture returned only an error

guards == <<usage, barrier, high, highLock, forwarder, pinger>>
machine == <<guest, vm, backends>>
vars == <<gate, h, usage, barrier, high, highLock, forwarder, pinger, guest,
          vm, backends, ch, diskErr, abandoned>>

Pcs == {"idle", "prepare", "barrier", "lift", "throttle", "forward", "ping",
        "pingDrain", "quiesce", "fwdDrain", "pause", "freeze", "disks",
        "memory", "publish", "commit", "close", "resume", "final",
        "undoBackends", "undoVM", "undoCheckpoint", "reattach", "terminate",
        "termGrace", "termKilled", "check", "unwind", "finish", "respond",
        "shutdown", "shutGrace", "shutKilled", "done"}
Guards == {"usage", "barrier", "high", "forward", "ping"}
Holders == {"none", "controller", "signal"} \cup Reqs

Handler == [pc : Pcs,
            kind : {"snapshot", "export"},
            resume : BOOLEAN,              \* req.ResumeAfter
            named : BOOLEAN,               \* req.CheckpointID # ""
            cancelled : BOOLEAN,           \* the operation context
            err : {"none", "error", "terminal"},
            defers : Seq(Guards),
            previous : {"limit", "max"},   \* memory.high saved by the lift
            needsAbort : BOOLEAN,          \* forwarderNeedsAbort
            terminated : BOOLEAN,          \* recoveryTerminated
            succeeded : BOOLEAN,           \* Take/Export: succeeded
            vmResumed : BOOLEAN,           \* Take/Export: resumed
            retain : BOOLEAN,              \* checkpointCapture.retain
            checkpoint : BOOLEAN,          \* disk checkpoints of this capture exist
            committed : BOOLEAN,           \* the root alias was written
            afterWrite : BOOLEAN]          \* resp.AfterWrite # nil

(* A handler at its entry, for one of the requests a client may send. *)
NewHandler(pc, kind, resume, named) ==
    [pc |-> pc, kind |-> kind, resume |-> resume, named |-> named,
     cancelled |-> FALSE, err |-> "none", defers |-> <<>>, previous |-> "limit",
     needsAbort |-> FALSE, terminated |-> FALSE, succeeded |-> FALSE,
     vmResumed |-> FALSE, retain |-> FALSE, checkpoint |-> FALSE,
     committed |-> FALSE, afterWrite |-> FALSE]

Init ==
    /\ gate = [active |-> FALSE, terminal |-> FALSE]
    /\ h = [r \in Reqs |-> NewHandler("idle", "snapshot", FALSE, FALSE)]
    /\ usage = "running"
    /\ barrier = "none"
    /\ high = "limit"
    /\ highLock = "none"
    /\ forwarder = [quiescing |-> FALSE, inflight |-> 0]
    /\ pinger = [paused |-> FALSE, probe |-> FALSE]
    /\ guest = "running"
    /\ vm = "running"
    /\ backends = "running"
    /\ ch = "alive"
    /\ diskErr = FALSE
    /\ abandoned = FALSE

At(r, pc) == h[r].pc = pc
(* The goroutine ends and its locals with it. *)
Ended(after) == [NewHandler("done", "snapshot", FALSE, FALSE) EXCEPT !.afterWrite = after]
Goto(r, pc) == h' = [h EXCEPT ![r].pc = pc]
(* The handler returns an error: its deferred functions run. *)
Fail(r) == h' = [h EXCEPT ![r].pc = "unwind", ![r].err = "error"]
(* Take/Export return an error: their own deferred functions run first. *)
TakeFails(r) == h' = [h EXCEPT ![r].pc = "undoBackends", ![r].err = "error"]
(* A deferred release is pushed once its guard is acquired. *)
Push(r, g, pc) ==
    h' = [h EXCEPT ![r].defers = Append(@, g), ![r].pc = pc]
(* A successful capture without resume leaves its guards to the destroyer. *)
KeepsGuards(r) == h[r].err = "none" /\ ~h[r].resume

-----------------------------------------------------------------------------
(* The gate, and everything checked before the first guard is taken.        *)

(* captureGate.begin admits nobody beside or after a terminal capture. *)
GateOpen == ~gate.active /\ ~gate.terminal

Begin(r) ==
    /\ At(r, "idle")
    /\ IF GateOpen
         THEN /\ gate' = [gate EXCEPT !.active = TRUE]
              /\ \E kind \in {"snapshot", "export"}, resume, named \in BOOLEAN :
                   h' = [h EXCEPT ![r] = NewHandler("prepare", kind, resume, named)]
         ELSE /\ h' = [h EXCEPT ![r] = Ended(FALSE)]
              /\ UNCHANGED gate
    /\ UNCHANGED <<guards, machine, ch, diskErr, abandoned>>

(* A check of the request, of the output or of the disks and memory it will *)
(* name fails: nothing of the running sandbox has been touched.             *)
Refuse(r) == Fail(r) /\ UNCHANGED usage
(* The dependencies are in the sink and the refs rewritten; usage.Pause. *)
PauseUsage(r) == usage' = "paused" /\ Push(r, "usage", "barrier")

(* Request validation, output admission, dependency plan; then usage.Pause. *)
Prepare(r) ==
    /\ At(r, "prepare")
    /\ Refuse(r) \/ PauseUsage(r)
    /\ UNCHANGED <<gate, barrier, high, highLock, forwarder, pinger, machine,
                   ch, diskErr, abandoned>>

(* MemoryController.BeginSnapshot waits for the mutation gate or the context. *)
BeginSnapshot(r) ==
    /\ At(r, "barrier")
    /\ \/ barrier = "none" /\ barrier' = r /\ Push(r, "barrier", "lift")
       \/ h[r].cancelled /\ Fail(r) /\ UNCHANGED barrier
    /\ UNCHANGED <<gate, usage, high, highLock, forwarder, pinger, machine,
                   ch, diskErr, abandoned>>

(* liftVMMMemoryHigh: a blocking flock, then memory.high becomes max. *)
LiftMemoryHigh(r) ==
    /\ At(r, "lift")
    /\ highLock = "none"
    /\ \/ /\ highLock' = r /\ high' = "max"
          /\ h' = [h EXCEPT ![r].defers = Append(@, "high"),
                            ![r].previous = high, ![r].pc = "throttle"]
       \/ Fail(r) /\ UNCHANGED <<high, highLock>>
    /\ UNCHANGED <<gate, usage, barrier, forwarder, pinger, machine, ch,
                   diskErr, abandoned>>

(* waitVMMMemoryHighThrottleDrain ends early only when CH exits. *)
DrainThrottles(r) ==
    /\ At(r, "throttle")
    /\ \/ Goto(r, "forward")
       \/ ch = "exited" /\ Fail(r)
    /\ UNCHANGED <<gate, guards, machine, ch, diskErr, abandoned>>

PauseForwarder(r) ==
    /\ At(r, "forward")
    /\ forwarder' = [forwarder EXCEPT !.quiescing = TRUE]
    /\ h' = [h EXCEPT ![r].defers = Append(@, "forward"),
                      ![r].needsAbort = TRUE, ![r].pc = "ping"]
    /\ UNCHANGED <<gate, usage, barrier, high, highLock, pinger, machine, ch,
                   diskErr, abandoned>>

(* Mutant: an admitted probe is not joined. *)
PausePingerUnjoined(r) ==
    /\ At(r, "ping")
    /\ pinger' = [pinger EXCEPT !.paused = TRUE]
    /\ Push(r, "ping", "quiesce")
    /\ UNCHANGED <<gate, usage, barrier, high, highLock, forwarder, machine,
                   ch, diskErr, abandoned>>

(* Pinger.pauseContext sets the paused bit before it looks for a probe. *)
PausePinger(r) ==
    /\ At(r, "ping")
    /\ pinger' = [pinger EXCEPT !.paused = TRUE]
    /\ Goto(r, "pingDrain")
    /\ UNCHANGED <<gate, usage, barrier, high, highLock, forwarder, machine,
                   ch, diskErr, abandoned>>

(* The probe finishes, or the drain times out or is cancelled: then it is    *)
(* ended and joined, the pinger resumes and the capture fails.               *)
DrainPinger(r) ==
    /\ At(r, "pingDrain")
    /\ \/ ~pinger.probe /\ ~h[r].cancelled
          /\ Push(r, "ping", "quiesce") /\ UNCHANGED pinger
       \/ (pinger.probe \/ h[r].cancelled)
          /\ pinger' = [paused |-> FALSE, probe |-> FALSE] /\ Fail(r)
    /\ UNCHANGED <<gate, usage, barrier, high, highLock, forwarder, machine,
                   ch, diskErr, abandoned>>

-----------------------------------------------------------------------------
(* Guest quiesce, and Take/Export.                                          *)

(* SendQuiesceContext.  The guest may have frozen although the reply is lost; *)
(* after a failure the forwarder is aborted and joined before the re-attach.  *)
Quiesce(r) ==
    /\ At(r, "quiesce")
    /\ \/ /\ ch # "exited" /\ vm = "running"
          /\ guest' = "frozen" /\ Goto(r, "fwdDrain")
          /\ UNCHANGED forwarder
       \/ /\ guest' \in {guest, "frozen"}
          /\ (ch = "exited" \/ vm = "paused") => guest' = guest
          /\ forwarder' = [forwarder EXCEPT !.inflight = 0]
          /\ h' = [h EXCEPT ![r].pc = "reattach", ![r].err = "error",
                            ![r].needsAbort = FALSE]
    /\ UNCHANGED <<gate, usage, barrier, high, highLock, pinger, vm, backends,
                   ch, diskErr, abandoned>>

(* Forwarder.Drain: closeActive, then inflight.Wait. *)
DrainForwarder(r) ==
    /\ At(r, "fwdDrain")
    /\ forwarder.inflight = 0
    /\ h' = [h EXCEPT ![r].pc = "pause", ![r].needsAbort = FALSE]
    /\ UNCHANGED <<gate, guards, machine, ch, diskErr, abandoned>>

(* WaitReady of the disks, then ch.Pause.  A failed call may have paused CH;  *)
(* nothing of Take is deferred yet, so the error goes straight to recovery.   *)
PauseVM(r) ==
    /\ At(r, "pause")
    /\ \/ ch # "exited" /\ vm' = "paused" /\ Goto(r, "freeze")
       \/ /\ vm' \in {vm, "paused"}
          /\ ch = "exited" => vm' = vm
          /\ h' = [h EXCEPT ![r].pc = "reattach", ![r].err = "error"]
    /\ UNCHANGED <<gate, guards, guest, backends, ch, diskErr, abandoned>>

(* checkDiskCapture: the context and every disk's sticky error. *)
DisksIntact(r) == ~h[r].cancelled /\ ~diskErr

(* Quiescer.Quiesce stops every backend, then the disks are checked. *)
QuiesceBackends(r) ==
    /\ At(r, "freeze")
    /\ backends' = "quiesced"
    /\ IF DisksIntact(r) THEN Goto(r, "disks") ELSE TakeFails(r)
    /\ UNCHANGED <<gate, guards, guest, vm, ch, diskErr, abandoned>>

(* captureSandboxAtFreeze: disks are read, a named capture registers disk     *)
(* checkpoints (one may exist although the step fails), E is absorbed.        *)
CaptureDisks(r) ==
    /\ At(r, "disks")
    /\ \/ h' = [h EXCEPT ![r].checkpoint = h[r].named,
                         ![r].pc = IF h[r].kind = "snapshot" THEN "memory" ELSE "publish"]
       \/ \E made \in {FALSE, h[r].named} :
            h' = [h EXCEPT ![r].checkpoint = made, ![r].err = "error",
                           ![r].pc = "undoBackends"]
    /\ UNCHANGED <<gate, guards, machine, ch, diskErr, abandoned>>

(* /vm.snapshot, the memory source and AbsorbSnapshot. *)
CaptureMemory(r) ==
    /\ At(r, "memory")
    /\ \/ ch # "exited" /\ Goto(r, "publish")
       \/ TakeFails(r)
    /\ UNCHANGED <<gate, guards, machine, ch, diskErr, abandoned>>

(* The last check before the root is committed. *)
CheckBeforeCommit(r) ==
    /\ At(r, "publish")
    /\ IF DisksIntact(r) THEN Goto(r, "commit") ELSE TakeFails(r)
    /\ UNCHANGED <<gate, guards, machine, ch, diskErr, abandoned>>

(* Mutant: the checkpoints are retained only once the commit is known good. *)
CommitRetainsOnSuccess(r) ==
    /\ At(r, "commit")
    /\ \/ h' = [h EXCEPT ![r].retain = TRUE, ![r].committed = TRUE,
                         ![r].pc = "close"]
       \/ \E wrote \in BOOLEAN :
            h' = [h EXCEPT ![r].committed = wrote, ![r].err = "error",
                           ![r].pc = "undoBackends"]
    /\ UNCHANGED <<gate, guards, machine, ch, diskErr, abandoned>>

(* CommitSnapshot / CommitSandbox.  Its error leaves the outcome uncertain;   *)
(* retain was set first.                                                      *)
Commit(r) ==
    /\ At(r, "commit")
    /\ \/ h' = [h EXCEPT ![r].retain = TRUE, ![r].committed = TRUE,
                         ![r].pc = "close"]
       \/ \E wrote \in BOOLEAN :
            h' = [h EXCEPT ![r].retain = TRUE, ![r].committed = wrote,
                           ![r].err = "error", ![r].pc = "undoBackends"]
    /\ UNCHANGED <<gate, guards, machine, ch, diskErr, abandoned>>

CloseSink(r) ==
    /\ At(r, "close")
    /\ \/ Goto(r, IF h[r].resume THEN "resume" ELSE "final")
       \/ TakeFails(r)
    /\ UNCHANGED <<gate, guards, machine, ch, diskErr, abandoned>>

(* T8: backends first, then ch.Resume, whose failure is also ambiguous. *)
ResumeVM(r) ==
    /\ At(r, "resume")
    /\ backends' = "running"
    /\ \/ ch # "exited" /\ vm' = "running"
          /\ h' = [h EXCEPT ![r].vmResumed = TRUE, ![r].pc = "final"]
       \/ vm' \in {vm, "running"} /\ (ch = "exited" => vm' = vm) /\ TakeFails(r)
    /\ UNCHANGED <<gate, guards, guest, ch, diskErr, abandoned>>

(* A disk or the context may have failed since the commit. *)
FinalCheck(r) ==
    /\ At(r, "final")
    /\ IF DisksIntact(r)
         THEN h' = [h EXCEPT ![r].succeeded = TRUE, ![r].pc = "undoBackends"]
         ELSE TakeFails(r)
    /\ UNCHANGED <<gate, guards, machine, ch, diskErr, abandoned>>

(* Deferred by Take/Export, in this order: Quiescer.Resume, ch.Resume unless  *)
(* the capture succeeded without resume, and the deletion of the disk         *)
(* checkpoints unless they are retained.                                      *)
UndoBackends(r) ==
    /\ At(r, "undoBackends")
    /\ backends' = "running"
    /\ Goto(r, "undoVM")
    /\ UNCHANGED <<gate, guards, guest, vm, ch, diskErr, abandoned>>

UndoVM(r) ==
    /\ At(r, "undoVM")
    /\ IF ~h[r].vmResumed /\ (~h[r].succeeded \/ h[r].resume) /\ ch # "exited"
         THEN vm' \in {vm, "running"}
         ELSE UNCHANGED vm
    /\ Goto(r, "undoCheckpoint")
    /\ UNCHANGED <<gate, guards, guest, backends, ch, diskErr, abandoned>>

UndoCheckpoint(r) ==
    /\ At(r, "undoCheckpoint")
    /\ \E kept \in {h[r].retain /\ h[r].checkpoint, h[r].checkpoint} :
         h' = [h EXCEPT ![r].checkpoint = kept,
                        ![r].pc = IF h[r].succeeded /\ ~h[r].resume
                                    THEN "check" ELSE "reattach"]
    /\ UNCHANGED <<gate, guards, machine, ch, diskErr, abandoned>>

-----------------------------------------------------------------------------
(* Recovery.                                                                 *)

(* MUXLink.Reattach: two attach attempts.  Its ack is the guest's thaw        *)
(* boundary; the guest may have thawed although both answers were lost.       *)
Reattach(r) ==
    /\ At(r, "reattach")
    /\ \/ /\ ch # "exited" /\ vm = "running"
          /\ guest' = "running"
          /\ Goto(r, IF h[r].err = "none" THEN "check" ELSE "unwind")
       \/ /\ guest' \in {guest, "running"}
          /\ (ch = "exited" \/ vm = "paused") => guest' = guest
          /\ Goto(r, "terminate")
    /\ UNCHANGED <<gate, guards, vm, backends, ch, diskErr, abandoned>>

(* /vmm.shutdown, or SIGTERM when the call fails; both may be ignored. *)
RequestStop == ch' \in IF ch = "alive" THEN {"alive", "stopping"} ELSE {ch}
Kill == ch' = IF ch = "exited" THEN ch ELSE "killed"

(* terminateAfterCaptureRecoveryFailure: request, grace, SIGKILL, grace. *)
Terminate(r) ==
    /\ At(r, "terminate")
    /\ RequestStop
    /\ Goto(r, "termGrace")
    /\ UNCHANGED <<gate, guards, machine, diskErr, abandoned>>

TerminateReturns(r) ==
    h' = [h EXCEPT ![r].pc = "unwind", ![r].err = "terminal", ![r].terminated = TRUE]

(* Mutant: the wait for CH has no bound. *)
TerminateGraceUnbounded(r) ==
    /\ At(r, "termGrace")
    /\ ch = "exited" /\ TerminateReturns(r) /\ UNCHANGED ch
    /\ UNCHANGED <<gate, guards, machine, diskErr, abandoned>>

TerminateGrace(r) ==
    /\ At(r, "termGrace")
    /\ \/ ch = "exited" /\ TerminateReturns(r) /\ UNCHANGED ch
       \/ ch # "exited" /\ Kill /\ Goto(r, "termKilled")
    /\ UNCHANGED <<gate, guards, machine, diskErr, abandoned>>

(* CH exits, or the second grace period ends. *)
TerminateKilled(r) ==
    /\ At(r, "termKilled")
    /\ TerminateReturns(r)
    /\ UNCHANGED <<gate, guards, machine, ch, diskErr, abandoned>>

(* context.Cause(ctx) after the capture: an error return carries no           *)
(* AfterWrite.  Otherwise a capture without resume owns the destruction.      *)
CheckContext(r) ==
    /\ At(r, "check")
    /\ IF h[r].cancelled
         THEN /\ Fail(r)
              /\ abandoned' = (abandoned \/ ~h[r].resume)
         ELSE /\ h' = [h EXCEPT ![r].afterWrite = ~h[r].resume,
                                ![r].pc = "unwind"]
              /\ UNCHANGED abandoned
    /\ UNCHANGED <<gate, guards, machine, ch, diskErr>>

-----------------------------------------------------------------------------
(* Deferred releases, last acquired first.                                   *)

LastDefer(r) == h[r].defers[Len(h[r].defers)]
(* The pinger and the forwarder stay paused on a VM that is going away. *)
StaysPaused(r) == h[r].terminated \/ KeepsGuards(r)

ReleasePinger(r) ==
    /\ LastDefer(r) = "ping"
    /\ pinger' = IF StaysPaused(r) THEN pinger ELSE [pinger EXCEPT !.paused = FALSE]
    /\ UNCHANGED <<usage, barrier, high, highLock, forwarder>>

(* Mutant: the forwarder is resumed only after an error. *)
ReleaseForwarderOnErrorOnly(r) ==
    /\ LastDefer(r) = "forward"
    /\ forwarder' = [quiescing |-> h[r].terminated \/ h[r].err = "none",
                     inflight |-> IF h[r].needsAbort THEN 0 ELSE forwarder.inflight]
    /\ UNCHANGED <<usage, barrier, high, highLock, pinger>>

(* AbortAndDrain if quiesce was never reached, then Resume. *)
ReleaseForwarder(r) ==
    /\ LastDefer(r) = "forward"
    /\ forwarder' = [quiescing |-> StaysPaused(r),
                     inflight |-> IF h[r].needsAbort THEN 0 ELSE forwarder.inflight]
    /\ UNCHANGED <<usage, barrier, high, highLock, pinger>>

(* restoreVMMMemoryHigh, then the lock file is closed. *)
ReleaseMemoryHigh(r) ==
    /\ LastDefer(r) = "high"
    /\ IF KeepsGuards(r)
         THEN UNCHANGED <<high, highLock>>
         ELSE high' = h[r].previous /\ highLock' = "none"
    /\ UNCHANGED <<usage, barrier, forwarder, pinger>>

ReleaseBarrier(r) ==
    /\ LastDefer(r) = "barrier"
    /\ barrier' = IF KeepsGuards(r) THEN barrier ELSE "none"
    /\ UNCHANGED <<usage, high, highLock, forwarder, pinger>>

ReleaseUsage(r) ==
    /\ LastDefer(r) = "usage"
    /\ usage' = IF h[r].err = "error" \/ h[r].resume THEN "running" ELSE usage
    /\ UNCHANGED <<barrier, high, highLock, forwarder, pinger>>

Unwind(r) ==
    /\ At(r, "unwind")
    /\ IF h[r].defers = <<>>
         THEN Goto(r, "finish") /\ UNCHANGED guards
         ELSE /\ \/ ReleasePinger(r) \/ ReleaseForwarder(r)
                 \/ ReleaseMemoryHigh(r) \/ ReleaseBarrier(r) \/ ReleaseUsage(r)
              /\ h' = [h EXCEPT ![r].defers = SubSeq(@, 1, Len(@) - 1)]
    /\ UNCHANGED <<gate, machine, ch, diskErr, abandoned>>

(* Mutant: a cleanup error after the commit reopens the gate. *)
FinishForgetsAfterWrite(r) ==
    /\ At(r, "finish")
    /\ \E late \in {h[r].err} \cup (IF h[r].kind = "snapshot" /\ h[r].err = "none"
                                     THEN {"error"} ELSE {}) :
         /\ gate' = [active |-> FALSE,
                     terminal |-> gate.terminal \/ late = "terminal"
                                  \/ (late = "none" /\ ~h[r].resume)]
         /\ IF h[r].afterWrite
              THEN h' = [h EXCEPT ![r].err = late, ![r].pc = "respond"]
              ELSE h' = [h EXCEPT ![r] = Ended(FALSE)]
    /\ UNCHANGED <<guards, machine, ch, diskErr, abandoned>>

(* captureGate.finish.  Closing the memory history of a snapshot is deferred  *)
(* earlier than every guard, so its error comes last and keeps AfterWrite.    *)
Finish(r) ==
    /\ At(r, "finish")
    /\ \E late \in {h[r].err} \cup (IF h[r].kind = "snapshot" /\ h[r].err = "none"
                                     THEN {"error"} ELSE {}) :
         /\ gate' = [active |-> FALSE,
                     terminal |-> gate.terminal \/ h[r].afterWrite
                                  \/ late = "terminal"
                                  \/ (late = "none" /\ ~h[r].resume)]
         /\ IF h[r].afterWrite
              THEN h' = [h EXCEPT ![r].err = late, ![r].pc = "respond"]
              ELSE h' = [h EXCEPT ![r] = Ended(FALSE)]
    /\ UNCHANGED <<guards, machine, ch, diskErr, abandoned>>

(* The response is written or its write fails; either way AfterWrite runs. *)
Respond(r) ==
    /\ At(r, "respond")
    /\ Goto(r, "shutdown")
    /\ UNCHANGED <<gate, guards, machine, ch, diskErr, abandoned>>

-----------------------------------------------------------------------------
(* destroyAfterSnapshot: the same bounded escalation; the guards are released *)
(* when it returns.                                                          *)

DestroyRequest(r) ==
    /\ At(r, "shutdown")
    /\ RequestStop
    /\ Goto(r, "shutGrace")
    /\ UNCHANGED <<gate, guards, machine, diskErr, abandoned>>

DestroyReturns(r) ==
    /\ barrier' = "none" /\ highLock' = "none"
    /\ h' = [h EXCEPT ![r] = Ended(TRUE)]

DestroyGrace(r) ==
    /\ At(r, "shutGrace")
    /\ \/ ch = "exited" /\ DestroyReturns(r) /\ UNCHANGED ch
       \/ /\ ch # "exited" /\ Kill /\ Goto(r, "shutKilled")
          /\ UNCHANGED <<barrier, highLock>>
    /\ UNCHANGED <<gate, usage, high, forwarder, pinger, machine, diskErr, abandoned>>

DestroyKilled(r) ==
    /\ At(r, "shutKilled")
    /\ DestroyReturns(r)
    /\ UNCHANGED <<gate, usage, high, forwarder, pinger, machine, ch, diskErr, abandoned>>

-----------------------------------------------------------------------------
(* What happens around the handlers.                                         *)

(* A caller's context ends; a disk fails; CH exits, asked to or not. *)
CancelContext(r) ==
    /\ h[r].pc \notin {"idle", "done"} /\ ~h[r].cancelled
    /\ h' = [h EXCEPT ![r].cancelled = TRUE]
    /\ UNCHANGED <<gate, guards, machine, ch, diskErr, abandoned>>

DiskFails ==
    /\ ~diskErr /\ diskErr' = TRUE
    /\ UNCHANGED <<gate, h, guards, machine, ch, abandoned>>

CHExits ==
    /\ ch # "exited" /\ ch' = "exited"
    /\ UNCHANGED <<gate, h, guards, machine, diskErr, abandoned>>

(* waitForCHWithSignalEscalation: try-lock and lift, or SIGTERM without the   *)
(* lock; SIGKILL later; the lock is closed when CH has exited.                *)
SignalShutdown ==
    /\ ch = "alive" /\ ch' = "stopping"
    /\ \/ highLock = "none" /\ highLock' = "signal" /\ high' = "max"
       \/ UNCHANGED <<high, highLock>>
    /\ UNCHANGED <<gate, h, usage, barrier, forwarder, pinger, machine, diskErr, abandoned>>

SignalKills ==
    /\ ch = "stopping" /\ ch' = "killed"
    /\ UNCHANGED <<gate, h, guards, machine, diskErr, abandoned>>

SignalUnlocks ==
    /\ highLock = "signal" /\ ch = "exited" /\ highLock' = "none"
    /\ UNCHANGED <<gate, h, usage, barrier, high, forwarder, pinger, machine, ch,
                   diskErr, abandoned>>

(* MemoryController: mutation gate, then the flock, then a memory.high write. *)
ControllerAcquires ==
    /\ barrier = "none" /\ barrier' = "controller"
    /\ UNCHANGED <<gate, h, usage, high, highLock, forwarder, pinger, machine, ch,
                   diskErr, abandoned>>

ControllerLocks ==
    /\ barrier = "controller" /\ highLock = "none" /\ highLock' = "controller"
    /\ UNCHANGED <<gate, h, usage, barrier, high, forwarder, pinger, machine, ch,
                   diskErr, abandoned>>

ControllerWrites ==
    /\ highLock = "controller" /\ highLock' = "none" /\ barrier' = "none"
    /\ high' = "limit"
    /\ UNCHANGED <<gate, h, usage, forwarder, pinger, machine, ch, diskErr, abandoned>>

(* lockMemoryHigh gives up when its context ends. *)
ControllerReleases ==
    /\ barrier = "controller" /\ highLock # "controller" /\ barrier' = "none"
    /\ UNCHANGED <<gate, h, usage, high, highLock, forwarder, pinger, machine, ch,
                   diskErr, abandoned>>

(* Forwarder.beginServe / beginExec admit a connection under the gate. *)
ForwardBegin ==
    /\ ~forwarder.quiescing /\ forwarder.inflight < MaxInflight
    /\ forwarder' = [forwarder EXCEPT !.inflight = @ + 1]
    /\ UNCHANGED <<gate, h, usage, barrier, high, highLock, pinger, machine, ch,
                   diskErr, abandoned>>

ForwardEnd ==
    /\ forwarder.inflight > 0
    /\ forwarder' = [forwarder EXCEPT !.inflight = @ - 1]
    /\ UNCHANGED <<gate, h, usage, barrier, high, highLock, pinger, machine, ch,
                   diskErr, abandoned>>

(* Pinger.tick: admission looks at the paused bit under tickMu. *)
ProbeBegin ==
    /\ ~pinger.paused /\ ~pinger.probe
    /\ pinger' = [pinger EXCEPT !.probe = TRUE]
    /\ UNCHANGED <<gate, h, usage, barrier, high, highLock, forwarder, machine, ch,
                   diskErr, abandoned>>

ProbeEnd ==
    /\ pinger.probe
    /\ pinger' = [pinger EXCEPT !.probe = FALSE]
    /\ UNCHANGED <<gate, h, usage, barrier, high, highLock, forwarder, machine, ch,
                   diskErr, abandoned>>

HandlerStep(r) ==
    \/ Prepare(r) \/ BeginSnapshot(r) \/ LiftMemoryHigh(r) \/ DrainThrottles(r)
    \/ PauseForwarder(r) \/ PausePinger(r) \/ DrainPinger(r) \/ Quiesce(r)
    \/ DrainForwarder(r) \/ PauseVM(r) \/ QuiesceBackends(r) \/ CaptureDisks(r)
    \/ CaptureMemory(r) \/ CheckBeforeCommit(r) \/ Commit(r) \/ CloseSink(r)
    \/ ResumeVM(r) \/ FinalCheck(r) \/ UndoBackends(r) \/ UndoVM(r)
    \/ UndoCheckpoint(r) \/ Reattach(r) \/ Terminate(r) \/ TerminateGrace(r)
    \/ TerminateKilled(r) \/ CheckContext(r) \/ Unwind(r) \/ Finish(r)
    \/ Respond(r) \/ DestroyRequest(r) \/ DestroyGrace(r) \/ DestroyKilled(r)

ControllerStep == ControllerLocks \/ ControllerWrites \/ ControllerReleases

Next ==
    \/ \E r \in Reqs : Begin(r) \/ HandlerStep(r) \/ CancelContext(r)
    \/ DiskFails \/ CHExits \/ SignalShutdown \/ SignalKills \/ SignalUnlocks
    \/ ControllerAcquires \/ ControllerStep
    \/ ForwardBegin \/ ForwardEnd \/ ProbeBegin \/ ProbeEnd

Spec == Init /\ [][Next]_vars

(* Handlers run; a waiting BeginSnapshot is served by the channel's queue; the *)
(* controller's critical sections end; closed connections end; a signalled     *)
(* shutdown is escalated; a killed CH is reaped.                               *)
Fairness ==
    /\ \A r \in Reqs : WF_vars(HandlerStep(r)) /\ SF_vars(BeginSnapshot(r))
    /\ WF_vars(ControllerStep)
    /\ WF_vars(ForwardEnd)
    /\ WF_vars(SignalKills)
    /\ WF_vars(SignalUnlocks)
    /\ WF_vars(CHExits /\ ch = "killed")

FairSpec == Spec /\ Fairness

-----------------------------------------------------------------------------
(* Properties.                                                               *)

(* Types; the inflight count of the forwarder never runs below zero. *)
TypeOK ==
    /\ gate \in [active : BOOLEAN, terminal : BOOLEAN]
    /\ h \in [Reqs -> Handler]
    /\ usage \in {"running", "paused"}
    /\ barrier \in Holders
    /\ high \in {"limit", "max"}
    /\ highLock \in Holders
    /\ forwarder \in [quiescing : BOOLEAN, inflight : 0 .. MaxInflight]
    /\ pinger \in [paused : BOOLEAN, probe : BOOLEAN]
    /\ guest \in {"running", "frozen"}
    /\ vm \in {"running", "paused"}
    /\ backends \in {"running", "quiesced"}
    /\ ch \in {"alive", "stopping", "killed", "exited"}
    /\ diskErr \in BOOLEAN
    /\ abandoned \in BOOLEAN

Reading == {"disks", "memory", "publish", "commit", "close"}
Owning == {"finish", "respond", "shutdown", "shutGrace", "shutKilled"}

(* While handleSnapshotRequest or handleExportRequest reads disks and memory   *)
(* and commits the root, the guest is quiesced, CH paused and every backend    *)
(* stopped, no forwarded connection or ping crosses the freeze, and this       *)
(* capture alone holds the Budget barrier and the lifted memory.high.          *)
FreezeWindow ==
    \A r \in Reqs : h[r].pc \in Reading =>
        /\ guest = "frozen" /\ vm = "paused" /\ backends = "quiesced"
        /\ forwarder = [quiescing |-> TRUE, inflight |-> 0]
        /\ pinger = [paused |-> TRUE, probe |-> FALSE]
        /\ barrier = r /\ highLock = r /\ high = "max"

Idle == ~gate.active /\ ~gate.terminal

Serviceable ==
    /\ guest = "running" /\ vm = "running" /\ backends = "running"
    /\ ~forwarder.quiescing /\ ~pinger.paused /\ usage = "running"
    /\ barrier \notin Reqs /\ highLock \notin Reqs /\ high = "limit"

(* Whenever the gate would admit another capture and CH has not been told to  *)
(* stop, every guard of the earlier captures is undone and the guest runs:    *)
(* whatever failed, a capture leaves a working VM or a terminal gate.  The    *)
(* exception is CheckContext dropping a committed capture without resume.     *)
ServiceableWhenIdle == Idle /\ ch = "alive" /\ ~abandoned => Serviceable

(* A failed capture leaves the sandbox running, without exception.            *)
FailedCaptureLeavesRunning ==
    Idle /\ ch = "alive" => guest = "running" /\ vm = "running"

(* From the commit of a capture without resume to the end of                  *)
(* destroyAfterSnapshot, CH stays paused, pinger and forwarder stay silent,   *)
(* no capture is admitted and the barrier and the lock are held; when they    *)
(* are released CH has exited or was killed.                                  *)
GuardsOutliveVM ==
    \A r \in Reqs : h[r].afterWrite =>
        /\ h[r].pc \in Owning =>
             /\ barrier = r /\ highLock = r /\ high = "max"
             /\ vm = "paused" /\ pinger.paused /\ forwarder.quiescing
             /\ ~Idle
        /\ h[r].pc = "done" => ch \in {"killed", "exited"}

(* A named capture whose root alias may have been published keeps the disk    *)
(* checkpoints that the root refers to, whatever fails afterwards.            *)
RootKeepsCheckpoints ==
    \A r \in Reqs : h[r].named /\ h[r].committed => h[r].checkpoint

(* What a commit makes final: GuardsOutliveVM and RootKeepsCheckpoints.       *)
CommittedHolds == GuardsOutliveVM /\ RootKeepsCheckpoints

(* Every capture ends: no lock, drain or wait of a handler is unbounded, and  *)
(* the gate it took at Begin is given back for the next one.  A committed     *)
(* capture without resume, which answers before CH ends (afterWrite), ends    *)
(* with CH gone.                                                              *)
CaptureReturns ==
    (gate.active \/ \E r \in Reqs : h[r].afterWrite)
        ~> /\ ~gate.active
           /\ (\E r \in Reqs : h[r].afterWrite) => ch = "exited"
=============================================================================

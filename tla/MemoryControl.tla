---------------------------- MODULE MemoryControl ----------------------------
(***************************************************************************)
(* The sandbox-local memory loop of pkg/resctl: the MemoryController       *)
(* worker, the balloon it drives through Cloud Hypervisor (CH), the        *)
(* memory.high of the VMM cgroup, the reservation it holds at the node,    *)
(* the guest reports and pressure events that feed it, and the capture     *)
(* that freezes all of it.                                                 *)
(*                                                                         *)
(* Amounts of memory are small numbers of pages; Step stands for           *)
(* MemoryStep.  Every exchange with CH, the cgroup and the node is a step  *)
(* of the worker, so the guest, the reporter, the sensor and a capture may *)
(* act between any two of them.  Amounts never reach the 64-bit limit: all *)
(* of them are clamped to Capacity + Overhead, so the saturating sums of   *)
(* the code are plain sums here.                                           *)
(***************************************************************************)
EXTENDS Integers, Sequences, FiniteSetsExt

CONSTANTS
    Capacity,       \* guest memory of the VM
    Headroom,       \* resources.allocatable.memory
    Step,           \* resource.MemoryStep
    Overhead,       \* resources.overhead.memory
    RatioNum,       \* watermark_high.ratio is RatioNum / RatioDen
    RatioDen,
    InitialBudget,  \* budget admitted for a cold start
    Snapshots,      \* balloon <<target, current>> pairs a snapshot may hold
    ColdModes,      \* cold start: {TRUE} with a node controller, {FALSE} static, or both
    RestoreModes,   \* the same for a restored sandbox
    Avails,         \* values of MemAvailable a report may carry
    HostCharges,    \* values memory.current may have when memory.high is set
    QueueCap,       \* capacity of reportEvents and pressureEvents
    MaxReports,     \* bound: sequence numbers of reports
    MaxDisturbances \* bound: pressure events, autonomous deflates, failed exchanges and captures

ASSUME MemoryAssumption ==
    /\ Capacity \in Nat \ {0} /\ Step \in 1..Capacity /\ Overhead \in Nat
    /\ Headroom \in 1..Capacity /\ InitialBudget \in 1..Capacity
    /\ (Capacity - InitialBudget) % Step = 0
    /\ RatioDen \in Nat \ {0} /\ RatioNum \in 0..(RatioDen - 1)
    /\ Snapshots \subseteq (0..(Capacity - 1)) \X (0..(Capacity - 1))
    /\ ColdModes \cup RestoreModes \subseteq BOOLEAN /\ Avails \subseteq Nat /\ HostCharges \subseteq Nat
    /\ QueueCap \in Nat /\ MaxReports \in Nat /\ MaxDisturbances \in Nat

VARIABLES
    ch,      \* CH: accepted balloon target, actual guest memory, guest worker
    bal,     \* BalloonState as cached by BalloonController
    resv,    \* reservation: local baseline, node's record, connection
    txn,     \* memoryTransaction
    ctl,     \* the other fields of MemoryController
    rep,     \* report barrier, accepted sequence, queue
    press,   \* pressureEvents
    w,       \* the worker: step and locals of the handler it runs
    gate,    \* holder of mutationGate
    high,    \* memory.high and the memory.current it was last raised to
    cap,     \* the capture
    left     \* what remains of MaxDisturbances

vars == <<ch, bal, resv, txn, ctl, rep, press, w, gate, high, cap, left>>

(***************************************************************************)
(* The arithmetic of memory.go.                                            *)
(***************************************************************************)
alignDown(v) == v - (v % Step)

BudgetFromTarget(target) == Capacity - Min({target, Capacity})

TargetForBudget(budget) == alignDown(Capacity - Min({budget, Capacity}))

\* Mutant: a partial grant is rounded up to a representable budget.
alignedBudgetRoundsUp(r) == BudgetFromTarget(TargetForBudget(r))

alignedBudgetAtMostReservation(r) ==
    LET raw == Capacity - Min({r, Capacity})
        up == raw + ((Step - (raw % Step)) % Step)
    IN  IF up > Capacity THEN 0 ELSE BudgetFromTarget(up)

CalculateMemoryBudget(target, current, avail) ==
    LET demand == Max({0, current - avail})
        raw == Min({demand + Headroom, Capacity})
    IN  [demand |-> demand,
         requested |-> BudgetFromTarget(TargetForBudget(raw)),
         target |-> BudgetFromTarget(target),
         observed |-> Max({current, BudgetFromTarget(target)})]

shrinkTargetLimit(accepted, current) ==
    Min({Capacity, accepted + Step, Capacity - current + Step})

\* The next balloon target of a one-step shrink, or the accepted one when
\* the deadband or the actual balloon forbids a step.
NextShrinkTarget(accepted, current, requested) ==
    LET desired == TargetForBudget(requested)
        next == alignDown(Min({desired, shrinkTargetLimit(accepted, current)}))
    IN  IF desired - accepted <= Step THEN accepted ELSE Max({next, accepted})

MaxHigh == Capacity + Overhead + 1    \* "max" in memory.high

CalculateMemoryHigh(budget, demand, host) ==
    LET b == Min({budget, Capacity})
        granted == b - Min({demand, b})
        fraction == (granted * (RatioDen - RatioNum) + RatioDen - 1) \div RatioDen
        reserve == Min({granted, Max({fraction, Min({granted, Step})})})
    IN  Min({Capacity + Overhead, Max({Overhead + b - reserve, host})})

(***************************************************************************)
(* State.                                                                  *)
(***************************************************************************)
NoTxn == [kind |-> "none"]
NoStall == [seq |-> 0, target |-> 0, actual |-> 0]
NoObs == [target |-> 0, current |-> 0]

\* The worker at rest: no handler runs.  before is -1 outside a pressure
\* handler; stall says that a report handler ends in retryStalledBalloon.
Idle == [pc |-> "idle", op |-> "none", report |-> [seq |-> 0, avail |-> 0],
         seen |-> NoObs, obs |-> NoObs, budget |-> 0, before |-> -1,
         stall |-> FALSE, prev |-> NoStall]

Grow(objective, demand, urgency) ==
    [kind |-> "grow", objective |-> objective, demand |-> demand,
     urgency |-> urgency, budget |-> 0, target |-> 0, change |-> FALSE,
     highApplied |-> FALSE, cool |-> FALSE]

Shrink(target, demand, seq, obs, change) ==
    [kind |-> "shrink", target |-> target, budget |-> BudgetFromTarget(target),
     demand |-> demand, seq |-> seq, obs |-> obs, change |-> change,
     accepted |-> ~change, highApplied |-> FALSE, highBudget |-> 0, repair |-> 0]

\* last is the demand of the latest report, -1 before one; life is the
\* worker's context.
Ctl(dyn, norm, safe) ==
    [dyn |-> dyn, norm |-> norm, safe |-> safe, last |-> -1, fence |-> 0,
     floor |-> 0, low |-> 0, stall |-> NoStall, life |-> "running"]

\* SeedColdTarget and StartCold: CH runs with the command line's target, its
\* actual size is unknown, and reports are accepted at once.
InitCold ==
    LET target == Capacity - InitialBudget
    IN  /\ ch = [target |-> target, actual |-> Capacity, awake |-> TRUE]
        /\ bal = [desired |-> target, accepted |-> target, current |-> 0]
        /\ resv = [local |-> InitialBudget, node |-> InitialBudget, conn |-> TRUE]
        /\ \E dyn \in ColdModes : ctl = Ctl(dyn, FALSE, 0)
        /\ rep = [open |-> TRUE, seq |-> 0, queue |-> <<>>]

\* SeedRestoredState and StartRestore: both balloon sides come from the
\* snapshot, the reservation is BudgetAtSnapshot, and SafeTarget must be
\* accepted before reports are.
InitRestore ==
    \E s \in Snapshots :
        LET safe == Min({s[1], s[2]})
        IN  /\ ch = [target |-> s[1], actual |-> Capacity - s[2], awake |-> TRUE]
            /\ bal = [desired |-> s[1], accepted |-> s[1], current |-> Capacity - s[2]]
            /\ resv = [local |-> Capacity - safe, node |-> Capacity - safe, conn |-> TRUE]
            /\ \E dyn \in RestoreModes : ctl = Ctl(dyn, TRUE, safe)
            /\ rep = [open |-> FALSE, seq |-> 0, queue |-> <<>>]

Init ==
    /\ InitCold \/ InitRestore
    /\ txn = NoTxn /\ press = <<>> /\ w = Idle /\ gate = "free"
    /\ high = [val |-> MaxHigh, host |-> 0]
    /\ cap = [pc |-> "idle", prev |-> 0]
    /\ left = MaxDisturbances

(***************************************************************************)
(* Cloud Hypervisor and the guest balloon driver (external).  An exchange  *)
(* fails when the worker's context is cancelled, or as a fault; a failed   *)
(* resize may have been applied.  After the cancellation nobody looks at   *)
(* the guest any more, so it stands still.                                 *)
(***************************************************************************)
VmInfo == [bal EXCEPT !.accepted = ch.target, !.current = ch.actual]
Seen == [target |-> ch.target, current |-> ch.actual]

Reachable == ctl.life = "running"
CanFail == ~Reachable \/ left > 0
Fail == IF Reachable THEN left - 1 ELSE left

\* The guest driver moves its balloon one page towards the target.
GuestBalloon ==
    /\ Reachable /\ ch.awake /\ ch.actual # BudgetFromTarget(ch.target)
    /\ ch' = [ch EXCEPT !.actual = IF @ < BudgetFromTarget(ch.target) THEN @ + 1 ELSE @ - 1]
    /\ UNCHANGED <<bal, resv, txn, ctl, rep, press, w, gate, high, cap, left>>

\* deflate_on_oom: the guest takes memory back by itself, after which its
\* driver may wait for another notification.
GuestDeflates ==
    /\ Reachable /\ left > 0 /\ ch.actual < Capacity
    /\ left' = left - 1
    /\ \E a \in (ch.actual + 1)..Capacity, awake \in BOOLEAN :
           ch' = [ch EXCEPT !.actual = a, !.awake = awake]
    /\ UNCHANGED <<bal, resv, txn, ctl, rep, press, w, gate, high, cap>>

(***************************************************************************)
(* Producers: guest reports and the pressure sensor.                       *)
(***************************************************************************)
\* A report behind the barrier is held by the guest; a duplicate or stale one
\* changes nothing; a full queue drops the report but keeps its number.
SubmitGuestReport ==
    /\ Reachable /\ rep.open
    /\ \E s \in (rep.seq + 1)..MaxReports, a \in Avails :
           rep' = [rep EXCEPT !.seq = s,
                              !.queue = IF Len(@) < QueueCap
                                        THEN Append(@, [seq |-> s, avail |-> a]) ELSE @]
    /\ UNCHANGED <<ch, bal, resv, txn, ctl, press, w, gate, high, cap, left>>

\* Urgencies one tick of the OOM sidecar dispatches.
dispatchPSISidecar(dHigh, dOOM, recentPSI) ==
    (IF dOOM THEN {"high"} ELSE {})
        \cup (IF dHigh /\ ~recentPSI /\ ~dOOM THEN {"normal"} ELSE {})

\* Urgencies one tick of the events_poll mode dispatches.
runEventsPoll(dHigh, dOOM, near) ==
    CASE dOOM -> {"high"} [] ~dOOM /\ dHigh -> {"normal"}
      [] ~dOOM /\ ~dHigh /\ near -> {"low"} [] OTHER -> {}

RequestPressureGrow ==
    /\ Reachable /\ left > 0
    /\ left' = left - 1
    /\ \E dHigh, dOOM, x \in BOOLEAN :
       \E u \in dispatchPSISidecar(dHigh, dOOM, x) \cup runEventsPoll(dHigh, dOOM, x) :
           press' = IF Len(press) < QueueCap THEN Append(press, u) ELSE press
    /\ UNCHANGED <<ch, bal, resv, txn, ctl, rep, w, gate, high, cap>>

(***************************************************************************)
(* Ends of a handler.  The gate is released by a deferred call.            *)
(***************************************************************************)
GateReleased == IF gate = "worker" THEN "free" ELSE gate

\* The handler returns without an error: processPressureLocked then raises
\* its floor to the budget that CH accepted.
Returns(accepted) ==
    LET after == BudgetFromTarget(accepted)
    IN  /\ w' = Idle /\ gate' = GateReleased
        /\ ctl' = [ctl EXCEPT !.floor =
                      IF w.before >= 0 /\ after > w.before THEN Max({@, after}) ELSE @]

ReturnsError == w' = Idle /\ gate' = GateReleased /\ UNCHANGED ctl

\* A settlement ends; a report handler goes on to retryStalledBalloon.
ShrinkReturns(fence) ==
    /\ gate' = GateReleased
    /\ w' = IF w.stall THEN [w EXCEPT !.pc = "stall"] ELSE Idle
    /\ ctl' = [ctl EXCEPT !.fence = fence]

\* finishShrinkLocked: reports accepted up to now cannot authorise another
\* inflate after a change of target.
FenceAfter(t) == IF t.change THEN Max({ctl.fence, rep.seq, t.seq}) ELSE ctl.fence

superseded == rep.seq > txn.seq

(***************************************************************************)
(* Report handler: one vm.info, then the decision.                         *)
(***************************************************************************)
upgradeGrowCause(t, urgency) ==
    IF urgency = "high" \/ (t.urgency = "low" /\ urgency = "normal")
    THEN [t EXCEPT !.urgency = urgency, !.cool = @ /\ t.urgency = urgency]
    ELSE t

\* startGrowLocked, given the balloon target CH has accepted.  A retained
\* grow is extended; any other transaction is replaced.
startGrow(accepted, requested, demand, urgency) ==
    IF txn.kind = "grow"
    THEN upgradeGrowCause([txn EXCEPT !.objective = Max({@, requested}),
                                      !.demand = Max({@, demand})], urgency)
    ELSE IF requested <= BudgetFromTarget(accepted) THEN NoTxn
    ELSE Grow(requested, demand, urgency)

Advancing(x) == [Idle EXCEPT !.pc = IF x.kind = "none" THEN "return" ELSE "advance"]

\* A report while a shrink is pending turns it into a grow, discards it, or
\* refreshes what it rests on.
reportDuringShrink(r, b) ==
    \/ /\ b.requested > txn.budget
       /\ txn' = startGrow(ch.target, b.requested, b.demand, "normal")
       /\ bal' = VmInfo /\ w' = Advancing(txn')
       /\ ctl' = [ctl EXCEPT !.last = b.demand]
    \/ /\ b.requested <= txn.budget /\ b.observed > resv.local
       /\ bal' = [VmInfo EXCEPT !.desired = ch.target]
       /\ txn' = NoTxn /\ w' = Idle
       /\ ctl' = [ctl EXCEPT !.last = b.demand, !.fence = FenceAfter(txn)]
    \/ /\ b.requested <= txn.budget /\ b.observed <= resv.local
       /\ txn' = [txn EXCEPT !.demand = Max({@, b.demand}),
                             !.highApplied = @ /\ b.demand <= txn.demand,
                             !.seq = r.seq, !.repair = ch.actual,
                             !.obs = IF txn.accepted THEN @ ELSE Seen]
       /\ bal' = VmInfo /\ w' = Advancing(txn')
       /\ ctl' = [ctl EXCEPT !.last = b.demand]

reportDuringGrow(b) ==
    LET larger == [txn EXCEPT !.objective = Max({@, b.requested}),
                              !.demand = Max({@, b.demand}),
                              !.highApplied = @ /\ ~(txn.change /\ b.demand > txn.demand)]
    IN  /\ txn' = upgradeGrowCause(larger, "normal")
        /\ bal' = VmInfo /\ w' = Advancing(txn')
        /\ ctl' = [ctl EXCEPT !.last = b.demand]

\* No transaction is pending and the report needs no grow: below the pressure
\* floor a second fresh low report is awaited; an uncovered observation only
\* leads to retryStalledBalloon; otherwise the budget is shrunk by a step or
\* settled as observed.
reportIdle(r, b) ==
    LET low == ctl.floor # 0 /\ b.requested < ctl.floor
        first == low /\ ctl.low = 0
        next == NextShrinkTarget(ch.target, ch.actual, b.requested)
        seen == [ctl EXCEPT !.last = b.demand]
        unfloored == [seen EXCEPT !.floor = IF low THEN 0 ELSE @, !.low = 0]
        stepping == next > ch.target /\ r.seq > ctl.fence
    IN  /\ bal' = VmInfo
        /\ \/ /\ rep.seq > r.seq
              /\ ctl' = seen /\ w' = Idle /\ UNCHANGED txn
           \/ /\ rep.seq = r.seq /\ first
              /\ ctl' = [seen EXCEPT !.low = r.seq] /\ w' = Idle /\ UNCHANGED txn
           \/ /\ rep.seq = r.seq /\ ~first /\ ctl' = unfloored
              /\ IF b.observed > resv.local
                 THEN w' = [w EXCEPT !.pc = "stall", !.seen = Seen, !.report.avail = 0] /\ UNCHANGED txn
                 ELSE /\ txn' = IF stepping
                                THEN Shrink(next, b.demand, r.seq, Seen, TRUE)
                                ELSE Shrink(ch.target, b.demand, r.seq, NoObs, FALSE)
                      /\ w' = IF stepping THEN Advancing(txn')
                               ELSE [w EXCEPT !.pc = "advance", !.seen = Seen, !.stall = TRUE,
                                              !.report.avail = 0]

TakeReport ==
    /\ w.pc = "idle" /\ ctl.life # "done" /\ rep.queue # <<>>
    /\ rep' = [rep EXCEPT !.queue = Tail(@)]
    /\ ctl' = [ctl EXCEPT !.stall = NoStall]
    /\ w' = IF ctl.norm THEN Idle
            ELSE [Idle EXCEPT !.pc = "observe", !.report = Head(rep.queue), !.prev = ctl.stall]
    /\ UNCHANGED <<ch, bal, resv, txn, press, gate, high, cap, left>>

processReport ==
    LET r == w.report
        b == CalculateMemoryBudget(ch.target, ch.actual, r.avail)
    IN  /\ w.pc = "observe" /\ Reachable
        /\ CASE txn.kind = "shrink" -> reportDuringShrink(r, b)
             [] txn.kind = "grow" -> reportDuringGrow(b)
             [] txn.kind = "none" /\ b.requested > b.target ->
                    /\ txn' = startGrow(ch.target, b.requested, b.demand, "normal")
                    /\ bal' = VmInfo /\ w' = Advancing(txn')
                    /\ ctl' = [ctl EXCEPT !.last = b.demand]
             [] OTHER -> reportIdle(r, b)
        /\ UNCHANGED <<ch, resv, rep, press, gate, high, cap, left>>

(***************************************************************************)
(* Pressure handler and the reconcile tick.                                *)
(***************************************************************************)
processPressure ==
    LET accepted == BudgetFromTarget(bal.accepted)
        current == IF txn.kind = "grow" THEN Max({accepted, txn.objective}) ELSE accepted
        want == Min({current + Step, Capacity})
        demand == IF ctl.last >= 0 THEN ctl.last ELSE want
    IN  /\ w.pc = "idle" /\ ctl.life # "done" /\ press # <<>>
        /\ press' = Tail(press)
        /\ ctl' = [ctl EXCEPT !.stall = NoStall, !.low = 0]
        /\ IF ctl.norm \/ want <= current
           THEN UNCHANGED <<txn, w>>
           ELSE /\ txn' = startGrow(bal.accepted, want, demand, Head(press))
                /\ w' = [Idle EXCEPT !.pc = "advance", !.before = current]
        /\ UNCHANGED <<ch, bal, resv, rep, gate, high, cap, left>>

\* retryLocked on a tick.
Tick ==
    /\ w.pc = "idle" /\ Reachable
    /\ \/ ctl.norm /\ w' = [Idle EXCEPT !.pc = "gate", !.op = "norm"]
       \/ ~ctl.norm /\ txn # NoTxn /\ w' = [Idle EXCEPT !.pc = "advance"]
    /\ UNCHANGED <<ch, bal, resv, txn, ctl, rep, press, gate, high, cap, left>>

HandlerEnds ==
    /\ w.pc = "return" /\ Returns(bal.accepted)
    /\ UNCHANGED <<ch, bal, resv, txn, rep, press, high, cap, left>>

(***************************************************************************)
(* The node reservation.                                                   *)
(***************************************************************************)
\* RequestBudget in dynamic mode: the exchange succeeds with a partial grant,
\* or fails before or after the node recorded it.  A failure of a shrink
\* leaves the smaller baseline, a failure of a grow the old one.
Granted(current, g) == [local |-> current + g, node |-> current + g, conn |-> TRUE]
Lost(current, delta, g) ==
    {[local |-> IF delta = 0 THEN Min({current, resv.local}) ELSE resv.local,
      node |-> n, conn |-> FALSE] : n \in {resv.node, current + g}}

\* reconnectLoop: StateSync gives the node the local baseline.
StateSync ==
    /\ ctl.dyn /\ ~resv.conn /\ Reachable
    /\ resv' = [resv EXCEPT !.node = resv.local, !.conn = TRUE]
    /\ UNCHANGED <<ch, bal, txn, ctl, rep, press, w, gate, high, cap, left>>

(***************************************************************************)
(* Advancing a transaction.                                                *)
(***************************************************************************)
\* The representable part of the reservation that a grow may apply next.
Prepare(t, reservation) ==
    LET b == alignedBudgetAtMostReservation(Min({reservation, t.objective}))
    IN  IF b <= BudgetFromTarget(bal.accepted) THEN t
        ELSE [t EXCEPT !.budget = b, !.target = TargetForBudget(b),
                       !.change = TRUE, !.highApplied = FALSE]

\* advanceGrowLocked up to the reservation request: finish a prepared step,
\* end a reached objective, wait out a cooldown, ask for more, or apply what
\* the present reservation covers.
advanceGrow ==
    /\ w.pc = "advance" /\ txn.kind = "grow"
    /\ IF txn.change
       THEN w' = [w EXCEPT !.pc = "gate", !.op = "grow"] /\ UNCHANGED <<txn, ctl, gate>>
       ELSE IF BudgetFromTarget(bal.accepted) >= txn.objective
       THEN txn' = NoTxn /\ Returns(bal.accepted)
       ELSE \/ /\ txn.objective > resv.local
               /\ \/ txn.cool /\ Returns(bal.accepted)
                  \/ w' = [w EXCEPT !.pc = "request"] /\ UNCHANGED <<ctl, gate>>
               /\ UNCHANGED txn
            \/ /\ txn.objective <= resv.local
               /\ txn' = Prepare(txn, resv.local)
               /\ IF txn'.change THEN w' = [w EXCEPT !.pc = "gate", !.op = "grow"] /\ UNCHANGED <<ctl, gate>>
                  ELSE Returns(bal.accepted)
    /\ UNCHANGED <<ch, bal, resv, rep, press, high, cap, left>>

\* requestReservation for a grow.
requestReservation ==
    LET delta == txn.objective - resv.local
    IN  /\ w.pc = "request"
        /\ \/ /\ ~ctl.dyn \/ (resv.conn /\ Reachable)
              /\ \E g \in (IF ctl.dyn THEN 0..delta ELSE {delta}), cool \in BOOLEAN :
                    /\ cool => g < delta
                    /\ resv' = Granted(resv.local, g)
                    /\ txn' = IF g = 0 THEN [txn EXCEPT !.cool = cool]
                              ELSE Prepare([txn EXCEPT !.cool = cool], resv.local + g)
                    /\ IF txn'.change
                       THEN w' = [w EXCEPT !.pc = "gate", !.op = "grow"] /\ UNCHANGED <<ctl, gate>>
                       ELSE Returns(bal.accepted)
              /\ UNCHANGED left
           \/ /\ ctl.dyn /\ resv.conn /\ CanFail
              /\ left' = Fail
              /\ \E g \in 0..delta : resv' \in Lost(resv.local, delta, g)
              /\ ReturnsError /\ UNCHANGED txn
           \/ /\ ctl.dyn /\ ~resv.conn
              /\ ReturnsError /\ UNCHANGED <<resv, txn, left>>
        /\ UNCHANGED <<ch, bal, rep, press, high, cap>>

\* advanceShrinkLocked before the gate.
advanceShrink ==
    /\ w.pc = "advance" /\ txn.kind = "shrink"
    /\ IF superseded THEN ShrinkReturns(ctl.fence)
       ELSE w' = [w EXCEPT !.pc = "gate", !.op = "shrink"] /\ UNCHANGED <<ctl, gate>>
    /\ UNCHANGED <<ch, bal, resv, txn, rep, press, high, cap, left>>

\* acquireMutation and what follows it before the next exchange.
acquireMutation ==
    /\ w.pc = "gate" /\ gate = "free"
    /\ \/ /\ w.op = "grow"
          /\ gate' = "worker"
          /\ IF txn.highApplied
             THEN bal' = [bal EXCEPT !.desired = txn.target] /\ w' = [w EXCEPT !.pc = "pre"]
             ELSE UNCHANGED bal /\ w' = [w EXCEPT !.pc = "high"]
          /\ UNCHANGED ctl
       \/ /\ w.op = "norm"
          /\ gate' = "worker" /\ bal' = [bal EXCEPT !.desired = ctl.safe]
          /\ w' = [w EXCEPT !.pc = "pre"] /\ UNCHANGED ctl
       \/ /\ w.op = "shrink" /\ superseded
          /\ ShrinkReturns(ctl.fence) /\ UNCHANGED bal
       \/ /\ w.op = "shrink" /\ ~superseded
          /\ gate' = "worker"
          /\ IF txn.accepted THEN UNCHANGED bal /\ w' = [w EXCEPT !.pc = "settle"]
             ELSE bal' = [bal EXCEPT !.desired = txn.target] /\ w' = [w EXCEPT !.pc = "pre"]
          /\ UNCHANGED ctl
       \/ /\ w.op = "stall"
          /\ gate' = "worker" /\ w' = [w EXCEPT !.pc = "stallPre"] /\ UNCHANGED <<bal, ctl>>
    /\ UNCHANGED <<ch, resv, txn, rep, press, high, cap, left>>

\* applyMemoryHigh under the lifecycle lock: a grow only raises the value.
HighSet(budget, demand, grow) ==
    \E host \in HostCharges :
        LET h == CalculateMemoryHigh(budget, demand, host)
        IN  high' = IF grow /\ high.val >= h THEN high ELSE [val |-> h, host |-> host]

\* A capture keeps the lifecycle lock while memory.high is lifted.
HighLockFree == cap.pc \notin {"lifted", "destroyed"}

growHigh ==
    /\ w.pc = "high" /\ w.op = "grow" /\ HighLockFree
    /\ HighSet(txn.budget, txn.demand, TRUE)
    /\ txn' = [txn EXCEPT !.highApplied = TRUE]
    /\ bal' = [bal EXCEPT !.desired = txn.target]
    /\ w' = [w EXCEPT !.pc = "pre"]
    /\ UNCHANGED <<ch, resv, ctl, rep, press, gate, cap, left>>

(***************************************************************************)
(* applyDesiredHeldMode: vm.info, vm.resize, vm.info, under the gate.      *)
(***************************************************************************)
\* CH has confirmed the desired target.
Confirmed ==
    \/ /\ w.op = "grow"
       /\ txn' = IF txn.budget >= txn.objective THEN NoTxn ELSE [txn EXCEPT !.change = FALSE]
       /\ Returns(ch.target) /\ UNCHANGED rep
    \/ /\ w.op = "norm"
       /\ ctl' = [ctl EXCEPT !.norm = FALSE] /\ rep' = [rep EXCEPT !.open = TRUE]
       /\ w' = Idle /\ gate' = GateReleased /\ UNCHANGED txn
    \/ /\ w.op = "shrink"
       /\ txn' = [txn EXCEPT !.accepted = TRUE]
       /\ w' = [w EXCEPT !.pc = "settled", !.obs = Seen] /\ UNCHANGED <<ctl, gate, rep>>

\* The decision a shrink rests on no longer holds.
shrinkChanged ==
    \/ ch.target # txn.obs.target \/ ch.actual > txn.obs.current
    \/ bal.desired <= ch.target \/ bal.desired > shrinkTargetLimit(ch.target, ch.actual)

observeBeforeResize ==
    /\ w.pc = "pre"
    /\ \/ /\ Reachable /\ ch.target = bal.desired
          /\ bal' = VmInfo /\ Confirmed /\ UNCHANGED left
       \/ /\ Reachable /\ ch.target # bal.desired /\ w.op = "shrink" /\ shrinkChanged
          /\ bal' = [VmInfo EXCEPT !.desired = ch.target]
          /\ txn' = NoTxn /\ ShrinkReturns(FenceAfter(txn)) /\ UNCHANGED <<rep, left>>
       \/ /\ Reachable /\ ch.target # bal.desired /\ ~(w.op = "shrink" /\ shrinkChanged)
          /\ bal' = VmInfo
          /\ w' = [w EXCEPT !.pc = "resize"] /\ UNCHANGED <<txn, ctl, gate, rep, left>>
       \/ /\ CanFail /\ w.op # "shrink"
          /\ left' = Fail
          /\ w' = [w EXCEPT !.pc = "resize"] /\ UNCHANGED <<bal, txn, ctl, gate, rep>>
    /\ UNCHANGED <<ch, resv, press, high, cap>>

callResize ==
    /\ w.pc = "resize"
    /\ w' = [w EXCEPT !.pc = "post"]
    /\ LET resized == [ch EXCEPT !.target = bal.desired, !.awake = TRUE]
       IN  \/ Reachable /\ ch' = resized /\ bal' = [bal EXCEPT !.accepted = bal.desired] /\ UNCHANGED left
           \/ CanFail /\ ch' \in {ch, resized} /\ left' = Fail /\ UNCHANGED bal
    /\ UNCHANGED <<resv, txn, ctl, rep, press, gate, high, cap>>

\* Mutant: an answer of vm.resize needs no confirmation.
observeAfterResizeTrusting ==
    /\ w.pc = "post"
    /\ \/ Reachable /\ bal' = VmInfo /\ Confirmed /\ UNCHANGED left
       \/ CanFail /\ left' = Fail /\ Confirmed /\ UNCHANGED bal
    /\ UNCHANGED <<ch, resv, press, high, cap>>

observeAfterResize ==
    /\ w.pc = "post"
    /\ \/ /\ Reachable /\ ch.target = bal.desired
          /\ bal' = VmInfo /\ Confirmed /\ UNCHANGED left
       \/ /\ Reachable /\ ch.target # bal.desired
          /\ bal' = VmInfo /\ ReturnsError /\ UNCHANGED <<txn, rep, left>>
       \/ /\ CanFail /\ left' = Fail
          /\ ReturnsError /\ UNCHANGED <<bal, txn, rep>>
    /\ UNCHANGED <<ch, resv, press, high, cap>>

(***************************************************************************)
(* Settlement of an observed budget: memory.high, confirmation, reservation*)
(***************************************************************************)
observeAccepted ==
    /\ w.pc = "settle" /\ Reachable
    /\ bal' = VmInfo
    /\ IF txn.change /\ ch.target # txn.target
       THEN txn' = [txn EXCEPT !.accepted = FALSE] /\ ReturnsError
       ELSE w' = [w EXCEPT !.pc = "settled", !.obs = Seen] /\ UNCHANGED <<txn, ctl, gate>>
    /\ UNCHANGED <<ch, resv, rep, press, high, cap, left>>

\* memory.high stands for the observed budget b: confirm before returning the
\* reservation above it, or end the transaction.
HighStands(b) ==
    IF resv.local > b
    THEN w' = [w EXCEPT !.pc = "confirm", !.budget = b] /\ UNCHANGED <<ctl, gate>>
    ELSE ShrinkReturns(FenceAfter(txn))

settleObserved ==
    LET b == Max({w.obs.current, BudgetFromTarget(w.obs.target)})
    IN  /\ w.pc = "settled"
        /\ \/ b > resv.local /\ txn' = NoTxn /\ ShrinkReturns(FenceAfter(txn))
           \/ b <= resv.local /\ superseded /\ ShrinkReturns(ctl.fence) /\ UNCHANGED txn
           \/ /\ b <= resv.local /\ ~superseded /\ (~txn.highApplied \/ txn.highBudget # b)
              /\ w' = [w EXCEPT !.pc = "high", !.budget = b] /\ UNCHANGED <<txn, ctl, gate>>
           \/ /\ b <= resv.local /\ ~superseded /\ txn.highApplied /\ txn.highBudget = b
              /\ HighStands(b)
              /\ txn' = IF resv.local > b THEN txn ELSE NoTxn
        /\ UNCHANGED <<ch, bal, resv, rep, press, high, cap, left>>

shrinkHigh ==
    /\ w.pc = "high" /\ w.op = "shrink" /\ HighLockFree
    /\ HighSet(w.budget, txn.demand, FALSE)
    /\ HighStands(w.budget)
    /\ txn' = IF resv.local > w.budget
              THEN [txn EXCEPT !.highApplied = TRUE, !.highBudget = w.budget] ELSE NoTxn
    /\ UNCHANGED <<ch, bal, resv, rep, press, cap, left>>

\* The second vm.info: an increase or an unexpected target leads to the
\* repair of memory.high, with the demand charged for the rebound.
confirmBeforeRelease ==
    LET current == Max({ch.actual, BudgetFromTarget(ch.target)})
        same == ch.target = w.obs.target
        budget == IF same /\ current <= resv.local THEN current ELSE resv.local
        baseline == Max({w.obs.current, txn.repair})
    IN  /\ w.pc = "confirm" /\ Reachable
        /\ bal' = VmInfo
        /\ \/ /\ ~same \/ current > w.budget
              /\ txn' = [txn EXCEPT !.highApplied = FALSE,
                                    !.demand = Min({@ + Max({0, ch.actual - baseline}), budget}),
                                    !.repair = Max({baseline, ch.actual})]
              /\ w' = [w EXCEPT !.pc = "repair", !.budget = budget] /\ UNCHANGED <<ctl, gate>>
           \/ /\ same /\ current <= w.budget
              /\ IF superseded THEN ShrinkReturns(ctl.fence)
                 ELSE /\ w' = [w EXCEPT !.pc = "commit"]
                      /\ gate' = IF ctl.dyn THEN "free" ELSE gate
                      /\ UNCHANGED ctl
              /\ UNCHANGED txn
        /\ UNCHANGED <<ch, resv, rep, press, high, cap, left>>

repairHigh ==
    /\ w.pc = "repair" /\ HighLockFree
    /\ HighSet(w.budget, txn.demand, TRUE) /\ ReturnsError
    /\ UNCHANGED <<ch, bal, resv, txn, rep, press, cap, left>>

shrinkCommit ==
    /\ w.pc = "commit"
    /\ \/ /\ ~ctl.dyn \/ (resv.conn /\ Reachable)
          /\ resv' = Granted(w.budget, 0)
          /\ txn' = NoTxn /\ ShrinkReturns(FenceAfter(txn)) /\ UNCHANGED left
       \/ /\ ctl.dyn /\ resv.conn /\ CanFail /\ left' = Fail
          /\ resv' \in Lost(w.budget, 0, 0) /\ ReturnsError /\ UNCHANGED txn
       \/ ctl.dyn /\ ~resv.conn /\ ReturnsError /\ UNCHANGED <<resv, txn, left>>
    /\ UNCHANGED <<ch, bal, rep, press, high, cap>>

(***************************************************************************)
(* retryStalledBalloonLocked: the same target is asked again when two      *)
(* fresh reports in a row saw the same unreached balloon.                  *)
(***************************************************************************)
stillCurrent ==
    /\ ~ctl.norm /\ txn = NoTxn /\ ctl.floor = 0 /\ press = <<>>
    /\ BudgetFromTarget(w.seen.target) <= resv.local
    /\ w.report.seq > ctl.fence /\ rep.seq = w.report.seq

Stalled(target, actual, desired) ==
    desired = target /\ Capacity - actual < target

retryStalledBalloon ==
    LET s == w.seen
        again == /\ w.prev.seq \in 1..(w.report.seq - 1)
                 /\ w.prev.target = s.target /\ w.prev.actual = s.current
        eligible == /\ Stalled(s.target, s.current, bal.desired)
                    /\ bal.accepted = s.target /\ bal.current = s.current /\ stillCurrent
    IN  /\ w.pc = "stall"
        /\ w' = IF eligible /\ again THEN [w EXCEPT !.pc = "gate", !.op = "stall"] ELSE Idle
        /\ ctl' = IF eligible /\ ~again
                  THEN [ctl EXCEPT !.stall = [seq |-> w.report.seq, target |-> s.target, actual |-> s.current]]
                  ELSE ctl
        /\ UNCHANGED <<ch, bal, resv, txn, rep, press, gate, high, cap, left>>

retryAcceptedTarget ==
    /\ w.pc = "stallPre" /\ Reachable
    /\ bal' = VmInfo
    /\ ch' = IF /\ ch.target = w.seen.target /\ ch.actual = w.seen.current
                /\ Stalled(ch.target, ch.actual, bal.desired) /\ stillCurrent
             THEN [ch EXCEPT !.awake = TRUE] ELSE ch
    /\ ReturnsError
    /\ UNCHANGED <<resv, txn, rep, press, high, cap, left>>

(***************************************************************************)
(* Errors that end a handler: a failed vm.info, a cancelled wait for the   *)
(* gate, a cgroup file that cannot be locked, read or written.             *)
(***************************************************************************)
ExchangeFails ==
    /\ \/ w.pc \in {"observe", "settle", "confirm", "stallPre", "high", "repair"} /\ CanFail
       \/ w.pc = "pre" /\ w.op = "shrink" /\ CanFail
       \/ w.pc = "gate" /\ ~Reachable
    /\ left' = Fail /\ ReturnsError
    /\ UNCHANGED <<ch, bal, resv, txn, rep, press, high, cap>>

\* Stop cancels the worker's context and waits for the loop.
Stop ==
    /\ ctl.life = "running" /\ ctl' = [ctl EXCEPT !.life = "cancelled"]
    /\ UNCHANGED <<ch, bal, resv, txn, rep, press, w, gate, high, cap, left>>

loopEnds ==
    /\ ctl.life = "cancelled" /\ w.pc = "idle" /\ ctl' = [ctl EXCEPT !.life = "done"]
    /\ UNCHANGED <<ch, bal, resv, txn, rep, press, w, gate, high, cap, left>>

(***************************************************************************)
(* A capture: the gate, then the lifecycle lock and memory.high lifted.    *)
(***************************************************************************)
BeginSnapshot ==
    /\ cap.pc = "idle" /\ left > 0 /\ gate = "free"
    /\ gate' = "capture" /\ cap' = [cap EXCEPT !.pc = "begun"]
    /\ left' = left - 1
    /\ UNCHANGED <<ch, bal, resv, txn, ctl, rep, press, w, high>>

liftVMMMemoryHigh ==
    /\ cap.pc = "begun"
    /\ \/ /\ cap' = [pc |-> "lifted", prev |-> high.val]
          /\ high' = [high EXCEPT !.val = MaxHigh] /\ UNCHANGED left
       \/ /\ left > 0 /\ left' = left - 1
          /\ cap' = [cap EXCEPT !.pc = "restored"] /\ UNCHANGED high
    /\ UNCHANGED <<ch, bal, resv, txn, ctl, rep, press, w, gate>>

\* A failed or resumed capture puts the value back while the file says max;
\* a destroying one keeps the lock and the gate until CH has exited.
restoreVMMMemoryHigh ==
    /\ cap.pc = "lifted"
    /\ \/ /\ cap' = [pc |-> "restored", prev |-> 0]
          /\ high' = IF high.val = MaxHigh THEN [high EXCEPT !.val = cap.prev] ELSE high
       \/ cap' = [pc |-> "destroyed", prev |-> 0] /\ UNCHANGED high
    /\ UNCHANGED <<ch, bal, resv, txn, ctl, rep, press, w, gate, left>>

releaseMemoryBarrier ==
    /\ cap.pc = "restored"
    /\ cap' = [cap EXCEPT !.pc = "idle"] /\ gate' = "free"
    /\ UNCHANGED <<ch, bal, resv, txn, ctl, rep, press, w, high, left>>

Terminated == ctl.life = "done" /\ UNCHANGED vars

Next ==
    \/ GuestBalloon \/ GuestDeflates \/ SubmitGuestReport \/ RequestPressureGrow
    \/ TakeReport \/ processReport \/ processPressure \/ Tick \/ HandlerEnds
    \/ StateSync \/ advanceGrow \/ requestReservation \/ advanceShrink
    \/ acquireMutation \/ growHigh \/ observeBeforeResize \/ callResize
    \/ observeAfterResize \/ observeAccepted \/ settleObserved \/ shrinkHigh
    \/ confirmBeforeRelease \/ repairHigh \/ shrinkCommit
    \/ retryStalledBalloon \/ retryAcceptedTarget \/ ExchangeFails
    \/ Stop \/ loopEnds
    \/ BeginSnapshot \/ liftVMMMemoryHigh \/ restoreVMMMemoryHigh \/ releaseMemoryBarrier
    \/ Terminated

Spec == Init /\ [][Next]_vars

(***************************************************************************)
(* Properties.                                                             *)
(***************************************************************************)
\* What the guest may use is reserved first.  The memory that CH was told to
\* give is covered by the reservation the controller counts on, and that by
\* what the node has recorded: whatever is lost on the way, a grow is reserved
\* before it is applied and a reservation is returned after the balloon holds
\* the memory.  Once memory.high is set it never admits more than the
\* reservation, except where memory.current was already higher when it was
\* written: it is lowered before the reservation is returned and raised after
\* it is granted, also when a capture lifts and restores it in between.
WithinReservation ==
    LET val == IF cap.pc = "lifted" THEN cap.prev ELSE high.val
    IN  /\ BudgetFromTarget(ch.target) <= resv.local
        /\ resv.local <= resv.node
        /\ val = MaxHigh \/ val <= Max({Overhead + resv.local, high.host})

\* A grow that was decided stays pending until CH has the target that gives
\* the guest its objective; an ambiguous resize, a smaller report, a lost
\* grant or a capture does not drop it.  While a capture holds the barrier the
\* balloon target stands still, and nobody reinstates memory.high while the
\* capture has it lifted.
BalloonKept ==
    [][/\ txn.kind = "grow" /\ txn'.kind # "grow"
            => BudgetFromTarget(ch.target) >= txn.objective
       /\ gate = "capture" /\ gate' = "capture" => ch'.target = ch.target
       /\ cap.pc = "lifted" /\ cap'.pc = "lifted" => high' = high]_vars
==============================================================================

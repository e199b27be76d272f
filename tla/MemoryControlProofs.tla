------------------------- MODULE MemoryControlProofs -------------------------
(***************************************************************************)
(* Proofs about MemoryControl, for any sizes of the guest, of a step and   *)
(* of the overhead, any snapshots, reports and charges, and any number of  *)
(* disturbances.                                                           *)
(***************************************************************************)
EXTENDS MemoryControl, TLAPS

Observation == [target : Nat, current : Nat]

GrowTxn == [kind : {"grow"}, objective : Nat, demand : Nat,
            urgency : {"low", "normal", "high"}, budget : Nat, target : Nat, change : BOOLEAN,
            highApplied : BOOLEAN, cool : BOOLEAN]

ShrinkTxn == [kind : {"shrink"}, target : Nat, budget : Nat, demand : Nat, seq : Nat,
              obs : Observation, change : BOOLEAN, accepted : BOOLEAN, highApplied : BOOLEAN,
              highBudget : Nat, repair : Nat]

Stall == [seq : Nat, target : Nat, actual : Nat]
Report == [seq : Nat, avail : Nat]

WorkerPcs == {"idle", "observe", "return", "advance", "request", "gate", "high", "pre", "resize",
              "post", "settle", "settled", "confirm", "commit", "repair", "stall", "stallPre"}

Worker == [pc : WorkerPcs, op : {"none", "grow", "shrink", "norm", "stall"}, report : Report,
           seen : Observation, obs : Observation, budget : Nat, before : Int,
           stall : BOOLEAN, prev : Stall]

Control == [dyn : BOOLEAN, norm : BOOLEAN, safe : Nat, last : Int, fence : Nat, floor : Nat,
            low : Nat, stall : Stall, life : {"running", "cancelled", "done"}]

TypeOK ==
    /\ ch \in [target : Nat, actual : Nat, awake : BOOLEAN]
    /\ bal \in [desired : Nat, accepted : Nat, current : Nat]
    /\ resv \in [local : Nat, node : Nat, conn : BOOLEAN]
    /\ txn \in {NoTxn} \cup GrowTxn \cup ShrinkTxn
    /\ ctl \in Control
    /\ rep \in [open : BOOLEAN, seq : Nat, queue : Seq(Report)]
    /\ press \in Seq({"low", "normal", "high"})
    /\ w \in Worker
    /\ gate \in {"free", "worker", "capture"}
    /\ high \in [val : Nat, host : Nat]
    /\ cap \in [pc : {"idle", "begun", "lifted", "restored", "destroyed"}, prev : Nat]

(* What stands in memory.high, or will again when the capture ends. *)
Stands == IF cap.pc = "lifted" THEN cap.prev ELSE high.val

Admits(budget) == Stands = MaxHigh \/ Stands <= Max({Overhead + budget, high.host})

(* The handler and the transaction it works on. *)
Working ==
    /\ w.pc = "request" => txn.kind = "grow" /\ ~txn.change /\ txn.objective > resv.local
    /\ w.pc \in {"gate", "high", "pre", "resize", "post"} /\ w.op = "grow"
          => txn.kind = "grow" /\ txn.change
    /\ w.pc \in {"pre", "resize", "post"} /\ w.op = "grow" => bal.desired = txn.target
    /\ w.pc \in {"gate", "pre", "resize", "post"} /\ w.op = "shrink" => txn.kind = "shrink"
    /\ w.pc = "high" => w.op \in {"grow", "shrink"}
    /\ w.pc \in {"settle", "settled", "confirm", "commit", "repair"} => w.op = "shrink"
    /\ w.pc \in {"settle", "settled", "high", "confirm", "commit", "repair"} /\ w.op = "shrink"
          => txn.kind = "shrink"
    /\ w.pc \in {"gate", "pre", "resize", "post"} /\ w.op = "norm" => ctl.norm
    /\ w.pc \in {"pre", "resize", "post"} => w.op \in {"grow", "shrink", "norm"}
    /\ w.pc = "pre" /\ w.op = "norm" => bal.desired = ctl.safe
    /\ w.pc = "observe" => ~ctl.norm
    /\ ctl.norm => txn = NoTxn /\ BudgetFromTarget(ctl.safe) <= resv.local

(* What the worker is about to give out or to return is reserved. *)
Covered ==
    /\ BudgetFromTarget(ch.target) <= resv.local
    /\ resv.local <= resv.node
    /\ txn.kind = "grow" /\ txn.change
          => BudgetFromTarget(txn.target) = txn.budget /\ txn.budget <= resv.local
    /\ w.pc = "resize" => BudgetFromTarget(bal.desired) <= resv.local
    /\ w.pc = "high" /\ w.op = "shrink" => w.budget <= resv.local
    /\ w.pc = "repair" => w.budget <= resv.local
    /\ w.pc = "commit" => BudgetFromTarget(ch.target) <= w.budget /\ w.budget <= resv.local
    /\ w.pc = "confirm" => w.budget <= resv.local

(* A grow that has no step prepared compares its objective with what CH has. *)
Pending ==
    txn.kind = "grow" /\ ~txn.change /\ BudgetFromTarget(bal.accepted) >= txn.objective
        => BudgetFromTarget(ch.target) >= txn.objective

(* memory.high, and the budget a settlement has lowered it to. *)
Limited ==
    /\ Admits(resv.local)
    /\ txn.kind = "shrink" /\ txn.highApplied => Admits(txn.highBudget)
    /\ w.pc \in {"confirm", "commit"} => txn.highApplied /\ txn.highBudget = w.budget
    /\ w.pc = "repair" => ~txn.highApplied
    /\ cap.pc = "lifted" => high.val = MaxHigh

(* The gate is never held by two. *)
Gated ==
    /\ cap.pc # "idle" => gate = "capture"
    /\ w.pc \in {"pre", "resize", "post", "settle", "settled", "high", "confirm"}
          => gate = "worker"

IInv == TypeOK /\ Working /\ Covered /\ Pending /\ Limited /\ Gated

-----------------------------------------------------------------------------
(* The arithmetic of memory.go. *)

(* Max and Min of two numbers. *)
LEMMA MaxTwo ==
  ASSUME NEW a \in Int, NEW b \in Int
  PROVE  Max({a, b}) = IF a >= b THEN a ELSE b
  <1>1. \E x \in {a, b} : \A y \in {a, b} : x >= y
    OBVIOUS
  <1>2. Max({a, b}) \in {a, b} /\ \A y \in {a, b} : Max({a, b}) >= y
    BY <1>1 DEF Max
  <1> QED
    BY <1>2

(* The smaller of two. *)
LEMMA MinTwo ==
  ASSUME NEW a \in Int, NEW b \in Int
  PROVE  Min({a, b}) = IF a <= b THEN a ELSE b
  <1>1. \E x \in {a, b} : \A y \in {a, b} : x <= y
    OBVIOUS
  <1>2. Min({a, b}) \in {a, b} /\ \A y \in {a, b} : Min({a, b}) <= y
    BY <1>1 DEF Min
  <1> QED
    BY <1>2

(* The bounds that are taken over three numbers: the fence after a change   *)
(* of target and the limit of a shrink.                                     *)
LEMMA MaxThree ==
  ASSUME NEW a \in Nat, NEW b \in Nat, NEW c \in Nat
  PROVE  Max({a, b, c}) \in Nat
  <1>1. \E x \in {a, b, c} : \A y \in {a, b, c} : x >= y
    OBVIOUS
  <1>2. Max({a, b, c}) \in {a, b, c}
    BY <1>1 DEF Max
  <1> QED
    BY <1>2

(* The smallest of three integers. *)
LEMMA MinThree ==
  ASSUME NEW a \in Int, NEW b \in Int, NEW c \in Int
  PROVE  Min({a, b, c}) \in Int
  <1>1. \E x \in {a, b, c} : \A y \in {a, b, c} : x <= y
    OBVIOUS
  <1>2. Min({a, b, c}) \in {a, b, c}
    BY <1>1 DEF Min
  <1> QED
    BY <1>2

(* A budget lies within the guest's memory, and a larger balloon leaves a   *)
(* smaller one.                                                             *)
LEMMA BudgetBounds ==
  ASSUME NEW t \in Nat
  PROVE  BudgetFromTarget(t) \in Nat /\ BudgetFromTarget(t) <= Capacity
  BY MemoryAssumption, MinTwo DEF BudgetFromTarget

(* A larger balloon leaves a smaller budget. *)
LEMMA BudgetFalls ==
  ASSUME NEW s \in Nat, NEW t \in Nat, s <= t
  PROVE  BudgetFromTarget(t) <= BudgetFromTarget(s)
  BY MemoryAssumption, MinTwo DEF BudgetFromTarget

(* The balloon target of a budget is an amount. *)
LEMMA TargetType ==
  ASSUME NEW b \in Nat
  PROVE  TargetForBudget(b) \in Nat
  <1>1. Capacity - Min({b, Capacity}) \in Nat /\ Step \in Nat \ {0}
    BY MemoryAssumption, MinTwo
  <1>2. ASSUME NEW v \in Nat PROVE alignDown(v) \in Nat
    <2>1. v % Step \in Nat /\ v % Step <= v
      BY <1>1
    <2> QED
      BY <2>1 DEF alignDown
  <1> QED
    BY <1>1, <1>2 DEF TargetForBudget

(* The next multiple of a step. *)
LEMMA NextMultiple ==
  ASSUME NEW x \in Nat, NEW k \in Nat \ {0}, x % k # 0
  PROVE  (x + ((k - x) % k)) % k = 0
  OBVIOUS

(* The same as memory.go computes it, also for a multiple. *)
LEMMA RoundsUp ==
  ASSUME NEW x \in Nat, NEW k \in Nat \ {0}
  PROVE  LET up == x + ((k - (x % k)) % k)
         IN  up \in Nat /\ up >= x /\ up % k = 0
  <1>1. x % k \in 0..(k - 1)
    OBVIOUS
  <1>2. CASE x % k = 0
    <2>1. (k - (x % k)) % k = 0
      BY <1>2
    <2>2. x + ((k - (x % k)) % k) = x
      BY <2>1
    <2> QED
      BY <1>2, <2>2
  <1>3. CASE x % k # 0
    <2>1. (k - (x % k)) % k = k - (x % k)
      BY <1>1, <1>3
    <2>2. (x + ((k - x) % k)) % k = 0
      BY <1>3, NextMultiple
    <2> QED
      BY <1>1, <2>1, <2>2
  <1> QED
    BY <1>2, <1>3

(* What a partial grant is rounded down to is represented exactly by its    *)
(* balloon target, and stays within the grant.                              *)
LEMMA AlignedExact ==
  ASSUME NEW r \in Nat, alignedBudgetAtMostReservation(r) > 0
  PROVE  LET b == alignedBudgetAtMostReservation(r)
         IN  b \in Nat /\ b <= r /\ BudgetFromTarget(TargetForBudget(b)) = b
  <1> DEFINE raw == Capacity - Min({r, Capacity})
             up == raw + ((Step - (raw % Step)) % Step)
  <1>1. Capacity \in Nat /\ Step \in Nat \ {0} /\ raw \in Nat /\ raw >= Capacity - r
    BY MemoryAssumption, MinTwo
  <1>2. up \in Nat /\ up >= raw /\ up % Step = 0
    BY <1>1, RoundsUp, Zenon
  <1>3. alignedBudgetAtMostReservation(r) = IF up > Capacity THEN 0 ELSE BudgetFromTarget(up)
    BY DEF alignedBudgetAtMostReservation
  <1> HIDE DEF raw, up
  <1>4. up <= Capacity /\ alignedBudgetAtMostReservation(r) = Capacity - up
    BY <1>1, <1>2, <1>3, MinTwo DEF BudgetFromTarget
  <1>5. TargetForBudget(Capacity - up) = up
    <2>1. Min({Capacity - up, Capacity}) = Capacity - up
      BY <1>1, <1>2, <1>4, MinTwo
    <2> QED
      BY <1>1, <1>2, <1>4, <2>1 DEF TargetForBudget, alignDown
  <1>6. BudgetFromTarget(up) = Capacity - up
    BY <1>1, <1>2, <1>4, MinTwo DEF BudgetFromTarget
  <1> QED
    BY <1>1, <1>2, <1>4, <1>5, <1>6

(* memory.high is at most the overhead and the budget, or what was charged. *)
LEMMA HighBound ==
  ASSUME NEW budget \in Nat, NEW demand \in Nat, NEW host \in Nat
  PROVE  /\ CalculateMemoryHigh(budget, demand, host) \in Nat
         /\ CalculateMemoryHigh(budget, demand, host) <= Max({Overhead + budget, host})
  <1> DEFINE b == Min({budget, Capacity})
             granted == b - Min({demand, b})
             fraction == (granted * (RatioDen - RatioNum) + RatioDen - 1) \div RatioDen
             reserve == Min({granted, Max({fraction, Min({granted, Step})})})
  <1>1. b \in Nat /\ b <= budget
    BY MemoryAssumption, MinTwo
  <1> HIDE DEF b
  <1>2. granted \in Nat /\ granted <= b
    BY <1>1, MinTwo
  <1> HIDE DEF granted
  <1>3. fraction \in Int
    <2>1. granted * (RatioDen - RatioNum) \in Int
      BY <1>2, MemoryAssumption
    <2> QED
      BY <2>1, MemoryAssumption
  <1> HIDE DEF fraction
  <1>4. reserve \in Nat /\ reserve <= granted
    <2>1. Min({granted, Step}) \in Nat
      BY <1>2, MemoryAssumption, MinTwo
    <2> DEFINE m == Max({fraction, Min({granted, Step})})
    <2>2. m \in Nat
      BY <1>3, <2>1, MaxTwo
    <2> HIDE DEF m
    <2>3. Min({granted, m}) \in Nat /\ Min({granted, m}) <= granted
      BY <1>2, <2>2, MinTwo
    <2> QED
      BY <2>3 DEF m
  <1> HIDE DEF reserve
  <1>5. Overhead + b - reserve \in Nat /\ Overhead + b - reserve <= Overhead + budget
    BY <1>1, <1>2, <1>4, MemoryAssumption
  <1> DEFINE m == Max({Overhead + b - reserve, host})
             n == Max({Overhead + budget, host})
  <1>6. m \in Nat /\ n \in Nat /\ m <= n
    BY <1>5, MaxTwo, MemoryAssumption
  <1>7. CalculateMemoryHigh(budget, demand, host) = Min({Capacity + Overhead, m})
    BY DEF CalculateMemoryHigh, b, granted, fraction, reserve
  <1> HIDE DEF m, n
  <1>8. Min({Capacity + Overhead, m}) \in Nat /\ Min({Capacity + Overhead, m}) <= n
    BY <1>6, MinTwo, MemoryAssumption
  <1> QED
    BY <1>7, <1>8 DEF n

-----------------------------------------------------------------------------
(* Initially and beside the worker. *)

(* A larger budget admits what a smaller one does. *)
LEMMA AdmitsMore ==
  ASSUME TypeOK, NEW a \in Nat, NEW b \in Nat, a <= b, Admits(a)
  PROVE  Admits(b)
  <1>1. Stands \in Nat /\ high.host \in Nat /\ Overhead \in Nat
    BY MemoryAssumption DEF TypeOK, Stands
  <1>2. Max({Overhead + a, high.host}) <= Max({Overhead + b, high.host})
    BY <1>1, MaxTwo
  <1>3. Max({Overhead + a, high.host}) \in Nat /\ Max({Overhead + b, high.host}) \in Nat
    BY <1>1, MaxTwo
  <1> QED
    BY <1>1, <1>2, <1>3 DEF Admits

(* A cold start runs with the admitted budget and a restored sandbox with   *)
(* the one of its snapshot; memory.high says max.                           *)
LEMMA InitiallyInv == Init => IInv
  <1> SUFFICES ASSUME Init PROVE IInv
    OBVIOUS
  <1>1. /\ txn = [kind |-> "none"] /\ press = <<>> /\ w = Idle /\ gate = "free"
        /\ high = [val |-> MaxHigh, host |-> 0] /\ cap = [pc |-> "idle", prev |-> 0]
    BY DEF Init, NoTxn
  <1>2. /\ ch \in [target : Nat, actual : Nat, awake : BOOLEAN]
        /\ bal \in [desired : Nat, accepted : Nat, current : Nat]
        /\ resv \in [local : Nat, node : Nat, conn : BOOLEAN]
        /\ ctl \in Control
        /\ rep \in [open : BOOLEAN, seq : Nat, queue : Seq(Report)]
        /\ BudgetFromTarget(ch.target) <= resv.local /\ resv.local = resv.node
        /\ ctl.norm => BudgetFromTarget(ctl.safe) <= resv.local
    <2>1. ASSUME NEW dyn \in BOOLEAN, NEW norm \in BOOLEAN, NEW safe \in Nat
          PROVE  /\ Ctl(dyn, norm, safe) \in Control
                 /\ (Ctl(dyn, norm, safe).norm <=> norm) /\ Ctl(dyn, norm, safe).safe = safe
      BY DEF Ctl, Control, NoStall, Stall
    <2>2. CASE InitCold
      <3>1. Capacity - InitialBudget \in Nat /\ Capacity \in Nat /\ InitialBudget \in Nat
        BY MemoryAssumption
      <3>2. BudgetFromTarget(Capacity - InitialBudget) = InitialBudget
        BY <3>1, MinTwo, MemoryAssumption DEF BudgetFromTarget
      <3>3. PICK dyn \in ColdModes : ctl = Ctl(dyn, FALSE, 0)
        BY <2>2, Zenon DEF InitCold
      <3>4. ctl \in Control /\ ~ctl.norm
        <4>1. dyn \in BOOLEAN
          BY MemoryAssumption
        <4> QED
          BY <3>3, <4>1 DEF Ctl, Control, NoStall, Stall
      <3>5. rep \in [open : BOOLEAN, seq : Nat, queue : Seq(Report)]
        BY <2>2 DEF InitCold
      <3> QED
        <4>1. ch = [target |-> Capacity - InitialBudget, actual |-> Capacity, awake |-> TRUE]
          BY <2>2 DEF InitCold
        <4>2. bal = [desired |-> Capacity - InitialBudget, accepted |-> Capacity - InitialBudget,
                     current |-> 0]
          BY <2>2 DEF InitCold
        <4>3. resv = [local |-> InitialBudget, node |-> InitialBudget, conn |-> TRUE]
          BY <2>2 DEF InitCold
        <4> QED
          BY <3>1, <3>2, <3>4, <3>5, <4>1, <4>2, <4>3
    <2>3. CASE InitRestore
      <3>1. PICK s \in Snapshots :
                LET safe == Min({s[1], s[2]})
                IN  /\ ch = [target |-> s[1], actual |-> Capacity - s[2], awake |-> TRUE]
                    /\ bal = [desired |-> s[1], accepted |-> s[1], current |-> Capacity - s[2]]
                    /\ resv = [local |-> Capacity - safe, node |-> Capacity - safe, conn |-> TRUE]
                    /\ \E dyn \in RestoreModes : ctl = Ctl(dyn, TRUE, safe)
                    /\ rep = [open |-> FALSE, seq |-> 0, queue |-> <<>>]
        BY <2>3, Zenon DEF InitRestore
      <3> DEFINE safe == Min({s[1], s[2]})
      <3>2. s[1] \in 0..(Capacity - 1) /\ s[2] \in 0..(Capacity - 1) /\ Capacity \in Nat
        BY MemoryAssumption
      <3>3. safe \in Nat /\ safe <= s[1] /\ safe <= Capacity /\ Capacity - s[2] \in Nat
        BY <3>2, MinTwo
      <3>4. PICK dyn \in RestoreModes : ctl = Ctl(dyn, TRUE, safe)
        BY <3>1, Zenon
      <3> HIDE DEF safe
      <3>5. ctl \in Control /\ ctl.safe = safe
        BY <3>3, <3>4, <2>1, MemoryAssumption, Zenon
      <3>6. BudgetFromTarget(s[1]) <= Capacity - safe /\ BudgetFromTarget(safe) <= Capacity - safe
        BY <3>2, <3>3, MinTwo DEF BudgetFromTarget
      <3>7. resv = [local |-> Capacity - safe, node |-> Capacity - safe, conn |-> TRUE]
        BY <3>1 DEF safe
      <3>8. rep \in [open : BOOLEAN, seq : Nat, queue : Seq(Report)]
        BY <3>1
      <3>9. ch = [target |-> s[1], actual |-> Capacity - s[2], awake |-> TRUE]
        BY <3>1
      <3>10. bal = [desired |-> s[1], accepted |-> s[1], current |-> Capacity - s[2]]
        BY <3>1
      <3> QED
        BY <3>2, <3>3, <3>5, <3>6, <3>7, <3>8, <3>9, <3>10
    <2> QED
      BY <2>2, <2>3 DEF Init
  <1>3. Idle \in Worker /\ Idle.pc = "idle"
    BY DEF Idle, Worker, WorkerPcs, Report, Observation, NoObs, NoStall, Stall
  <1>4. MaxHigh \in Nat
    BY MemoryAssumption DEF MaxHigh
  <1>5. TypeOK
    BY <1>1, <1>2, <1>3, <1>4 DEF TypeOK, NoTxn
  <1>6. Working /\ Covered /\ Pending /\ Gated
    BY <1>1, <1>2, <1>3 DEF Working, Covered, Pending, Gated, NoTxn
  <1>7. Limited
    BY <1>1, <1>3 DEF Limited, Admits, Stands
  <1> QED
    BY <1>5, <1>6, <1>7 DEF IInv

(* A step beside the worker leaves what it works on. *)
LEMMA Beside ==
  ASSUME IInv, TypeOK', UNCHANGED <<bal, txn, w, gate, high, cap>>, ch'.target = ch.target,
         resv'.local = resv.local, resv'.local <= resv'.node, ctl'.norm <=> ctl.norm,
         ctl'.safe = ctl.safe
  PROVE  IInv'
  <1>1. Working'
    BY DEF IInv, Working
  <1>2. Covered' /\ Pending'
    BY DEF IInv, Covered, Pending
  <1>3. Limited' /\ Gated'
    BY DEF IInv, Limited, Gated, Admits, Stands
  <1> QED
    BY <1>1, <1>2, <1>3 DEF IInv

(* The kind of a transaction tells its fields. *)
LEMMA Kinds ==
  ASSUME TypeOK
  PROVE  /\ txn.kind = "grow" => txn \in GrowTxn
         /\ txn.kind = "shrink" => txn \in ShrinkTxn
         /\ txn.kind = "none" => txn = NoTxn
         /\ txn.kind \in {"none", "grow", "shrink"}
  <1>1. NoTxn.kind = "none"
    BY DEF NoTxn
  <1>2. \A t \in GrowTxn : t.kind = "grow"
    BY DEF GrowTxn
  <1>3. \A t \in ShrinkTxn : t.kind = "shrink"
    BY DEF ShrinkTxn
  <1> QED
    BY <1>1, <1>2, <1>3 DEF TypeOK

(* Where the worker stands when the transaction promises nothing more than  *)
(* it did.                                                                  *)
Quiet == {"idle", "observe", "return", "advance", "stall", "stallPre"}

(* The worker ends a handler or goes on with it; it gives out and returns   *)
(* nothing, and what its transaction had prepared is kept or dropped.       *)
LEMMA Rests ==
  ASSUME IInv, TypeOK', ch'.target = ch.target, UNCHANGED <<high, cap>>,
         resv'.local >= resv.local, resv'.local <= resv'.node,
         w'.pc \in Quiet \/ (w'.pc = "gate" /\ w'.op = "stall"),
         w'.pc = "observe" => ~ctl'.norm,
         gate' = gate \/ gate = "worker",
         ctl'.norm => ctl.norm /\ ctl'.safe = ctl.safe /\ txn' = NoTxn,
         txn'.kind = "grow" /\ txn'.change
            => /\ txn.kind = "grow" /\ txn.change
               /\ txn'.target = txn.target /\ txn'.budget = txn.budget,
         txn'.kind = "shrink" /\ txn'.highApplied
            => txn.kind = "shrink" /\ txn.highApplied /\ txn'.highBudget = txn.highBudget,
         Pending'
  PROVE  IInv'
  <1>t. TypeOK /\ resv.local \in Nat /\ resv'.local \in Nat /\ resv'.node \in Nat
    BY DEF IInv, TypeOK
  <1>b. BudgetFromTarget(ch.target) \in Nat /\ BudgetFromTarget(ctl.safe) \in Nat
    BY BudgetBounds, Zenon DEF IInv, TypeOK, Control
  <1>1. Working'
    BY <1>t, <1>b DEF IInv, Working, Quiet
  <1>2. Covered'
    <2>1. txn'.kind = "grow" /\ txn'.change
            => BudgetFromTarget(txn'.target) = txn'.budget /\ txn'.budget <= resv'.local
      <3> SUFFICES ASSUME txn'.kind = "grow", txn'.change
                   PROVE  BudgetFromTarget(txn'.target) = txn'.budget /\ txn'.budget <= resv'.local
        OBVIOUS
      <3>1. txn.kind = "grow" /\ txn.change /\ txn'.target = txn.target /\ txn'.budget = txn.budget
        OBVIOUS
      <3>2. BudgetFromTarget(txn.target) = txn.budget /\ txn.budget <= resv.local
        BY <3>1 DEF IInv, Covered
      <3>3. txn.budget \in Nat
        BY <1>t, <3>1, Kinds DEF GrowTxn
      <3> QED
        BY <1>t, <3>1, <3>2, <3>3
    <2> QED
      BY <1>t, <1>b, <2>1 DEF IInv, Covered, Quiet
  <1>3. Limited'
    <2>1. Admits(resv'.local)
      BY <1>t, AdmitsMore DEF IInv, Limited
    <2>2. Admits(resv.local)'
      BY <2>1 DEF Admits, Stands
    <2> QED
      BY <2>2 DEF IInv, Limited, Admits, Stands, Quiet
  <1>4. Gated'
    BY DEF IInv, Gated, Quiet
  <1> QED
    BY <1>1, <1>2, <1>3, <1>4 DEF IInv

-----------------------------------------------------------------------------
(* How a handler ends. *)

(* The worker at rest. *)
LEMMA IdleType == Idle \in Worker /\ Idle.pc = "idle" /\ Idle.op = "none"
  BY DEF Idle, Worker, WorkerPcs, Report, Observation, NoObs, NoStall, Stall

(* The worker goes on to another step of its handler. *)
LEMMA Moves ==
  ASSUME w \in Worker, NEW p \in WorkerPcs, w' = [w EXCEPT !.pc = p]
  PROVE  /\ w' \in Worker /\ w'.pc = p /\ w'.op = w.op /\ w'.budget = w.budget
         /\ w'.obs = w.obs
  BY DEF Worker

(* Every end of a handler leaves a quiet worker, gives its gate back and    *)
(* keeps the normalisation of a restore.                                    *)
LEMMA Ending ==
  ASSUME TypeOK,
         \/ \E a \in Nat : Returns(a)
         \/ ReturnsError
         \/ \E f \in Nat : ShrinkReturns(f)
  PROVE  /\ w' \in Worker /\ w'.pc \in {"idle", "stall"}
         /\ gate' \in {"free", "worker", "capture"} /\ (gate' = gate \/ gate = "worker")
         /\ ctl' \in Control /\ (ctl'.norm <=> ctl.norm) /\ ctl'.safe = ctl.safe
  <1>1. w \in Worker /\ gate \in {"free", "worker", "capture"} /\ ctl \in Control
    BY DEF TypeOK
  <1>2. GateReleased \in {"free", "worker", "capture"} /\ (GateReleased = gate \/ gate = "worker")
    BY <1>1 DEF GateReleased
  <1>3. CASE ReturnsError
    BY <1>1, <1>2, <1>3, IdleType DEF ReturnsError
  <1>4. ASSUME NEW f \in Nat, NEW d, d = [ctl EXCEPT !.floor = f] \/ d = [ctl EXCEPT !.fence = f]
        PROVE  d \in Control /\ (d.norm <=> ctl.norm) /\ d.safe = ctl.safe
    BY <1>1, <1>4 DEF Control
  <1>5. ASSUME NEW a \in Nat, Returns(a)
        PROVE  /\ w' = Idle /\ gate' = GateReleased
               /\ ctl' \in Control /\ (ctl'.norm <=> ctl.norm) /\ ctl'.safe = ctl.safe
    <2>1. /\ w' = Idle /\ gate' = GateReleased
          /\ ctl' = [ctl EXCEPT !.floor =
                       IF w.before >= 0 /\ BudgetFromTarget(a) > w.before
                       THEN Max({ctl.floor, BudgetFromTarget(a)}) ELSE ctl.floor]
      BY <1>5 DEF Returns
    <2>2. ctl.floor \in Nat /\ BudgetFromTarget(a) \in Nat
      BY <1>1, BudgetBounds DEF Control
    <2>3. Max({ctl.floor, BudgetFromTarget(a)}) \in Nat
      BY <2>2, MaxTwo
    <2>4. CASE w.before >= 0 /\ BudgetFromTarget(a) > w.before
      BY <2>1, <2>3, <2>4, <1>4
    <2>5. CASE ~(w.before >= 0 /\ BudgetFromTarget(a) > w.before)
      BY <2>1, <2>2, <2>5, <1>4
    <2> QED
      BY <2>1, <2>4, <2>5
  <1>6. ASSUME NEW f \in Nat, ShrinkReturns(f)
        PROVE  /\ w' \in Worker /\ w'.pc \in {"idle", "stall"} /\ gate' = GateReleased
               /\ ctl' \in Control /\ (ctl'.norm <=> ctl.norm) /\ ctl'.safe = ctl.safe
    <2>1. ctl' = [ctl EXCEPT !.fence = f] /\ gate' = GateReleased
      BY <1>6 DEF ShrinkReturns
    <2>2. w' = Idle \/ w' = [w EXCEPT !.pc = "stall"]
      BY <1>6 DEF ShrinkReturns
    <2>3. "stall" \in WorkerPcs
      BY DEF WorkerPcs
    <2>4. w' \in Worker /\ w'.pc \in {"idle", "stall"}
      BY <1>1, <2>2, <2>3, IdleType, Moves
    <2> QED
      BY <2>1, <2>4, <1>4
  <1> QED
    BY <1>1, <1>2, <1>3, <1>5, <1>6, IdleType

(* The number a settlement fences reports with. *)
LEMMA FenceType ==
  ASSUME TypeOK, txn.kind = "shrink"
  PROVE  FenceAfter(txn) \in Nat
  <1>1. ctl.fence \in Nat /\ rep.seq \in Nat
    BY DEF TypeOK, Control
  <1>2. txn.seq \in Nat
    BY Kinds DEF ShrinkTxn
  <1> QED
    BY <1>1, <1>2, MaxThree DEF FenceAfter

(* A handler ends: what CH holds stays, nothing is returned, and the        *)
(* transaction keeps or drops what it had prepared.                         *)
LEMMA Ends ==
  ASSUME IInv, UNCHANGED <<high, cap>>,
         \/ \E a \in Nat : Returns(a)
         \/ ReturnsError
         \/ \E f \in Nat : ShrinkReturns(f),
         ch' \in [target : Nat, actual : Nat, awake : BOOLEAN], ch'.target = ch.target,
         bal' \in [desired : Nat, accepted : Nat, current : Nat],
         resv' \in [local : Nat, node : Nat, conn : BOOLEAN],
         resv'.local >= resv.local, resv'.local <= resv'.node,
         rep' \in [open : BOOLEAN, seq : Nat, queue : Seq(Report)],
         press' \in Seq({"low", "normal", "high"}),
         txn' \in {NoTxn} \cup GrowTxn \cup ShrinkTxn,
         ctl.norm => txn' = NoTxn,
         txn'.kind = "grow" /\ txn'.change
            => /\ txn.kind = "grow" /\ txn.change
               /\ txn'.target = txn.target /\ txn'.budget = txn.budget,
         txn'.kind = "shrink" /\ txn'.highApplied
            => txn.kind = "shrink" /\ txn.highApplied /\ txn'.highBudget = txn.highBudget,
         Pending'
  PROVE  IInv'
  <1>1. /\ w' \in Worker /\ w'.pc \in {"idle", "stall"}
        /\ gate' \in {"free", "worker", "capture"} /\ (gate' = gate \/ gate = "worker")
        /\ ctl' \in Control /\ (ctl'.norm <=> ctl.norm) /\ ctl'.safe = ctl.safe
    BY Ending DEF IInv
  <1>2. TypeOK'
    BY <1>1 DEF IInv, TypeOK
  <1>3. w'.pc \in Quiet /\ w'.pc # "observe"
    BY <1>1 DEF Quiet
  <1> QED
    BY <1>1, <1>2, <1>3, Rests

(* The common end: the transaction stays as it is or is dropped. *)
LEMMA EndsKept ==
  ASSUME IInv, UNCHANGED <<high, cap>>,
         \/ \E a \in Nat : Returns(a)
         \/ ReturnsError
         \/ \E f \in Nat : ShrinkReturns(f),
         ch' \in [target : Nat, actual : Nat, awake : BOOLEAN], ch'.target = ch.target,
         bal' \in [desired : Nat, accepted : Nat, current : Nat],
         bal'.accepted \in {bal.accepted, ch.target},
         resv' \in [local : Nat, node : Nat, conn : BOOLEAN],
         resv'.local >= resv.local, resv'.local <= resv'.node,
         rep' \in [open : BOOLEAN, seq : Nat, queue : Seq(Report)],
         press' \in Seq({"low", "normal", "high"}),
         txn' = txn \/ txn' = NoTxn
  PROVE  IInv'
  <1>1. NoTxn.kind = "none"
    BY DEF NoTxn
  <1>2. txn' \in {NoTxn} \cup GrowTxn \cup ShrinkTxn
    BY DEF IInv, TypeOK
  <1>3. ctl.norm => txn' = NoTxn
    BY DEF IInv, Working
  <1>4. Pending'
    BY <1>1 DEF IInv, Pending
  <1>5. txn' = txn \/ (txn'.kind # "grow" /\ txn'.kind # "shrink")
    BY <1>1
  <1> QED
    BY <1>2, <1>3, <1>4, <1>5, Ends

-----------------------------------------------------------------------------
(* The steps beside the worker. *)

(* The guest, its reports, the sensor, the node session and Stop. *)
LEMMA BystandersKeep ==
  ASSUME IInv,
         \/ GuestBalloon \/ GuestDeflates \/ SubmitGuestReport \/ RequestPressureGrow
         \/ StateSync \/ Stop \/ loopEnds
  PROVE  IInv'
  <1>t. TypeOK /\ resv.local <= resv.node
    BY DEF IInv, Covered
  <1>1. CASE GuestBalloon
    <2>1. UNCHANGED <<bal, resv, txn, ctl, rep, press, w, gate, high, cap>>
      BY <1>1 DEF GuestBalloon
    <2>2. ch \in [target : Nat, actual : Nat, awake : BOOLEAN]
      BY <1>t DEF TypeOK
    <2>3. BudgetFromTarget(ch.target) \in Nat
      BY <2>2, BudgetBounds
    <2>4. ch'.target = ch.target /\ ch' \in [target : Nat, actual : Nat, awake : BOOLEAN]
      <3>1. CASE ch.actual < BudgetFromTarget(ch.target)
        <4>1. ch' = [ch EXCEPT !.actual = ch.actual + 1]
          BY <1>1, <3>1 DEF GuestBalloon
        <4> QED
          BY <2>2, <4>1
      <3>2. CASE ~(ch.actual < BudgetFromTarget(ch.target))
        <4>1. ch' = [ch EXCEPT !.actual = ch.actual - 1]
          BY <1>1, <3>2 DEF GuestBalloon
        <4>2. ch.actual - 1 \in Nat
          BY <1>1, <2>2, <2>3, <3>2 DEF GuestBalloon
        <4> QED
          BY <2>2, <4>1, <4>2
      <3> QED
        BY <3>1, <3>2
    <2>5. TypeOK'
      BY <1>t, <2>1, <2>4 DEF TypeOK
    <2> QED
      BY <1>t, <2>1, <2>4, <2>5, Beside
  <1>2. CASE GuestDeflates
    <2>1. UNCHANGED <<bal, resv, txn, ctl, rep, press, w, gate, high, cap>>
      BY <1>2, Zenon DEF GuestDeflates
    <2>2. ch'.target = ch.target /\ ch' \in [target : Nat, actual : Nat, awake : BOOLEAN]
      <3>1. PICK a \in (ch.actual + 1)..Capacity, awake \in BOOLEAN :
                ch' = [ch EXCEPT !.actual = a, !.awake = awake]
        BY <1>2, Zenon DEF GuestDeflates
      <3>2. ch \in [target : Nat, actual : Nat, awake : BOOLEAN] /\ a \in Nat
        BY <1>t, MemoryAssumption DEF TypeOK
      <3> QED
        BY <3>1, <3>2, Zenon
    <2>3. TypeOK'
      BY <1>t, <2>1, <2>2 DEF TypeOK
    <2> QED
      BY <1>t, <2>1, <2>2, <2>3, Beside
  <1>3. CASE SubmitGuestReport
    <2>1. UNCHANGED <<ch, bal, resv, txn, ctl, press, w, gate, high, cap>>
      BY <1>3, Zenon DEF SubmitGuestReport
    <2>2. rep' \in [open : BOOLEAN, seq : Nat, queue : Seq(Report)]
      <3>1. PICK s \in (rep.seq + 1)..MaxReports, a \in Avails :
                rep' = [rep EXCEPT !.seq = s,
                                   !.queue = IF Len(rep.queue) < QueueCap
                                             THEN Append(rep.queue, [seq |-> s, avail |-> a])
                                             ELSE rep.queue]
        BY <1>3, Zenon DEF SubmitGuestReport
      <3>2. rep \in [open : BOOLEAN, seq : Nat, queue : Seq(Report)]
        BY <1>t DEF TypeOK
      <3>3. s \in Nat /\ a \in Nat
        BY <3>2, MemoryAssumption
      <3>4. [seq |-> s, avail |-> a] \in Report
        BY <3>3 DEF Report
      <3>5. Append(rep.queue, [seq |-> s, avail |-> a]) \in Seq(Report)
        BY <3>2, <3>4
      <3> QED
        BY <3>1, <3>2, <3>3, <3>5, Zenon
    <2>3. TypeOK'
      BY <1>t, <2>1, <2>2 DEF TypeOK
    <2> QED
      BY <1>t, <2>1, <2>3, Beside
  <1>4. CASE RequestPressureGrow
    <2>1. UNCHANGED <<ch, bal, resv, txn, ctl, rep, w, gate, high, cap>>
      BY <1>4 DEF RequestPressureGrow
    <2>2. press' \in Seq({"low", "normal", "high"})
      <3>1. \A a, b, c \in BOOLEAN : dispatchPSISidecar(a, b, c) \cup runEventsPoll(a, b, c)
                                       \subseteq {"low", "normal", "high"}
        BY DEF dispatchPSISidecar, runEventsPoll
      <3>2. PICK u \in {"low", "normal", "high"} :
                press' = IF Len(press) < QueueCap THEN Append(press, u) ELSE press
        BY <1>4, <3>1 DEF RequestPressureGrow
      <3>3. press \in Seq({"low", "normal", "high"})
        BY <1>t DEF TypeOK
      <3> QED
        BY <3>2, <3>3
    <2>3. TypeOK'
      BY <1>t, <2>1, <2>2 DEF TypeOK
    <2> QED
      BY <1>t, <2>1, <2>3, Beside
  <1>5. CASE StateSync
    <2>1. /\ UNCHANGED <<ch, bal, txn, ctl, rep, press, w, gate, high, cap>>
          /\ resv' = [resv EXCEPT !.node = resv.local, !.conn = TRUE]
      BY <1>5 DEF StateSync
    <2>2. /\ resv' \in [local : Nat, node : Nat, conn : BOOLEAN]
          /\ resv'.local = resv.local /\ resv'.local <= resv'.node
      <3>1. resv \in [local : Nat, node : Nat, conn : BOOLEAN]
        BY <1>t DEF TypeOK
      <3>2. resv' = [local |-> resv.local, node |-> resv.local, conn |-> TRUE]
        BY <2>1, <3>1, Zenon
      <3> QED
        BY <3>1, <3>2
    <2>3. TypeOK'
      BY <1>t, <2>1, <2>2 DEF TypeOK
    <2> QED
      BY <1>t, <2>1, <2>2, <2>3, Beside
  <1>6. CASE Stop \/ loopEnds
    <2>1. UNCHANGED <<ch, bal, resv, txn, rep, press, w, gate, high, cap>>
      BY <1>6 DEF Stop, loopEnds
    <2>2. ctl' \in Control /\ (ctl'.norm <=> ctl.norm) /\ ctl'.safe = ctl.safe
      <3>1. ctl \in Control
        BY <1>t DEF TypeOK
      <3>2. ctl' = [ctl EXCEPT !.life = "cancelled"] \/ ctl' = [ctl EXCEPT !.life = "done"]
        BY <1>6 DEF Stop, loopEnds
      <3> QED
        BY <3>1, <3>2 DEF Control
    <2>3. TypeOK'
      BY <1>t, <2>1, <2>2 DEF TypeOK
    <2> QED
      BY <1>t, <2>1, <2>2, <2>3, Beside
  <1> QED
    BY <1>1, <1>2, <1>3, <1>4, <1>5, <1>6

(* A capture takes the gate, lifts memory.high, and puts back what stood.   *)
LEMMA CaptureKeeps ==
  ASSUME IInv, BeginSnapshot \/ liftVMMMemoryHigh \/ restoreVMMMemoryHigh \/ releaseMemoryBarrier
  PROVE  IInv'
  <1>t. /\ TypeOK /\ Working /\ Covered /\ Pending /\ Limited /\ Gated
        /\ high \in [val : Nat, host : Nat] /\ MaxHigh \in Nat
        /\ cap \in [pc : {"idle", "begun", "lifted", "restored", "destroyed"}, prev : Nat]
    BY MemoryAssumption DEF IInv, TypeOK, MaxHigh
  <1>1. UNCHANGED <<ch, bal, resv, txn, ctl, rep, press, w>>
    BY DEF BeginSnapshot, liftVMMMemoryHigh, restoreVMMMemoryHigh, releaseMemoryBarrier
  <1>2. Working' /\ Covered' /\ Pending'
    BY <1>1, <1>t DEF Working, Covered, Pending
  <1>3. CASE BeginSnapshot
    <2>1. /\ gate = "free" /\ gate' = "capture" /\ high' = high /\ cap.pc = "idle"
          /\ cap' = [cap EXCEPT !.pc = "begun"]
      BY <1>3 DEF BeginSnapshot
    <2>2. /\ cap' \in [pc : {"idle", "begun", "lifted", "restored", "destroyed"}, prev : Nat]
          /\ cap'.pc = "begun"
      BY <1>t, <2>1
    <2>3. TypeOK'
      BY <1>t, <1>1, <2>1, <2>2 DEF TypeOK
    <2>4. Limited' /\ Gated'
      BY <1>t, <1>1, <2>1, <2>2 DEF Limited, Gated, Admits, Stands
    <2> QED
      BY <1>2, <2>3, <2>4 DEF IInv
  <1>4. CASE liftVMMMemoryHigh
    <2>1. cap.pc = "begun" /\ gate' = gate
      BY <1>4 DEF liftVMMMemoryHigh
    <2>2. CASE cap' = [pc |-> "lifted", prev |-> high.val] /\ high' = [high EXCEPT !.val = MaxHigh]
      <3>1. /\ cap' \in [pc : {"idle", "begun", "lifted", "restored", "destroyed"}, prev : Nat]
            /\ cap'.pc = "lifted" /\ cap'.prev = high.val
            /\ high' \in [val : Nat, host : Nat] /\ high'.val = MaxHigh /\ high'.host = high.host
        BY <1>t, <2>2
      <3>2. TypeOK'
        BY <1>t, <1>1, <2>1, <3>1 DEF TypeOK
      <3>3. Stands' = Stands
        BY <2>1, <3>1 DEF Stands
      <3>4. Limited' /\ Gated'
        BY <1>t, <1>1, <2>1, <3>1, <3>3 DEF Limited, Gated, Admits, MaxHigh
      <3> QED
        BY <1>2, <3>2, <3>4 DEF IInv
    <2>3. CASE cap' = [cap EXCEPT !.pc = "restored"] /\ high' = high
      <3>1. /\ cap' \in [pc : {"idle", "begun", "lifted", "restored", "destroyed"}, prev : Nat]
            /\ cap'.pc = "restored"
        BY <1>t, <2>3
      <3>2. TypeOK'
        BY <1>t, <1>1, <2>1, <2>3, <3>1 DEF TypeOK
      <3>3. Limited' /\ Gated'
        BY <1>t, <1>1, <2>1, <2>3, <3>1 DEF Limited, Gated, Admits, Stands
      <3> QED
        BY <1>2, <3>2, <3>3 DEF IInv
    <2> QED
      BY <1>4, <2>2, <2>3 DEF liftVMMMemoryHigh
  <1>5. CASE restoreVMMMemoryHigh
    <2>1. cap.pc = "lifted" /\ gate' = gate /\ high.val = MaxHigh
      BY <1>5, <1>t DEF restoreVMMMemoryHigh, Limited
    <2>2. CASE cap' = [pc |-> "restored", prev |-> 0] /\ high' = [high EXCEPT !.val = cap.prev]
      <3>1. /\ cap' \in [pc : {"idle", "begun", "lifted", "restored", "destroyed"}, prev : Nat]
            /\ cap'.pc = "restored"
            /\ high' \in [val : Nat, host : Nat] /\ high'.val = cap.prev /\ high'.host = high.host
        BY <1>t, <2>2
      <3>2. TypeOK'
        BY <1>t, <1>1, <2>1, <3>1 DEF TypeOK
      <3>3. Stands' = Stands
        BY <2>1, <3>1 DEF Stands
      <3>4. Limited' /\ Gated'
        BY <1>t, <1>1, <2>1, <3>1, <3>3 DEF Limited, Gated, Admits, MaxHigh
      <3> QED
        BY <1>2, <3>2, <3>4 DEF IInv
    <2>3. CASE cap' = [pc |-> "destroyed", prev |-> 0] /\ high' = high
      <3>1. /\ cap' \in [pc : {"idle", "begun", "lifted", "restored", "destroyed"}, prev : Nat]
            /\ cap'.pc = "destroyed"
        BY <1>t, <2>3
      <3>2. TypeOK'
        BY <1>t, <1>1, <2>1, <2>3, <3>1 DEF TypeOK
      <3>3. Limited' /\ Gated'
        BY <1>t, <1>1, <2>1, <2>3, <3>1 DEF Limited, Gated, Admits, Stands, MaxHigh
      <3> QED
        BY <1>2, <3>2, <3>3 DEF IInv
    <2> QED
      BY <1>5, <2>1, <2>2, <2>3 DEF restoreVMMMemoryHigh
  <1>6. CASE releaseMemoryBarrier
    <2>1. cap.pc = "restored" /\ gate' = "free" /\ high' = high /\ gate = "capture"
      BY <1>6, <1>t DEF releaseMemoryBarrier, Gated
    <2>2. /\ cap' \in [pc : {"idle", "begun", "lifted", "restored", "destroyed"}, prev : Nat]
          /\ cap'.pc = "idle"
      BY <1>6, <1>t DEF releaseMemoryBarrier
    <2>3. TypeOK'
      BY <1>t, <1>1, <2>1, <2>2 DEF TypeOK
    <2>4. Limited' /\ Gated'
      BY <1>t, <1>1, <2>1, <2>2 DEF Limited, Gated, Admits, Stands
    <2> QED
      BY <1>2, <2>3, <2>4 DEF IInv
  <1> QED
    BY <1>3, <1>4, <1>5, <1>6

-----------------------------------------------------------------------------
(* The report handler, the pressure handler and the tick. *)

Urgency == {"low", "normal", "high"}

(* What a report asks for. *)
LEMMA BudgetOf ==
  ASSUME NEW t \in Nat, NEW c \in Nat, NEW a \in Nat
  PROVE  LET b == CalculateMemoryBudget(t, c, a)
         IN  /\ b.demand \in Nat /\ b.requested \in Nat /\ b.observed \in Nat
             /\ b.target = BudgetFromTarget(t) /\ b.observed >= BudgetFromTarget(t)
  <1> DEFINE demand == Max({0, c - a})
             raw == Min({demand + Headroom, Capacity})
  <1>1. demand \in Nat
    BY MaxTwo
  <1> HIDE DEF demand
  <1>2. raw \in Nat
    BY <1>1, MinTwo, MemoryAssumption
  <1> HIDE DEF raw
  <1>3. BudgetFromTarget(TargetForBudget(raw)) \in Nat
    BY <1>2, TargetType, BudgetBounds
  <1>4. BudgetFromTarget(t) \in Nat
    BY BudgetBounds
  <1>5. /\ Max({c, BudgetFromTarget(t)}) \in Nat
        /\ Max({c, BudgetFromTarget(t)}) >= BudgetFromTarget(t)
    BY <1>4, MaxTwo
  <1>6. CalculateMemoryBudget(t, c, a) =
           [demand |-> demand, requested |-> BudgetFromTarget(TargetForBudget(raw)),
            target |-> BudgetFromTarget(t), observed |-> Max({c, BudgetFromTarget(t)})]
    BY DEF CalculateMemoryBudget, demand, raw
  <1> QED
    BY <1>1, <1>3, <1>4, <1>5, <1>6

(* A more urgent cause changes neither the objective nor what is prepared. *)
LEMMA Upgraded ==
  ASSUME NEW t \in GrowTxn, NEW u \in Urgency
  PROVE  LET x == upgradeGrowCause(t, u)
         IN  /\ x \in GrowTxn /\ x.objective = t.objective /\ x.target = t.target
             /\ x.budget = t.budget /\ (x.change <=> t.change)
  <1>1. CASE u = "high" \/ (t.urgency = "low" /\ u = "normal")
    <2>1. upgradeGrowCause(t, u) = [t EXCEPT !.urgency = u, !.cool = t.cool /\ t.urgency = u]
      BY <1>1 DEF upgradeGrowCause
    <2>2. (t.cool /\ t.urgency = u) \in BOOLEAN
      OBVIOUS
    <2> QED
      BY <2>1, <2>2, Zenon DEF GrowTxn, Urgency
  <1>2. CASE ~(u = "high" \/ (t.urgency = "low" /\ u = "normal"))
    BY <1>2 DEF upgradeGrowCause
  <1> QED
    BY <1>1, <1>2

(* A retained grow with a larger objective keeps what is prepared. *)
LEMMA Extended ==
  ASSUME NEW t \in GrowTxn, NEW r \in Nat, NEW d \in Nat
  PROVE  LET x == [t EXCEPT !.objective = Max({@, r}), !.demand = Max({@, d})]
         IN  /\ x \in GrowTxn /\ x.objective >= r /\ x.objective >= t.objective
             /\ x.target = t.target /\ x.budget = t.budget /\ (x.change <=> t.change)
             /\ x.objective = Max({t.objective, r})
  <1>1. t.objective \in Nat /\ t.demand \in Nat
    BY DEF GrowTxn
  <1>2. /\ Max({t.objective, r}) \in Nat /\ Max({t.objective, r}) >= r
        /\ Max({t.objective, r}) >= t.objective /\ Max({t.demand, d}) \in Nat
    BY <1>1, MaxTwo
  <1> QED
    BY <1>2, Zenon DEF GrowTxn

(* startGrowLocked: a retained grow only gets larger, a new one has nothing *)
(* prepared and asks for more than CH has accepted.                         *)
LEMMA Started ==
  ASSUME TypeOK, NEW a \in Nat, NEW r \in Nat, NEW d \in Nat, NEW u \in Urgency
  PROVE  LET x == startGrow(a, r, d, u)
         IN  /\ x \in {NoTxn} \cup GrowTxn
             /\ txn.kind = "grow" => x.kind = "grow"
             /\ x.kind = "grow" => x.objective >= r
             /\ x.kind = "grow" /\ x.change
                   => /\ txn.kind = "grow" /\ txn.change
                      /\ x.target = txn.target /\ x.budget = txn.budget
  <1>1. CASE txn.kind = "grow"
    <2> DEFINE y == [txn EXCEPT !.objective = Max({@, r}), !.demand = Max({@, d})]
    <2>1. txn \in GrowTxn
      BY <1>1, Kinds
    <2>2. /\ y \in GrowTxn /\ y.objective >= r /\ y.target = txn.target
          /\ y.budget = txn.budget /\ (y.change <=> txn.change)
      BY <2>1, Extended, Zenon
    <2>3. startGrow(a, r, d, u) = upgradeGrowCause(y, u)
      BY <1>1 DEF startGrow
    <2> HIDE DEF y
    <2>4. /\ upgradeGrowCause(y, u) \in GrowTxn
          /\ upgradeGrowCause(y, u).objective = y.objective
          /\ upgradeGrowCause(y, u).target = y.target
          /\ upgradeGrowCause(y, u).budget = y.budget
          /\ (upgradeGrowCause(y, u).change <=> y.change)
      BY <2>2, Upgraded
    <2>5. upgradeGrowCause(y, u).kind = "grow"
      BY <2>4 DEF GrowTxn
    <2> QED
      BY <1>1, <2>2, <2>3, <2>4, <2>5
  <1>2. CASE txn.kind # "grow" /\ r <= BudgetFromTarget(a)
    BY <1>2 DEF startGrow, NoTxn
  <1>3. CASE txn.kind # "grow" /\ ~(r <= BudgetFromTarget(a))
    <2>1. startGrow(a, r, d, u) = Grow(r, d, u)
      BY <1>3 DEF startGrow
    <2>2. Grow(r, d, u) \in GrowTxn /\ Grow(r, d, u).objective = r /\ ~Grow(r, d, u).change
      BY DEF Grow, GrowTxn, Urgency
    <2> QED
      BY <1>3, <2>1, <2>2
  <1> QED
    BY <1>1, <1>2, <1>3

(* The balloon as one vm.info reports it. *)
LEMMA Observed ==
  ASSUME TypeOK
  PROVE  /\ VmInfo \in [desired : Nat, accepted : Nat, current : Nat]
         /\ VmInfo.accepted = ch.target /\ VmInfo.desired = bal.desired
         /\ [VmInfo EXCEPT !.desired = ch.target] \in [desired : Nat, accepted : Nat, current : Nat]
         /\ [VmInfo EXCEPT !.desired = ch.target].accepted = ch.target
         /\ Seen \in Observation
  <1>1. /\ ch.target \in Nat /\ ch.actual \in Nat
        /\ bal \in [desired : Nat, accepted : Nat, current : Nat]
    BY DEF TypeOK
  <1>2. /\ VmInfo \in [desired : Nat, accepted : Nat, current : Nat]
        /\ VmInfo.accepted = ch.target /\ VmInfo.desired = bal.desired
    BY <1>1, Zenon DEF VmInfo
  <1>3. Seen \in Observation
    BY <1>1 DEF Seen, Observation
  <1> QED
    BY <1>1, <1>2, <1>3

(* The worker goes on with the transaction a report left, or returns. *)
LEMMA AdvancingType ==
  ASSUME NEW x
  PROVE  Advancing(x) \in Worker /\ Advancing(x).pc \in {"return", "advance"}
  <1>1. "return" \in WorkerPcs /\ "advance" \in WorkerPcs
    BY DEF WorkerPcs
  <1> QED
    BY <1>1, IdleType DEF Advancing, Worker

(* A new shrink has not touched memory.high. *)
LEMMA NewShrink ==
  ASSUME NEW t \in Nat, NEW d \in Nat, NEW s \in Nat, NEW o \in Observation
  PROVE  /\ Shrink(t, d, s, o, TRUE) \in ShrinkTxn /\ Shrink(t, d, s, o, FALSE) \in ShrinkTxn
         /\ ~Shrink(t, d, s, o, TRUE).highApplied /\ ~Shrink(t, d, s, o, FALSE).highApplied
  <1>1. BudgetFromTarget(t) \in Nat
    BY BudgetBounds
  <1>2. Shrink(t, d, s, o, TRUE) \in ShrinkTxn /\ Shrink(t, d, s, o, FALSE) \in ShrinkTxn
    BY <1>1 DEF Shrink, ShrinkTxn
  <1>3. ~Shrink(t, d, s, o, TRUE).highApplied /\ ~Shrink(t, d, s, o, FALSE).highApplied
    BY DEF Shrink
  <1> QED
    BY <1>2, <1>3, Zenon

(* A handler decides after one vm.info: only the transaction, the cached     *)
(* balloon and the worker's own fields change.                              *)
LEMMA Decides ==
  ASSUME IInv, UNCHANGED <<ch, resv, rep, press, gate, high, cap>>,
         bal' \in [desired : Nat, accepted : Nat, current : Nat], bal'.accepted = ch.target,
         ctl' \in Control, ~ctl'.norm,
         w' \in Worker, w'.pc \in Quiet, w'.pc # "observe",
         txn' \in {NoTxn} \cup GrowTxn \cup ShrinkTxn,
         txn'.kind = "grow" /\ txn'.change
            => /\ txn.kind = "grow" /\ txn.change
               /\ txn'.target = txn.target /\ txn'.budget = txn.budget,
         txn'.kind = "shrink" /\ txn'.highApplied
            => txn.kind = "shrink" /\ txn.highApplied /\ txn'.highBudget = txn.highBudget
  PROVE  IInv'
  <1>1. TypeOK'
    BY DEF IInv, TypeOK
  <1>2. Pending'
    BY DEF Pending
  <1>3. resv.local <= resv.node /\ resv.local \in Nat
    BY DEF IInv, Covered, TypeOK
  <1>4. resv'.local >= resv.local /\ resv'.local <= resv'.node
    BY <1>3
  <1> QED
    BY <1>1, <1>2, <1>4, Rests

(* The bookkeeping of a report keeps the kinds of the control fields. *)
LEMMA CtlKept ==
  ASSUME ctl \in Control, ~ctl.norm
  PROVE  /\ \A l \in Nat : /\ [ctl EXCEPT !.last = l] \in Control
                           /\ ~[ctl EXCEPT !.last = l].norm
         /\ \A l \in Nat, f \in Nat : /\ [ctl EXCEPT !.last = l, !.fence = f] \in Control
                                      /\ ~[ctl EXCEPT !.last = l, !.fence = f].norm
  <1>1. ASSUME NEW l \in Nat
        PROVE  [ctl EXCEPT !.last = l] \in Control /\ ~[ctl EXCEPT !.last = l].norm
    <2>1. [ctl EXCEPT !.last = l] \in Control
      BY DEF Control
    <2>2. ~[ctl EXCEPT !.last = l].norm
      BY DEF Control
    <2> QED
      BY <2>1, <2>2
  <1>2. ASSUME NEW l \in Nat, NEW f \in Nat
        PROVE  /\ [ctl EXCEPT !.last = l, !.fence = f] \in Control
               /\ ~[ctl EXCEPT !.last = l, !.fence = f].norm
    <2> DEFINE d == [ctl EXCEPT !.last = l]
    <2>1. d \in Control /\ ~d.norm
      BY <1>1
    <2>2. [ctl EXCEPT !.last = l, !.fence = f] = [d EXCEPT !.fence = f]
      BY DEF Control
    <2> HIDE DEF d
    <2>3. [d EXCEPT !.fence = f] \in Control
      BY <2>1 DEF Control
    <2>4. ~[d EXCEPT !.fence = f].norm
      BY <2>1 DEF Control
    <2> QED
      BY <2>2, <2>3, <2>4
  <1> QED
    BY <1>1, <1>2, Zenon

(* A report while a shrink is pending. *)
LEMMA ShrinkReported ==
  ASSUME IInv, w.pc = "observe", txn.kind = "shrink",
         NEW b, b = CalculateMemoryBudget(ch.target, ch.actual, w.report.avail),
         reportDuringShrink(w.report, b), UNCHANGED <<ch, resv, rep, press, gate, high, cap>>
  PROVE  IInv'
  <1>t. TypeOK /\ ctl \in Control /\ ~ctl.norm /\ w \in Worker
    BY DEF IInv, Working, TypeOK
  <1>1. /\ ch.target \in Nat /\ ch.actual \in Nat /\ w.report \in Report /\ w.report.avail \in Nat
        /\ w.report.seq \in Nat
    BY <1>t DEF TypeOK, Worker, Report
  <1>2. b.demand \in Nat /\ b.requested \in Nat
    BY <1>1, BudgetOf
  <1>3. txn \in ShrinkTxn
    BY <1>t, Kinds
  <1>4. /\ VmInfo \in [desired : Nat, accepted : Nat, current : Nat] /\ VmInfo.accepted = ch.target
        /\ [VmInfo EXCEPT !.desired = ch.target] \in [desired : Nat, accepted : Nat, current : Nat]
        /\ [VmInfo EXCEPT !.desired = ch.target].accepted = ch.target
        /\ Seen \in Observation
    BY <1>t, Observed
  <1>5. FenceAfter(txn) \in Nat
    BY <1>t, FenceType
  <1>6. "normal" \in Urgency /\ NoTxn.kind = "none"
    BY DEF Urgency, NoTxn
  <1>7. \A x : Advancing(x) \in Worker /\ Advancing(x).pc \in {"return", "advance"}
    BY AdvancingType
  <1>8. \A p \in {"return", "advance", "idle"} : p \in Quiet /\ p # "observe"
    BY DEF Quiet
  <1>9. CASE /\ txn' = startGrow(ch.target, b.requested, b.demand, "normal")
             /\ bal' = VmInfo /\ w' = Advancing(txn')
             /\ ctl' = [ctl EXCEPT !.last = b.demand]
    <2>1. /\ txn' \in {NoTxn} \cup GrowTxn
          /\ txn'.kind = "grow" /\ txn'.change
                => /\ txn.kind = "grow" /\ txn.change
                   /\ txn'.target = txn.target /\ txn'.budget = txn.budget
      BY <1>t, <1>1, <1>2, <1>6, <1>9, Started
    <2>2. txn'.kind # "shrink"
      BY <2>1, <1>6 DEF GrowTxn
    <2>3. ctl' \in Control /\ ~ctl'.norm
      BY <1>t, <1>2, <1>9, CtlKept, Zenon
    <2>4. w' \in Worker /\ w'.pc \in Quiet /\ w'.pc # "observe"
      BY <1>7, <1>8, <1>9
    <2> QED
      BY <1>4, <1>9, <2>1, <2>2, <2>3, <2>4, Decides, Zenon
  <1>10. CASE /\ bal' = [VmInfo EXCEPT !.desired = ch.target]
              /\ txn' = NoTxn /\ w' = Idle
              /\ ctl' = [ctl EXCEPT !.last = b.demand, !.fence = FenceAfter(txn)]
    <2>1. ctl' \in Control /\ ~ctl'.norm
      BY <1>t, <1>2, <1>5, <1>10, CtlKept, Zenon
    <2>2. w' \in Worker /\ w'.pc \in Quiet /\ w'.pc # "observe"
      BY <1>8, <1>10, IdleType
    <2> QED
      BY <1>4, <1>6, <1>10, <2>1, <2>2, Decides
  <1>11. CASE /\ txn' = [txn EXCEPT !.demand = Max({@, b.demand}),
                                    !.highApplied = @ /\ b.demand <= txn.demand,
                                    !.seq = w.report.seq, !.repair = ch.actual,
                                    !.obs = IF txn.accepted THEN @ ELSE Seen]
              /\ bal' = VmInfo /\ w' = Advancing(txn')
              /\ ctl' = [ctl EXCEPT !.last = b.demand]
    <2> DEFINE d == Max({txn.demand, b.demand})
               h == txn.highApplied /\ b.demand <= txn.demand
               o == IF txn.accepted THEN txn.obs ELSE Seen
    <2>1. d \in Nat /\ h \in BOOLEAN /\ o \in Observation /\ (h => txn.highApplied)
      <3>1. txn.demand \in Nat /\ txn.obs \in Observation
        BY <1>3 DEF ShrinkTxn
      <3>2. d \in Nat
        BY <3>1, <1>2, MaxTwo
      <3>3. o \in Observation
        BY <3>1, <1>4
      <3>4. h \in BOOLEAN /\ (h => txn.highApplied)
        OBVIOUS
      <3> QED
        BY <3>2, <3>3, <3>4
    <2>2. txn' = [txn EXCEPT !.demand = d, !.highApplied = h, !.seq = w.report.seq,
                             !.repair = ch.actual, !.obs = o]
      BY <1>11
    <2> HIDE DEF d, h, o
    <2>3. /\ txn' \in ShrinkTxn /\ txn'.highBudget = txn.highBudget
          /\ txn'.highApplied => txn.highApplied
      BY <1>1, <1>3, <2>1, <2>2, Zenon DEF ShrinkTxn
    <2>4. txn'.kind = "shrink"
      BY <2>3 DEF ShrinkTxn
    <2>5. ctl' \in Control /\ ~ctl'.norm
      BY <1>t, <1>2, <1>11, CtlKept, Zenon
    <2>6. w' \in Worker /\ w'.pc \in Quiet /\ w'.pc # "observe"
      BY <1>7, <1>8, <1>11
    <2> QED
      BY <1>4, <1>11, <2>3, <2>4, <2>5, <2>6, Decides
  <1> QED
    BY <1>9, <1>10, <1>11 DEF reportDuringShrink

(* A report while a grow is pending. *)
LEMMA GrowReported ==
  ASSUME IInv, w.pc = "observe", txn.kind = "grow",
         NEW b, b = CalculateMemoryBudget(ch.target, ch.actual, w.report.avail),
         reportDuringGrow(b), UNCHANGED <<ch, resv, rep, press, gate, high, cap>>
  PROVE  IInv' /\ txn'.kind = "grow"
  <1>t. TypeOK /\ ctl \in Control /\ ~ctl.norm /\ w \in Worker
    BY DEF IInv, Working, TypeOK
  <1>1. ch.target \in Nat /\ ch.actual \in Nat /\ w.report.avail \in Nat
    BY <1>t DEF TypeOK, Worker, Report
  <1>2. b.demand \in Nat /\ b.requested \in Nat
    BY <1>1, BudgetOf
  <1>3. txn \in GrowTxn
    BY <1>t, Kinds
  <1>4. VmInfo \in [desired : Nat, accepted : Nat, current : Nat] /\ VmInfo.accepted = ch.target
    BY <1>t, Observed
  <1>5. "normal" \in Urgency
    BY DEF Urgency
  <1> DEFINE o == Max({txn.objective, b.requested})
             d == Max({txn.demand, b.demand})
             h == txn.highApplied /\ ~(txn.change /\ b.demand > txn.demand)
             larger == [txn EXCEPT !.objective = o, !.demand = d, !.highApplied = h]
  <1>6. o \in Nat /\ d \in Nat /\ h \in BOOLEAN
    <2>1. txn.demand \in Nat /\ txn.objective \in Nat
      BY <1>3 DEF GrowTxn
    <2> QED
      BY <2>1, <1>2, MaxTwo
  <1>7. txn' = upgradeGrowCause(larger, "normal") /\ bal' = VmInfo /\ w' = Advancing(txn')
        /\ ctl' = [ctl EXCEPT !.last = b.demand]
    BY DEF reportDuringGrow
  <1> HIDE DEF o, d, h
  <1>8. /\ larger \in GrowTxn /\ (larger.change <=> txn.change)
        /\ larger.target = txn.target /\ larger.budget = txn.budget
    BY <1>3, <1>6, Zenon DEF GrowTxn
  <1> HIDE DEF larger
  <1>9. /\ txn' \in GrowTxn /\ (txn'.change <=> txn.change)
        /\ txn'.target = txn.target /\ txn'.budget = txn.budget
    BY <1>5, <1>7, <1>8, Upgraded
  <1>10. txn'.kind = "grow"
    BY <1>9 DEF GrowTxn
  <1>11. ctl' \in Control /\ ~ctl'.norm
    BY <1>t, <1>2, <1>7, CtlKept, Zenon
  <1>12. w' \in Worker /\ w'.pc \in Quiet /\ w'.pc # "observe"
    BY <1>7, AdvancingType DEF Quiet
  <1> QED
    BY <1>4, <1>7, <1>9, <1>10, <1>11, <1>12, Decides

(* The next target of a shrink is never below the accepted one. *)
LEMMA ShrinkTargetType ==
  ASSUME NEW accepted \in Nat, NEW current \in Nat, NEW requested \in Nat
  PROVE  NextShrinkTarget(accepted, current, requested) \in Nat
  <1>1. Capacity \in Nat /\ Step \in Nat \ {0}
    BY MemoryAssumption
  <1>2. TargetForBudget(requested) \in Nat
    BY TargetType
  <1>3. shrinkTargetLimit(accepted, current) \in Int
    <2>1. accepted + Step \in Int /\ Capacity - current + Step \in Int /\ Capacity \in Int
      BY <1>1
    <2> QED
      BY <2>1, MinThree DEF shrinkTargetLimit
  <1> DEFINE least == Min({TargetForBudget(requested), shrinkTargetLimit(accepted, current)})
             next == alignDown(least)
  <1>4. least \in Int
    BY <1>2, <1>3, MinTwo
  <1> HIDE DEF least
  <1>5. next \in Int
    <2>1. least % Step \in 0..(Step - 1)
      BY <1>1, <1>4
    <2> QED
      BY <1>4, <2>1, <1>1 DEF alignDown
  <1> HIDE DEF next
  <1>6. Max({next, accepted}) \in Nat
    BY <1>5, MaxTwo
  <1> QED
    BY <1>6 DEF NextShrinkTarget, next, least

(* A report that finds no transaction and needs no grow. *)
LEMMA IdleReported ==
  ASSUME IInv, w.pc = "observe", txn.kind = "none",
         NEW b, b = CalculateMemoryBudget(ch.target, ch.actual, w.report.avail),
         reportIdle(w.report, b), UNCHANGED <<ch, resv, rep, press, gate, high, cap>>
  PROVE  IInv'
  <1>t. TypeOK /\ ctl \in Control /\ ~ctl.norm /\ w \in Worker
    BY DEF IInv, Working, TypeOK
  <1>1. /\ ch.target \in Nat /\ ch.actual \in Nat /\ w.report \in Report /\ w.report.avail \in Nat
        /\ w.report.seq \in Nat /\ ctl.floor \in Nat
    BY <1>t DEF TypeOK, Worker, Report, Control
  <1>2. b.demand \in Nat /\ b.requested \in Nat
    BY <1>1, BudgetOf, Zenon
  <1>3. txn = NoTxn /\ NoTxn.kind = "none"
    BY <1>t, Kinds DEF NoTxn
  <1>4. /\ VmInfo \in [desired : Nat, accepted : Nat, current : Nat] /\ VmInfo.accepted = ch.target
        /\ Seen \in Observation
    BY <1>t, Observed
  <1> DEFINE low == ctl.floor # 0 /\ b.requested < ctl.floor
             first == low /\ ctl.low = 0
             next == NextShrinkTarget(ch.target, ch.actual, b.requested)
             seen == [ctl EXCEPT !.last = b.demand]
             unfloored == [seen EXCEPT !.floor = IF low THEN 0 ELSE @, !.low = 0]
             stepping == next > ch.target /\ w.report.seq > ctl.fence
  <1>5. next \in Nat
    BY <1>1, <1>2, ShrinkTargetType, Zenon
  <1>6. seen \in Control /\ ~seen.norm /\ seen.floor = ctl.floor
    BY <1>t, <1>2 DEF Control
  <1>7. bal' = VmInfo /\
        (\/ ctl' = seen /\ w' = Idle /\ txn' = txn
         \/ ctl' = [seen EXCEPT !.low = w.report.seq] /\ w' = Idle /\ txn' = txn
         \/ ctl' = unfloored /\ txn' = txn
              /\ w' = [w EXCEPT !.pc = "stall", !.seen = Seen, !.report.avail = 0]
         \/ /\ ctl' = unfloored /\ txn' = Shrink(next, b.demand, w.report.seq, Seen, TRUE)
            /\ w' = Advancing(txn')
         \/ /\ ctl' = unfloored /\ txn' = Shrink(ch.target, b.demand, w.report.seq, NoObs, FALSE)
            /\ w' = [w EXCEPT !.pc = "advance", !.seen = Seen, !.stall = TRUE, !.report.avail = 0])
    BY Zenon DEF reportIdle
  <1> HIDE DEF seen, next
  <1>8. unfloored \in Control /\ ~unfloored.norm
    <2>1. CASE low
      BY <1>6, <2>1, Zenon DEF Control
    <2>2. CASE ~low
      <3>1. unfloored = [seen EXCEPT !.low = 0, !.floor = ctl.floor]
        BY <2>2, <1>6, Zenon
      <3> QED
        BY <1>1, <1>6, <3>1, Zenon DEF Control
    <2> QED
      BY <2>1, <2>2
  <1>9. [seen EXCEPT !.low = w.report.seq] \in Control /\ ~[seen EXCEPT !.low = w.report.seq].norm
    BY <1>1, <1>6 DEF Control
  <1> HIDE DEF unfloored
  <1>10. ctl' \in Control /\ ~ctl'.norm
    BY <1>6, <1>7, <1>8, <1>9, Zenon
  <1>11. [w.report EXCEPT !.avail = 0] \in Report
    BY <1>1 DEF Report
  <1>12. w' \in Worker /\ w'.pc \in Quiet /\ w'.pc # "observe"
    <2>1. CASE w' = Idle
      BY <2>1, IdleType DEF Quiet
    <2>2. CASE w' = [w EXCEPT !.pc = "stall", !.seen = Seen, !.report.avail = 0]
      BY <2>2, <1>t, <1>4, <1>11, Zenon DEF Worker, WorkerPcs, Quiet
    <2>3. CASE w' = Advancing(txn')
      BY <2>3, AdvancingType DEF Quiet
    <2>4. CASE w' = [w EXCEPT !.pc = "advance", !.seen = Seen, !.stall = TRUE, !.report.avail = 0]
      BY <2>4, <1>t, <1>4, <1>11, Zenon DEF Worker, WorkerPcs, Quiet
    <2> QED
      BY <1>7, <2>1, <2>2, <2>3, <2>4, Zenon
  <1>13. NoObs \in Observation
    BY DEF NoObs, Observation
  <1>14. txn' = NoTxn \/ (txn' \in ShrinkTxn /\ ~txn'.highApplied /\ txn'.kind = "shrink")
    <2>0. \A t \in ShrinkTxn : t.kind = "shrink"
      BY DEF ShrinkTxn
    <2>1. CASE txn' = Shrink(next, b.demand, w.report.seq, Seen, TRUE)
      BY <1>1, <1>2, <1>4, <1>5, <2>0, <2>1, NewShrink, Zenon
    <2>2. CASE txn' = Shrink(ch.target, b.demand, w.report.seq, NoObs, FALSE)
      BY <1>1, <1>2, <1>13, <2>0, <2>2, NewShrink, Zenon
    <2> QED
      BY <1>3, <1>7, <2>1, <2>2, Zenon
  <1>15. bal' \in [desired : Nat, accepted : Nat, current : Nat] /\ bal'.accepted = ch.target
    BY <1>4, <1>7
  <1> QED
    BY <1>3, <1>10, <1>12, <1>14, <1>15, Decides

(* Every report. *)
LEMMA ReportKeeps == IInv /\ processReport => IInv'
  <1> SUFFICES ASSUME IInv, processReport PROVE IInv'
    OBVIOUS
  <1>t. TypeOK /\ ctl \in Control /\ ~ctl.norm /\ w \in Worker /\ w.pc = "observe"
    BY DEF IInv, Working, TypeOK, processReport
  <1>1. ch.target \in Nat /\ ch.actual \in Nat /\ w.report.avail \in Nat
    BY <1>t DEF TypeOK, Worker, Report
  <1> DEFINE b == CalculateMemoryBudget(ch.target, ch.actual, w.report.avail)
  <1>2. b.demand \in Nat /\ b.requested \in Nat
    BY <1>1, BudgetOf, Zenon
  <1>3. UNCHANGED <<ch, resv, rep, press, gate, high, cap>>
    BY DEF processReport
  <1>4. txn.kind \in {"none", "grow", "shrink"}
    BY <1>t, Kinds
  <1>5. \/ txn.kind = "shrink" /\ reportDuringShrink(w.report, b)
        \/ txn.kind = "grow" /\ reportDuringGrow(b)
        \/ /\ txn.kind = "none" /\ txn' = startGrow(ch.target, b.requested, b.demand, "normal")
           /\ bal' = VmInfo /\ w' = Advancing(txn') /\ ctl' = [ctl EXCEPT !.last = b.demand]
        \/ txn.kind = "none" /\ reportIdle(w.report, b)
    BY <1>4 DEF processReport
  <1> HIDE DEF b
  <1>6. b = CalculateMemoryBudget(ch.target, ch.actual, w.report.avail)
    BY DEF b
  <1>7. CASE txn.kind = "shrink" /\ reportDuringShrink(w.report, b)
    BY <1>t, <1>3, <1>6, <1>7, ShrinkReported
  <1>8. CASE txn.kind = "grow" /\ reportDuringGrow(b)
    BY <1>t, <1>3, <1>6, <1>8, GrowReported
  <1>9. CASE txn.kind = "none" /\ reportIdle(w.report, b)
    BY <1>t, <1>3, <1>6, <1>9, IdleReported
  <1>10. CASE /\ txn.kind = "none" /\ txn' = startGrow(ch.target, b.requested, b.demand, "normal")
              /\ bal' = VmInfo /\ w' = Advancing(txn') /\ ctl' = [ctl EXCEPT !.last = b.demand]
    <2>1. "normal" \in Urgency /\ NoTxn.kind = "none"
      BY DEF Urgency, NoTxn
    <2>2. /\ txn' \in {NoTxn} \cup GrowTxn
          /\ txn'.kind = "grow" /\ txn'.change
                => /\ txn.kind = "grow" /\ txn.change
                   /\ txn'.target = txn.target /\ txn'.budget = txn.budget
      BY <1>t, <1>1, <1>2, <1>10, <2>1, Started
    <2>3. txn'.kind # "shrink"
      BY <2>1, <2>2 DEF GrowTxn
    <2>4. ctl' \in Control /\ ~ctl'.norm
      BY <1>t, <1>2, <1>10, CtlKept, Zenon
    <2>5. w' \in Worker /\ w'.pc \in Quiet /\ w'.pc # "observe"
      BY <1>10, AdvancingType DEF Quiet
    <2>6. bal' \in [desired : Nat, accepted : Nat, current : Nat] /\ bal'.accepted = ch.target
      BY <1>t, <1>10, Observed
    <2> QED
      BY <1>3, <2>2, <2>3, <2>4, <2>5, <2>6, Decides
  <1> QED
    BY <1>5, <1>7, <1>8, <1>9, <1>10

(* A pressure event, a tick, a report taken and the end of a handler. *)
LEMMA EventsKeep ==
  ASSUME IInv, TakeReport \/ processPressure \/ HandlerEnds
  PROVE  IInv'
  <1>t. TypeOK /\ ctl \in Control /\ w \in Worker /\ txn \in {NoTxn} \cup GrowTxn \cup ShrinkTxn
    BY DEF IInv, TypeOK
  <1>n. ctl.norm => txn = NoTxn
    BY DEF IInv, Working
  <1>l. resv.local \in Nat /\ resv.local <= resv.node
    BY DEF IInv, Covered, TypeOK
  <1>1. CASE TakeReport
    <2>1. /\ UNCHANGED <<ch, bal, resv, txn, press, gate, high, cap>>
          /\ rep' = [rep EXCEPT !.queue = Tail(rep.queue)] /\ rep.queue # <<>>
          /\ ctl' = [ctl EXCEPT !.stall = NoStall]
          /\ w' = IF ctl.norm THEN Idle
                  ELSE [Idle EXCEPT !.pc = "observe", !.report = Head(rep.queue), !.prev = ctl.stall]
      BY <1>1 DEF TakeReport
    <2>2. /\ ctl.stall \in Stall /\ rep.queue \in Seq(Report) /\ NoStall \in Stall
          /\ rep \in [open : BOOLEAN, seq : Nat, queue : Seq(Report)]
      BY <1>t DEF TypeOK, Control, NoStall, Stall
    <2>3. Head(rep.queue) \in Report /\ Tail(rep.queue) \in Seq(Report)
      BY <2>1, <2>2
    <2>4. rep' \in [open : BOOLEAN, seq : Nat, queue : Seq(Report)]
      BY <2>1, <2>2, <2>3, Zenon
    <2>5. ctl' \in Control /\ (ctl'.norm <=> ctl.norm) /\ ctl'.safe = ctl.safe
      BY <1>t, <2>1, <2>2, Zenon DEF Control
    <2>6. w' \in Worker /\ w'.pc \in Quiet /\ (w'.pc = "observe" => ~ctl.norm)
      <3>1. CASE ctl.norm
        BY <2>1, <3>1, IdleType DEF Quiet
      <3>2. CASE ~ctl.norm
        BY <2>1, <2>2, <2>3, <3>2, IdleType, Zenon DEF Quiet, Worker, WorkerPcs
      <3> QED
        BY <3>1, <3>2
    <2>7. TypeOK'
      BY <1>t, <2>1, <2>4, <2>5, <2>6 DEF TypeOK
    <2>8. Pending'
      BY <2>1 DEF IInv, Pending
    <2> QED
      BY <1>n, <1>l, <2>1, <2>5, <2>6, <2>7, <2>8, Rests
  <1>2. CASE processPressure
    <2> DEFINE accepted == BudgetFromTarget(bal.accepted)
               current == IF txn.kind = "grow" THEN Max({accepted, txn.objective}) ELSE accepted
               want == Min({current + Step, Capacity})
               demand == IF ctl.last >= 0 THEN ctl.last ELSE want
    <2>1. /\ UNCHANGED <<ch, bal, resv, rep, gate, high, cap>>
          /\ press' = Tail(press) /\ press # <<>> /\ w.pc = "idle"
          /\ ctl' = [ctl EXCEPT !.stall = NoStall, !.low = 0]
          /\ \/ UNCHANGED <<txn, w>>
             \/ /\ ~ctl.norm /\ ~(want <= current)
                /\ txn' = startGrow(bal.accepted, want, demand, Head(press))
                /\ w' = [Idle EXCEPT !.pc = "advance", !.before = current]
      BY <1>2 DEF processPressure
    <2>2. bal.accepted \in Nat /\ accepted \in Nat /\ Step \in Nat \ {0} /\ Capacity \in Nat
          /\ press \in Seq(Urgency) /\ ctl.last \in Int
      <3>1. bal.accepted \in Nat /\ ctl.last \in Int
        BY <1>t DEF TypeOK, Control
      <3>2. press \in Seq(Urgency)
        BY <1>t DEF TypeOK, Urgency
      <3>3. accepted \in Nat
        BY <3>1, BudgetBounds
      <3>4. Step \in Nat \ {0} /\ Capacity \in Nat
        BY MemoryAssumption
      <3> QED
        BY <3>1, <3>2, <3>3, <3>4
    <2> HIDE DEF accepted
    <2>3. current \in Nat /\ current >= accepted
      <3>1. CASE txn.kind = "grow"
        <4>1. txn.objective \in Nat
          BY <1>t, <3>1, Kinds DEF GrowTxn
        <4> QED
          BY <2>2, <3>1, <4>1, MaxTwo
      <3>2. CASE txn.kind # "grow"
        BY <2>2, <3>2
      <3> QED
        BY <3>1, <3>2
    <2> HIDE DEF current
    <2>4. want \in Nat
      BY <2>2, <2>3, MinTwo
    <2> HIDE DEF want
    <2>5. demand \in Nat
      BY <2>2, <2>4
    <2> HIDE DEF demand
    <2>6. Head(press) \in Urgency /\ Tail(press) \in Seq(Urgency)
      BY <2>1, <2>2
    <2>7. ctl' \in Control /\ (ctl'.norm <=> ctl.norm) /\ ctl'.safe = ctl.safe
      BY <1>t, <2>1, Zenon DEF Control, NoStall, Stall
    <2>8. press' \in Seq({"low", "normal", "high"})
      BY <2>1, <2>6 DEF Urgency
    <2>9. CASE UNCHANGED <<txn, w>>
      <3>1. TypeOK'
        BY <1>t, <2>1, <2>7, <2>8, <2>9 DEF TypeOK
      <3>2. resv'.local = resv.local /\ resv'.local <= resv'.node /\ ch'.target = ch.target
        BY <1>l, <2>1
      <3> QED
        BY <2>1, <2>7, <2>9, <3>1, <3>2, Beside
    <2>10. CASE /\ ~ctl.norm /\ ~(want <= current)
                /\ txn' = startGrow(bal.accepted, want, demand, Head(press))
                /\ w' = [Idle EXCEPT !.pc = "advance", !.before = current]
      <3>1. /\ txn' \in {NoTxn} \cup GrowTxn
            /\ txn'.kind = "grow" => txn'.objective >= want
            /\ txn'.kind = "grow" /\ txn'.change
                  => /\ txn.kind = "grow" /\ txn.change
                     /\ txn'.target = txn.target /\ txn'.budget = txn.budget
        <4> DEFINE u == Head(press)
                   x == startGrow(bal.accepted, want, demand, u)
        <4>1. u \in Urgency /\ txn' = x
          BY <2>6, <2>10
        <4> HIDE DEF u
        <4>2. /\ x \in {NoTxn} \cup GrowTxn
              /\ x.kind = "grow" => x.objective >= want
              /\ x.kind = "grow" /\ x.change
                  => /\ txn.kind = "grow" /\ txn.change
                     /\ x.target = txn.target /\ x.budget = txn.budget
          BY <1>t, <2>2, <2>4, <2>5, <4>1, Started
        <4> HIDE DEF x
        <4> QED
          BY <4>1, <4>2
      <3>2. NoTxn.kind = "none" /\ \A t \in GrowTxn : t.kind = "grow" /\ t.objective \in Nat
        BY DEF NoTxn, GrowTxn
      <3>3. txn'.kind # "shrink"
        BY <3>1, <3>2
      <3>4. w' \in Worker /\ w'.pc = "advance"
        <4>1. "advance" \in WorkerPcs /\ current \in Int
          BY <2>3 DEF WorkerPcs
        <4> QED
          BY <2>10, <4>1, IdleType, Zenon DEF Worker
      <3>5. TypeOK'
        BY <1>t, <2>1, <2>7, <2>8, <3>1, <3>4 DEF TypeOK
      <3>6. Pending'
        <4> SUFFICES ASSUME txn'.kind = "grow" PROVE ~(BudgetFromTarget(bal'.accepted) >= txn'.objective)
          BY DEF Pending
        <4>1. txn'.objective \in Nat /\ txn'.objective >= want
          BY <3>1, <3>2
        <4>2. accepted < want
          BY <2>2, <2>3, <2>4, <2>10
        <4>3. BudgetFromTarget(bal'.accepted) = accepted
          BY <2>1 DEF accepted
        <4> QED
          BY <2>2, <2>4, <4>1, <4>2, <4>3
      <3> QED
        BY <1>l, <2>1, <2>7, <2>10, <3>1, <3>3, <3>4, <3>5, <3>6, Rests DEF Quiet
    <2> QED
      BY <2>1, <2>9, <2>10
  <1>3. CASE HandlerEnds
    <2>1. UNCHANGED <<ch, bal, resv, txn, rep, press, high, cap>> /\ Returns(bal.accepted)
      BY <1>3 DEF HandlerEnds
    <2>2. bal.accepted \in Nat
      BY <1>t DEF TypeOK
    <2> QED
      BY <1>t, <1>l, <2>1, <2>2, EndsKept DEF TypeOK
  <1> QED
    BY <1>1, <1>2, <1>3

-----------------------------------------------------------------------------
(* Up to the gate: the reservation. *)

(* The worker goes to the gate with a step that is reserved. *)
LEMMA ToGate ==
  ASSUME IInv, TypeOK', UNCHANGED <<ch, bal, ctl, gate, high, cap>>,
         resv'.local >= resv.local, resv'.local <= resv'.node,
         w'.pc = "gate", w'.op \in {"grow", "shrink", "norm"},
         w'.op = "grow" => /\ txn.kind = "grow" /\ txn'.kind = "grow" /\ txn'.change
                           /\ BudgetFromTarget(txn'.target) = txn'.budget
                           /\ txn'.budget <= resv'.local,
         w'.op = "shrink" => txn' = txn /\ txn.kind = "shrink",
         w'.op = "norm" => txn' = txn /\ ctl.norm
  PROVE  IInv'
  <1>t. TypeOK /\ resv.local \in Nat /\ resv'.local \in Nat /\ resv'.node \in Nat
    BY DEF IInv, TypeOK
  <1>b. BudgetFromTarget(ch.target) \in Nat /\ BudgetFromTarget(ctl.safe) \in Nat
    BY BudgetBounds, Zenon DEF IInv, TypeOK, Control
  <1>0. NoTxn.kind = "none"
    BY DEF NoTxn
  <1>1. ctl.norm => txn' = NoTxn /\ BudgetFromTarget(ctl.safe) <= resv'.local
    BY <1>t, <1>b, <1>0 DEF IInv, Working
  <1>2. Working'
    BY <1>1 DEF Working
  <1>3. Covered'
    <2>1. BudgetFromTarget(ch.target) <= resv'.local
      BY <1>t, <1>b DEF IInv, Covered
    <2>2. txn'.kind = "grow" /\ txn'.change
            => BudgetFromTarget(txn'.target) = txn'.budget /\ txn'.budget <= resv'.local
      <3>1. CASE w'.op = "grow"
        BY <3>1
      <3>2. CASE w'.op = "shrink"
        BY <3>2
      <3>3. CASE w'.op = "norm"
        BY <1>1, <1>0, <3>3
      <3> QED
        BY <3>1, <3>2, <3>3
    <2> QED
      BY <2>1, <2>2 DEF Covered
  <1>4. Pending'
    <2>1. CASE w'.op = "grow"
      BY <2>1 DEF Pending
    <2>2. CASE w'.op # "grow"
      BY <2>2 DEF IInv, Pending
    <2> QED
      BY <2>1, <2>2
  <1>5. Limited'
    <2>1. Admits(resv'.local)
      BY <1>t, AdmitsMore DEF IInv, Limited
    <2>2. Admits(resv.local)'
      BY <2>1 DEF Admits, Stands
    <2>3. txn'.kind = "shrink" => txn' = txn
      OBVIOUS
    <2> QED
      BY <2>2, <2>3 DEF IInv, Limited, Admits, Stands
  <1>6. Gated'
    BY DEF IInv, Gated
  <1> QED
    BY <1>2, <1>3, <1>4, <1>5, <1>6 DEF IInv

(* The representable part of a reservation is reserved. *)
LEMMA Prepared ==
  ASSUME TypeOK, NEW t \in GrowTxn, ~t.change, NEW r \in Nat
  PROVE  LET x == Prepare(t, r)
         IN  /\ x \in GrowTxn
             /\ x.change => BudgetFromTarget(x.target) = x.budget /\ x.budget <= r
             /\ ~x.change => x = t
  <1> DEFINE m == Min({r, t.objective})
             b == alignedBudgetAtMostReservation(m)
  <1>1. m \in Nat /\ m <= r
    <2>1. t.objective \in Nat
      BY DEF GrowTxn
    <2> QED
      BY <2>1, MinTwo
  <1> HIDE DEF m
  <1>2. BudgetFromTarget(bal.accepted) \in Nat
    BY BudgetBounds DEF TypeOK
  <1>3. CASE b <= BudgetFromTarget(bal.accepted)
    BY <1>3 DEF Prepare, m
  <1>4. CASE ~(b <= BudgetFromTarget(bal.accepted))
    <2>1. b \in Nat
      <3>1. alignedBudgetAtMostReservation(m) \in Nat
        <4> DEFINE raw == Capacity - Min({m, Capacity})
                   up == raw + ((Step - (raw % Step)) % Step)
        <4>1. Capacity \in Nat /\ Step \in Nat \ {0} /\ raw \in Nat
          BY <1>1, MinTwo, MemoryAssumption
        <4> HIDE DEF raw
        <4>2. up \in Nat
          BY <4>1, RoundsUp
        <4> HIDE DEF up
        <4>3. BudgetFromTarget(up) \in Nat
          BY <4>2, BudgetBounds
        <4> QED
          BY <4>3 DEF alignedBudgetAtMostReservation, raw, up
      <3> QED
        BY <3>1
    <2>2. b > 0
      BY <1>2, <1>4, <2>1
    <2>3. b <= m /\ BudgetFromTarget(TargetForBudget(b)) = b
      BY <1>1, <2>2, AlignedExact
    <2>4. TargetForBudget(b) \in Nat
      BY <2>1, TargetType
    <2>5. Prepare(t, r) = [t EXCEPT !.budget = b, !.target = TargetForBudget(b),
                                    !.change = TRUE, !.highApplied = FALSE]
      BY <1>4 DEF Prepare, m
    <2> HIDE DEF b
    <2>6. /\ Prepare(t, r) \in GrowTxn /\ Prepare(t, r).change
          /\ Prepare(t, r).budget = b /\ Prepare(t, r).target = TargetForBudget(b)
      BY <2>1, <2>4, <2>5, Zenon DEF GrowTxn
    <2> QED
      BY <1>1, <2>1, <2>3, <2>6
  <1> QED
    BY <1>3, <1>4

(* The worker goes to the gate for a transaction. *)
LEMMA GateMove ==
  ASSUME w \in Worker, NEW o \in {"grow", "shrink", "norm", "stall"}, NEW v,
         v = [w EXCEPT !.pc = "gate", !.op = o]
  PROVE  v \in Worker /\ v.pc = "gate" /\ v.op = o
  BY Zenon DEF Worker, WorkerPcs

(* A tick goes on with what is pending. *)
LEMMA TickKeeps == IInv /\ Tick => IInv'
  <1> SUFFICES ASSUME IInv, Tick PROVE IInv'
    OBVIOUS
  <1>1. UNCHANGED <<ch, bal, resv, txn, ctl, rep, press, gate, high, cap>>
    BY DEF Tick
  <1>t. TypeOK /\ resv.local \in Nat /\ resv.local <= resv.node
    BY DEF IInv, TypeOK, Covered
  <1>2. CASE ctl.norm /\ w' = [Idle EXCEPT !.pc = "gate", !.op = "norm"]
    <2>1. w' \in Worker /\ w'.pc = "gate" /\ w'.op = "norm"
      BY <1>2, IdleType, Zenon DEF Worker, WorkerPcs
    <2>2. TypeOK'
      BY <1>1, <1>t, <2>1 DEF TypeOK
    <2> QED
      BY <1>1, <1>t, <1>2, <2>1, <2>2, ToGate
  <1>3. CASE ~ctl.norm /\ w' = [Idle EXCEPT !.pc = "advance"]
    <2>1. w' \in Worker /\ w'.pc = "advance"
      BY <1>3, IdleType DEF Worker, WorkerPcs
    <2>2. TypeOK'
      BY <1>1, <1>t, <2>1 DEF TypeOK
    <2>3. Pending'
      BY <1>1 DEF IInv, Pending
    <2> QED
      BY <1>1, <1>t, <1>3, <2>1, <2>2, <2>3, Rests DEF Quiet
  <1> QED
    BY <1>2, <1>3 DEF Tick

(* A grow up to the reservation request. *)
LEMMA AdvanceGrowKeeps == IInv /\ advanceGrow => IInv'
  <1> SUFFICES ASSUME IInv, advanceGrow PROVE IInv'
    OBVIOUS
  <1>1. /\ UNCHANGED <<ch, bal, resv, rep, press, high, cap>>
        /\ w.pc = "advance" /\ txn.kind = "grow"
    BY DEF advanceGrow
  <1>t. /\ TypeOK /\ resv.local \in Nat /\ resv.local <= resv.node /\ w \in Worker
        /\ bal.accepted \in Nat
    BY DEF IInv, TypeOK, Covered
  <1>k. txn \in GrowTxn
    BY <1>1, <1>t, Kinds
  <1>2. CASE txn.change /\ w' = [w EXCEPT !.pc = "gate", !.op = "grow"] /\ UNCHANGED <<txn, ctl, gate>>
    <2>1. w' \in Worker /\ w'.pc = "gate" /\ w'.op = "grow"
      BY <1>2, <1>t, GateMove
    <2>2. TypeOK'
      BY <1>1, <1>t, <1>2, <2>1 DEF TypeOK
    <2>3. BudgetFromTarget(txn.target) = txn.budget /\ txn.budget <= resv.local
      BY <1>1, <1>2 DEF IInv, Covered
    <2> QED
      BY <1>1, <1>t, <1>2, <2>1, <2>2, <2>3, ToGate
  <1>3. CASE (txn' = NoTxn \/ txn' = txn) /\ Returns(bal.accepted)
    BY <1>1, <1>t, <1>3, EndsKept DEF TypeOK
  <1>4. CASE /\ ~txn.change /\ txn.objective > resv.local
             /\ w' = [w EXCEPT !.pc = "request"] /\ UNCHANGED <<txn, ctl, gate>>
    <2>1. w' \in Worker /\ w'.pc = "request"
      <3>1. "request" \in WorkerPcs
        BY DEF WorkerPcs
      <3> QED
        BY <1>t, <1>4, <3>1, Moves
    <2>2. TypeOK'
      BY <1>1, <1>t, <1>4, <2>1 DEF TypeOK
    <2>3. Working'
      BY <1>1, <1>4, <2>1 DEF IInv, Working
    <2>4. Covered' /\ Pending'
      BY <1>1, <1>4, <2>1 DEF IInv, Covered, Pending
    <2>5. Limited' /\ Gated'
      BY <1>1, <1>4, <2>1 DEF IInv, Limited, Gated, Admits, Stands
    <2> QED
      BY <2>2, <2>3, <2>4, <2>5 DEF IInv
  <1>5. CASE /\ ~txn.change /\ txn' = Prepare(txn, resv.local)
             /\ IF txn'.change
                THEN w' = [w EXCEPT !.pc = "gate", !.op = "grow"] /\ UNCHANGED <<ctl, gate>>
                ELSE Returns(bal.accepted)
    <2>1. /\ txn' \in GrowTxn
          /\ txn'.change => BudgetFromTarget(txn'.target) = txn'.budget /\ txn'.budget <= resv.local
          /\ ~txn'.change => txn' = txn
      BY <1>t, <1>k, <1>5, Prepared
    <2>2. CASE txn'.change
      <3>1. w' = [w EXCEPT !.pc = "gate", !.op = "grow"] /\ UNCHANGED <<ctl, gate>>
        BY <1>5, <2>2
      <3>2. w' \in Worker /\ w'.pc = "gate" /\ w'.op = "grow"
        BY <1>t, <3>1, GateMove
      <3>3. TypeOK'
        BY <1>1, <1>t, <2>1, <3>1, <3>2 DEF TypeOK
      <3>4. txn'.kind = "grow"
        BY <2>1 DEF GrowTxn
      <3> QED
        BY <1>1, <1>t, <2>1, <2>2, <3>1, <3>2, <3>3, <3>4, ToGate
    <2>3. CASE ~txn'.change
      BY <1>3, <1>5, <2>1, <2>3
    <2> QED
      BY <2>2, <2>3
  <1> QED
    BY <1>1, <1>2, <1>3, <1>4, <1>5 DEF advanceGrow

(* A grow asks for its reservation: whatever is granted, lost or refused,    *)
(* nothing reserved is given up and only what is reserved is prepared.      *)
LEMMA RequestKeeps == IInv /\ requestReservation => IInv'
  <1> SUFFICES ASSUME IInv, requestReservation PROVE IInv'
    OBVIOUS
  <1> DEFINE delta == txn.objective - resv.local
  <1>1. UNCHANGED <<ch, bal, rep, press, high, cap>> /\ w.pc = "request"
    BY DEF requestReservation
  <1>t. /\ TypeOK /\ resv.local \in Nat /\ resv.node \in Nat /\ resv.local <= resv.node
        /\ w \in Worker /\ bal.accepted \in Nat
        /\ resv \in [local : Nat, node : Nat, conn : BOOLEAN]
    BY DEF IInv, TypeOK, Covered
  <1>k. txn.kind = "grow" /\ ~txn.change /\ txn.objective > resv.local
    BY <1>1 DEF IInv, Working
  <1>g. txn \in GrowTxn /\ txn.objective \in Nat
    BY <1>k, <1>t, Kinds DEF GrowTxn
  <1>d. delta \in Nat /\ delta # 0
    BY <1>g, <1>k, <1>t
  <1>2. ASSUME NEW g \in Nat, NEW cool \in BOOLEAN,
               resv' = Granted(resv.local, g),
               txn' = IF g = 0 THEN [txn EXCEPT !.cool = cool]
                      ELSE Prepare([txn EXCEPT !.cool = cool], resv.local + g),
               IF txn'.change
               THEN w' = [w EXCEPT !.pc = "gate", !.op = "grow"] /\ UNCHANGED <<ctl, gate>>
               ELSE Returns(bal.accepted)
        PROVE  IInv'
    <2> DEFINE t == [txn EXCEPT !.cool = cool]
    <2>1. /\ resv' \in [local : Nat, node : Nat, conn : BOOLEAN]
          /\ resv'.local = resv.local + g /\ resv'.node = resv.local + g
      BY <1>t, <1>2 DEF Granted
    <2>2. /\ t \in GrowTxn /\ ~t.change /\ t.objective = txn.objective
      BY <1>g, <1>k DEF GrowTxn
    <2>3. txn' = IF g = 0 THEN t ELSE Prepare(t, resv.local + g)
      BY <1>2
    <2> HIDE DEF t
    <2>4. /\ txn' \in GrowTxn
          /\ txn'.change => BudgetFromTarget(txn'.target) = txn'.budget
                            /\ txn'.budget <= resv.local + g
          /\ ~txn'.change => txn' = t
      <3>1. CASE g = 0
        BY <2>2, <2>3, <3>1
      <3>2. CASE g # 0
        <4>1. resv.local + g \in Nat
          BY <1>t
        <4> QED
          BY <1>t, <2>2, <2>3, <3>2, <4>1, Prepared
      <3> QED
        BY <3>1, <3>2
    <2>5. txn'.kind = "grow"
      BY <2>4 DEF GrowTxn
    <2>6. resv'.local >= resv.local /\ resv'.local <= resv'.node
      BY <1>t, <2>1
    <2>7. CASE txn'.change
      <3>1. w' = [w EXCEPT !.pc = "gate", !.op = "grow"] /\ UNCHANGED <<ctl, gate>>
        BY <1>2, <2>7
      <3>2. w' \in Worker /\ w'.pc = "gate" /\ w'.op = "grow"
        BY <1>t, <3>1, GateMove
      <3>3. TypeOK'
        BY <1>1, <1>t, <2>1, <2>4, <3>1, <3>2 DEF TypeOK
      <3> QED
        BY <1>1, <1>k, <2>1, <2>4, <2>5, <2>6, <2>7, <3>1, <3>2, <3>3, ToGate
    <2>8. CASE ~txn'.change
      <3>1. Returns(bal.accepted)
        BY <1>2, <2>8
      <3>2. Pending'
        BY <1>1, <1>k, <2>2, <2>4, <2>8 DEF IInv, Pending
      <3>3. ~ctl.norm
        BY <1>k DEF IInv, Working, NoTxn
      <3>4. /\ ch' \in [target : Nat, actual : Nat, awake : BOOLEAN] /\ ch'.target = ch.target
            /\ bal' \in [desired : Nat, accepted : Nat, current : Nat]
            /\ rep' \in [open : BOOLEAN, seq : Nat, queue : Seq(Report)]
            /\ press' \in Seq({"low", "normal", "high"})
        BY <1>1, <1>t DEF TypeOK
      <3> QED
        BY <1>1, <1>t, <2>1, <2>4, <2>5, <2>6, <2>8, <3>1, <3>2, <3>3, <3>4, Ends
    <2> QED
      BY <2>7, <2>8
  <1>3. ASSUME NEW g \in 0..delta, resv' \in Lost(resv.local, delta, g), ReturnsError, UNCHANGED txn
        PROVE  IInv'
    <2>1. PICK n \in {resv.node, resv.local + g} :
              resv' = [local |-> resv.local, node |-> n, conn |-> FALSE]
      BY <1>3, <1>d DEF Lost
    <2>2. n \in Nat /\ resv.local <= n
      BY <1>t, <1>d
    <2>3. /\ resv' \in [local : Nat, node : Nat, conn : BOOLEAN]
          /\ resv'.local >= resv.local /\ resv'.local <= resv'.node
      BY <1>t, <2>1, <2>2
    <2> QED
      BY <1>1, <1>t, <1>3, <2>3, EndsKept DEF TypeOK
  <1>4. CASE ReturnsError /\ UNCHANGED <<resv, txn>>
    BY <1>1, <1>t, <1>4, EndsKept DEF TypeOK
  <1>5. \A g \in (IF ctl.dyn THEN 0..delta ELSE {delta}) : g \in Nat
    BY <1>d
  <1> QED
    BY <1>2, <1>3, <1>4, <1>5, Zenon DEF requestReservation

(* A shrink before the gate, the retry of a stalled balloon, a failed        *)
(* exchange, and a worker that has ended.                                   *)
LEMMA OthersKeep ==
  ASSUME IInv, \/ advanceShrink \/ retryStalledBalloon \/ retryAcceptedTarget \/ ExchangeFails
               \/ UNCHANGED vars
  PROVE  IInv'
  <1>t. /\ TypeOK /\ resv.local \in Nat /\ resv.local <= resv.node /\ w \in Worker
        /\ ctl \in Control
    BY DEF IInv, TypeOK, Covered
  <1>1. CASE advanceShrink
    <2>1. /\ UNCHANGED <<ch, bal, resv, txn, rep, press, high, cap>> /\ txn.kind = "shrink"
          /\ \/ ShrinkReturns(ctl.fence)
             \/ w' = [w EXCEPT !.pc = "gate", !.op = "shrink"] /\ UNCHANGED <<ctl, gate>>
      BY <1>1 DEF advanceShrink
    <2>2. CASE ShrinkReturns(ctl.fence)
      <3>1. ctl.fence \in Nat
        BY <1>t DEF Control
      <3> QED
        BY <1>t, <2>1, <2>2, <3>1, EndsKept DEF TypeOK
    <2>3. CASE w' = [w EXCEPT !.pc = "gate", !.op = "shrink"] /\ UNCHANGED <<ctl, gate>>
      <3>1. w' \in Worker /\ w'.pc = "gate" /\ w'.op = "shrink"
        BY <1>t, <2>3, GateMove
      <3>2. TypeOK'
        BY <1>t, <2>1, <2>3, <3>1 DEF TypeOK
      <3> QED
        BY <1>t, <2>1, <2>3, <3>1, <3>2, ToGate
    <2> QED
      BY <2>1, <2>2, <2>3
  <1>2. CASE retryStalledBalloon
    <2> DEFINE d == [ctl EXCEPT !.stall = [seq |-> w.report.seq, target |-> w.seen.target,
                                           actual |-> w.seen.current]]
    <2>1. /\ UNCHANGED <<ch, bal, resv, txn, rep, press, gate, high, cap>>
          /\ w' = Idle \/ w' = [w EXCEPT !.pc = "gate", !.op = "stall"]
          /\ ctl' = d \/ ctl' = ctl
      BY <1>2 DEF retryStalledBalloon
    <2>2. [seq |-> w.report.seq, target |-> w.seen.target, actual |-> w.seen.current] \in Stall
      BY <1>t DEF Worker, Report, Observation, Stall
    <2>3. d \in Control /\ (d.norm <=> ctl.norm) /\ d.safe = ctl.safe
      BY <1>t, <2>2 DEF Control
    <2> HIDE DEF d
    <2>4. ctl' \in Control /\ (ctl'.norm <=> ctl.norm) /\ ctl'.safe = ctl.safe
      BY <1>t, <2>1, <2>3
    <2>5. w' \in Worker /\ (w'.pc = "idle" \/ (w'.pc = "gate" /\ w'.op = "stall"))
      BY <1>t, <2>1, IdleType, GateMove
    <2>6. TypeOK'
      BY <1>t, <2>1, <2>4, <2>5 DEF TypeOK
    <2>7. Pending' /\ (ctl'.norm => txn' = NoTxn)
      BY <2>1, <2>4 DEF IInv, Pending, Working
    <2>8. w'.pc \in Quiet \/ (w'.pc = "gate" /\ w'.op = "stall")
      BY <2>5 DEF Quiet
    <2>9. w'.pc # "observe"
      BY <2>5
    <2> QED
      BY <1>t, <2>1, <2>4, <2>6, <2>7, <2>8, <2>9, Rests
  <1>3. CASE retryAcceptedTarget
    <2>1. /\ UNCHANGED <<resv, txn, rep, press, high, cap>> /\ bal' = VmInfo /\ ReturnsError
          /\ ch' = [ch EXCEPT !.awake = TRUE] \/ ch' = ch
      BY <1>3 DEF retryAcceptedTarget
    <2>2. ch' \in [target : Nat, actual : Nat, awake : BOOLEAN] /\ ch'.target = ch.target
      BY <1>t, <2>1, Zenon DEF TypeOK
    <2>3. bal' \in [desired : Nat, accepted : Nat, current : Nat] /\ bal'.accepted = ch.target
      BY <1>t, <2>1, Observed
    <2> QED
      BY <1>t, <2>1, <2>2, <2>3, EndsKept DEF TypeOK
  <1>4. CASE ExchangeFails
    <2>1. UNCHANGED <<ch, bal, resv, txn, rep, press, high, cap>> /\ ReturnsError
      BY <1>4 DEF ExchangeFails
    <2> QED
      BY <1>t, <2>1, EndsKept DEF TypeOK
  <1>5. CASE UNCHANGED vars
    <2>1. UNCHANGED <<ch, bal, resv, txn, ctl, rep, press, w, gate, high, cap>>
      BY <1>5 DEF vars
    <2>2. TypeOK'
      BY <1>t, <2>1 DEF TypeOK
    <2> QED
      BY <1>t, <2>1, <2>2, Beside
  <1> QED
    BY <1>1, <1>2, <1>3, <1>4, <1>5

-----------------------------------------------------------------------------
(* Under the gate: the balloon. *)

(* The worker takes the gate and goes on to its first exchange. *)
LEMMA TakesGate ==
  ASSUME IInv, gate = "free", gate' = "worker", w.pc = "gate",
         UNCHANGED <<ch, resv, txn, ctl, rep, press, high, cap>>,
         bal' \in [desired : Nat, accepted : Nat, current : Nat], bal'.accepted = bal.accepted,
         w' \in Worker, w'.op = w.op,
         \/ w'.pc = "high" /\ w.op = "grow"
         \/ w'.pc = "pre" /\ w.op = "grow" /\ bal'.desired = txn.target
         \/ w'.pc = "pre" /\ w.op = "norm" /\ bal'.desired = ctl.safe
         \/ w'.pc = "pre" /\ w.op = "shrink"
         \/ w'.pc = "settle" /\ w.op = "shrink"
         \/ w'.pc = "stallPre"
  PROVE  IInv'
  <1>1. TypeOK'
    BY DEF IInv, TypeOK
  <1>2. Working'
    BY DEF IInv, Working
  <1>3. Covered' /\ Pending'
    BY DEF IInv, Covered, Pending
  <1>4. Limited' /\ Gated'
    BY DEF IInv, Limited, Gated, Admits, Stands
  <1> QED
    BY <1>1, <1>2, <1>3, <1>4 DEF IInv

(* acquireMutation. *)
LEMMA AcquireKeeps == IInv /\ acquireMutation => IInv'
  <1> SUFFICES ASSUME IInv, acquireMutation PROVE IInv'
    OBVIOUS
  <1>1. /\ UNCHANGED <<ch, resv, txn, rep, press, high, cap>> /\ w.pc = "gate" /\ gate = "free"
    BY DEF acquireMutation
  <1>t. /\ TypeOK /\ resv.local \in Nat /\ resv.local <= resv.node /\ w \in Worker
        /\ ctl \in Control /\ bal \in [desired : Nat, accepted : Nat, current : Nat]
    BY DEF IInv, TypeOK, Covered
  <1>p. \A p \in {"pre", "high", "settle", "stallPre"} : p \in WorkerPcs
    BY DEF WorkerPcs
  <1>2. CASE w.op = "grow" /\ gate' = "worker" /\ UNCHANGED ctl
             /\ bal' = [bal EXCEPT !.desired = txn.target] /\ w' = [w EXCEPT !.pc = "pre"]
    <2>1. txn.kind = "grow" /\ txn.target \in Nat
      BY <1>1, <1>2, <1>t, Kinds DEF IInv, Working, GrowTxn
    <2>2. /\ bal' \in [desired : Nat, accepted : Nat, current : Nat]
          /\ bal'.accepted = bal.accepted /\ bal'.desired = txn.target
      BY <1>2, <1>t, <2>1
    <2>3. w' \in Worker /\ w'.pc = "pre" /\ w'.op = w.op
      BY <1>2, <1>p, <1>t, Moves
    <2> QED
      BY <1>1, <1>2, <2>2, <2>3, TakesGate
  <1>3. CASE w.op = "grow" /\ gate' = "worker" /\ UNCHANGED ctl
             /\ bal' = bal /\ w' = [w EXCEPT !.pc = "high"]
    <2>1. w' \in Worker /\ w'.pc = "high" /\ w'.op = w.op
      BY <1>3, <1>p, <1>t, Moves
    <2> QED
      BY <1>1, <1>3, <1>t, <2>1, TakesGate
  <1>4. CASE /\ w.op = "norm"
             /\ gate' = "worker" /\ bal' = [bal EXCEPT !.desired = ctl.safe]
             /\ w' = [w EXCEPT !.pc = "pre"] /\ UNCHANGED ctl
    <2>1. ctl.safe \in Nat
      BY <1>t DEF Control
    <2>2. /\ bal' \in [desired : Nat, accepted : Nat, current : Nat]
          /\ bal'.accepted = bal.accepted /\ bal'.desired = ctl.safe
      BY <1>4, <1>t, <2>1
    <2>3. w' \in Worker /\ w'.pc = "pre" /\ w'.op = w.op
      BY <1>4, <1>p, <1>t, Moves
    <2> QED
      BY <1>1, <1>4, <2>2, <2>3, TakesGate
  <1>5. CASE ShrinkReturns(ctl.fence) /\ UNCHANGED bal
    <2>1. ctl.fence \in Nat
      BY <1>t DEF Control
    <2> QED
      BY <1>t, <1>1, <1>5, <2>1, EndsKept DEF TypeOK
  <1>6. CASE w.op = "shrink" /\ gate' = "worker" /\ UNCHANGED ctl
             /\ bal' = bal /\ w' = [w EXCEPT !.pc = "settle"]
    <2>1. w' \in Worker /\ w'.pc = "settle" /\ w'.op = w.op
      BY <1>6, <1>p, <1>t, Moves
    <2> QED
      BY <1>1, <1>6, <1>t, <2>1, TakesGate
  <1>7. CASE w.op = "shrink" /\ gate' = "worker" /\ UNCHANGED ctl
             /\ bal' = [bal EXCEPT !.desired = txn.target] /\ w' = [w EXCEPT !.pc = "pre"]
    <2>1. txn.kind = "shrink" /\ txn.target \in Nat
      BY <1>1, <1>7, <1>t, Kinds DEF IInv, Working, ShrinkTxn
    <2>2. /\ bal' \in [desired : Nat, accepted : Nat, current : Nat]
          /\ bal'.accepted = bal.accepted
      BY <1>7, <1>t, <2>1
    <2>3. w' \in Worker /\ w'.pc = "pre" /\ w'.op = w.op
      BY <1>7, <1>p, <1>t, Moves
    <2> QED
      BY <1>1, <1>7, <2>2, <2>3, TakesGate
  <1>8. CASE gate' = "worker" /\ w' = [w EXCEPT !.pc = "stallPre"] /\ UNCHANGED <<bal, ctl>>
    <2>1. w' \in Worker /\ w'.pc = "stallPre" /\ w'.op = w.op
      BY <1>8, <1>p, <1>t, Moves
    <2> QED
      BY <1>1, <1>8, <1>t, <2>1, TakesGate
  <1> QED
    BY <1>2, <1>3, <1>4, <1>5, <1>6, <1>7, <1>8 DEF acquireMutation

(* CH has the target that was asked for.  A grow that ends has reached its   *)
(* objective.                                                               *)
LEMMA ConfirmedKeeps ==
  ASSUME IInv, w.pc \in {"pre", "post"}, ch.target = bal.desired, bal' = VmInfo, Confirmed,
         UNCHANGED <<ch, resv, press, high, cap>>
  PROVE  /\ IInv'
         /\ txn.kind = "grow" /\ txn'.kind # "grow" => BudgetFromTarget(ch.target) >= txn.objective
  <1>t. /\ TypeOK /\ resv.local \in Nat /\ resv.local <= resv.node /\ w \in Worker
        /\ ctl \in Control /\ ch.target \in Nat
        /\ rep \in [open : BOOLEAN, seq : Nat, queue : Seq(Report)]
    BY DEF IInv, TypeOK, Covered
  <1>b. /\ bal' \in [desired : Nat, accepted : Nat, current : Nat] /\ bal'.accepted = ch.target
        /\ Seen \in Observation
    BY <1>t, Observed
  <1>0. NoTxn.kind = "none"
    BY DEF NoTxn
  <1>p. Pending'
    BY <1>b DEF Pending
  <1>r. /\ resv' \in [local : Nat, node : Nat, conn : BOOLEAN]
        /\ resv'.local >= resv.local /\ resv'.local <= resv'.node
        /\ ch' \in [target : Nat, actual : Nat, awake : BOOLEAN] /\ ch'.target = ch.target
        /\ press' \in Seq({"low", "normal", "high"})
    BY <1>t DEF TypeOK
  <1>1. CASE w.op = "grow"
    <2>1. /\ txn' = IF txn.budget >= txn.objective THEN NoTxn ELSE [txn EXCEPT !.change = FALSE]
          /\ Returns(ch.target) /\ UNCHANGED rep
      BY <1>1 DEF Confirmed
    <2>2. txn.kind = "grow" /\ txn.change /\ txn.target = ch.target
      BY <1>1 DEF IInv, Working
    <2>3. BudgetFromTarget(ch.target) = txn.budget
      BY <2>2 DEF IInv, Covered
    <2>4. txn \in GrowTxn
      BY <1>t, <2>2, Kinds
    <2>5. [txn EXCEPT !.change = FALSE] \in GrowTxn /\ ~[txn EXCEPT !.change = FALSE].change
          /\ [txn EXCEPT !.change = FALSE].kind = "grow"
      BY <2>4, Zenon DEF GrowTxn
    <2>6. \/ txn' = NoTxn
          \/ txn' \in GrowTxn /\ ~txn'.change /\ txn'.kind = "grow"
      BY <2>1, <2>5
    <2>7. ~ctl.norm
      BY <2>2, <1>0 DEF IInv, Working
    <2>8. IInv'
      BY <1>t, <1>b, <1>0, <1>p, <1>r, <2>1, <2>6, <2>7, Ends
    <2>9. txn'.kind # "grow" => BudgetFromTarget(ch.target) >= txn.objective
      BY <2>1, <2>3, <2>5
    <2> QED
      BY <2>8, <2>9
  <1>2. CASE w.op = "norm"
    <2>1. /\ ctl' = [ctl EXCEPT !.norm = FALSE] /\ rep' = [rep EXCEPT !.open = TRUE]
          /\ w' = Idle /\ gate' = GateReleased /\ UNCHANGED txn
      BY <1>2 DEF Confirmed
    <2>2. ctl' \in Control /\ ~ctl'.norm
      BY <1>t, <2>1, Zenon DEF Control
    <2>3. rep' \in [open : BOOLEAN, seq : Nat, queue : Seq(Report)]
      BY <1>t, <2>1, Zenon
    <2>4. gate' \in {"free", "worker", "capture"} /\ (gate' = gate \/ gate = "worker")
      BY <1>t, <2>1 DEF GateReleased, TypeOK
    <2>5. w' \in Worker /\ w'.pc = "idle"
      BY <2>1, IdleType
    <2>6. TypeOK'
      BY <1>t, <1>b, <1>r, <2>1, <2>2, <2>3, <2>4, <2>5 DEF TypeOK
    <2> QED
      BY <1>p, <1>r, <2>1, <2>2, <2>4, <2>5, <2>6, Rests DEF Quiet
  <1>3. CASE w.op = "shrink"
    <2>1. /\ txn' = [txn EXCEPT !.accepted = TRUE]
          /\ w' = [w EXCEPT !.pc = "settled", !.obs = Seen] /\ UNCHANGED <<ctl, gate, rep>>
      BY <1>3 DEF Confirmed
    <2>2. txn.kind = "shrink" /\ gate = "worker"
      BY <1>3 DEF IInv, Working, Gated
    <2>3. txn \in ShrinkTxn
      BY <1>t, <2>2, Kinds
    <2>4. /\ txn' \in ShrinkTxn /\ txn'.kind = "shrink" /\ (txn'.highApplied <=> txn.highApplied)
          /\ txn'.highBudget = txn.highBudget
      BY <2>1, <2>3, Zenon DEF ShrinkTxn
    <2>5. w' \in Worker /\ w'.pc = "settled" /\ w'.op = "shrink"
      BY <1>t, <1>b, <1>3, <2>1, Zenon DEF Worker, WorkerPcs
    <2>6. TypeOK'
      BY <1>t, <1>b, <1>r, <2>1, <2>4, <2>5 DEF TypeOK
    <2>7. ~ctl.norm
      BY <2>2, <1>0 DEF IInv, Working
    <2>8. Working'
      BY <2>1, <2>4, <2>5, <2>7 DEF Working
    <2>9. Covered'
      BY <2>4, <2>5 DEF IInv, Covered
    <2>10. Limited'
      BY <2>2, <2>4, <2>5 DEF IInv, Limited, Admits, Stands
    <2>11. Gated'
      BY <2>1, <2>2, <2>5 DEF IInv, Gated
    <2> QED
      BY <1>p, <2>2, <2>6, <2>8, <2>9, <2>10, <2>11 DEF IInv
  <1> QED
    BY <1>1, <1>2, <1>3 DEF Confirmed

(* The worker goes on to vm.resize with a target that is reserved. *)
LEMMA ToResize ==
  ASSUME IInv, w.pc = "pre", w.op # "shrink" \/ ~shrinkChanged,
         UNCHANGED <<ch, resv, txn, ctl, rep, press, gate, high, cap>>,
         bal' \in [desired : Nat, accepted : Nat, current : Nat],
         bal'.desired = bal.desired, bal'.accepted \in {bal.accepted, ch.target},
         w' = [w EXCEPT !.pc = "resize"]
  PROVE  IInv'
  <1>t. TypeOK /\ w \in Worker /\ ch.target \in Nat /\ bal.desired \in Nat /\ resv.local \in Nat
    BY DEF IInv, TypeOK
  <1>1. w' \in Worker /\ w'.pc = "resize" /\ w'.op = w.op
    BY <1>t, Moves DEF WorkerPcs
  <1>2. TypeOK'
    BY <1>1 DEF IInv, TypeOK
  <1>3. Working'
    BY <1>1 DEF IInv, Working
  <1>4. BudgetFromTarget(bal.desired) <= resv.local
    <2>1. CASE w.op = "grow"
      BY <2>1 DEF IInv, Working, Covered
    <2>2. CASE w.op = "norm"
      BY <2>2 DEF IInv, Working
    <2>3. CASE w.op = "shrink"
      <3>1. ch.target <= bal.desired
        BY <1>t, <2>3 DEF shrinkChanged
      <3>2. BudgetFromTarget(bal.desired) <= BudgetFromTarget(ch.target)
        BY <1>t, <3>1, BudgetFalls
      <3>3. BudgetFromTarget(ch.target) <= resv.local
        BY DEF IInv, Covered
      <3>4. BudgetFromTarget(bal.desired) \in Nat /\ BudgetFromTarget(ch.target) \in Nat
        BY <1>t, BudgetBounds
      <3> QED
        BY <1>t, <3>2, <3>3, <3>4
    <2> QED
      BY <2>1, <2>2, <2>3 DEF IInv, Working
  <1>5. Covered'
    BY <1>1, <1>4 DEF IInv, Covered
  <1>6. Pending'
    BY DEF IInv, Pending
  <1>7. Limited' /\ Gated'
    BY <1>1 DEF IInv, Limited, Gated, Admits, Stands
  <1> QED
    BY <1>2, <1>3, <1>5, <1>6, <1>7 DEF IInv

(* vm.info, vm.resize, vm.info. *)
LEMMA BalloonKeeps ==
  ASSUME IInv, observeBeforeResize \/ callResize \/ observeAfterResize
  PROVE  IInv'
  <1>t. /\ TypeOK /\ resv.local \in Nat /\ resv.local <= resv.node /\ w \in Worker
        /\ ctl \in Control /\ bal \in [desired : Nat, accepted : Nat, current : Nat]
        /\ ch \in [target : Nat, actual : Nat, awake : BOOLEAN]
    BY DEF IInv, TypeOK, Covered
  <1>v. /\ VmInfo \in [desired : Nat, accepted : Nat, current : Nat]
        /\ VmInfo.accepted = ch.target /\ VmInfo.desired = bal.desired
        /\ [VmInfo EXCEPT !.desired = ch.target] \in [desired : Nat, accepted : Nat, current : Nat]
        /\ [VmInfo EXCEPT !.desired = ch.target].accepted = ch.target
    BY <1>t, Observed
  <1>1. CASE observeBeforeResize
    <2>1. UNCHANGED <<ch, resv, press, high, cap>> /\ w.pc = "pre"
      BY <1>1 DEF observeBeforeResize
    <2>2. CASE ch.target = bal.desired /\ bal' = VmInfo /\ Confirmed
      BY <2>1, <2>2, ConfirmedKeeps
    <2>3. CASE /\ w.op = "shrink" /\ bal' = [VmInfo EXCEPT !.desired = ch.target]
               /\ txn' = NoTxn /\ ShrinkReturns(FenceAfter(txn)) /\ UNCHANGED rep
      <3>1. txn.kind = "shrink"
        BY <2>1, <2>3 DEF IInv, Working
      <3>2. FenceAfter(txn) \in Nat
        BY <1>t, <3>1, FenceType
      <3> QED
        BY <1>t, <1>v, <2>1, <2>3, <3>2, EndsKept DEF TypeOK
    <2>4. CASE /\ ~(w.op = "shrink" /\ shrinkChanged) /\ bal' = VmInfo
               /\ w' = [w EXCEPT !.pc = "resize"] /\ UNCHANGED <<txn, ctl, gate, rep>>
      BY <1>v, <2>1, <2>4, ToResize
    <2>5. CASE /\ w.op # "shrink" /\ w' = [w EXCEPT !.pc = "resize"]
               /\ UNCHANGED <<bal, txn, ctl, gate, rep>>
      BY <1>t, <2>1, <2>5, ToResize
    <2> QED
      BY <1>1, <2>2, <2>3, <2>4, <2>5 DEF observeBeforeResize
  <1>2. CASE callResize
    <2> DEFINE resized == [ch EXCEPT !.target = bal.desired, !.awake = TRUE]
    <2>1. /\ UNCHANGED <<resv, txn, ctl, rep, press, gate, high, cap>> /\ w.pc = "resize"
          /\ w' = [w EXCEPT !.pc = "post"] /\ ch' \in {ch, resized}
          /\ bal' = [bal EXCEPT !.accepted = bal.desired] \/ bal' = bal
      BY <1>2 DEF callResize
    <2>2. /\ ch' \in [target : Nat, actual : Nat, awake : BOOLEAN]
          /\ ch'.target \in {ch.target, bal.desired}
      <3>1. resized \in [target : Nat, actual : Nat, awake : BOOLEAN] /\ resized.target = bal.desired
        BY <1>t, Zenon
      <3> QED
        BY <1>t, <2>1, <3>1, Zenon
    <2>3. bal' \in [desired : Nat, accepted : Nat, current : Nat] /\ bal'.desired = bal.desired
      BY <1>t, <2>1
    <2>4. w' \in Worker /\ w'.pc = "post" /\ w'.op = w.op
      BY <1>t, <2>1, Moves DEF WorkerPcs
    <2>5. TypeOK'
      BY <1>t, <2>1, <2>2, <2>3, <2>4 DEF TypeOK
    <2>6. Working'
      BY <2>1, <2>3, <2>4 DEF IInv, Working
    <2>7. Covered'
      BY <2>1, <2>2, <2>4 DEF IInv, Covered
    <2>8. Pending'
      <3>1. ~(txn.kind = "grow" /\ ~txn.change)
        BY <2>1 DEF IInv, Working, NoTxn
      <3> QED
        BY <2>1, <3>1 DEF Pending
    <2>9. Limited' /\ Gated'
      BY <2>1, <2>4 DEF IInv, Limited, Gated, Admits, Stands
    <2> QED
      BY <2>5, <2>6, <2>7, <2>8, <2>9 DEF IInv
  <1>3. CASE observeAfterResize
    <2>1. UNCHANGED <<ch, resv, press, high, cap>> /\ w.pc = "post"
      BY <1>3 DEF observeAfterResize
    <2>2. CASE ch.target = bal.desired /\ bal' = VmInfo /\ Confirmed
      BY <2>1, <2>2, ConfirmedKeeps
    <2>3. CASE (bal' = VmInfo \/ bal' = bal) /\ ReturnsError /\ UNCHANGED <<txn, rep>>
      BY <1>t, <1>v, <2>1, <2>3, EndsKept DEF TypeOK
    <2> QED
      BY <1>3, <2>2, <2>3 DEF observeAfterResize
  <1> QED
    BY <1>1, <1>2, <1>3

-----------------------------------------------------------------------------
(* Under the gate: memory.high and the return of a reservation. *)

(* The settlement of a shrink goes on; what it has reserved and written      *)
(* stands.                                                                  *)
LEMMA Settles ==
  ASSUME IInv, w.op = "shrink", txn.kind = "shrink", gate = "worker",
         UNCHANGED <<ch, resv, ctl, rep, press, gate, high, cap>>,
         bal' \in [desired : Nat, accepted : Nat, current : Nat],
         bal'.accepted \in {bal.accepted, ch.target},
         w' \in Worker, w'.op = w.op,
         \/ w'.pc = "settled" /\ txn' = txn
         \/ w'.pc = "high" /\ w'.budget <= resv.local /\ txn' = txn
         \/ /\ w'.pc = "confirm" /\ w'.budget <= resv.local /\ txn' = txn
            /\ txn.highApplied /\ txn.highBudget = w'.budget
         \/ /\ w'.pc = "repair" /\ w'.budget <= resv.local
            /\ txn' \in ShrinkTxn /\ ~txn'.highApplied
  PROVE  IInv'
  <1>0. NoTxn.kind = "none" /\ \A t \in ShrinkTxn : t.kind = "shrink"
    BY DEF NoTxn, ShrinkTxn
  <1>k. txn'.kind = "shrink"
    BY <1>0
  <1>n. ~ctl.norm
    BY <1>0 DEF IInv, Working
  <1>1. TypeOK'
    BY DEF IInv, TypeOK
  <1>2. Working'
    BY <1>k, <1>n DEF Working
  <1>3. Covered'
    BY <1>k DEF IInv, Covered
  <1>4. Pending'
    BY <1>k DEF Pending
  <1>5. Limited'
    BY <1>k, Zenon DEF IInv, Limited, Admits, Stands
  <1>6. Gated'
    BY DEF IInv, Gated
  <1> QED
    BY <1>1, <1>2, <1>3, <1>4, <1>5, <1>6 DEF IInv

(* What CH holds is looked at again before anything is settled. *)
LEMMA AcceptedKeeps == IInv /\ observeAccepted => IInv'
  <1> SUFFICES ASSUME IInv, observeAccepted PROVE IInv'
    OBVIOUS
  <1>1. UNCHANGED <<ch, resv, rep, press, high, cap>> /\ w.pc = "settle" /\ bal' = VmInfo
    BY DEF observeAccepted
  <1>t. /\ TypeOK /\ resv.local \in Nat /\ resv.local <= resv.node /\ w \in Worker
    BY DEF IInv, TypeOK, Covered
  <1>v. /\ bal' \in [desired : Nat, accepted : Nat, current : Nat]
        /\ bal'.accepted = ch.target /\ Seen \in Observation
    BY <1>1, <1>t, Observed
  <1>k. w.op = "shrink" /\ txn.kind = "shrink" /\ gate = "worker"
    BY <1>1 DEF IInv, Working, Gated
  <1>2. CASE txn' = [txn EXCEPT !.accepted = FALSE] /\ ReturnsError
    <2>1. txn \in ShrinkTxn
      BY <1>t, <1>k, Kinds
    <2>2. /\ txn' \in ShrinkTxn /\ txn'.kind = "shrink" /\ (txn'.highApplied <=> txn.highApplied)
          /\ txn'.highBudget = txn.highBudget
      BY <1>2, <2>1, Zenon DEF ShrinkTxn
    <2>3. ~ctl.norm
      BY <1>k DEF IInv, Working, NoTxn
    <2>4. Pending'
      BY <2>2 DEF Pending
    <2>5. /\ resv' \in [local : Nat, node : Nat, conn : BOOLEAN]
          /\ resv'.local >= resv.local /\ resv'.local <= resv'.node
          /\ ch' \in [target : Nat, actual : Nat, awake : BOOLEAN] /\ ch'.target = ch.target
          /\ rep' \in [open : BOOLEAN, seq : Nat, queue : Seq(Report)]
          /\ press' \in Seq({"low", "normal", "high"})
      BY <1>1, <1>t DEF TypeOK
    <2> QED
      BY <1>1, <1>k, <1>v, <1>2, <2>2, <2>3, <2>4, <2>5, Ends
  <1>3. CASE w' = [w EXCEPT !.pc = "settled", !.obs = Seen] /\ UNCHANGED <<txn, ctl, gate>>
    <2>1. w' \in Worker /\ w'.pc = "settled" /\ w'.op = w.op
      BY <1>t, <1>v, <1>3, Zenon DEF Worker, WorkerPcs
    <2> QED
      BY <1>1, <1>k, <1>v, <1>3, <2>1, Settles
  <1> QED
    BY <1>2, <1>3 DEF observeAccepted

(* What is observed is settled, or found not to be covered. *)
LEMMA SettleKeeps == IInv /\ settleObserved => IInv'
  <1> SUFFICES ASSUME IInv, settleObserved PROVE IInv'
    OBVIOUS
  <1> DEFINE b == Max({w.obs.current, BudgetFromTarget(w.obs.target)})
  <1>1. UNCHANGED <<ch, bal, resv, rep, press, high, cap>> /\ w.pc = "settled"
    BY DEF settleObserved
  <1>t. /\ TypeOK /\ resv.local \in Nat /\ resv.local <= resv.node /\ w \in Worker
        /\ bal \in [desired : Nat, accepted : Nat, current : Nat] /\ ctl.fence \in Nat
    BY DEF IInv, TypeOK, Covered, Control
  <1>k. w.op = "shrink" /\ txn.kind = "shrink" /\ gate = "worker"
    BY <1>1 DEF IInv, Working, Gated
  <1>f. FenceAfter(txn) \in Nat
    BY <1>t, <1>k, FenceType
  <1>b. b \in Nat
    <2>1. w.obs.current \in Nat /\ w.obs.target \in Nat
      BY <1>t DEF Worker, Observation
    <2>2. BudgetFromTarget(w.obs.target) \in Nat
      BY <2>1, BudgetBounds
    <2> QED
      BY <2>1, <2>2, MaxTwo
  <1>2. \/ (txn' = NoTxn \/ txn' = txn) /\ (ShrinkReturns(FenceAfter(txn)) \/ ShrinkReturns(ctl.fence))
        \/ /\ b <= resv.local /\ w' = [w EXCEPT !.pc = "high", !.budget = b]
           /\ UNCHANGED <<txn, ctl, gate>>
        \/ /\ b <= resv.local /\ txn.highApplied /\ txn.highBudget = b
           /\ w' = [w EXCEPT !.pc = "confirm", !.budget = b]
           /\ UNCHANGED <<txn, ctl, gate>>
    BY DEF settleObserved, HighStands
  <1> HIDE DEF b
  <1>3. CASE (txn' = NoTxn \/ txn' = txn) /\ (ShrinkReturns(FenceAfter(txn)) \/ ShrinkReturns(ctl.fence))
    <2>1. \E f \in Nat : ShrinkReturns(f)
      BY <1>3, <1>f, <1>t
    <2> QED
      BY <1>1, <1>t, <1>3, <2>1, EndsKept DEF TypeOK
  <1>4. CASE /\ b <= resv.local /\ w' = [w EXCEPT !.pc = "high", !.budget = b]
             /\ UNCHANGED <<txn, ctl, gate>>
    <2>1. w' \in Worker /\ w'.pc = "high" /\ w'.op = w.op /\ w'.budget = b
      BY <1>t, <1>b, <1>4, Zenon DEF Worker, WorkerPcs
    <2> QED
      BY <1>1, <1>t, <1>k, <1>4, <2>1, Settles
  <1>5. CASE /\ b <= resv.local /\ txn.highApplied /\ txn.highBudget = b
             /\ w' = [w EXCEPT !.pc = "confirm", !.budget = b]
             /\ UNCHANGED <<txn, ctl, gate>>
    <2>1. w' \in Worker /\ w'.pc = "confirm" /\ w'.op = w.op /\ w'.budget = b
      BY <1>t, <1>b, <1>5, Zenon DEF Worker, WorkerPcs
    <2> QED
      BY <1>1, <1>t, <1>k, <1>5, <2>1, Settles
  <1> QED
    BY <1>2, <1>3, <1>4, <1>5

(* memory.high written for a budget admits no more than that budget and the  *)
(* memory.current of the moment; a write that only raises may leave it.     *)
LEMMA HighWritten ==
  ASSUME TypeOK, Admits(resv.local), HighLockFree,
         NEW budget \in Nat, NEW demand \in Nat, budget <= resv.local,
         HighSet(budget, demand, TRUE) \/ HighSet(budget, demand, FALSE)
  PROVE  /\ high' \in [val : Nat, host : Nat]
         /\ high'.val = MaxHigh \/ high'.val <= Max({Overhead + resv.local, high'.host})
         /\ HighSet(budget, demand, FALSE) => high'.val <= Max({Overhead + budget, high'.host})
  <1>t. resv.local \in Nat /\ high \in [val : Nat, host : Nat] /\ Overhead \in Nat
    BY MemoryAssumption DEF TypeOK
  <1>0. high.val = MaxHigh \/ high.val <= Max({Overhead + resv.local, high.host})
    BY DEF HighLockFree, Admits, Stands
  <1>1. ASSUME NEW host \in HostCharges, NEW h, h = CalculateMemoryHigh(budget, demand, host),
               high' = [val |-> h, host |-> host]
        PROVE  /\ high' \in [val : Nat, host : Nat]
               /\ high'.val <= Max({Overhead + resv.local, high'.host})
               /\ high'.val <= Max({Overhead + budget, high'.host})
    <2>1. host \in Nat
      BY MemoryAssumption
    <2>2. h \in Nat /\ h <= Max({Overhead + budget, host})
      BY <1>1, <2>1, HighBound, Zenon
    <2>3. h <= Max({Overhead + resv.local, host})
      BY <1>t, <2>1, <2>2, MaxTwo
    <2> QED
      BY <1>1, <2>1, <2>2, <2>3
  <1>2. CASE HighSet(budget, demand, FALSE)
    <2>1. PICK host \in HostCharges :
              high' = [val |-> CalculateMemoryHigh(budget, demand, host), host |-> host]
      BY <1>2 DEF HighSet
    <2> QED
      BY <1>1, <2>1, Zenon
  <1>3. CASE ~HighSet(budget, demand, FALSE)
    <2>1. HighSet(budget, demand, TRUE)
      BY <1>3, Zenon
    <2>2. PICK host \in HostCharges :
              \/ high' = [val |-> CalculateMemoryHigh(budget, demand, host), host |-> host]
              \/ high' = high
      BY <2>1 DEF HighSet
    <2> QED
      BY <1>t, <1>0, <1>1, <1>3, <2>2, Zenon
  <1> QED
    BY <1>2, <1>3, Zenon

(* A grow writes memory.high before it asks CH. *)
LEMMA GrowHighKeeps == IInv /\ growHigh => IInv'
  <1> SUFFICES ASSUME IInv, growHigh PROVE IInv'
    OBVIOUS
  <1>1. /\ UNCHANGED <<ch, resv, ctl, rep, press, gate, cap>> /\ w.pc = "high" /\ w.op = "grow"
        /\ HighLockFree /\ HighSet(txn.budget, txn.demand, TRUE)
        /\ txn' = [txn EXCEPT !.highApplied = TRUE]
        /\ bal' = [bal EXCEPT !.desired = txn.target] /\ w' = [w EXCEPT !.pc = "pre"]
    BY Zenon DEF growHigh
  <1>t. /\ TypeOK /\ w \in Worker /\ bal \in [desired : Nat, accepted : Nat, current : Nat]
        /\ Admits(resv.local)
    BY DEF IInv, TypeOK, Limited
  <1>k. txn.kind = "grow" /\ txn.change /\ gate = "worker"
    BY <1>1 DEF IInv, Working, Gated
  <1>g. txn \in GrowTxn
    BY <1>t, <1>k, Kinds
  <1>2. BudgetFromTarget(txn.target) = txn.budget /\ txn.budget <= resv.local
    BY <1>k DEF IInv, Covered
  <1>3. txn.budget \in Nat /\ txn.demand \in Nat /\ txn.target \in Nat
    BY <1>g DEF GrowTxn
  <1>4. /\ high' \in [val : Nat, host : Nat]
        /\ high'.val = MaxHigh \/ high'.val <= Max({Overhead + resv.local, high'.host})
    BY <1>1, <1>t, <1>2, <1>3, HighWritten, Zenon
  <1>5. /\ txn' \in GrowTxn /\ txn'.kind = "grow" /\ txn'.change /\ txn'.target = txn.target
        /\ txn'.budget = txn.budget
    BY <1>1, <1>g, <1>k, Zenon DEF GrowTxn
  <1>6. bal' \in [desired : Nat, accepted : Nat, current : Nat] /\ bal'.desired = txn.target
    BY <1>1, <1>t, <1>3
  <1>7. w' \in Worker /\ w'.pc = "pre" /\ w'.op = "grow"
    BY <1>1, <1>t, Moves DEF WorkerPcs
  <1>8. TypeOK'
    BY <1>1, <1>t, <1>4, <1>5, <1>6, <1>7 DEF TypeOK
  <1>9. ~ctl.norm
    BY <1>k DEF IInv, Working, NoTxn
  <1>10. Working'
    BY <1>1, <1>5, <1>6, <1>7, <1>9 DEF Working
  <1>11. Covered'
    BY <1>1, <1>2, <1>5, <1>7 DEF IInv, Covered
  <1>12. Pending'
    BY <1>5 DEF Pending
  <1>13. Limited'
    BY <1>1, <1>4, <1>5, <1>7 DEF Limited, Admits, Stands, HighLockFree
  <1>14. Gated'
    BY <1>1, <1>k DEF IInv, Gated
  <1> QED
    BY <1>8, <1>10, <1>11, <1>12, <1>13, <1>14 DEF IInv

(* A handler ends after it has written memory.high. *)
LEMMA EndsHigh ==
  ASSUME IInv, HighLockFree, UNCHANGED <<ch, bal, resv, rep, press, cap>>,
         high' \in [val : Nat, host : Nat],
         high'.val = MaxHigh \/ high'.val <= Max({Overhead + resv.local, high'.host}),
         ReturnsError \/ \E f \in Nat : ShrinkReturns(f),
         txn' = txn \/ txn' = NoTxn,
         ~(txn'.kind = "shrink" /\ txn'.highApplied)
  PROVE  IInv'
  <1>0. NoTxn.kind = "none"
    BY DEF NoTxn
  <1>1. /\ w' \in Worker /\ w'.pc \in {"idle", "stall"}
        /\ gate' \in {"free", "worker", "capture"} /\ (gate' = gate \/ gate = "worker")
        /\ ctl' \in Control /\ (ctl'.norm <=> ctl.norm) /\ ctl'.safe = ctl.safe
    BY Ending DEF IInv
  <1>2. TypeOK'
    BY <1>1 DEF IInv, TypeOK
  <1>3. Working'
    BY <1>1, Zenon DEF IInv, Working
  <1>4. Covered'
    BY <1>0, <1>1 DEF IInv, Covered
  <1>5. Pending'
    BY <1>0 DEF IInv, Pending
  <1>6. Limited'
    BY <1>1 DEF Limited, Admits, Stands, HighLockFree
  <1>7. Gated'
    BY <1>1 DEF IInv, Gated
  <1> QED
    BY <1>2, <1>3, <1>4, <1>5, <1>6, <1>7 DEF IInv

(* A shrink lowers memory.high before it returns a reservation. *)
LEMMA ShrinkHighKeeps == IInv /\ shrinkHigh => IInv'
  <1> SUFFICES ASSUME IInv, shrinkHigh PROVE IInv'
    OBVIOUS
  <1>1. /\ UNCHANGED <<ch, bal, resv, rep, press, cap>> /\ w.pc = "high" /\ w.op = "shrink"
        /\ HighLockFree /\ HighSet(w.budget, txn.demand, FALSE)
    BY Zenon DEF shrinkHigh
  <1>t. /\ TypeOK /\ w \in Worker /\ w.budget \in Nat /\ resv.local \in Nat /\ Admits(resv.local)
    BY DEF IInv, TypeOK, Worker, Limited
  <1>k. txn.kind = "shrink" /\ gate = "worker" /\ w.budget <= resv.local
    BY <1>1 DEF IInv, Working, Gated, Covered
  <1>g. txn \in ShrinkTxn /\ txn.demand \in Nat
    BY <1>t, <1>k, Kinds DEF ShrinkTxn
  <1>f. FenceAfter(txn) \in Nat
    BY <1>t, <1>k, FenceType
  <1>0. NoTxn.kind = "none"
    BY DEF NoTxn
  <1>2. /\ high' \in [val : Nat, host : Nat]
        /\ high'.val = MaxHigh \/ high'.val <= Max({Overhead + resv.local, high'.host})
        /\ high'.val <= Max({Overhead + w.budget, high'.host})
    BY <1>1, <1>t, <1>k, <1>g, HighWritten, Zenon
  <1>3. CASE resv.local > w.budget
    <2>1. /\ w' = [w EXCEPT !.pc = "confirm", !.budget = w.budget] /\ UNCHANGED <<ctl, gate>>
          /\ txn' = [txn EXCEPT !.highApplied = TRUE, !.highBudget = w.budget]
      BY <1>3 DEF shrinkHigh, HighStands
    <2>2. w' \in Worker /\ w'.pc = "confirm" /\ w'.op = "shrink" /\ w'.budget = w.budget
      BY <1>1, <1>t, <2>1, Zenon DEF Worker, WorkerPcs
    <2>3. /\ txn' \in ShrinkTxn /\ txn'.kind = "shrink" /\ txn'.highApplied
          /\ txn'.highBudget = w.budget
      BY <1>t, <1>g, <2>1, Zenon DEF ShrinkTxn
    <2>4. TypeOK'
      BY <1>1, <1>t, <1>2, <2>1, <2>2, <2>3 DEF TypeOK
    <2>5. ~ctl.norm
      BY <1>k, <1>0 DEF IInv, Working
    <2>6. Working'
      BY <2>1, <2>2, <2>3, <2>5 DEF Working
    <2>7. Covered'
      BY <1>1, <1>k, <2>2, <2>3, Zenon DEF IInv, Covered
    <2>8. Pending'
      BY <2>3 DEF Pending
    <2>9. Limited'
      BY <1>1, <1>2, <2>2, <2>3 DEF Limited, Admits, Stands, HighLockFree
    <2>10. Gated'
      BY <1>1, <1>k, <2>1 DEF IInv, Gated
    <2> QED
      BY <2>4, <2>6, <2>7, <2>8, <2>9, <2>10 DEF IInv
  <1>4. CASE ~(resv.local > w.budget)
    <2>1. ShrinkReturns(FenceAfter(txn)) /\ txn' = NoTxn
      BY <1>4 DEF shrinkHigh, HighStands
    <2> QED
      BY <1>0, <1>1, <1>2, <1>f, <2>1, EndsHigh
  <1> QED
    BY <1>3, <1>4

(* The second vm.info before a reservation is returned. *)
LEMMA ConfirmKeeps == IInv /\ confirmBeforeRelease => IInv'
  <1> SUFFICES ASSUME IInv, confirmBeforeRelease PROVE IInv'
    OBVIOUS
  <1> DEFINE current == Max({ch.actual, BudgetFromTarget(ch.target)})
             same == ch.target = w.obs.target
             budget == IF same /\ current <= resv.local THEN current ELSE resv.local
             baseline == Max({w.obs.current, txn.repair})
  <1>1. UNCHANGED <<ch, resv, rep, press, high, cap>> /\ w.pc = "confirm" /\ bal' = VmInfo
    BY DEF confirmBeforeRelease
  <1>t. /\ TypeOK /\ w \in Worker /\ w.budget \in Nat /\ resv.local \in Nat
        /\ resv.local <= resv.node /\ ctl \in Control /\ ctl.fence \in Nat
        /\ ch.target \in Nat /\ ch.actual \in Nat
    BY Zenon DEF IInv, TypeOK, Worker, Covered, Control
  <1>v. bal' \in [desired : Nat, accepted : Nat, current : Nat] /\ bal'.accepted = ch.target
    BY <1>1, <1>t, Observed
  <1>k. /\ w.op = "shrink" /\ txn.kind = "shrink" /\ gate = "worker" /\ w.budget <= resv.local
        /\ txn.highApplied /\ txn.highBudget = w.budget
    BY <1>1, Zenon DEF IInv, Working, Gated, Covered, Limited
  <1>g. txn \in ShrinkTxn /\ txn.demand \in Nat /\ txn.repair \in Nat
    BY <1>t, <1>k, Kinds DEF ShrinkTxn
  <1>c. current \in Nat /\ BudgetFromTarget(ch.target) \in Nat /\ current >= BudgetFromTarget(ch.target)
    <2>1. BudgetFromTarget(ch.target) \in Nat
      BY <1>t, BudgetBounds
    <2> QED
      BY <1>t, <2>1, MaxTwo
  <1>2. \/ /\ txn' = [txn EXCEPT !.highApplied = FALSE,
                             !.demand = Min({@ + Max({0, ch.actual - baseline}), budget}),
                             !.repair = Max({baseline, ch.actual})]
           /\ w' = [w EXCEPT !.pc = "repair", !.budget = budget] /\ UNCHANGED <<ctl, gate>>
        \/ ShrinkReturns(ctl.fence) /\ UNCHANGED txn
        \/ /\ current <= w.budget /\ w' = [w EXCEPT !.pc = "commit"]
           /\ gate' = (IF ctl.dyn THEN "free" ELSE gate) /\ UNCHANGED <<ctl, txn>>
    BY DEF confirmBeforeRelease
  <1> HIDE DEF current
  <1>3. budget \in Nat /\ budget <= resv.local
    BY <1>t, <1>c
  <1> HIDE DEF budget
  <1>4. baseline \in Nat
    <2>1. w.obs.current \in Int /\ w.obs.current >= 0
      BY <1>t DEF Worker, Observation
    <2>2. txn.repair \in Int /\ txn.repair >= 0
      BY <1>g
    <2>3. Max({w.obs.current, txn.repair}) =
             IF w.obs.current >= txn.repair THEN w.obs.current ELSE txn.repair
      BY <2>1, <2>2, MaxTwo
    <2> QED
      BY <2>1, <2>2, <2>3
  <1> HIDE DEF baseline
  <1>5. CASE /\ txn' = [txn EXCEPT !.highApplied = FALSE,
                             !.demand = Min({@ + Max({0, ch.actual - baseline}), budget}),
                             !.repair = Max({baseline, ch.actual})]
             /\ w' = [w EXCEPT !.pc = "repair", !.budget = budget] /\ UNCHANGED <<ctl, gate>>
    <2> DEFINE rebound == Max({0, ch.actual - baseline})
               demand == Min({txn.demand + rebound, budget})
               repair == Max({baseline, ch.actual})
    <2>1. rebound \in Nat
      BY <1>t, <1>4, MaxTwo
    <2>2. txn' = [txn EXCEPT !.highApplied = FALSE, !.demand = demand, !.repair = repair]
      BY <1>5
    <2> HIDE DEF rebound
    <2>3. demand \in Nat /\ repair \in Nat
      <3>1. txn.demand + rebound \in Nat
        BY <1>g, <2>1
      <3>2. demand \in Nat
        BY <1>3, <3>1, MinTwo
      <3>3. repair \in Nat
        BY <1>t, <1>4, MaxTwo
      <3> QED
        BY <3>2, <3>3
    <2> HIDE DEF demand, repair
    <2>4. txn' \in ShrinkTxn /\ ~txn'.highApplied
      BY <1>g, <2>2, <2>3, Zenon DEF ShrinkTxn
    <2>5. w' \in Worker /\ w'.pc = "repair" /\ w'.op = w.op /\ w'.budget = budget
      BY <1>t, <1>3, <1>5, Zenon DEF Worker, WorkerPcs
    <2> QED
      BY <1>1, <1>k, <1>v, <1>3, <1>5, <2>4, <2>5, Settles
  <1>6. CASE ShrinkReturns(ctl.fence) /\ UNCHANGED txn
    BY <1>1, <1>t, <1>v, <1>6, EndsKept DEF TypeOK
  <1>7. CASE /\ current <= w.budget /\ w' = [w EXCEPT !.pc = "commit"]
             /\ gate' = (IF ctl.dyn THEN "free" ELSE gate) /\ UNCHANGED <<ctl, txn>>
    <2>1. w' \in Worker /\ w'.pc = "commit" /\ w'.op = "shrink" /\ w'.budget = w.budget
      BY <1>t, <1>k, <1>7, Moves DEF WorkerPcs
    <2>2. gate' \in {"free", "worker"}
      BY <1>k, <1>7
    <2>3. TypeOK'
      BY <1>1, <1>t, <1>v, <1>7, <2>1, <2>2 DEF TypeOK
    <2>4. ~ctl.norm
      BY <1>k DEF IInv, Working, NoTxn
    <2>5. Working'
      BY <1>k, <1>7, <2>1, <2>4 DEF Working
    <2>6. BudgetFromTarget(ch.target) <= w.budget
      BY <1>t, <1>c, <1>7
    <2>7. Covered'
      BY <1>1, <1>k, <1>7, <2>1, <2>6 DEF IInv, Covered
    <2>8. Pending'
      BY <1>k, <1>7 DEF Pending
    <2>9. Limited'
      BY <1>1, <1>k, <1>7, <2>1 DEF IInv, Limited, Admits, Stands
    <2>10. Gated'
      BY <1>1, <1>k, <2>1 DEF IInv, Gated
    <2> QED
      BY <2>3, <2>5, <2>7, <2>8, <2>9, <2>10 DEF IInv
  <1> QED
    BY <1>2, <1>5, <1>6, <1>7

(* The repair of memory.high after a rebound. *)
LEMMA RepairKeeps == IInv /\ repairHigh => IInv'
  <1> SUFFICES ASSUME IInv, repairHigh PROVE IInv'
    OBVIOUS
  <1>1. /\ UNCHANGED <<ch, bal, resv, txn, rep, press, cap>> /\ w.pc = "repair" /\ HighLockFree
        /\ HighSet(w.budget, txn.demand, TRUE) /\ ReturnsError
    BY Zenon DEF repairHigh
  <1>t. /\ TypeOK /\ w.budget \in Nat /\ Admits(resv.local)
    BY DEF IInv, TypeOK, Worker, Limited
  <1>k. txn.kind = "shrink" /\ w.budget <= resv.local /\ ~txn.highApplied
    BY <1>1, Zenon DEF IInv, Working, Covered, Limited
  <1>g. txn.demand \in Nat
    BY <1>t, <1>k, Kinds DEF ShrinkTxn
  <1>2. /\ high' \in [val : Nat, host : Nat]
        /\ high'.val = MaxHigh \/ high'.val <= Max({Overhead + resv.local, high'.host})
    BY <1>1, <1>t, <1>k, <1>g, HighWritten, Zenon
  <1> QED
    BY <1>1, <1>k, <1>2, EndsHigh

(* A reservation is returned after the balloon and memory.high hold it. *)
LEMMA CommitKeeps == IInv /\ shrinkCommit => IInv'
  <1> SUFFICES ASSUME IInv, shrinkCommit PROVE IInv'
    OBVIOUS
  <1>1. UNCHANGED <<ch, bal, rep, press, high, cap>> /\ w.pc = "commit"
    BY DEF shrinkCommit
  <1>t. /\ TypeOK /\ w.budget \in Nat /\ resv.local \in Nat /\ resv.node \in Nat
        /\ resv.local <= resv.node
    BY DEF IInv, TypeOK, Worker, Covered
  <1>k. /\ txn.kind = "shrink" /\ BudgetFromTarget(ch.target) <= w.budget /\ w.budget <= resv.local
        /\ txn.highApplied /\ txn.highBudget = w.budget
    BY <1>1, Zenon DEF IInv, Working, Covered, Limited
  <1>f. FenceAfter(txn) \in Nat
    BY <1>t, <1>k, FenceType
  <1>0. NoTxn.kind = "none"
    BY DEF NoTxn
  <1>2. ASSUME resv' \in [local : Nat, node : Nat, conn : BOOLEAN],
               resv'.local = w.budget, resv'.local <= resv'.node,
               txn' = txn \/ txn' = NoTxn,
               ReturnsError \/ \E f \in Nat : ShrinkReturns(f)
        PROVE  IInv'
    <2>1. /\ w' \in Worker /\ w'.pc \in {"idle", "stall"}
          /\ gate' \in {"free", "worker", "capture"} /\ (gate' = gate \/ gate = "worker")
          /\ ctl' \in Control /\ (ctl'.norm <=> ctl.norm) /\ ctl'.safe = ctl.safe
      BY <1>t, <1>2, Ending
    <2>2. TypeOK'
      BY <1>1, <1>t, <1>2, <2>1 DEF TypeOK
    <2>3. ~ctl.norm /\ txn'.kind # "grow"
      BY <1>k, <1>0, <1>2 DEF IInv, Working
    <2>4. Working'
      BY <2>1, <2>3, Zenon DEF Working
    <2>5. Covered' /\ Pending'
      BY <1>1, <1>k, <1>2, <2>1, <2>3 DEF Covered, Pending
    <2>6. Admits(w.budget)
      BY <1>k DEF IInv, Limited
    <2>7. Limited'
      <3>1. Admits(resv.local)' /\ (txn' = txn => Admits(txn.highBudget)')
        BY <1>1, <1>k, <1>2, <2>6 DEF Admits, Stands
      <3>2. txn'.kind = "shrink" => txn' = txn
        BY <1>0, <1>2
      <3> QED
        BY <1>1, <2>1, <3>1, <3>2, Zenon DEF IInv, Limited
    <2>8. Gated'
      BY <1>1, <2>1 DEF IInv, Gated
    <2> QED
      BY <2>2, <2>4, <2>5, <2>7, <2>8 DEF IInv
  <1>3. CASE resv' = Granted(w.budget, 0) /\ txn' = NoTxn /\ ShrinkReturns(FenceAfter(txn))
    <2>1. /\ resv' \in [local : Nat, node : Nat, conn : BOOLEAN]
          /\ resv'.local = w.budget /\ resv'.local <= resv'.node
      BY <1>t, <1>3 DEF Granted
    <2> QED
      BY <1>2, <1>3, <1>f, <2>1
  <1>4. CASE resv' \in Lost(w.budget, 0, 0) /\ ReturnsError /\ UNCHANGED txn
    <2>1. PICK n \in {resv.node, w.budget + 0} :
              resv' = [local |-> Min({w.budget, resv.local}), node |-> n, conn |-> FALSE]
      BY <1>4 DEF Lost
    <2>2. Min({w.budget, resv.local}) = w.budget /\ n \in Nat /\ w.budget <= n
      BY <1>t, <1>k, MinTwo
    <2>3. /\ resv' \in [local : Nat, node : Nat, conn : BOOLEAN]
          /\ resv'.local = w.budget /\ resv'.local <= resv'.node
      BY <1>t, <2>1, <2>2
    <2> QED
      BY <1>2, <1>4, <2>3
  <1>5. CASE ReturnsError /\ UNCHANGED <<resv, txn>>
    BY <1>1, <1>t, <1>5, EndsKept DEF TypeOK
  <1> QED
    BY <1>3, <1>4, <1>5 DEF shrinkCommit

-----------------------------------------------------------------------------
(* The theorems. *)

(* Every step keeps the invariant. *)
LEMMA StepKeepsInv == IInv /\ [Next]_vars => IInv'
  <1> SUFFICES ASSUME IInv, [Next]_vars PROVE IInv'
    OBVIOUS
  <1>1. CASE \/ GuestBalloon \/ GuestDeflates \/ SubmitGuestReport \/ RequestPressureGrow
             \/ StateSync \/ Stop \/ loopEnds
    BY <1>1, BystandersKeep
  <1>2. CASE \/ BeginSnapshot \/ liftVMMMemoryHigh \/ restoreVMMMemoryHigh \/ releaseMemoryBarrier
    BY <1>2, CaptureKeeps
  <1>3. CASE TakeReport \/ processPressure \/ HandlerEnds
    BY <1>3, EventsKeep
  <1>4. CASE processReport \/ Tick \/ advanceGrow \/ requestReservation
    BY <1>4, ReportKeeps, TickKeeps, AdvanceGrowKeeps, RequestKeeps
  <1>5. CASE \/ advanceShrink \/ retryStalledBalloon \/ retryAcceptedTarget \/ ExchangeFails
             \/ UNCHANGED vars
    BY <1>5, OthersKeep
  <1>6. CASE observeBeforeResize \/ callResize \/ observeAfterResize
    BY <1>6, BalloonKeeps
  <1>7. CASE acquireMutation \/ growHigh \/ observeAccepted \/ settleObserved
    BY <1>7, AcquireKeeps, GrowHighKeeps, AcceptedKeeps, SettleKeeps
  <1>8. CASE shrinkHigh \/ confirmBeforeRelease \/ repairHigh \/ shrinkCommit
    BY <1>8, ShrinkHighKeeps, ConfirmKeeps, RepairKeeps, CommitKeeps
  <1> QED
    BY <1>1, <1>2, <1>3, <1>4, <1>5, <1>6, <1>7, <1>8 DEF Next, Terminated

(* The memory controller never lets the guest have, or memory.high admit,   *)
(* more than is reserved, and never counts on more than the node recorded,  *)
(* for every size of guest, step and overhead, every watermark, snapshot    *)
(* and grant, however exchanges are lost and whenever a capture comes.      *)
THEOREM ReservedBeforeUsed == Spec => []WithinReservation
  <1>1. IInv => WithinReservation
    BY Zenon DEF IInv, Covered, Limited, Admits, Stands, WithinReservation
  <1> QED
    BY <1>1, InitiallyInv, StepKeepsInv, PTL DEF Spec

(* A pending grow that is extended, prepared or upgraded is still a grow. *)
LEMMA StaysGrow ==
  ASSUME NEW t \in GrowTxn
  PROVE  /\ \A u : upgradeGrowCause(t, u).kind = "grow"
         /\ \A o, d, h, u : upgradeGrowCause([t EXCEPT !.objective = o, !.demand = d,
                                                       !.highApplied = h], u).kind = "grow"
         /\ \A r : Prepare(t, r).kind = "grow"
         /\ \A c, r : /\ [t EXCEPT !.cool = c].kind = "grow"
                      /\ Prepare([t EXCEPT !.cool = c], r).kind = "grow"
  <1>1. \A u : upgradeGrowCause(t, u).kind = "grow"
    BY DEF GrowTxn, upgradeGrowCause
  <1>3. \A o, d, h, u : upgradeGrowCause([t EXCEPT !.objective = o, !.demand = d,
                                                   !.highApplied = h], u).kind = "grow"
    BY DEF GrowTxn, upgradeGrowCause
  <1>4. \A r : Prepare(t, r).kind = "grow"
    BY DEF GrowTxn, Prepare
  <1>5. \A c, r : /\ [t EXCEPT !.cool = c].kind = "grow"
                  /\ Prepare([t EXCEPT !.cool = c], r).kind = "grow"
    BY DEF GrowTxn, Prepare
  <1> QED
    BY <1>1, <1>3, <1>4, <1>5, Zenon

(* A grow ends only when CH has the target that gives its objective. *)
LEMMA GrowEnds ==
  ASSUME IInv, [Next]_vars, txn.kind = "grow", txn'.kind # "grow"
  PROVE  BudgetFromTarget(ch.target) >= txn.objective
  <1>t. TypeOK
    BY DEF IInv
  <1>g. txn \in GrowTxn
    BY <1>t, Kinds
  <1>n. ~ctl.norm
    BY DEF IInv, Working, NoTxn
  <1>c. txn' # txn
    OBVIOUS
  <1>k. ~(w.op = "shrink" /\ w.pc \in {"pre", "settle", "settled", "high", "confirm", "commit"})
    BY DEF IInv, Working
  <1>s. w.pc \notin {"settle", "settled", "confirm", "commit", "repair"}
    BY DEF IInv, Working
  <1>1. CASE processReport
    <2>1. reportDuringGrow(CalculateMemoryBudget(ch.target, ch.actual, w.report.avail))
      BY <1>1 DEF processReport
    <2>2. txn'.kind = "grow"
      BY <1>g, <2>1, StaysGrow, Zenon DEF reportDuringGrow
    <2> QED
      BY <2>2
  <1>2. CASE processPressure
    <2>1. \E a, r, d, u : txn' = startGrow(a, r, d, u)
      BY <1>c, <1>2 DEF processPressure
    <2>2. PICK a, r, d, u : txn' = startGrow(a, r, d, u)
      BY <2>1
    <2> DEFINE o == Max({txn.objective, r})
               e == Max({txn.demand, d})
    <2>3. txn' = upgradeGrowCause([txn EXCEPT !.objective = o, !.demand = e], u)
      BY <2>2 DEF startGrow
    <2> HIDE DEF o, e
    <2>4. upgradeGrowCause([txn EXCEPT !.objective = o, !.demand = e], u).kind = "grow"
      BY <1>g DEF GrowTxn, upgradeGrowCause
    <2> QED
      BY <2>3, <2>4
  <1>3. CASE advanceGrow
    <2>1. CASE ~txn.change /\ BudgetFromTarget(bal.accepted) >= txn.objective
      BY <2>1 DEF IInv, Pending
    <2>2. CASE ~(~txn.change /\ BudgetFromTarget(bal.accepted) >= txn.objective)
      <3>1. txn' = txn \/ txn' = Prepare(txn, resv.local)
        BY <1>3, <2>2 DEF advanceGrow
      <3> QED
        BY <1>g, <1>c, <3>1, StaysGrow, Zenon
    <2> QED
      BY <2>1, <2>2
  <1>4. CASE requestReservation
    <2>1. \/ txn' = txn
          \/ \E c, r : txn' = [txn EXCEPT !.cool = c] \/ txn' = Prepare([txn EXCEPT !.cool = c], r)
      BY <1>4 DEF requestReservation
    <2>2. PICK c, r : txn' = [txn EXCEPT !.cool = c] \/ txn' = Prepare([txn EXCEPT !.cool = c], r)
      BY <1>c, <2>1
    <2>3. /\ [txn EXCEPT !.cool = c].kind = "grow"
          /\ Prepare([txn EXCEPT !.cool = c], r).kind = "grow"
      BY <1>g, StaysGrow, Zenon
    <2> QED
      BY <2>2, <2>3, Zenon
  <1>5. CASE growHigh
    <2>1. txn' = [txn EXCEPT !.highApplied = TRUE]
      BY <1>5 DEF growHigh
    <2> QED
      BY <1>g, <2>1 DEF GrowTxn
  <1>6. CASE observeBeforeResize
    <2>1. /\ w.pc = "pre" /\ UNCHANGED <<ch, resv, press, high, cap>>
          /\ ch.target = bal.desired /\ bal' = VmInfo /\ Confirmed
      BY <1>6, <1>c, <1>k DEF observeBeforeResize
    <2> QED
      BY <2>1, ConfirmedKeeps
  <1>7. CASE observeAfterResize
    <2>1. /\ w.pc = "post" /\ UNCHANGED <<ch, resv, press, high, cap>>
          /\ ch.target = bal.desired /\ bal' = VmInfo /\ Confirmed
      BY <1>7, <1>c DEF observeAfterResize
    <2> QED
      BY <2>1, ConfirmedKeeps
  <1>8. CASE \/ observeAccepted \/ settleObserved \/ shrinkHigh \/ confirmBeforeRelease
             \/ shrinkCommit
    BY <1>8, <1>k, <1>s, Zenon DEF observeAccepted, settleObserved, shrinkHigh, confirmBeforeRelease,
                            shrinkCommit
  <1>9. CASE \/ GuestBalloon \/ GuestDeflates \/ SubmitGuestReport \/ RequestPressureGrow
             \/ StateSync \/ Stop \/ loopEnds \/ BeginSnapshot \/ liftVMMMemoryHigh
             \/ restoreVMMMemoryHigh \/ releaseMemoryBarrier
    BY <1>9, <1>c, Zenon DEF GuestBalloon, GuestDeflates, SubmitGuestReport, RequestPressureGrow,
                      StateSync, Stop, loopEnds, BeginSnapshot, liftVMMMemoryHigh,
                      restoreVMMMemoryHigh, releaseMemoryBarrier
  <1>10. CASE \/ TakeReport \/ Tick \/ HandlerEnds \/ advanceShrink \/ acquireMutation
              \/ callResize \/ repairHigh \/ retryStalledBalloon \/ retryAcceptedTarget
              \/ ExchangeFails \/ UNCHANGED vars
    BY <1>10, <1>c, Zenon DEF TakeReport, Tick, HandlerEnds, advanceShrink, acquireMutation, callResize,
                       repairHigh, retryStalledBalloon, retryAcceptedTarget, ExchangeFails, vars
  <1> QED
    BY <1>1, <1>2, <1>3, <1>4, <1>5, <1>6, <1>7, <1>8, <1>9, <1>10 DEF Next, Terminated

(* Only vm.resize moves the balloon target, and it is called under the gate. *)
LEMMA TargetStands ==
  ASSUME IInv, [Next]_vars, gate = "capture"
  PROVE  ch'.target = ch.target
  <1>t. ch \in [target : Nat, actual : Nat, awake : BOOLEAN]
    BY DEF IInv, TypeOK
  <1>1. ~callResize
    BY DEF IInv, Gated, callResize
  <1>2. CASE GuestBalloon \/ GuestDeflates \/ retryAcceptedTarget
    BY <1>t, <1>2, Zenon DEF GuestBalloon, GuestDeflates, retryAcceptedTarget
  <1>3. CASE \/ SubmitGuestReport \/ RequestPressureGrow \/ StateSync \/ Stop \/ loopEnds
             \/ BeginSnapshot \/ liftVMMMemoryHigh \/ restoreVMMMemoryHigh
             \/ releaseMemoryBarrier \/ TakeReport \/ processReport \/ processPressure \/ Tick
             \/ HandlerEnds \/ UNCHANGED vars
    BY <1>3, Zenon DEF SubmitGuestReport, RequestPressureGrow, StateSync, Stop, loopEnds, BeginSnapshot,
                liftVMMMemoryHigh, restoreVMMMemoryHigh, releaseMemoryBarrier, TakeReport,
                processReport, processPressure, Tick, HandlerEnds, vars
  <1>4. CASE \/ advanceGrow \/ requestReservation \/ advanceShrink \/ acquireMutation \/ growHigh
             \/ observeBeforeResize \/ observeAfterResize \/ observeAccepted \/ settleObserved
             \/ shrinkHigh \/ confirmBeforeRelease \/ repairHigh \/ shrinkCommit
             \/ retryStalledBalloon \/ ExchangeFails
    BY <1>4, Zenon DEF advanceGrow, requestReservation, advanceShrink, acquireMutation, growHigh,
                observeBeforeResize, observeAfterResize, observeAccepted, settleObserved,
                shrinkHigh, confirmBeforeRelease, repairHigh, shrinkCommit, retryStalledBalloon,
                ExchangeFails
  <1> QED
    BY <1>1, <1>2, <1>3, <1>4 DEF Next, Terminated

(* memory.high is written under the lifecycle lock a capture holds. *)
LEMMA HighStays ==
  ASSUME IInv, [Next]_vars, cap.pc = "lifted", cap'.pc = "lifted"
  PROVE  high' = high
  <1>1. ~(growHigh \/ shrinkHigh \/ repairHigh \/ liftVMMMemoryHigh \/ restoreVMMMemoryHigh)
    BY DEF growHigh, shrinkHigh, repairHigh, HighLockFree, liftVMMMemoryHigh, restoreVMMMemoryHigh
  <1>2. CASE \/ SubmitGuestReport \/ RequestPressureGrow \/ StateSync \/ Stop \/ loopEnds
             \/ BeginSnapshot \/ releaseMemoryBarrier \/ TakeReport \/ processReport
             \/ processPressure \/ Tick \/ HandlerEnds \/ UNCHANGED vars \/ GuestBalloon
             \/ GuestDeflates \/ retryAcceptedTarget
    BY <1>2, Zenon DEF SubmitGuestReport, RequestPressureGrow, StateSync, Stop, loopEnds, BeginSnapshot,
                releaseMemoryBarrier, TakeReport, processReport, processPressure, Tick,
                HandlerEnds, vars, GuestBalloon, GuestDeflates, retryAcceptedTarget
  <1>3. CASE \/ advanceGrow \/ requestReservation \/ advanceShrink \/ acquireMutation
             \/ observeBeforeResize \/ callResize \/ observeAfterResize \/ observeAccepted
             \/ settleObserved \/ confirmBeforeRelease \/ shrinkCommit \/ retryStalledBalloon
             \/ ExchangeFails
    BY <1>3 DEF advanceGrow, requestReservation, advanceShrink, acquireMutation,
                observeBeforeResize, callResize, observeAfterResize, observeAccepted,
                settleObserved, confirmBeforeRelease, shrinkCommit, retryStalledBalloon,
                ExchangeFails
  <1> QED
    BY <1>1, <1>2, <1>3 DEF Next, Terminated

(* A decided grow is dropped by nothing short of CH having its target, the   *)
(* balloon target stands still under a capture's barrier, and nobody        *)
(* reinstates memory.high while a capture has it lifted.                    *)
THEOREM GrowIsKept == Spec => BalloonKept
  <1>1. ASSUME IInv, [Next]_vars
        PROVE  [/\ txn.kind = "grow" /\ txn'.kind # "grow"
                     => BudgetFromTarget(ch.target) >= txn.objective
                /\ gate = "capture" /\ gate' = "capture" => ch'.target = ch.target
                /\ cap.pc = "lifted" /\ cap'.pc = "lifted" => high' = high]_vars
    BY <1>1, GrowEnds, TargetStands, HighStays
  <1> QED
    BY <1>1, InitiallyInv, StepKeepsInv, PTL DEF Spec, BalloonKept
=============================================================================

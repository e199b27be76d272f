----------------------- MODULE CaptureLifecycleProofs -----------------------
(***************************************************************************)
(* Proofs about CaptureLifecycle, for any set of capture requests and any  *)
(* number of forwarded connections: what a capture may rely on while it    *)
(* reads the frozen VM, what a commit makes final, and that a failed       *)
(* capture leaves a VM that serves.                                        *)
(***************************************************************************)
EXTENDS CaptureLifecycle, SequenceTheorems, TLAPS

(* The stacks of deferred releases that a handler can have. *)
D0 == <<>>
D1 == Append(D0, "usage")
D2 == Append(D1, "barrier")
D3 == Append(D2, "high")
D4 == Append(D3, "forward")
D5 == Append(D4, "ping")

Shutting == {"respond", "shutdown", "shutGrace", "shutKilled"}
Early == {"prepare", "barrier", "lift", "throttle", "forward", "ping", "pingDrain", "quiesce"}
Undoing == {"undoBackends", "undoVM", "undoCheckpoint"}
Ending == {"terminate", "termGrace", "termKilled"}
Returning == {"unwind", "finish"}
(* Between the last guard and the deferred releases. *)
Deep == {"quiesce", "fwdDrain", "pause", "freeze", "resume", "final", "reattach", "check"}
            \cup Reading \cup Undoing \cup Ending
BeforeCommit == Early \cup {"idle", "fwdDrain", "pause", "freeze", "disks", "memory",
                            "publish", "commit"}
BeforeEnd == BeforeCommit \cup {"close", "resume", "final"}

Busy(r) == h[r].pc \notin {"idle", "done"}
HasUsage(r) == h[r].defers \in {D1, D2, D3, D4, D5}
HasBarrier(r) == h[r].defers \in {D2, D3, D4, D5}
HasHigh(r) == h[r].defers \in {D3, D4, D5}
HasForward(r) == h[r].defers \in {D4, D5}
HasPing(r) == h[r].defers = D5

-----------------------------------------------------------------------------
(* At most one handler is past the gate; once it has nothing left but the    *)
(* destruction of the VM the gate is closed for good.                        *)
GateInv ==
    /\ \A r, s \in Reqs : Busy(r) /\ Busy(s) => r = s
    /\ \A r \in Reqs : Busy(r) =>
          IF h[r].pc \in Shutting THEN ~gate.active /\ gate.terminal
          ELSE gate.active /\ ~gate.terminal

(* The stack of deferred releases matches the handler's position. *)
StackInv(r) ==
    /\ h[r].pc \in {"idle", "prepare", "finish", "done"} \cup Shutting => h[r].defers = D0
    /\ h[r].pc = "barrier" => h[r].defers = D1
    /\ h[r].pc = "lift" => h[r].defers = D2
    /\ h[r].pc \in {"throttle", "forward"} => h[r].defers = D3
    /\ h[r].pc \in {"ping", "pingDrain"} => h[r].defers = D4
    /\ h[r].pc \in Deep => h[r].defers = D5
    /\ h[r].pc = "unwind" => h[r].defers \in {D0, D1, D2, D3, D4, D5}

(* The results a handler has collected. *)
ResultInv(r) ==
    /\ h[r].pc \in BeforeEnd => h[r].err = "none" /\ ~h[r].succeeded
    /\ h[r].pc = "resume" => h[r].resume
    /\ h[r].pc \in Undoing => (h[r].err = "none" <=> h[r].succeeded)
    /\ h[r].pc = "reattach" => (h[r].err = "none" => h[r].resume)
    /\ h[r].pc = "check" => h[r].err = "none"
    /\ h[r].pc \in Returning => (h[r].err = "none" => (h[r].afterWrite <=> ~h[r].resume))
    /\ h[r].pc \in Returning /\ h[r].afterWrite => h[r].err = "none"
    /\ h[r].terminated <=> h[r].err = "terminal"
    /\ h[r].terminated => h[r].pc \in Returning
    /\ h[r].afterWrite => h[r].pc \in Returning \cup Shutting \cup {"done"}
    /\ h[r].pc \in Shutting => h[r].afterWrite

(* The root refers to checkpoints that are kept. *)
RootInv(r) ==
    /\ h[r].pc \in BeforeCommit => ~h[r].committed
    /\ h[r].pc \in {"memory", "publish", "commit"} => h[r].checkpoint = h[r].named
    /\ h[r].committed => h[r].retain
    /\ h[r].pc = "close" => h[r].committed
    /\ h[r].named /\ h[r].committed => h[r].checkpoint

(* The guards that a successful capture without resume leaves in place. *)
Kept(r) == h[r].pc \in Returning \cup Shutting /\ h[r].afterWrite

(* A guard on the stack, or left to the destroyer, is held; the others are   *)
(* free again.                                                               *)
GuardInv(r) ==
    /\ HasBarrier(r) \/ Kept(r) => barrier = r
    /\ HasHigh(r) \/ Kept(r) => highLock = r /\ high = "max"
    /\ HasForward(r) \/ Kept(r) => forwarder.quiescing
    /\ HasPing(r) => pinger.paused /\ ~pinger.probe
    /\ Kept(r) \/ h[r].pc = "pingDrain" => pinger.paused
    /\ h[r].pc \in {"pause", "freeze"} \cup Reading => forwarder.inflight = 0
    /\ h[r].previous = "max" => ch # "alive"

FreeInv(r) ==
    Busy(r) /\ ~Kept(r) =>
        /\ ~HasUsage(r) /\ ~h[r].terminated => usage = "running"
        /\ ~HasBarrier(r) => barrier \notin Reqs
        /\ ~HasHigh(r) => highLock \notin Reqs
        /\ ~HasForward(r) /\ ~h[r].terminated => ~forwarder.quiescing
        /\ ~HasPing(r) /\ h[r].pc # "pingDrain" /\ ~h[r].terminated => ~pinger.paused

(* Nothing has gone wrong outside the captures. *)
Sound == ch = "alive" /\ ~abandoned
Running == guest = "running" /\ vm = "running"

(* What the VM does at each position of the handler. *)
MachineInv(r) ==
    /\ h[r].pc \in Early => backends = "running" /\ (Sound => Running)
    /\ h[r].pc \in {"fwdDrain", "pause"} =>
          guest = "frozen" /\ vm = "running" /\ backends = "running"
    /\ h[r].pc \in {"freeze"} \cup Reading => guest = "frozen" /\ vm = "paused"
    /\ h[r].pc \in Reading => backends = "quiesced"
    /\ h[r].pc = "final" /\ ~h[r].resume => vm = "paused"
    /\ h[r].pc \in Undoing /\ h[r].succeeded /\ ~h[r].resume => vm = "paused"
    /\ h[r].pc = "check" => IF h[r].resume THEN Running ELSE vm = "paused"
    /\ h[r].pc \in {"undoVM", "undoCheckpoint", "reattach", "check"} \cup Ending \cup Returning =>
          backends = "running"
    /\ Kept(r) => vm = "paused"
    /\ h[r].pc \in Returning /\ ~h[r].afterWrite /\ ~h[r].terminated => (Sound => Running)
    /\ h[r].pc = "shutKilled" \/ (h[r].pc = "done" /\ h[r].afterWrite) =>
          ch \in {"killed", "exited"}

HandlerInv(r) ==
    /\ StackInv(r) /\ ResultInv(r) /\ RootInv(r)
    /\ GuardInv(r) /\ FreeInv(r) /\ MachineInv(r)

(* Between captures every guard is free, and the VM runs unless something    *)
(* else has stopped it.                                                      *)
IdleInv ==
    Idle => /\ backends = "running" /\ usage = "running"
            /\ barrier \notin Reqs /\ highLock \notin Reqs
            /\ ~forwarder.quiescing /\ ~pinger.paused
            /\ Sound => Running

(* memory.high is at its limit unless a capture or the shutdown lifted it;   *)
(* the controller takes the lock only inside its barrier.                    *)
HighInv ==
    /\ highLock \notin Reqs /\ ch = "alive" => high = "limit"
    /\ highLock = "controller" => barrier = "controller"

IInv == TypeOK /\ GateInv /\ IdleInv /\ HighInv /\ \A r \in Reqs : HandlerInv(r)

-----------------------------------------------------------------------------
(* A guard that is pushed is the next to be released. *)
LEMMA Popped ==
  ASSUME NEW s \in Seq(Guards), NEW g \in Guards
  PROVE  /\ Append(s, g) \in Seq(Guards) /\ Append(s, g) # <<>>
         /\ Append(s, g)[Len(Append(s, g))] = g
         /\ SubSeq(Append(s, g), 1, Len(Append(s, g)) - 1) = s
  <1>1. /\ Append(s, g) \in Seq(Guards) /\ Len(Append(s, g)) = Len(s) + 1
        /\ Append(s, g)[Len(s) + 1] = g /\ Len(s) \in Nat
        /\ \A i \in 1 .. Len(s) : Append(s, g)[i] = s[i] /\ s[i] \in Guards
    OBVIOUS
  <1> DEFINE t == SubSeq(Append(s, g), 1, Len(s))
  <1>2. t \in Seq(Guards) /\ Len(t) = Len(s) /\ \A i \in 1 .. Len(s) : t[i] = s[i]
    <2>1. \A i \in 1 .. Len(s) : Append(s, g)[i] \in Guards
      BY <1>1
    <2>2. /\ t \in Seq(Guards) /\ Len(t) = IF 1 <= Len(s) THEN Len(s) - 1 + 1 ELSE 0
          /\ \A i \in 1 .. Len(s) - 1 + 1 : t[i] = Append(s, g)[1 + i - 1]
      BY <1>1, <2>1, SubSeqProperties
    <2> QED BY <1>1, <2>2
  <1>3. t = s
    BY <1>2, SeqEqual
  <1> QED BY <1>1, <1>3

(* The stacks: which guard each would release first, and what is left. *)
top(d) == d[Len(d)]
rest(d) == SubSeq(d, 1, Len(d) - 1)

(* Each stack is built of the one below it. *)
LEMMA Stacks ==
  /\ \A d \in {D0, D1, D2, D3, D4, D5} : d \in Seq(Guards)
  /\ top(D1) = "usage" /\ top(D2) = "barrier" /\ top(D3) = "high"
  /\ top(D4) = "forward" /\ top(D5) = "ping"
  /\ rest(D1) = D0 /\ rest(D2) = D1 /\ rest(D3) = D2 /\ rest(D4) = D3 /\ rest(D5) = D4
  /\ D0 \notin {D1, D2, D3, D4, D5}
  <1>1. ASSUME NEW s \in Seq(Guards), NEW g \in {"usage", "barrier", "high", "forward", "ping"}
        PROVE  /\ Append(s, g) \in Seq(Guards) /\ Append(s, g) # D0
               /\ top(Append(s, g)) = g /\ rest(Append(s, g)) = s
    BY Popped DEF top, rest, Guards, D0
  <1>2. D0 \in Seq(Guards)
    BY DEF D0
  <1>3. D1 \in Seq(Guards) /\ D1 # D0 /\ top(D1) = "usage" /\ rest(D1) = D0
    BY <1>1, <1>2 DEF D1
  <1>4. D2 \in Seq(Guards) /\ D2 # D0 /\ top(D2) = "barrier" /\ rest(D2) = D1
    BY <1>1, <1>3 DEF D2
  <1>5. D3 \in Seq(Guards) /\ D3 # D0 /\ top(D3) = "high" /\ rest(D3) = D2
    BY <1>1, <1>4 DEF D3
  <1>6. D4 \in Seq(Guards) /\ D4 # D0 /\ top(D4) = "forward" /\ rest(D4) = D3
    BY <1>1, <1>5 DEF D4
  <1>7. D5 \in Seq(Guards) /\ D5 # D0 /\ top(D5) = "ping" /\ rest(D5) = D4
    BY <1>1, <1>6 DEF D5
  <1> QED BY <1>2, <1>3, <1>4, <1>5, <1>6, <1>7

(* No two of them are equal. *)
LEMMA StacksDiffer ==
  /\ D0 \notin {D1, D2, D3, D4, D5} /\ D1 \notin {D2, D3, D4, D5} /\ D2 \notin {D3, D4, D5}
  /\ D3 \notin {D4, D5} /\ D4 # D5
  BY Stacks

-----------------------------------------------------------------------------
(* A step of r leaves the other handlers, and these results of r, alone. *)
Others(r) == h' \in [Reqs -> Handler] /\ \A s \in Reqs : s # r => h'[s] = h[s]
SameRequest(r) ==
    h'[r].resume = h[r].resume /\ h'[r].named = h[r].named /\ h'[r].previous = h[r].previous
SameResult(r) ==
    /\ h'[r].succeeded = h[r].succeeded /\ h'[r].terminated = h[r].terminated
    /\ h'[r].afterWrite = h[r].afterWrite
SameRoot(r) ==
    /\ h'[r].retain = h[r].retain /\ h'[r].committed = h[r].committed
    /\ h'[r].checkpoint = h[r].checkpoint
Same(r) == SameRequest(r) /\ SameResult(r) /\ SameRoot(r)
(* It goes to p with the error e and keeps its stack. *)
Moved(r, p, e) ==
    Others(r) /\ h'[r].pc = p /\ h'[r].err = e /\ h'[r].defers = h[r].defers /\ Same(r)

(* What a handler has collected depends on its own state only. *)
LEMMA Unmoved ==
  ASSUME NEW s \in Reqs, HandlerInv(s), h'[s].pc = h[s].pc, h'[s].err = h[s].err,
         h'[s].defers = h[s].defers, Same(s)
  PROVE  StackInv(s)' /\ ResultInv(s)' /\ RootInv(s)'
  <1> USE DEF HandlerInv, Same, SameRequest, SameResult, SameRoot
  <1>1. StackInv(s)'
    BY DEF StackInv
  <1>2. ResultInv(s)'
    BY DEF ResultInv
  <1>3. RootInv(s)'
    BY DEF RootInv
  <1> QED BY <1>1, <1>2, <1>3

(* It keeps its part of the invariant while nothing around it changes. *)
LEMMA UnmovedInv ==
  ASSUME NEW s \in Reqs, HandlerInv(s), h'[s].pc = h[s].pc, h'[s].err = h[s].err,
         h'[s].defers = h[s].defers, Same(s), UNCHANGED <<guards, machine, ch, abandoned>>
  PROVE  HandlerInv(s)'
  <1> USE DEF HandlerInv, Same, SameRequest, SameResult, SameRoot, Kept, Busy
  <1>1. StackInv(s)' /\ ResultInv(s)' /\ RootInv(s)'
    BY Unmoved
  <1>2. /\ HasUsage(s)' <=> HasUsage(s)
        /\ HasBarrier(s)' <=> HasBarrier(s)
        /\ HasHigh(s)' <=> HasHigh(s)
        /\ HasForward(s)' <=> HasForward(s)
        /\ HasPing(s)' <=> HasPing(s)
    BY DEF HasUsage, HasBarrier, HasHigh, HasForward, HasPing
  <1>3. GuardInv(s)'
    BY <1>2 DEF GuardInv, guards
  <1>4. FreeInv(s)'
    BY <1>2 DEF FreeInv, guards
  <1>5. MachineInv(s)'
    BY DEF MachineInv, Sound, Running, machine
  <1> QED BY <1>1, <1>3, <1>4, <1>5

USE DEF Shutting, Early, Undoing, Ending, Returning, Deep, BeforeCommit, BeforeEnd, Reading

(* One handler is replaced. *)
LEMMA Replaced ==
  ASSUME TypeOK, NEW r \in Reqs, NEW x \in Handler, h' = [h EXCEPT ![r] = x]
  PROVE  Others(r) /\ h'[r] = x
  BY DEF TypeOK, Others

(* Goto changes the position and nothing else of the handler. *)
LEMMA GotoMoves ==
  ASSUME TypeOK, NEW r \in Reqs, NEW p \in Pcs, Goto(r, p)
  PROVE  Moved(r, p, h[r].err)
  <1> DEFINE x == [h[r] EXCEPT !.pc = p]
  <1>1. h[r] \in Handler
    BY DEF TypeOK
  <1>2. x \in Handler
    BY <1>1 DEF Handler
  <1>3. h' = [h EXCEPT ![r] = x]
    BY DEF Goto
  <1>4. Others(r) /\ h'[r] = x
    BY <1>2, <1>3, Replaced, Zenon
  <1> QED BY <1>1, <1>4 DEF Handler, Moved, Same, SameRequest, SameResult, SameRoot

(* An error return of the handler. *)
LEMMA FailMoves ==
  ASSUME TypeOK, NEW r \in Reqs, Fail(r)
  PROVE  Moved(r, "unwind", "error")
  <1> DEFINE x == [h[r] EXCEPT !.pc = "unwind", !.err = "error"]
  <1>1. h[r] \in Handler
    BY DEF TypeOK
  <1>2. x \in Handler
    <2>1. "unwind" \in Pcs
      BY Zenon DEF Pcs
    <2> QED BY <1>1, <2>1 DEF Handler
  <1>3. h' = [h EXCEPT ![r] = x]
    BY DEF Fail
  <1>4. Others(r) /\ h'[r] = x
    BY <1>2, <1>3, Replaced, Zenon
  <1> QED BY <1>1, <1>4 DEF Handler, Moved, Same, SameRequest, SameResult, SameRoot

(* An error return of Take or Export. *)
LEMMA TakeFailsMoves ==
  ASSUME TypeOK, NEW r \in Reqs, TakeFails(r)
  PROVE  Moved(r, "undoBackends", "error")
  <1> DEFINE x == [h[r] EXCEPT !.pc = "undoBackends", !.err = "error"]
  <1>1. h[r] \in Handler
    BY DEF TypeOK
  <1>2. x \in Handler
    <2>1. "undoBackends" \in Pcs
      BY Zenon DEF Pcs
    <2> QED BY <1>1, <2>1 DEF Handler
  <1>3. h' = [h EXCEPT ![r] = x]
    BY DEF TakeFails
  <1>4. Others(r) /\ h'[r] = x
    BY <1>2, <1>3, Replaced, Zenon
  <1> QED BY <1>1, <1>4 DEF Handler, Moved, Same, SameRequest, SameResult, SameRoot

(* A guard is acquired and its release deferred. *)
LEMMA PushMoves ==
  ASSUME TypeOK, NEW r \in Reqs, NEW g \in Guards, NEW p \in Pcs, Push(r, g, p)
  PROVE  /\ Others(r) /\ h'[r].pc = p /\ h'[r].err = h[r].err
         /\ h'[r].defers = Append(h[r].defers, g) /\ Same(r)
  <1> DEFINE x == [h[r] EXCEPT !.defers = Append(h[r].defers, g), !.pc = p]
  <1>1. h[r] \in Handler
    BY DEF TypeOK
  <1>2. x \in Handler
    <2>1. Append(h[r].defers, g) \in Seq(Guards)
      BY <1>1, Popped DEF Handler
    <2> QED BY <1>1, <2>1 DEF Handler
  <1>3. h' = [h EXCEPT ![r] = x]
    BY DEF Push
  <1>4. Others(r) /\ h'[r] = x
    BY <1>2, <1>3, Replaced, Zenon
  <1> QED BY <1>1, <1>4 DEF Handler, Moved, Same, SameRequest, SameResult, SameRoot

(* CH does not come back. *)
ChStays ==
    /\ ch' = "alive" => ch = "alive"
    /\ ch \in {"killed", "exited"} => ch' \in {"killed", "exited"}

(* A handler that has not begun or has ended depends on nothing but CH. *)
LEMMA Resting ==
  ASSUME IInv, NEW s \in Reqs, ~Busy(s), h'[s] = h[s], ChStays
  PROVE  HandlerInv(s)' /\ ~Busy(s)'
  <1> USE StacksDiffer
  <1>1. HandlerInv(s) /\ h[s].pc \in {"idle", "done"}
    BY DEF IInv, Busy
  <1>2. h[s].defers = D0 /\ ~Kept(s) /\ ~Kept(s)'
    BY <1>1 DEF HandlerInv, StackInv, Kept
  <1>3. StackInv(s)' /\ ResultInv(s)' /\ RootInv(s)' /\ ~Busy(s)'
    BY <1>1 DEF HandlerInv, StackInv, ResultInv, RootInv, Busy
  <1>4. GuardInv(s)'
    BY <1>1, <1>2 DEF HandlerInv, GuardInv, HasBarrier, HasHigh, HasForward, HasPing, ChStays
  <1>5. FreeInv(s)'
    BY <1>3 DEF FreeInv
  <1>6. MachineInv(s)'
    BY <1>1, <1>2 DEF HandlerInv, MachineInv, ChStays
  <1> QED BY <1>3, <1>4, <1>5, <1>6 DEF HandlerInv

(* A step of the handler that is past the gate keeps the invariant if its   *)
(* own part is kept.                                                        *)
LEMMA HandlerMoves ==
  ASSUME IInv, NEW r \in Reqs, Busy(r), Busy(r)', Others(r), ChStays, gate' = gate,
         h'[r].pc \in Shutting <=> h[r].pc \in Shutting, HandlerInv(r)'
  PROVE  GateInv' /\ IdleInv' /\ \A s \in Reqs : HandlerInv(s)'
  <1>1. \A s \in Reqs : s # r => ~Busy(s) /\ h'[s] = h[s]
    BY DEF IInv, GateInv, Others
  <1>2. \A s \in Reqs : s # r => HandlerInv(s)' /\ ~Busy(s)'
    BY <1>1, Resting
  <1>3. GateInv'
    BY <1>2 DEF IInv, GateInv
  <1>4. IdleInv'
    BY DEF IInv, GateInv, IdleInv, Idle
  <1> QED BY <1>2, <1>3, <1>4

(* What TypeOK says of the variables other than h. *)
OtherTypes ==
    /\ gate \in [active : BOOLEAN, terminal : BOOLEAN]
    /\ usage \in {"running", "paused"} /\ barrier \in Holders
    /\ high \in {"limit", "max"} /\ highLock \in Holders
    /\ forwarder \in [quiescing : BOOLEAN, inflight : 0 .. MaxInflight]
    /\ pinger \in [paused : BOOLEAN, probe : BOOLEAN]
    /\ guest \in {"running", "frozen"} /\ vm \in {"running", "paused"}
    /\ backends \in {"running", "quiesced"} /\ ch \in {"alive", "stopping", "killed", "exited"}
    /\ diskErr \in BOOLEAN /\ abandoned \in BOOLEAN

(* The whole invariant, for a step that leaves the gate alone. *)
LEMMA StepOf ==
  ASSUME IInv, NEW r \in Reqs, Busy(r), Busy(r)', Others(r), ChStays, gate' = gate,
         h'[r].pc \in Shutting <=> h[r].pc \in Shutting, HandlerInv(r)', HighInv', OtherTypes'
  PROVE  IInv'
  BY HandlerMoves DEF IInv, TypeOK, OtherTypes, Others

(* The same, for a step that takes and releases no guard. *)
LEMMA QuietStepOf ==
  ASSUME IInv, NEW r \in Reqs, Busy(r), Busy(r)', Others(r), ChStays, gate' = gate,
         h'[r].pc \in Shutting <=> h[r].pc \in Shutting, HandlerInv(r)',
         UNCHANGED guards, guest' \in {"running", "frozen"}, vm' \in {"running", "paused"},
         backends' \in {"running", "quiesced"}, ch' \in {"alive", "stopping", "killed", "exited"},
         diskErr' = diskErr, abandoned' \in BOOLEAN
  PROVE  IInv'
  <1>1. HighInv'
    BY DEF IInv, HighInv, guards, ChStays
  <1>2. OtherTypes'
    BY DEF IInv, TypeOK, OtherTypes, guards
  <1> QED BY <1>1, <1>2, StepOf

(* The steps of a handler, one lemma each. *)
USE DEF StackInv, ResultInv, RootInv, GuardInv, FreeInv, MachineInv, Kept, HasUsage, HasBarrier,
        HasHigh, HasForward, HasPing, Busy, Sound, Running, Same,
        SameRequest, SameResult, SameRoot

(* The throttled vCPUs have left memory.high, or CH exited. *)
LEMMA DrainThrottlesStep ==
  ASSUME IInv, NEW r \in Reqs, DrainThrottles(r) PROVE IInv'
  <1>1. TypeOK /\ HandlerInv(r) /\ h[r].pc = "throttle"
    BY DEF IInv, DrainThrottles, At
  <1>2. UNCHANGED <<gate, guards, machine, ch, diskErr, abandoned>>
    BY DEF DrainThrottles
  <1>3. Others(r) /\ HandlerInv(r)' /\ h'[r].pc \in {"forward", "unwind"}
    <2>1. CASE Goto(r, "forward")
      <3>1. "forward" \in Pcs /\ Goto(r, "forward")
        BY <2>1 DEF Pcs
      <3>2. /\ Others(r) /\ h'[r].pc = "forward" /\ h'[r].err = h[r].err
            /\ h'[r].defers = h[r].defers /\ Same(r)
        BY <1>1, <3>1, GotoMoves, Zenon DEF Moved
      <3> QED BY <1>1, <1>2, <2>1, <3>2, StacksDiffer, ZenonT(40)
              DEF HandlerInv, guards, machine
    <2>2. CASE Fail(r)
      <3>1. Fail(r)
        BY <2>2
      <3>2. /\ Others(r) /\ h'[r].pc = "unwind" /\ h'[r].err = "error"
            /\ h'[r].defers = h[r].defers /\ Same(r)
        BY <1>1, <3>1, FailMoves, Zenon DEF Moved
      <3> QED BY <1>1, <1>2, <2>2, <3>2, StacksDiffer, ZenonT(40)
              DEF HandlerInv, guards, machine
    <2> QED BY <2>1, <2>2 DEF DrainThrottles
  <1> QED BY <1>1, <1>2, <1>3, QuietStepOf DEF TypeOK, ChStays, machine

(* The last forwarded connection has ended. *)
LEMMA DrainForwarderStep ==
  ASSUME IInv, NEW r \in Reqs, DrainForwarder(r) PROVE IInv'
  <1>1. TypeOK /\ HandlerInv(r) /\ h[r].pc = "fwdDrain"
    BY DEF IInv, DrainForwarder, At
  <1>0. h[r] \in Handler
    BY DEF IInv, TypeOK
  <1>2. UNCHANGED <<gate, guards, machine, ch, diskErr, abandoned>>
    BY DEF DrainForwarder
  <1>3. Others(r) /\ HandlerInv(r)' /\ h'[r].pc \in {"pause"}
    <2>1. CASE h' = [h EXCEPT ![r].pc = "pause", ![r].needsAbort = FALSE] /\ forwarder.inflight = 0
      <3> DEFINE x == [h[r] EXCEPT !.pc = "pause", !.needsAbort = FALSE]
      <3>1. x \in Handler
        <4>1. "pause" \in Pcs
          BY Zenon DEF Pcs
        <4> QED BY <1>0, <4>1 DEF Handler
      <3>2. h' = [h EXCEPT ![r] = x]
        BY <2>1
      <3>3. Others(r) /\ h'[r] = x
        BY <1>1, <3>1, <3>2, Replaced, Zenon
      <3>4. /\ h'[r].pc = "pause" /\ h'[r].err = h[r].err /\ h'[r].defers = h[r].defers
            /\ SameRequest(r) /\ SameResult(r) /\ SameRoot(r)
        BY <1>0, <3>3 DEF Handler
      <3> QED BY <1>1, <1>2, <2>1, <3>3, <3>4, StacksDiffer, ZenonT(40)
              DEF HandlerInv, guards, machine
    <2> QED BY <2>1 DEF DrainForwarder
  <1> QED BY <1>1, <1>2, <1>3, QuietStepOf DEF TypeOK, ChStays, machine

(* The memory of a snapshot is read. *)
LEMMA CaptureMemoryStep ==
  ASSUME IInv, NEW r \in Reqs, CaptureMemory(r) PROVE IInv'
  <1>1. TypeOK /\ HandlerInv(r) /\ h[r].pc = "memory"
    BY DEF IInv, CaptureMemory, At
  <1>2. UNCHANGED <<gate, guards, machine, ch, diskErr, abandoned>>
    BY DEF CaptureMemory
  <1>3. Others(r) /\ HandlerInv(r)' /\ h'[r].pc \in {"publish", "undoBackends"}
    <2>1. CASE Goto(r, "publish")
      <3>1. "publish" \in Pcs /\ Goto(r, "publish")
        BY <2>1 DEF Pcs
      <3>2. /\ Others(r) /\ h'[r].pc = "publish" /\ h'[r].err = h[r].err
            /\ h'[r].defers = h[r].defers /\ Same(r)
        BY <1>1, <3>1, GotoMoves, Zenon DEF Moved
      <3> QED BY <1>1, <1>2, <2>1, <3>2, StacksDiffer, ZenonT(40)
              DEF HandlerInv, guards, machine
    <2>2. CASE TakeFails(r)
      <3>1. TakeFails(r)
        BY <2>2
      <3>2. /\ Others(r) /\ h'[r].pc = "undoBackends" /\ h'[r].err = "error"
            /\ h'[r].defers = h[r].defers /\ Same(r)
        BY <1>1, <3>1, TakeFailsMoves, Zenon DEF Moved
      <3> QED BY <1>1, <1>2, <2>2, <3>2, StacksDiffer, ZenonT(40)
              DEF HandlerInv, guards, machine
    <2> QED BY <2>1, <2>2 DEF CaptureMemory
  <1> QED BY <1>1, <1>2, <1>3, QuietStepOf DEF TypeOK, ChStays, machine

(* The disks are checked before the commit. *)
LEMMA CheckBeforeCommitStep ==
  ASSUME IInv, NEW r \in Reqs, CheckBeforeCommit(r) PROVE IInv'
  <1>1. TypeOK /\ HandlerInv(r) /\ h[r].pc = "publish"
    BY DEF IInv, CheckBeforeCommit, At
  <1>2. UNCHANGED <<gate, guards, machine, ch, diskErr, abandoned>>
    BY DEF CheckBeforeCommit
  <1>3. Others(r) /\ HandlerInv(r)' /\ h'[r].pc \in {"commit", "undoBackends"}
    <2>1. CASE Goto(r, "commit")
      <3>1. "commit" \in Pcs /\ Goto(r, "commit")
        BY <2>1 DEF Pcs
      <3>2. /\ Others(r) /\ h'[r].pc = "commit" /\ h'[r].err = h[r].err
            /\ h'[r].defers = h[r].defers /\ Same(r)
        BY <1>1, <3>1, GotoMoves, Zenon DEF Moved
      <3> QED BY <1>1, <1>2, <2>1, <3>2, StacksDiffer, ZenonT(40)
              DEF HandlerInv, guards, machine
    <2>2. CASE TakeFails(r)
      <3>1. TakeFails(r)
        BY <2>2
      <3>2. /\ Others(r) /\ h'[r].pc = "undoBackends" /\ h'[r].err = "error"
            /\ h'[r].defers = h[r].defers /\ Same(r)
        BY <1>1, <3>1, TakeFailsMoves, Zenon DEF Moved
      <3> QED BY <1>1, <1>2, <2>2, <3>2, StacksDiffer, ZenonT(40)
              DEF HandlerInv, guards, machine
    <2> QED BY <2>1, <2>2 DEF CheckBeforeCommit
  <1> QED BY <1>1, <1>2, <1>3, QuietStepOf DEF TypeOK, ChStays, machine

(* The root alias is written, or its outcome is uncertain. *)
LEMMA CommitStep ==
  ASSUME IInv, NEW r \in Reqs, Commit(r) PROVE IInv'
  <1>1. TypeOK /\ HandlerInv(r) /\ h[r].pc = "commit"
    BY DEF IInv, Commit, At
  <1>0. h[r] \in Handler
    BY DEF IInv, TypeOK
  <1>2. UNCHANGED <<gate, guards, machine, ch, diskErr, abandoned>>
    BY DEF Commit
  <1>3. Others(r) /\ HandlerInv(r)' /\ h'[r].pc \in {"close", "undoBackends"}
    <2>1. CASE h' = [h EXCEPT ![r].retain = TRUE, ![r].committed = TRUE, ![r].pc = "close"]
      <3> DEFINE x == [h[r] EXCEPT !.retain = TRUE, !.committed = TRUE, !.pc = "close"]
      <3>1. x \in Handler
        <4>1. "close" \in Pcs
          BY Zenon DEF Pcs
        <4> QED BY <1>0, <4>1 DEF Handler
      <3>2. h' = [h EXCEPT ![r] = x]
        BY <2>1
      <3>3. Others(r) /\ h'[r] = x
        BY <1>1, <3>1, <3>2, Replaced, Zenon
      <3>4. /\ h'[r].retain = TRUE /\ h'[r].committed = TRUE /\ h'[r].pc = "close"
            /\ h'[r].err = h[r].err /\ h'[r].defers = h[r].defers /\ SameRequest(r)
            /\ SameResult(r) /\ h'[r].checkpoint = h[r].checkpoint
        BY <1>0, <3>3 DEF Handler
      <3> QED BY <1>1, <1>2, <2>1, <3>3, <3>4, StacksDiffer, ZenonT(40)
              DEF HandlerInv, guards, machine
    <2>2. CASE \E wrote \in BOOLEAN :
              h' = [h EXCEPT ![r].retain = TRUE, ![r].committed = wrote,
                             ![r].err = "error", ![r].pc = "undoBackends"]
      <3>0. PICK wrote \in BOOLEAN : 
              h' = [h EXCEPT ![r].retain = TRUE, ![r].committed = wrote,
                             ![r].err = "error", ![r].pc = "undoBackends"]
        BY <2>2
      <3> DEFINE x == [h[r] EXCEPT !.retain = TRUE, !.committed = wrote, !.err = "error",
                                   !.pc = "undoBackends"]
      <3>1. x \in Handler
        <4>1. "undoBackends" \in Pcs
          BY Zenon DEF Pcs
        <4> QED BY <1>0, <3>0, <4>1 DEF Handler
      <3>2. h' = [h EXCEPT ![r] = x]
        BY <3>0
      <3>3. Others(r) /\ h'[r] = x
        BY <1>1, <3>1, <3>2, Replaced, Zenon
      <3>4. /\ h'[r].retain = TRUE /\ h'[r].committed = wrote /\ h'[r].err = "error"
            /\ h'[r].pc = "undoBackends" /\ h'[r].defers = h[r].defers /\ SameRequest(r)
            /\ SameResult(r) /\ h'[r].checkpoint = h[r].checkpoint
        BY <1>0, <3>3 DEF Handler
      <3> QED BY <1>1, <1>2, <3>0, <3>3, <3>4, StacksDiffer, ZenonT(40)
              DEF HandlerInv, guards, machine
    <2> QED BY <2>1, <2>2 DEF Commit
  <1> QED BY <1>1, <1>2, <1>3, QuietStepOf DEF TypeOK, ChStays, machine

(* The sink is closed. *)
LEMMA CloseSinkStep ==
  ASSUME IInv, NEW r \in Reqs, CloseSink(r) PROVE IInv'
  <1>1. TypeOK /\ HandlerInv(r) /\ h[r].pc = "close"
    BY DEF IInv, CloseSink, At
  <1>2. UNCHANGED <<gate, guards, machine, ch, diskErr, abandoned>>
    BY DEF CloseSink
  <1>3. Others(r) /\ HandlerInv(r)' /\ h'[r].pc \in {"resume", "final", "undoBackends"}
    <2>1. CASE h[r].resume /\ Goto(r, "resume")
      <3>1. "resume" \in Pcs /\ Goto(r, "resume")
        BY <2>1 DEF Pcs
      <3>2. /\ Others(r) /\ h'[r].pc = "resume" /\ h'[r].err = h[r].err
            /\ h'[r].defers = h[r].defers /\ Same(r)
        BY <1>1, <3>1, GotoMoves, Zenon DEF Moved
      <3> QED BY <1>1, <1>2, <2>1, <3>2, StacksDiffer, ZenonT(40)
              DEF HandlerInv, guards, machine
    <2>2. CASE ~h[r].resume /\ Goto(r, "final")
      <3>1. "final" \in Pcs /\ Goto(r, "final")
        BY <2>2 DEF Pcs
      <3>2. /\ Others(r) /\ h'[r].pc = "final" /\ h'[r].err = h[r].err
            /\ h'[r].defers = h[r].defers /\ Same(r)
        BY <1>1, <3>1, GotoMoves, Zenon DEF Moved
      <3> QED BY <1>1, <1>2, <2>2, <3>2, StacksDiffer, ZenonT(40)
              DEF HandlerInv, guards, machine
    <2>3. CASE TakeFails(r)
      <3>1. TakeFails(r)
        BY <2>3
      <3>2. /\ Others(r) /\ h'[r].pc = "undoBackends" /\ h'[r].err = "error"
            /\ h'[r].defers = h[r].defers /\ Same(r)
        BY <1>1, <3>1, TakeFailsMoves, Zenon DEF Moved
      <3> QED BY <1>1, <1>2, <2>3, <3>2, StacksDiffer, ZenonT(40)
              DEF HandlerInv, guards, machine
    <2> QED BY <2>1, <2>2, <2>3 DEF CloseSink
  <1> QED BY <1>1, <1>2, <1>3, QuietStepOf DEF TypeOK, ChStays, machine

(* The disks are read; a named capture registers its checkpoints. *)
LEMMA CaptureDisksStep ==
  ASSUME IInv, NEW r \in Reqs, CaptureDisks(r) PROVE IInv'
  <1>1. TypeOK /\ HandlerInv(r) /\ h[r].pc = "disks"
    BY DEF IInv, CaptureDisks, At
  <1>0. h[r] \in Handler
    BY DEF IInv, TypeOK
  <1>2. UNCHANGED <<gate, guards, machine, ch, diskErr, abandoned>>
    BY DEF CaptureDisks
  <1>3. Others(r) /\ HandlerInv(r)' /\ h'[r].pc \in {"memory", "publish", "undoBackends"}
    <2>1. CASE /\ h[r].kind = "snapshot"
             /\ h' = [h EXCEPT ![r].checkpoint = h[r].named, ![r].pc = "memory"]
      <3> DEFINE x == [h[r] EXCEPT !.checkpoint = h[r].named, !.pc = "memory"]
      <3>1. x \in Handler
        <4>1. "memory" \in Pcs
          BY Zenon DEF Pcs
        <4> QED BY <1>0, <4>1 DEF Handler
      <3>2. h' = [h EXCEPT ![r] = x]
        BY <2>1
      <3>3. Others(r) /\ h'[r] = x
        BY <1>1, <3>1, <3>2, Replaced, Zenon
      <3>4. /\ h'[r].checkpoint = h[r].named /\ h'[r].pc = "memory" /\ h'[r].err = h[r].err
            /\ h'[r].defers = h[r].defers /\ SameRequest(r) /\ SameResult(r)
            /\ h'[r].retain = h[r].retain /\ h'[r].committed = h[r].committed
        BY <1>0, <3>3 DEF Handler
      <3> QED BY <1>1, <1>2, <2>1, <3>3, <3>4, StacksDiffer, ZenonT(40)
              DEF HandlerInv, guards, machine
    <2>2. CASE /\ h[r].kind # "snapshot"
             /\ h' = [h EXCEPT ![r].checkpoint = h[r].named, ![r].pc = "publish"]
      <3> DEFINE x == [h[r] EXCEPT !.checkpoint = h[r].named, !.pc = "publish"]
      <3>1. x \in Handler
        <4>1. "publish" \in Pcs
          BY Zenon DEF Pcs
        <4> QED BY <1>0, <4>1 DEF Handler
      <3>2. h' = [h EXCEPT ![r] = x]
        BY <2>2
      <3>3. Others(r) /\ h'[r] = x
        BY <1>1, <3>1, <3>2, Replaced, Zenon
      <3>4. /\ h'[r].checkpoint = h[r].named /\ h'[r].pc = "publish" /\ h'[r].err = h[r].err
            /\ h'[r].defers = h[r].defers /\ SameRequest(r) /\ SameResult(r)
            /\ h'[r].retain = h[r].retain /\ h'[r].committed = h[r].committed
        BY <1>0, <3>3 DEF Handler
      <3> QED BY <1>1, <1>2, <2>2, <3>3, <3>4, StacksDiffer, ZenonT(40)
              DEF HandlerInv, guards, machine
    <2>3. CASE \E made \in {FALSE, h[r].named} :
              h' = [h EXCEPT ![r].checkpoint = made, ![r].err = "error",
                             ![r].pc = "undoBackends"]
      <3>0. PICK made \in {FALSE, h[r].named} : 
              h' = [h EXCEPT ![r].checkpoint = made, ![r].err = "error",
                             ![r].pc = "undoBackends"]
        BY <2>3
      <3> DEFINE x == [h[r] EXCEPT !.checkpoint = made, !.err = "error", !.pc = "undoBackends"]
      <3>1. x \in Handler
        <4>1. "undoBackends" \in Pcs
          BY Zenon DEF Pcs
        <4> QED BY <1>0, <3>0, <4>1 DEF Handler
      <3>2. h' = [h EXCEPT ![r] = x]
        BY <3>0
      <3>3. Others(r) /\ h'[r] = x
        BY <1>1, <3>1, <3>2, Replaced, Zenon
      <3>4. /\ h'[r].checkpoint = made /\ h'[r].err = "error" /\ h'[r].pc = "undoBackends"
            /\ h'[r].defers = h[r].defers /\ SameRequest(r) /\ SameResult(r)
            /\ h'[r].retain = h[r].retain /\ h'[r].committed = h[r].committed
        BY <1>0, <3>3 DEF Handler
      <3> QED BY <1>1, <1>2, <3>0, <3>3, <3>4, StacksDiffer, ZenonT(40)
              DEF HandlerInv, guards, machine
    <2> QED BY <2>1, <2>2, <2>3 DEF CaptureDisks
  <1> QED BY <1>1, <1>2, <1>3, QuietStepOf DEF TypeOK, ChStays, machine

(* Take and Export succeed if the disks are still intact. *)
LEMMA FinalCheckStep ==
  ASSUME IInv, NEW r \in Reqs, FinalCheck(r) PROVE IInv'
  <1>1. TypeOK /\ HandlerInv(r) /\ h[r].pc = "final"
    BY DEF IInv, FinalCheck, At
  <1>0. h[r] \in Handler
    BY DEF IInv, TypeOK
  <1>2. UNCHANGED <<gate, guards, machine, ch, diskErr, abandoned>>
    BY DEF FinalCheck
  <1>3. Others(r) /\ HandlerInv(r)' /\ h'[r].pc \in {"undoBackends"}
    <2>1. CASE h' = [h EXCEPT ![r].succeeded = TRUE, ![r].pc = "undoBackends"]
      <3> DEFINE x == [h[r] EXCEPT !.succeeded = TRUE, !.pc = "undoBackends"]
      <3>1. x \in Handler
        <4>1. "undoBackends" \in Pcs
          BY Zenon DEF Pcs
        <4> QED BY <1>0, <4>1 DEF Handler
      <3>2. h' = [h EXCEPT ![r] = x]
        BY <2>1
      <3>3. Others(r) /\ h'[r] = x
        BY <1>1, <3>1, <3>2, Replaced, Zenon
      <3>4. /\ h'[r].succeeded = TRUE /\ h'[r].pc = "undoBackends" /\ h'[r].err = h[r].err
            /\ h'[r].defers = h[r].defers /\ SameRequest(r)
            /\ h'[r].terminated = h[r].terminated /\ h'[r].afterWrite = h[r].afterWrite
            /\ SameRoot(r)
        BY <1>0, <3>3 DEF Handler
      <3> QED BY <1>1, <1>2, <2>1, <3>3, <3>4, StacksDiffer, ZenonT(40)
              DEF HandlerInv, guards, machine
    <2>2. CASE TakeFails(r)
      <3>1. TakeFails(r)
        BY <2>2
      <3>2. /\ Others(r) /\ h'[r].pc = "undoBackends" /\ h'[r].err = "error"
            /\ h'[r].defers = h[r].defers /\ Same(r)
        BY <1>1, <3>1, TakeFailsMoves, Zenon DEF Moved
      <3> QED BY <1>1, <1>2, <2>2, <3>2, StacksDiffer, ZenonT(40)
              DEF HandlerInv, guards, machine
    <2> QED BY <2>1, <2>2 DEF FinalCheck
  <1> QED BY <1>1, <1>2, <1>3, QuietStepOf DEF TypeOK, ChStays, machine

(* Checkpoints that are not retained may be deleted. *)
LEMMA UndoCheckpointStep ==
  ASSUME IInv, NEW r \in Reqs, UndoCheckpoint(r) PROVE IInv'
  <1>0. h[r] \in Handler
    BY DEF IInv, TypeOK
  <1>1. TypeOK /\ HandlerInv(r) /\ h[r].pc = "undoCheckpoint"
    BY DEF IInv, UndoCheckpoint, At
  <1>2. UNCHANGED <<gate, guards, machine, ch, diskErr, abandoned>>
    BY DEF UndoCheckpoint
  <1>3. PICK kept \in BOOLEAN, p \in {"check", "reattach"} :
             /\ h[r].retain => kept = h[r].checkpoint
             /\ p = "check" <=> h[r].succeeded /\ ~h[r].resume
             /\ h' = [h EXCEPT ![r].checkpoint = kept, ![r].pc = p]
    BY <1>0 DEF UndoCheckpoint, Handler
  <1> DEFINE x == [h[r] EXCEPT !.checkpoint = kept, !.pc = p]
  <1>4. x \in Handler
    <2>1. p \in Pcs
      BY DEF Pcs
    <2> QED BY <1>0, <2>1 DEF Handler
  <1>5. h' = [h EXCEPT ![r] = x]
    BY <1>3
  <1>6. Others(r) /\ h'[r] = x
    BY <1>1, <1>4, <1>5, Replaced, Zenon
  <1>7. /\ h'[r].checkpoint = kept /\ h'[r].pc = p
        /\ h'[r].err = h[r].err /\ h'[r].defers = h[r].defers /\ SameRequest(r) /\ SameResult(r)
        /\ h'[r].retain = h[r].retain /\ h'[r].committed = h[r].committed
    BY <1>0, <1>6 DEF Handler
  <1>8. HandlerInv(r)'
    BY <1>1, <1>2, <1>3, <1>7, StacksDiffer DEF HandlerInv, guards, machine
  <1> QED BY <1>1, <1>2, <1>6, <1>7, <1>8, QuietStepOf DEF TypeOK, ChStays, machine

(* CH is paused, or the call fails with an unknown outcome. *)
LEMMA PauseVMStep ==
  ASSUME IInv, NEW r \in Reqs, PauseVM(r) PROVE IInv'
  <1>1. TypeOK /\ HandlerInv(r) /\ h[r].pc = "pause"
    BY DEF IInv, PauseVM, At
  <1>0. h[r] \in Handler
    BY DEF IInv, TypeOK
  <1>2. UNCHANGED <<gate, guards, guest, backends, ch, diskErr, abandoned>>
    BY DEF PauseVM
  <1>3. Others(r) /\ HandlerInv(r)' /\ h'[r].pc \in {"freeze", "reattach"} /\ vm' \in {vm, "paused"}
    <2>1. CASE vm' = "paused" /\ Goto(r, "freeze")
      <3>1. "freeze" \in Pcs /\ Goto(r, "freeze")
        BY <2>1 DEF Pcs
      <3>2. /\ Others(r) /\ h'[r].pc = "freeze" /\ h'[r].err = h[r].err
            /\ h'[r].defers = h[r].defers /\ Same(r)
        BY <1>1, <3>1, GotoMoves, Zenon DEF Moved
      <3> QED BY <1>1, <1>2, <2>1, <3>2, StacksDiffer, ZenonT(40)
              DEF HandlerInv, guards, machine
    <2>2. CASE vm' \in {vm, "paused"} /\ h' = [h EXCEPT ![r].pc = "reattach", ![r].err = "error"]
      <3> DEFINE x == [h[r] EXCEPT !.pc = "reattach", !.err = "error"]
      <3>1. x \in Handler
        <4>1. "reattach" \in Pcs
          BY Zenon DEF Pcs
        <4> QED BY <1>0, <4>1 DEF Handler
      <3>2. h' = [h EXCEPT ![r] = x]
        BY <2>2
      <3>3. Others(r) /\ h'[r] = x
        BY <1>1, <3>1, <3>2, Replaced, Zenon
      <3>4. /\ h'[r].pc = "reattach" /\ h'[r].err = "error" /\ h'[r].defers = h[r].defers
            /\ SameRequest(r) /\ SameResult(r) /\ SameRoot(r)
        BY <1>0, <3>3 DEF Handler
      <3> QED BY <1>1, <1>2, <2>2, <3>3, <3>4, StacksDiffer, ZenonT(40)
              DEF HandlerInv, guards, machine
    <2> QED BY <2>1, <2>2 DEF PauseVM
  <1> QED BY <1>1, <1>2, <1>3, QuietStepOf DEF TypeOK, ChStays, machine

(* The backends stop. *)
LEMMA QuiesceBackendsStep ==
  ASSUME IInv, NEW r \in Reqs, QuiesceBackends(r) PROVE IInv'
  <1>1. TypeOK /\ HandlerInv(r) /\ h[r].pc = "freeze"
    BY DEF IInv, QuiesceBackends, At
  <1>2. UNCHANGED <<gate, guards, guest, vm, ch, diskErr, abandoned>>
    BY DEF QuiesceBackends
  <1>3. /\ Others(r) /\ HandlerInv(r)' /\ h'[r].pc \in {"disks", "undoBackends"}
        /\ backends' = "quiesced"
    <2>1. CASE backends' = "quiesced" /\ Goto(r, "disks")
      <3>1. "disks" \in Pcs /\ Goto(r, "disks")
        BY <2>1 DEF Pcs
      <3>2. /\ Others(r) /\ h'[r].pc = "disks" /\ h'[r].err = h[r].err
            /\ h'[r].defers = h[r].defers /\ Same(r)
        BY <1>1, <3>1, GotoMoves, Zenon DEF Moved
      <3> QED BY <1>1, <1>2, <2>1, <3>2, StacksDiffer, ZenonT(40)
              DEF HandlerInv, guards, machine
    <2>2. CASE backends' = "quiesced" /\ TakeFails(r)
      <3>1. TakeFails(r)
        BY <2>2
      <3>2. /\ Others(r) /\ h'[r].pc = "undoBackends" /\ h'[r].err = "error"
            /\ h'[r].defers = h[r].defers /\ Same(r)
        BY <1>1, <3>1, TakeFailsMoves, Zenon DEF Moved
      <3> QED BY <1>1, <1>2, <2>2, <3>2, StacksDiffer, ZenonT(40)
              DEF HandlerInv, guards, machine
    <2> QED BY <2>1, <2>2 DEF QuiesceBackends
  <1> QED BY <1>1, <1>2, <1>3, QuietStepOf DEF TypeOK, ChStays, machine

(* The backends and CH are resumed. *)
LEMMA ResumeVMStep ==
  ASSUME IInv, NEW r \in Reqs, ResumeVM(r) PROVE IInv'
  <1>1. TypeOK /\ HandlerInv(r) /\ h[r].pc = "resume"
    BY DEF IInv, ResumeVM, At
  <1>0. h[r] \in Handler
    BY DEF IInv, TypeOK
  <1>2. UNCHANGED <<gate, guards, guest, ch, diskErr, abandoned>>
    BY DEF ResumeVM
  <1>3. Others(r) /\ HandlerInv(r)' /\ h'[r].pc \in {"final", "undoBackends"}
        /\ backends' = "running" /\ vm' \in {vm, "running"}
    <2>1. CASE backends' = "running" /\ vm' = "running" /\
              h' = [h EXCEPT ![r].vmResumed = TRUE, ![r].pc = "final"]
      <3> DEFINE x == [h[r] EXCEPT !.vmResumed = TRUE, !.pc = "final"]
      <3>1. x \in Handler
        <4>1. "final" \in Pcs
          BY Zenon DEF Pcs
        <4> QED BY <1>0, <4>1 DEF Handler
      <3>2. h' = [h EXCEPT ![r] = x]
        BY <2>1
      <3>3. Others(r) /\ h'[r] = x
        BY <1>1, <3>1, <3>2, Replaced, Zenon
      <3>4. /\ h'[r].pc = "final" /\ h'[r].err = h[r].err /\ h'[r].defers = h[r].defers
            /\ SameRequest(r) /\ SameResult(r) /\ SameRoot(r)
        BY <1>0, <3>3 DEF Handler
      <3> QED BY <1>1, <1>2, <2>1, <3>3, <3>4, StacksDiffer, ZenonT(40)
              DEF HandlerInv, guards, machine
    <2>2. CASE backends' = "running" /\ vm' \in {vm, "running"} /\ TakeFails(r)
      <3>1. TakeFails(r)
        BY <2>2
      <3>2. /\ Others(r) /\ h'[r].pc = "undoBackends" /\ h'[r].err = "error"
            /\ h'[r].defers = h[r].defers /\ Same(r)
        BY <1>1, <3>1, TakeFailsMoves, Zenon DEF Moved
      <3> QED BY <1>1, <1>2, <2>2, <3>2, StacksDiffer, ZenonT(40)
              DEF HandlerInv, guards, machine
    <2> QED BY <2>1, <2>2 DEF ResumeVM
  <1> QED BY <1>1, <1>2, <1>3, QuietStepOf DEF TypeOK, ChStays, machine

(* Quiescer.Resume. *)
LEMMA UndoBackendsStep ==
  ASSUME IInv, NEW r \in Reqs, UndoBackends(r) PROVE IInv'
  <1>1. TypeOK /\ HandlerInv(r) /\ h[r].pc = "undoBackends"
    BY DEF IInv, UndoBackends, At
  <1>2. UNCHANGED <<gate, guards, guest, vm, ch, diskErr, abandoned>>
    BY DEF UndoBackends
  <1>3. Others(r) /\ HandlerInv(r)' /\ h'[r].pc \in {"undoVM"} /\ backends' = "running"
    <2>1. CASE backends' = "running" /\ Goto(r, "undoVM")
      <3>1. "undoVM" \in Pcs /\ Goto(r, "undoVM")
        BY <2>1 DEF Pcs
      <3>2. /\ Others(r) /\ h'[r].pc = "undoVM" /\ h'[r].err = h[r].err
            /\ h'[r].defers = h[r].defers /\ Same(r)
        BY <1>1, <3>1, GotoMoves, Zenon DEF Moved
      <3> QED BY <1>1, <1>2, <2>1, <3>2, StacksDiffer, ZenonT(40)
              DEF HandlerInv, guards, machine
    <2> QED BY <2>1 DEF UndoBackends
  <1> QED BY <1>1, <1>2, <1>3, QuietStepOf DEF TypeOK, ChStays, machine

(* CH is resumed unless it is to be destroyed. *)
LEMMA UndoVMStep ==
  ASSUME IInv, NEW r \in Reqs, UndoVM(r) PROVE IInv'
  <1>1. TypeOK /\ HandlerInv(r) /\ h[r].pc = "undoVM"
    BY DEF IInv, UndoVM, At
  <1>2. UNCHANGED <<gate, guards, guest, backends, ch, diskErr, abandoned>>
    BY DEF UndoVM
  <1>3. Others(r) /\ HandlerInv(r)' /\ h'[r].pc \in {"undoCheckpoint"} /\ vm' \in {vm, "running"}
    <2>1. CASE Goto(r, "undoCheckpoint") /\ vm' \in {vm, "running"} /\
              (h[r].succeeded /\ ~h[r].resume => vm' = vm)
      <3>1. "undoCheckpoint" \in Pcs /\ Goto(r, "undoCheckpoint")
        BY <2>1 DEF Pcs
      <3>2. /\ Others(r) /\ h'[r].pc = "undoCheckpoint" /\ h'[r].err = h[r].err
            /\ h'[r].defers = h[r].defers /\ Same(r)
        BY <1>1, <3>1, GotoMoves, Zenon DEF Moved
      <3> QED BY <1>1, <1>2, <2>1, <3>2, StacksDiffer, ZenonT(40)
              DEF HandlerInv, guards, machine
    <2> QED BY <2>1 DEF UndoVM
  <1> QED BY <1>1, <1>2, <1>3, QuietStepOf DEF TypeOK, ChStays, machine

(* The guest thaws, or the VM is given up. *)
LEMMA ReattachStep ==
  ASSUME IInv, NEW r \in Reqs, Reattach(r) PROVE IInv'
  <1>1. TypeOK /\ HandlerInv(r) /\ h[r].pc = "reattach"
    BY DEF IInv, Reattach, At
  <1>2. UNCHANGED <<gate, guards, vm, backends, ch, diskErr, abandoned>>
    BY DEF Reattach
  <1>3. Others(r) /\ HandlerInv(r)' /\ h'[r].pc \in {"check", "unwind", "terminate"}
        /\ guest' \in {guest, "running"}
    <2>1. CASE /\ vm = "running" /\ guest' = "running"
              /\ h[r].err = "none" /\ Goto(r, "check")
      <3>1. "check" \in Pcs /\ Goto(r, "check")
        BY <2>1 DEF Pcs
      <3>2. /\ Others(r) /\ h'[r].pc = "check" /\ h'[r].err = h[r].err
            /\ h'[r].defers = h[r].defers /\ Same(r)
        BY <1>1, <3>1, GotoMoves, Zenon DEF Moved
      <3> QED BY <1>1, <1>2, <2>1, <3>2, StacksDiffer, ZenonT(40)
              DEF HandlerInv, guards, machine
    <2>2. CASE /\ vm = "running" /\ guest' = "running"
              /\ h[r].err # "none" /\ Goto(r, "unwind")
      <3>1. "unwind" \in Pcs /\ Goto(r, "unwind")
        BY <2>2 DEF Pcs
      <3>2. /\ Others(r) /\ h'[r].pc = "unwind" /\ h'[r].err = h[r].err
            /\ h'[r].defers = h[r].defers /\ Same(r)
        BY <1>1, <3>1, GotoMoves, Zenon DEF Moved
      <3> QED BY <1>1, <1>2, <2>2, <3>2, StacksDiffer, ZenonT(40)
              DEF HandlerInv, guards, machine
    <2>3. CASE guest' \in {guest, "running"} /\ Goto(r, "terminate")
      <3>1. "terminate" \in Pcs /\ Goto(r, "terminate")
        BY <2>3 DEF Pcs
      <3>2. /\ Others(r) /\ h'[r].pc = "terminate" /\ h'[r].err = h[r].err
            /\ h'[r].defers = h[r].defers /\ Same(r)
        BY <1>1, <3>1, GotoMoves, Zenon DEF Moved
      <3> QED BY <1>1, <1>2, <2>3, <3>2, StacksDiffer, ZenonT(40)
              DEF HandlerInv, guards, machine
    <2> QED BY <2>1, <2>2, <2>3 DEF Reattach
  <1> QED BY <1>1, <1>2, <1>3, QuietStepOf DEF TypeOK, ChStays, machine

(* CH is asked to stop. *)
LEMMA TerminateStep ==
  ASSUME IInv, NEW r \in Reqs, Terminate(r) PROVE IInv'
  <1>1. TypeOK /\ HandlerInv(r) /\ h[r].pc = "terminate"
    BY DEF IInv, Terminate, At
  <1>2. UNCHANGED <<gate, guards, machine, diskErr, abandoned>> /\ ChStays
        /\ ch' \in {"alive", "stopping", "killed", "exited"}
    BY <1>1 DEF Terminate, RequestStop, ChStays, TypeOK
  <1>3. Others(r) /\ HandlerInv(r)' /\ h'[r].pc \in {"termGrace"}
    <2>1. CASE Goto(r, "termGrace")
      <3>1. "termGrace" \in Pcs /\ Goto(r, "termGrace")
        BY <2>1 DEF Pcs
      <3>2. /\ Others(r) /\ h'[r].pc = "termGrace" /\ h'[r].err = h[r].err
            /\ h'[r].defers = h[r].defers /\ Same(r)
        BY <1>1, <3>1, GotoMoves, Zenon DEF Moved
      <3> QED BY <1>1, <1>2, <2>1, <3>2, StacksDiffer, ZenonT(40)
              DEF HandlerInv, guards, machine, ChStays
    <2> QED BY <2>1 DEF Terminate
  <1> QED BY <1>1, <1>2, <1>3, QuietStepOf DEF TypeOK, ChStays, machine

(* CH exits, or is killed. *)
LEMMA TerminateGraceStep ==
  ASSUME IInv, NEW r \in Reqs, TerminateGrace(r) PROVE IInv'
  <1>1. TypeOK /\ HandlerInv(r) /\ h[r].pc = "termGrace"
    BY DEF IInv, TerminateGrace, At
  <1>0. h[r] \in Handler
    BY DEF IInv, TypeOK
  <1>2. UNCHANGED <<gate, guards, machine, diskErr, abandoned>> /\ ChStays
        /\ ch' \in {"alive", "stopping", "killed", "exited"}
    BY <1>1 DEF TerminateGrace, Kill, ChStays, TypeOK
  <1>3. Others(r) /\ HandlerInv(r)' /\ h'[r].pc \in {"unwind", "termKilled"}
    <2>1. CASE h' = [h EXCEPT ![r].pc = "unwind", ![r].err = "terminal", ![r].terminated = TRUE]
      <3> DEFINE x == [h[r] EXCEPT !.pc = "unwind", !.err = "terminal", !.terminated = TRUE]
      <3>1. x \in Handler
        <4>1. "unwind" \in Pcs
          BY Zenon DEF Pcs
        <4> QED BY <1>0, <4>1 DEF Handler
      <3>2. h' = [h EXCEPT ![r] = x]
        BY <2>1
      <3>3. Others(r) /\ h'[r] = x
        BY <1>1, <3>1, <3>2, Replaced, Zenon
      <3>4. /\ h'[r].pc = "unwind" /\ h'[r].err = "terminal" /\ h'[r].terminated = TRUE
            /\ h'[r].defers = h[r].defers /\ SameRequest(r) /\ h'[r].succeeded = h[r].succeeded
            /\ h'[r].afterWrite = h[r].afterWrite /\ SameRoot(r)
        BY <1>0, <3>3 DEF Handler
      <3> QED BY <1>1, <1>2, <2>1, <3>3, <3>4, StacksDiffer, ZenonT(40)
              DEF HandlerInv, guards, machine, ChStays
    <2>2. CASE Goto(r, "termKilled")
      <3>1. "termKilled" \in Pcs /\ Goto(r, "termKilled")
        BY <2>2 DEF Pcs
      <3>2. /\ Others(r) /\ h'[r].pc = "termKilled" /\ h'[r].err = h[r].err
            /\ h'[r].defers = h[r].defers /\ Same(r)
        BY <1>1, <3>1, GotoMoves, Zenon DEF Moved
      <3> QED BY <1>1, <1>2, <2>2, <3>2, StacksDiffer, ZenonT(40)
              DEF HandlerInv, guards, machine, ChStays
    <2> QED BY <2>1, <2>2 DEF TerminateGrace, TerminateReturns
  <1> QED BY <1>1, <1>2, <1>3, QuietStepOf DEF TypeOK, ChStays, machine

(* The second wait ends. *)
LEMMA TerminateKilledStep ==
  ASSUME IInv, NEW r \in Reqs, TerminateKilled(r) PROVE IInv'
  <1>1. TypeOK /\ HandlerInv(r) /\ h[r].pc = "termKilled"
    BY DEF IInv, TerminateKilled, At
  <1>0. h[r] \in Handler
    BY DEF IInv, TypeOK
  <1>2. UNCHANGED <<gate, guards, machine, ch, diskErr, abandoned>>
    BY DEF TerminateKilled
  <1>3. Others(r) /\ HandlerInv(r)' /\ h'[r].pc \in {"unwind"}
    <2>1. CASE h' = [h EXCEPT ![r].pc = "unwind", ![r].err = "terminal", ![r].terminated = TRUE]
      <3> DEFINE x == [h[r] EXCEPT !.pc = "unwind", !.err = "terminal", !.terminated = TRUE]
      <3>1. x \in Handler
        <4>1. "unwind" \in Pcs
          BY Zenon DEF Pcs
        <4> QED BY <1>0, <4>1 DEF Handler
      <3>2. h' = [h EXCEPT ![r] = x]
        BY <2>1
      <3>3. Others(r) /\ h'[r] = x
        BY <1>1, <3>1, <3>2, Replaced, Zenon
      <3>4. /\ h'[r].pc = "unwind" /\ h'[r].err = "terminal" /\ h'[r].terminated = TRUE
            /\ h'[r].defers = h[r].defers /\ SameRequest(r) /\ h'[r].succeeded = h[r].succeeded
            /\ h'[r].afterWrite = h[r].afterWrite /\ SameRoot(r)
        BY <1>0, <3>3 DEF Handler
      <3> QED BY <1>1, <1>2, <2>1, <3>3, <3>4, StacksDiffer, ZenonT(40)
              DEF HandlerInv, guards, machine
    <2> QED BY <2>1 DEF TerminateKilled, TerminateReturns
  <1> QED BY <1>1, <1>2, <1>3, QuietStepOf DEF TypeOK, ChStays, machine

(* A cancelled capture returns an error; one without resume is then         *)
(* abandoned, since nobody destroys the VM it has left paused.              *)
LEMMA CheckContextStep ==
  ASSUME IInv, NEW r \in Reqs, CheckContext(r) PROVE IInv'
  <1>1. TypeOK /\ HandlerInv(r) /\ h[r].pc = "check"
    BY DEF IInv, CheckContext, At
  <1>0. h[r] \in Handler
    BY DEF IInv, TypeOK
  <1>2. UNCHANGED <<gate, guards, machine, ch, diskErr>> /\ abandoned' \in BOOLEAN
    BY <1>1 DEF CheckContext, TypeOK
  <1>3. Others(r) /\ HandlerInv(r)' /\ h'[r].pc \in {"unwind"}
    <2>1. CASE Fail(r) /\ (abandoned \/ ~h[r].resume => abandoned')
      <3>1. Fail(r)
        BY <2>1
      <3>2. /\ Others(r) /\ h'[r].pc = "unwind" /\ h'[r].err = "error"
            /\ h'[r].defers = h[r].defers /\ Same(r)
        BY <1>1, <3>1, FailMoves, Zenon DEF Moved
      <3> QED BY <1>1, <1>2, <2>1, <3>2, StacksDiffer, ZenonT(40)
              DEF HandlerInv, guards, machine
    <2>2. CASE /\ h' = [h EXCEPT ![r].afterWrite = ~h[r].resume, ![r].pc = "unwind"]
               /\ UNCHANGED abandoned
      <3> DEFINE x == [h[r] EXCEPT !.afterWrite = ~h[r].resume, !.pc = "unwind"]
      <3>1. x \in Handler
        <4>1. "unwind" \in Pcs
          BY Zenon DEF Pcs
        <4> QED BY <1>0, <4>1 DEF Handler
      <3>2. h' = [h EXCEPT ![r] = x]
        BY <2>2
      <3>3. Others(r) /\ h'[r] = x
        BY <1>1, <3>1, <3>2, Replaced, Zenon
      <3>4. /\ (h'[r].afterWrite <=> ~h[r].resume) /\ h'[r].pc = "unwind"
            /\ h'[r].err = h[r].err /\ h'[r].defers = h[r].defers /\ SameRequest(r)
            /\ h'[r].succeeded = h[r].succeeded /\ h'[r].terminated = h[r].terminated
            /\ SameRoot(r)
        BY <1>0, <3>3 DEF Handler
      <3> QED BY <1>1, <1>2, <2>2, <3>3, <3>4, StacksDiffer, ZenonT(40)
              DEF HandlerInv, guards, machine
    <2> QED BY <2>1, <2>2 DEF CheckContext
  <1> QED BY <1>1, <1>2, <1>3, QuietStepOf DEF TypeOK, ChStays, machine

(* The response has been written. *)
LEMMA RespondStep ==
  ASSUME IInv, NEW r \in Reqs, Respond(r) PROVE IInv'
  <1>1. TypeOK /\ HandlerInv(r) /\ h[r].pc = "respond"
    BY DEF IInv, Respond, At
  <1>2. UNCHANGED <<gate, guards, machine, ch, diskErr, abandoned>>
    BY DEF Respond
  <1>3. Others(r) /\ HandlerInv(r)' /\ h'[r].pc \in {"shutdown"}
    <2>1. CASE Goto(r, "shutdown")
      <3>1. "shutdown" \in Pcs /\ Goto(r, "shutdown")
        BY <2>1 DEF Pcs
      <3>2. /\ Others(r) /\ h'[r].pc = "shutdown" /\ h'[r].err = h[r].err
            /\ h'[r].defers = h[r].defers /\ Same(r)
        BY <1>1, <3>1, GotoMoves, Zenon DEF Moved
      <3> QED BY <1>1, <1>2, <2>1, <3>2, StacksDiffer, ZenonT(40)
              DEF HandlerInv, guards, machine
    <2> QED BY <2>1 DEF Respond
  <1> QED BY <1>1, <1>2, <1>3, QuietStepOf DEF TypeOK, ChStays, machine

(* The destroyer asks CH to stop. *)
LEMMA DestroyRequestStep ==
  ASSUME IInv, NEW r \in Reqs, DestroyRequest(r) PROVE IInv'
  <1>1. TypeOK /\ HandlerInv(r) /\ h[r].pc = "shutdown"
    BY DEF IInv, DestroyRequest, At
  <1>2. UNCHANGED <<gate, guards, machine, diskErr, abandoned>> /\ ChStays
        /\ ch' \in {"alive", "stopping", "killed", "exited"}
    BY <1>1 DEF DestroyRequest, RequestStop, ChStays, TypeOK
  <1>3. Others(r) /\ HandlerInv(r)' /\ h'[r].pc \in {"shutGrace"}
    <2>1. CASE Goto(r, "shutGrace")
      <3>1. "shutGrace" \in Pcs /\ Goto(r, "shutGrace")
        BY <2>1 DEF Pcs
      <3>2. /\ Others(r) /\ h'[r].pc = "shutGrace" /\ h'[r].err = h[r].err
            /\ h'[r].defers = h[r].defers /\ Same(r)
        BY <1>1, <3>1, GotoMoves, Zenon DEF Moved
      <3> QED BY <1>1, <1>2, <2>1, <3>2, StacksDiffer, ZenonT(40)
              DEF HandlerInv, guards, machine, ChStays
    <2> QED BY <2>1 DEF DestroyRequest
  <1> QED BY <1>1, <1>2, <1>3, QuietStepOf DEF TypeOK, ChStays, machine

(* The request is valid and the usage sampler is paused. *)
LEMMA PrepareStep ==
  ASSUME IInv, NEW r \in Reqs, Prepare(r) PROVE IInv'
  <1>1. TypeOK /\ HandlerInv(r) /\ HighInv /\ h[r].pc = "prepare"
    BY DEF IInv, Prepare, At
  <1>2. UNCHANGED <<gate, barrier, high, highLock, forwarder, pinger, machine,
                    ch, diskErr, abandoned>>
    BY DEF Prepare
  <1>3. Others(r) /\ HandlerInv(r)' /\ h'[r].pc \in {"unwind", "barrier"}
    <2>1. CASE usage' = usage /\ Fail(r)
      <3>1. Fail(r)
        BY <2>1
      <3>2. /\ Others(r) /\ h'[r].pc = "unwind" /\ h'[r].err = "error"
            /\ h'[r].defers = h[r].defers /\ Same(r)
        BY <1>1, <3>1, FailMoves, Zenon DEF Moved
      <3> QED BY <1>1, <1>2, <2>1, <3>2, StacksDiffer, ZenonT(40)
              DEF HandlerInv, guards, machine
    <2>2. CASE usage' = "paused" /\ Push(r, "usage", "barrier")
      <3>1. "usage" \in Guards /\ "barrier" \in Pcs /\ Push(r, "usage", "barrier")
        BY <2>2 DEF Guards, Pcs
      <3>2. /\ Others(r) /\ h'[r].pc = "barrier" /\ h'[r].err = h[r].err
            /\ h'[r].defers = D1 /\ Same(r)
        <4>1. h[r].defers = D0
          BY <1>1 DEF HandlerInv
        <4> QED BY <1>1, <3>1, <4>1, PushMoves, Zenon DEF D1
      <3> QED BY <1>1, <1>2, <2>2, <3>2, StacksDiffer, ZenonT(40)
              DEF HandlerInv, guards, machine
    <2> QED BY <2>1, <2>2 DEF Prepare, Refuse, PauseUsage
  <1>4. HighInv' /\ OtherTypes'
    BY <1>1, <1>2 DEF Prepare, Refuse, PauseUsage, HighInv, TypeOK, OtherTypes, Holders, machine
  <1> QED BY <1>1, <1>2, <1>3, <1>4, StepOf DEF ChStays

(* The capture gets the Budget barrier, or gives up. *)
LEMMA BeginSnapshotStep ==
  ASSUME IInv, NEW r \in Reqs, BeginSnapshot(r) PROVE IInv'
  <1>1. TypeOK /\ HandlerInv(r) /\ HighInv /\ h[r].pc = "barrier"
    BY DEF IInv, BeginSnapshot, At
  <1>2. UNCHANGED <<gate, usage, high, highLock, forwarder, pinger, machine,
                    ch, diskErr, abandoned>>
    BY DEF BeginSnapshot
  <1>3. Others(r) /\ HandlerInv(r)' /\ h'[r].pc \in {"unwind", "lift"}
    <2>1. CASE barrier' = r /\ Push(r, "barrier", "lift")
      <3>1. "barrier" \in Guards /\ "lift" \in Pcs /\ Push(r, "barrier", "lift")
        BY <2>1 DEF Guards, Pcs
      <3>2. /\ Others(r) /\ h'[r].pc = "lift" /\ h'[r].err = h[r].err
            /\ h'[r].defers = D2 /\ Same(r)
        <4>1. h[r].defers = D1
          BY <1>1 DEF HandlerInv
        <4> QED BY <1>1, <3>1, <4>1, PushMoves, Zenon DEF D2
      <3> QED BY <1>1, <1>2, <2>1, <3>2, StacksDiffer, ZenonT(40)
              DEF HandlerInv, guards, machine
    <2>2. CASE barrier' = barrier /\ Fail(r)
      <3>1. Fail(r)
        BY <2>2
      <3>2. /\ Others(r) /\ h'[r].pc = "unwind" /\ h'[r].err = "error"
            /\ h'[r].defers = h[r].defers /\ Same(r)
        BY <1>1, <3>1, FailMoves, Zenon DEF Moved
      <3> QED BY <1>1, <1>2, <2>2, <3>2, StacksDiffer, ZenonT(40)
              DEF HandlerInv, guards, machine
    <2> QED BY <2>1, <2>2 DEF BeginSnapshot
  <1>4. HighInv' /\ OtherTypes'
    BY <1>1, <1>2 DEF BeginSnapshot, HighInv, TypeOK, OtherTypes, Holders, machine, Push, Fail
  <1> QED BY <1>1, <1>2, <1>3, <1>4, StepOf DEF ChStays

(* The pinger admits no more probes. *)
LEMMA PausePingerStep ==
  ASSUME IInv, NEW r \in Reqs, PausePinger(r) PROVE IInv'
  <1>1. TypeOK /\ HandlerInv(r) /\ HighInv /\ h[r].pc = "ping"
    BY DEF IInv, PausePinger, At
  <1>2. UNCHANGED <<gate, usage, barrier, high, highLock, forwarder, machine,
                    ch, diskErr, abandoned>>
    BY DEF PausePinger
  <1>3. Others(r) /\ HandlerInv(r)' /\ h'[r].pc \in {"pingDrain"}
    <2>1. CASE pinger' = [pinger EXCEPT !.paused = TRUE] /\ Goto(r, "pingDrain")
      <3>1. "pingDrain" \in Pcs /\ Goto(r, "pingDrain")
        BY <2>1 DEF Pcs
      <3>2. /\ Others(r) /\ h'[r].pc = "pingDrain" /\ h'[r].err = h[r].err
            /\ h'[r].defers = h[r].defers /\ Same(r)
        BY <1>1, <3>1, GotoMoves, Zenon DEF Moved
      <3> QED BY <1>1, <1>2, <2>1, <3>2, StacksDiffer, ZenonT(40)
              DEF HandlerInv, guards, machine, TypeOK
    <2> QED BY <2>1 DEF PausePinger
  <1>4. HighInv' /\ OtherTypes'
    BY <1>1, <1>2 DEF PausePinger, HighInv, TypeOK, OtherTypes, Holders, machine
  <1> QED BY <1>1, <1>2, <1>3, <1>4, StepOf DEF ChStays

(* No probe is left, or the pinger is resumed. *)
LEMMA DrainPingerStep ==
  ASSUME IInv, NEW r \in Reqs, DrainPinger(r) PROVE IInv'
  <1>1. TypeOK /\ HandlerInv(r) /\ HighInv /\ h[r].pc = "pingDrain"
    BY DEF IInv, DrainPinger, At
  <1>2. UNCHANGED <<gate, usage, barrier, high, highLock, forwarder, machine,
                    ch, diskErr, abandoned>>
    BY DEF DrainPinger
  <1>3. Others(r) /\ HandlerInv(r)' /\ h'[r].pc \in {"unwind", "quiesce"}
    <2>1. CASE pinger' = pinger /\ ~pinger.probe /\ Push(r, "ping", "quiesce")
      <3>1. "ping" \in Guards /\ "quiesce" \in Pcs /\ Push(r, "ping", "quiesce")
        BY <2>1 DEF Guards, Pcs
      <3>2. /\ Others(r) /\ h'[r].pc = "quiesce" /\ h'[r].err = h[r].err
            /\ h'[r].defers = D5 /\ Same(r)
        <4>1. h[r].defers = D4
          BY <1>1 DEF HandlerInv
        <4> QED BY <1>1, <3>1, <4>1, PushMoves, Zenon DEF D5
      <3> QED BY <1>1, <1>2, <2>1, <3>2, StacksDiffer, ZenonT(40)
              DEF HandlerInv, guards, machine
    <2>2. CASE ~pinger'.paused /\ Fail(r)
      <3>1. Fail(r)
        BY <2>2
      <3>2. /\ Others(r) /\ h'[r].pc = "unwind" /\ h'[r].err = "error"
            /\ h'[r].defers = h[r].defers /\ Same(r)
        BY <1>1, <3>1, FailMoves, Zenon DEF Moved
      <3> QED BY <1>1, <1>2, <2>2, <3>2, StacksDiffer, ZenonT(40)
              DEF HandlerInv, guards, machine
    <2> QED BY <2>1, <2>2 DEF DrainPinger
  <1>5. pinger' \in [paused : BOOLEAN, probe : BOOLEAN]
    <2>1. pinger \in [paused : BOOLEAN, probe : BOOLEAN]
      BY <1>1 DEF TypeOK
    <2>2. pinger' = pinger \/ pinger' = [paused |-> FALSE, probe |-> FALSE]
      BY DEF DrainPinger
    <2>3. [paused |-> FALSE, probe |-> FALSE] \in [paused : BOOLEAN, probe : BOOLEAN]
      OBVIOUS
    <2> QED BY <2>1, <2>2, <2>3, Zenon
  <1>4. HighInv' /\ OtherTypes'
    BY <1>1, <1>2, <1>5 DEF DrainPinger, HighInv, TypeOK, OtherTypes, Holders, machine
  <1> QED BY <1>1, <1>2, <1>3, <1>4, StepOf DEF ChStays

(* memory.high is lifted under its lock. *)
LEMMA LiftMemoryHighStep ==
  ASSUME IInv, NEW r \in Reqs, LiftMemoryHigh(r) PROVE IInv'
  <1>1. TypeOK /\ HandlerInv(r) /\ HighInv /\ h[r].pc = "lift"
    BY DEF IInv, LiftMemoryHigh, At
  <1>0. h[r] \in Handler
    BY DEF IInv, TypeOK
  <1>2. UNCHANGED <<gate, usage, barrier, forwarder, pinger, machine, ch, diskErr, abandoned>>
    BY DEF LiftMemoryHigh
  <1>6. h[r].defers = D2 /\ D3 \in Seq(Guards) /\ high \in {"limit", "max"}
    BY <1>1, Stacks DEF HandlerInv, StackInv, TypeOK
  <1>7. highLock = "none" => (high = "max" => ch # "alive")
    BY <1>1, CaptureAssumption DEF HighInv
  <1>3. Others(r) /\ HandlerInv(r)' /\ h'[r].pc \in {"unwind", "throttle"}
    <2>1. CASE /\ highLock = "none" /\ highLock' = r /\ high' = "max"
             /\ h' = [h EXCEPT ![r].defers = Append(@, "high"),
                               ![r].previous = high, ![r].pc = "throttle"]
      <3> DEFINE x == [h[r] EXCEPT !.defers = D3, !.previous = high, !.pc = "throttle"]
      <3>1. x \in Handler
        <4>1. "throttle" \in Pcs
          BY Zenon DEF Pcs
        <4> QED BY <1>0, <1>6, <4>1 DEF Handler
      <3>2. h' = [h EXCEPT ![r] = x]
        BY <2>1, <1>6 DEF D1, D2, D3, D4, D5
      <3>3. Others(r) /\ h'[r] = x
        BY <1>1, <3>1, <3>2, Replaced, Zenon
      <3>4. /\ h'[r].defers = D3 /\ h'[r].previous = high /\ h'[r].pc = "throttle"
            /\ h'[r].err = h[r].err /\ h'[r].resume = h[r].resume /\ h'[r].named = h[r].named
            /\ SameResult(r) /\ SameRoot(r)
        BY <1>0, <3>3 DEF Handler
      <3> QED BY <1>1, <1>2, <2>1, <3>3, <3>4, <1>6, <1>7, StacksDiffer, ZenonT(40)
              DEF HandlerInv, guards, machine
    <2>2. CASE UNCHANGED <<high, highLock>> /\ Fail(r)
      <3>1. Fail(r)
        BY <2>2
      <3>2. /\ Others(r) /\ h'[r].pc = "unwind" /\ h'[r].err = "error"
            /\ h'[r].defers = h[r].defers /\ Same(r)
        BY <1>1, <3>1, FailMoves, Zenon DEF Moved
      <3> QED BY <1>1, <1>2, <2>2, <3>2, <1>6, <1>7, StacksDiffer, ZenonT(40)
              DEF HandlerInv, guards, machine
    <2> QED BY <2>1, <2>2 DEF LiftMemoryHigh
  <1>4. HighInv' /\ OtherTypes'
    BY <1>1, <1>2, CaptureAssumption
       DEF LiftMemoryHigh, HighInv, TypeOK, OtherTypes, Holders, machine
  <1> QED BY <1>1, <1>2, <1>3, <1>4, StepOf DEF ChStays

(* The forwarder admits no more connections. *)
LEMMA PauseForwarderStep ==
  ASSUME IInv, NEW r \in Reqs, PauseForwarder(r) PROVE IInv'
  <1>1. TypeOK /\ HandlerInv(r) /\ HighInv /\ h[r].pc = "forward"
    BY DEF IInv, PauseForwarder, At
  <1>0. h[r] \in Handler
    BY DEF IInv, TypeOK
  <1>2. UNCHANGED <<gate, usage, barrier, high, highLock, pinger, machine, ch, diskErr, abandoned>>
    BY DEF PauseForwarder
  <1>6. h[r].defers = D3 /\ D4 \in Seq(Guards)
    BY <1>1, Stacks DEF HandlerInv, StackInv
  <1>7. forwarder'.quiescing
    BY <1>1 DEF PauseForwarder, TypeOK
  <1>3. Others(r) /\ HandlerInv(r)' /\ h'[r].pc \in {"ping"}
    <2>1. CASE /\ forwarder'.quiescing
             /\ h' = [h EXCEPT ![r].defers = Append(@, "forward"),
                               ![r].needsAbort = TRUE, ![r].pc = "ping"]
      <3> DEFINE x == [h[r] EXCEPT !.defers = D4, !.needsAbort = TRUE, !.pc = "ping"]
      <3>1. x \in Handler
        <4>1. "ping" \in Pcs
          BY Zenon DEF Pcs
        <4> QED BY <1>0, <1>6, <4>1 DEF Handler
      <3>2. h' = [h EXCEPT ![r] = x]
        BY <2>1, <1>6 DEF D1, D2, D3, D4, D5
      <3>3. Others(r) /\ h'[r] = x
        BY <1>1, <3>1, <3>2, Replaced, Zenon
      <3>4. /\ h'[r].defers = D4 /\ h'[r].pc = "ping" /\ h'[r].err = h[r].err /\ SameRequest(r)
            /\ SameResult(r) /\ SameRoot(r)
        BY <1>0, <3>3 DEF Handler
      <3> QED BY <1>1, <1>2, <2>1, <3>3, <3>4, StacksDiffer, ZenonT(40)
              DEF HandlerInv, guards, machine
    <2> QED BY <2>1, <1>7 DEF PauseForwarder
  <1>5. forwarder' \in [quiescing : BOOLEAN, inflight : 0 .. MaxInflight]
    BY <1>1 DEF PauseForwarder, TypeOK
  <1>4. HighInv' /\ OtherTypes'
    BY <1>1, <1>2, <1>5 DEF PauseForwarder, HighInv, TypeOK, OtherTypes, Holders, machine
  <1> QED BY <1>1, <1>2, <1>3, <1>4, StepOf DEF ChStays

(* The guest is quiesced, or its state is unknown. *)
LEMMA QuiesceStep ==
  ASSUME IInv, NEW r \in Reqs, Quiesce(r) PROVE IInv'
  <1>1. TypeOK /\ HandlerInv(r) /\ HighInv /\ h[r].pc = "quiesce"
    BY DEF IInv, Quiesce, At
  <1>0. h[r] \in Handler
    BY DEF IInv, TypeOK
  <1>2. UNCHANGED <<gate, usage, barrier, high, highLock, pinger, vm, backends,
                    ch, diskErr, abandoned>>
    BY DEF Quiesce
  <1>7. forwarder'.quiescing = forwarder.quiescing
    BY <1>1 DEF Quiesce, TypeOK
  <1>3. Others(r) /\ HandlerInv(r)' /\ h'[r].pc \in {"fwdDrain", "reattach"}
    <2>1. CASE guest' = "frozen" /\ vm = "running" /\ UNCHANGED forwarder /\ Goto(r, "fwdDrain")
      <3>1. "fwdDrain" \in Pcs /\ Goto(r, "fwdDrain")
        BY <2>1 DEF Pcs
      <3>2. /\ Others(r) /\ h'[r].pc = "fwdDrain" /\ h'[r].err = h[r].err
            /\ h'[r].defers = h[r].defers /\ Same(r)
        BY <1>1, <3>1, GotoMoves, Zenon DEF Moved
      <3> QED BY <1>1, <1>2, <2>1, <3>2, StacksDiffer, ZenonT(40)
              DEF HandlerInv, guards, machine
    <2>2. CASE /\ guest' \in {guest, "frozen"} /\ forwarder'.quiescing = forwarder.quiescing
             /\ h' = [h EXCEPT ![r].pc = "reattach", ![r].err = "error",
                               ![r].needsAbort = FALSE]
      <3> DEFINE x == [h[r] EXCEPT !.pc = "reattach", !.err = "error", !.needsAbort = FALSE]
      <3>1. x \in Handler
        <4>1. "reattach" \in Pcs
          BY Zenon DEF Pcs
        <4> QED BY <1>0, <4>1 DEF Handler
      <3>2. h' = [h EXCEPT ![r] = x]
        BY <2>2
      <3>3. Others(r) /\ h'[r] = x
        BY <1>1, <3>1, <3>2, Replaced, Zenon
      <3>4. /\ h'[r].pc = "reattach" /\ h'[r].err = "error" /\ h'[r].defers = h[r].defers
            /\ SameRequest(r) /\ SameResult(r) /\ SameRoot(r)
        BY <1>0, <3>3 DEF Handler
      <3> QED BY <1>1, <1>2, <2>2, <3>3, <3>4, StacksDiffer, ZenonT(40)
              DEF HandlerInv, guards, machine
    <2> QED BY <2>1, <2>2, <1>7 DEF Quiesce
  <1>5. forwarder' \in [quiescing : BOOLEAN, inflight : 0 .. MaxInflight]
    BY <1>1, CaptureAssumption DEF Quiesce, TypeOK
  <1>4. HighInv' /\ OtherTypes'
    BY <1>1, <1>2, <1>5 DEF Quiesce, HighInv, TypeOK, OtherTypes, Holders, machine
  <1> QED BY <1>1, <1>2, <1>3, <1>4, StepOf DEF ChStays

(* A deferred release leaves everything of the handler but its stack. *)
LEMMA PopMoves ==
  ASSUME TypeOK, NEW r \in Reqs, NEW d \in Seq(Guards), h' = [h EXCEPT ![r].defers = d]
  PROVE  /\ Others(r) /\ h'[r].defers = d /\ h'[r].pc = h[r].pc /\ h'[r].err = h[r].err
         /\ Same(r)
  <1> DEFINE x == [h[r] EXCEPT !.defers = d]
  <1>1. h[r] \in Handler
    BY DEF TypeOK
  <1>2. x \in Handler
    BY <1>1 DEF Handler
  <1>3. h' = [h EXCEPT ![r] = x]
    OBVIOUS
  <1>4. Others(r) /\ h'[r] = x
    BY <1>2, <1>3, Replaced, Zenon
  <1> QED BY <1>1, <1>4 DEF Handler

(* One deferred release runs; a capture that succeeded without resume keeps  *)
(* what it holds.                                                            *)
LEMMA UnwindStep ==
  ASSUME IInv, NEW r \in Reqs, Unwind(r) PROVE IInv'
  <1>1. TypeOK /\ HandlerInv(r) /\ HighInv /\ h[r].pc = "unwind"
    BY DEF IInv, Unwind, At
  <1>2. UNCHANGED <<gate, machine, ch, diskErr, abandoned>>
    BY DEF Unwind
  <1>3. h[r].defers \in {D0, D1, D2, D3, D4, D5} /\ h[r] \in Handler
    BY <1>1 DEF HandlerInv, TypeOK
  <1>4. ASSUME NEW d \in {D1, D2, D3, D4, D5}, h[r].defers = d
        PROVE  /\ LastDefer(r) = top(d) /\ h' = [h EXCEPT ![r].defers = rest(d)]
               /\ \/ ReleasePinger(r) \/ ReleaseForwarder(r)
                  \/ ReleaseMemoryHigh(r) \/ ReleaseBarrier(r) \/ ReleaseUsage(r)
    <2>1. h[r].defers # <<>>
      BY <1>4, Stacks DEF D0
    <2> QED BY <1>4, <2>1 DEF Unwind, LastDefer, top, rest
  <1>5. ASSUME NEW d \in {D1, D2, D3, D4, D5}, h[r].defers = d, NEW e \in Seq(Guards), rest(d) = e
        PROVE  /\ Others(r) /\ h'[r].defers = e /\ h'[r].pc = "unwind" /\ h'[r].err = h[r].err
               /\ Same(r)
    BY <1>1, <1>4, <1>5, PopMoves
  <1>6. KeepsGuards(r) <=> h[r].err = "none" /\ ~h[r].resume
    BY DEF KeepsGuards
  <1>7. StaysPaused(r) <=> h[r].terminated \/ KeepsGuards(r)
    BY DEF StaysPaused
  <1>8. CASE h[r].defers = D0
    <2>1. Goto(r, "finish") /\ UNCHANGED guards /\ "finish" \in Pcs
      BY <1>8 DEF Unwind, Pcs, D0
    <2>2. /\ Others(r) /\ h'[r].pc = "finish" /\ h'[r].err = h[r].err
          /\ h'[r].defers = h[r].defers /\ Same(r)
      BY <1>1, <2>1, GotoMoves, Zenon DEF Moved
    <2>3. HandlerInv(r)'
      BY <1>1, <1>2, <1>8, <2>1, <2>2, StacksDiffer, ZenonT(40) DEF HandlerInv, guards, machine
    <2> QED BY <1>1, <1>2, <2>1, <2>2, <2>3, QuietStepOf DEF TypeOK, ChStays, machine
  <1>9. CASE h[r].defers = D1
    <2>1. /\ Others(r) /\ h'[r].defers = D0 /\ h'[r].pc = "unwind" /\ h'[r].err = h[r].err
          /\ Same(r)
      BY <1>5, <1>9, Stacks
    <2>2. ReleaseUsage(r)
      BY <1>4, <1>9, Stacks DEF ReleasePinger, ReleaseForwarder, ReleaseMemoryHigh, ReleaseBarrier
    <2>3. /\ UNCHANGED <<barrier, high, highLock, forwarder, pinger>>
          /\ h[r].err = "error" \/ h[r].resume => usage' = "running"
          /\ usage' \in {usage, "running"}
      BY <2>2 DEF ReleaseUsage
    <2>4. h[r].err \in {"none", "error", "terminal"}
      BY <1>3 DEF Handler
    <2>5. HandlerInv(r)'
      BY <1>1, <1>2, <1>9, <2>1, <2>3, <2>4, StacksDiffer, ZenonT(40) DEF HandlerInv, machine
    <2>6. HighInv' /\ OtherTypes'
      BY <1>1, <1>2, <2>3 DEF HighInv, TypeOK, OtherTypes, machine
    <2> QED BY <1>1, <1>2, <2>1, <2>5, <2>6, StepOf DEF ChStays
  <1>10. CASE h[r].defers = D2
    <2>1. /\ Others(r) /\ h'[r].defers = D1 /\ h'[r].pc = "unwind" /\ h'[r].err = h[r].err
          /\ Same(r)
      BY <1>5, <1>10, Stacks
    <2>2. ReleaseBarrier(r)
      BY <1>4, <1>10, Stacks DEF ReleasePinger, ReleaseForwarder, ReleaseMemoryHigh, ReleaseUsage
    <2>3. /\ UNCHANGED <<usage, high, highLock, forwarder, pinger>>
          /\ barrier' = IF KeepsGuards(r) THEN barrier ELSE "none"
      BY <2>2 DEF ReleaseBarrier
    <2>4. "none" \notin Reqs /\ r # "controller"
      BY CaptureAssumption
    <2>5. HandlerInv(r)'
      BY <1>1, <1>2, <1>6, <1>10, <2>1, <2>3, <2>4, StacksDiffer, ZenonT(40)
         DEF HandlerInv, machine
    <2>6. barrier = r
      BY <1>1, <1>10 DEF HandlerInv
    <2>7. HighInv' /\ OtherTypes'
      BY <1>1, <1>2, <2>3, <2>4, <2>6 DEF HighInv, TypeOK, OtherTypes, Holders, machine
    <2> QED BY <1>1, <1>2, <2>1, <2>5, <2>7, StepOf DEF ChStays
  <1>11. CASE h[r].defers = D3
    <2>1. /\ Others(r) /\ h'[r].defers = D2 /\ h'[r].pc = "unwind" /\ h'[r].err = h[r].err
          /\ Same(r)
      BY <1>5, <1>11, Stacks
    <2>2. ReleaseMemoryHigh(r)
      BY <1>4, <1>11, Stacks DEF ReleasePinger, ReleaseForwarder, ReleaseBarrier, ReleaseUsage
    <2>3. /\ UNCHANGED <<usage, barrier, forwarder, pinger>>
          /\ KeepsGuards(r) => UNCHANGED <<high, highLock>>
          /\ ~KeepsGuards(r) => high' = h[r].previous /\ highLock' = "none"
      BY <2>2 DEF ReleaseMemoryHigh
    <2>4. "none" \notin Reqs /\ r # "controller" /\ h[r].previous \in {"limit", "max"}
      BY <1>3, CaptureAssumption DEF Handler
    <2>5. HandlerInv(r)'
      BY <1>1, <1>2, <1>6, <1>11, <2>1, <2>3, <2>4, StacksDiffer, ZenonT(40)
         DEF HandlerInv, machine
    <2>6. h[r].previous = "max" => ch # "alive"
      BY <1>1 DEF HandlerInv
    <2>7. HighInv' /\ OtherTypes'
      BY <1>1, <1>2, <2>3, <2>4, <2>6 DEF HighInv, TypeOK, OtherTypes, Holders, machine
    <2> QED BY <1>1, <1>2, <2>1, <2>5, <2>7, StepOf DEF ChStays
  <1>12. CASE h[r].defers = D4
    <2>1. /\ Others(r) /\ h'[r].defers = D3 /\ h'[r].pc = "unwind" /\ h'[r].err = h[r].err
          /\ Same(r)
      BY <1>5, <1>12, Stacks
    <2>2. ReleaseForwarder(r)
      BY <1>4, <1>12, Stacks DEF ReleasePinger, ReleaseMemoryHigh, ReleaseBarrier, ReleaseUsage
    <2>3. /\ UNCHANGED <<usage, barrier, high, highLock, pinger>>
          /\ forwarder' = [quiescing |-> StaysPaused(r),
                           inflight |-> IF h[r].needsAbort THEN 0 ELSE forwarder.inflight]
      BY <2>2 DEF ReleaseForwarder
    <2>4. StaysPaused(r) \in BOOLEAN
      BY <1>3 DEF StaysPaused, KeepsGuards, Handler
    <2>5. /\ forwarder'.quiescing <=> StaysPaused(r)
          /\ forwarder' \in [quiescing : BOOLEAN, inflight : 0 .. MaxInflight]
      <3>1. /\ forwarder \in [quiescing : BOOLEAN, inflight : 0 .. MaxInflight]
            /\ 0 \in 0 .. MaxInflight
        BY <1>1, CaptureAssumption DEF TypeOK
      <3> QED BY <2>3, <2>4, <3>1
    <2>6. HandlerInv(r)'
      BY <1>1, <1>2, <1>6, <1>7, <1>12, <2>1, <2>3, <2>5, StacksDiffer, ZenonT(40)
         DEF HandlerInv, machine
    <2>7. HighInv' /\ OtherTypes'
      BY <1>1, <1>2, <2>3, <2>5 DEF HighInv, TypeOK, OtherTypes, machine
    <2> QED BY <1>1, <1>2, <2>1, <2>6, <2>7, StepOf DEF ChStays
  <1>13. CASE h[r].defers = D5
    <2>1. /\ Others(r) /\ h'[r].defers = D4 /\ h'[r].pc = "unwind" /\ h'[r].err = h[r].err
          /\ Same(r)
      BY <1>5, <1>13, Stacks
    <2>2. ReleasePinger(r)
      BY <1>4, <1>13, Stacks DEF ReleaseForwarder, ReleaseMemoryHigh, ReleaseBarrier, ReleaseUsage
    <2>3. /\ UNCHANGED <<usage, barrier, high, highLock, forwarder>>
          /\ pinger' = IF StaysPaused(r) THEN pinger ELSE [pinger EXCEPT !.paused = FALSE]
      BY <2>2 DEF ReleasePinger
    <2>4. pinger \in [paused : BOOLEAN, probe : BOOLEAN]
      BY <1>1 DEF TypeOK
    <2>5. /\ pinger' \in [paused : BOOLEAN, probe : BOOLEAN]
          /\ pinger'.paused <=> pinger.paused /\ StaysPaused(r)
      BY <2>3, <2>4
    <2>6. HandlerInv(r)'
      BY <1>1, <1>2, <1>6, <1>7, <1>13, <2>1, <2>3, <2>5, StacksDiffer, ZenonT(40)
         DEF HandlerInv, machine
    <2>7. HighInv' /\ OtherTypes'
      BY <1>1, <1>2, <2>3, <2>5 DEF HighInv, TypeOK, OtherTypes, machine
    <2> QED BY <1>1, <1>2, <2>1, <2>6, <2>7, StepOf DEF ChStays
  <1> QED BY <1>3, <1>8, <1>9, <1>10, <1>11, <1>12, <1>13

(* What an ended handler looks like. *)
LEMMA EndedHandler ==
  ASSUME NEW after \in BOOLEAN
  PROVE  /\ Ended(after) \in Handler
         /\ Ended(after).pc = "done" /\ Ended(after).err = "none" /\ Ended(after).defers = D0
         /\ Ended(after).previous = "limit" /\ ~Ended(after).terminated
         /\ ~Ended(after).succeeded /\ ~Ended(after).committed
         /\ Ended(after).afterWrite <=> after
  <1>1. <<>> \in Seq(Guards)
    OBVIOUS
  <1> QED BY <1>1 DEF Ended, NewHandler, Handler, Pcs, D0

(* Such a handler satisfies its part of the invariant; it may own the end of *)
(* the VM only if CH was killed or has exited.                               *)
LEMMA EndedInv ==
  ASSUME NEW r \in Reqs, NEW after \in BOOLEAN, h'[r] = Ended(after),
         after => ch' \in {"killed", "exited"}
  PROVE  HandlerInv(r)' /\ ~Busy(r)'
  <1>1. /\ h'[r].pc = "done" /\ h'[r].err = "none" /\ h'[r].defers = D0
        /\ h'[r].previous = "limit" /\ ~h'[r].terminated /\ ~h'[r].succeeded
        /\ ~h'[r].committed /\ (h'[r].afterWrite <=> after)
    BY EndedHandler
  <1> QED BY <1>1, StacksDiffer, ZenonT(40) DEF HandlerInv

(* A step of r that opens or closes the gate. *)
LEMMA GateStepOf ==
  ASSUME IInv, NEW r \in Reqs, \A s \in Reqs : s # r => ~Busy(s), Others(r), ChStays,
         HandlerInv(r)', IdleInv', HighInv', OtherTypes',
         Busy(r)' => IF h'[r].pc \in Shutting THEN ~gate'.active /\ gate'.terminal
                     ELSE gate'.active /\ ~gate'.terminal
  PROVE  IInv'
  <1>1. \A s \in Reqs : s # r => HandlerInv(s)' /\ ~Busy(s)'
    BY Resting DEF Others
  <1>2. GateInv'
    BY <1>1 DEF GateInv
  <1>3. TypeOK'
    BY DEF TypeOK, OtherTypes, Others
  <1> QED BY <1>1, <1>2, <1>3 DEF IInv

(* captureGate.finish: the gate is open again, or closed for good. *)
LEMMA FinishStep ==
  ASSUME IInv, NEW r \in Reqs, Finish(r) PROVE IInv'
  <1>1. TypeOK /\ HandlerInv(r) /\ HighInv /\ GateInv /\ h[r].pc = "finish" /\ h[r] \in Handler
    BY DEF IInv, Finish, At, TypeOK
  <1>2. UNCHANGED <<guards, machine, ch, diskErr, abandoned>> /\ ChStays
    BY DEF Finish, ChStays
  <1>3. PICK late \in {h[r].err} \cup (IF h[r].kind = "snapshot" /\ h[r].err = "none"
                                        THEN {"error"} ELSE {}) :
           /\ gate' = [active |-> FALSE,
                       terminal |-> gate.terminal \/ h[r].afterWrite \/ late = "terminal"
                                    \/ (late = "none" /\ ~h[r].resume)]
           /\ IF h[r].afterWrite
                THEN h' = [h EXCEPT ![r].err = late, ![r].pc = "respond"]
                ELSE h' = [h EXCEPT ![r] = Ended(FALSE)]
    BY DEF Finish
  <1>4. /\ late \in {"none", "error", "terminal"}
        /\ late = h[r].err \/ (h[r].err = "none" /\ late = "error")
    BY <1>1, <1>3 DEF Handler
  <1>5. gate \in [active : BOOLEAN, terminal : BOOLEAN] /\ ~gate.terminal
    BY <1>1 DEF TypeOK, GateInv
  <1>6. /\ gate' \in [active : BOOLEAN, terminal : BOOLEAN] /\ ~gate'.active
        /\ gate'.terminal <=> h[r].afterWrite \/ late = "terminal"
                              \/ (late = "none" /\ ~h[r].resume)
    BY <1>1, <1>3, <1>5 DEF Handler
  <1>7. HighInv' /\ OtherTypes'
    BY <1>1, <1>2, <1>6 DEF HighInv, TypeOK, OtherTypes, guards, machine
  <1>8. \A s \in Reqs : s # r => ~Busy(s)
    BY <1>1 DEF GateInv
  <1>9. CASE h[r].afterWrite
    <2> DEFINE x == [h[r] EXCEPT !.err = late, !.pc = "respond"]
    <2>1. x \in Handler
      <3>1. "respond" \in Pcs
        BY Zenon DEF Pcs
      <3> QED BY <1>1, <1>4, <3>1 DEF Handler
    <2>2. h' = [h EXCEPT ![r] = x]
      BY <1>3, <1>9
    <2>3. Others(r) /\ h'[r] = x
      BY <1>1, <2>1, <2>2, Replaced, Zenon
    <2>4. /\ h'[r].err = late /\ h'[r].pc = "respond" /\ h'[r].defers = h[r].defers /\ Same(r)
      BY <1>1, <2>3 DEF Handler
    <2>5. HandlerInv(r)'
      BY <1>1, <1>2, <1>4, <1>9, <2>4, StacksDiffer, ZenonT(40) DEF HandlerInv, guards, machine
    <2>6. IdleInv'
      BY <1>6, <1>9 DEF IdleInv, Idle
    <2> QED BY <1>2, <1>6, <1>7, <1>8, <1>9, <2>3, <2>4, <2>5, <2>6, GateStepOf
  <1>10. CASE ~h[r].afterWrite
    <2>1. h' = [h EXCEPT ![r] = Ended(FALSE)] /\ Ended(FALSE) \in Handler
      BY <1>3, <1>10, EndedHandler
    <2>2. Others(r) /\ h'[r] = Ended(FALSE)
      BY <1>1, <2>1, Replaced, Zenon
    <2>3. HandlerInv(r)' /\ ~Busy(r)'
      BY <2>2, EndedInv
    <2>4. ASSUME Idle' PROVE h[r].err # "terminal" /\ ~h[r].terminated
      BY <1>1, <1>4, <1>6, <2>4 DEF Idle, HandlerInv
    <2>5. IdleInv'
      BY <1>1, <1>2, <1>10, <2>4, StacksDiffer, ZenonT(40)
         DEF IdleInv, HandlerInv, guards, machine
    <2> QED BY <1>2, <1>7, <1>8, <2>2, <2>3, <2>5, GateStepOf
  <1> QED BY <1>9, <1>10

(* destroyAfterSnapshot returns: the guards go once CH was killed or exited. *)
LEMMA DestroyReturnsStep ==
  ASSUME IInv, NEW r \in Reqs, h[r].pc \in Shutting, DestroyReturns(r),
         ch \in {"killed", "exited"}, ch' = ch,
         UNCHANGED <<gate, usage, high, forwarder, pinger, machine, diskErr, abandoned>>
  PROVE  IInv'
  <1>1. TypeOK /\ HighInv /\ GateInv
    BY DEF IInv
  <1>2. barrier' = "none" /\ highLock' = "none" /\ h' = [h EXCEPT ![r] = Ended(TRUE)]
    BY DEF DestroyReturns
  <1>3. Others(r) /\ h'[r] = Ended(TRUE)
    BY <1>1, <1>2, Replaced, EndedHandler
  <1>4. HandlerInv(r)' /\ ~Busy(r)'
    BY <1>3, EndedInv
  <1>5. \A s \in Reqs : s # r => ~Busy(s)
    BY <1>1 DEF GateInv
  <1>6. IdleInv'
    BY <1>1 DEF IdleInv, Idle, GateInv
  <1>7. HighInv' /\ OtherTypes'
    BY <1>1, <1>2 DEF HighInv, TypeOK, OtherTypes, Holders, machine
  <1>8. ChStays
    BY DEF ChStays
  <1> QED BY <1>3, <1>4, <1>5, <1>6, <1>7, <1>8, GateStepOf

(* The destroyer's first wait: CH exits or is killed. *)
LEMMA DestroyGraceStep ==
  ASSUME IInv, NEW r \in Reqs, DestroyGrace(r) PROVE IInv'
  <1>1. TypeOK /\ HandlerInv(r) /\ h[r].pc = "shutGrace"
    BY DEF IInv, DestroyGrace, At
  <1>2. UNCHANGED <<gate, usage, high, forwarder, pinger, machine, diskErr, abandoned>>
    BY DEF DestroyGrace
  <1>3. CASE ch = "exited" /\ DestroyReturns(r) /\ UNCHANGED ch
    BY <1>1, <1>2, <1>3, DestroyReturnsStep
  <1>4. CASE Kill /\ Goto(r, "shutKilled") /\ UNCHANGED <<barrier, highLock>>
    <2>1. Goto(r, "shutKilled") /\ "shutKilled" \in Pcs
      BY <1>4 DEF Pcs
    <2>2. /\ Others(r) /\ h'[r].pc = "shutKilled" /\ h'[r].err = h[r].err
          /\ h'[r].defers = h[r].defers /\ Same(r)
      BY <1>1, <2>1, GotoMoves, Zenon DEF Moved
    <2>3. ch' \in {"killed", "exited"} /\ ChStays /\ UNCHANGED guards
      BY <1>1, <1>2, <1>4 DEF Kill, ChStays, TypeOK, guards
    <2>4. HandlerInv(r)'
      BY <1>1, <1>2, <2>2, <2>3, StacksDiffer, ZenonT(40)
         DEF HandlerInv, guards, machine, ChStays
    <2> QED BY <1>1, <1>2, <2>2, <2>3, <2>4, QuietStepOf DEF TypeOK, machine
  <1> QED BY <1>3, <1>4 DEF DestroyGrace

(* The destroyer's second wait ends. *)
LEMMA DestroyKilledStep ==
  ASSUME IInv, NEW r \in Reqs, DestroyKilled(r) PROVE IInv'
  <1>1. h[r].pc = "shutKilled" /\ DestroyReturns(r)
        /\ UNCHANGED <<gate, usage, high, forwarder, pinger, machine, ch, diskErr, abandoned>>
    BY DEF DestroyKilled, At
  <1>2. ch \in {"killed", "exited"}
    BY <1>1 DEF IInv, HandlerInv
  <1> QED BY <1>1, <1>2, DestroyReturnsStep

(* The caller's context ends. *)
LEMMA CancelContextStep ==
  ASSUME IInv, NEW r \in Reqs, CancelContext(r) PROVE IInv'
  <1>1. TypeOK /\ HandlerInv(r) /\ Busy(r) /\ h[r] \in Handler
    BY DEF IInv, CancelContext, TypeOK
  <1>2. UNCHANGED <<gate, guards, machine, ch, diskErr, abandoned>>
    BY DEF CancelContext
  <1> DEFINE x == [h[r] EXCEPT !.cancelled = TRUE]
  <1>3. x \in Handler
    BY <1>1 DEF Handler
  <1>4. h' = [h EXCEPT ![r] = x]
    BY DEF CancelContext
  <1>5. Others(r) /\ h'[r] = x
    BY <1>1, <1>3, <1>4, Replaced, Zenon
  <1>6. /\ h'[r].pc = h[r].pc /\ h'[r].err = h[r].err /\ h'[r].defers = h[r].defers /\ Same(r)
    BY <1>1, <1>5 DEF Handler
  <1>7. HandlerInv(r)'
    BY <1>1, <1>2, <1>6, UnmovedInv
  <1> QED BY <1>1, <1>2, <1>5, <1>6, <1>7, QuietStepOf DEF TypeOK, ChStays, machine

(* captureGate.begin admits one capture; a request that it turns away ends.  *)
LEMMA BeginStep ==
  ASSUME IInv, NEW r \in Reqs, Begin(r) PROVE IInv'
  <1>1. TypeOK /\ HandlerInv(r) /\ HighInv /\ GateInv /\ IdleInv /\ h[r].pc = "idle"
    BY DEF IInv, Begin, At
  <1>2. UNCHANGED <<guards, machine, ch, diskErr, abandoned>> /\ ChStays
    BY DEF Begin, ChStays
  <1>3. CASE GateOpen
    <2>1. gate' = [gate EXCEPT !.active = TRUE] /\ gate \in [active : BOOLEAN, terminal : BOOLEAN]
          /\ ~gate.active /\ ~gate.terminal
      BY <1>1, <1>3 DEF Begin, GateOpen, TypeOK
    <2>2. /\ gate' \in [active : BOOLEAN, terminal : BOOLEAN] /\ gate'.active /\ ~gate'.terminal
      BY <2>1
    <2>3. PICK kind \in {"snapshot", "export"}, resume \in BOOLEAN, named \in BOOLEAN :
             h' = [h EXCEPT ![r] = NewHandler("prepare", kind, resume, named)]
      BY <1>3 DEF Begin
    <2> DEFINE x == NewHandler("prepare", kind, resume, named)
    <2>4. /\ x \in Handler /\ x.pc = "prepare" /\ x.err = "none" /\ x.defers = D0
          /\ x.previous = "limit" /\ ~x.terminated /\ ~x.succeeded /\ ~x.committed
          /\ ~x.afterWrite
      <3>1. <<>> \in Seq(Guards)
        OBVIOUS
      <3> QED BY <3>1 DEF NewHandler, Handler, Pcs, D0
    <2>5. Others(r) /\ h'[r] = x
      BY <1>1, <2>3, <2>4, Replaced, Zenon
    <2>6. \A s \in Reqs : ~Busy(s)
      BY <1>1, <2>1 DEF GateInv
    <2>7. Idle
      BY <2>1 DEF Idle
    <2>8. /\ h'[r].pc = "prepare" /\ h'[r].err = "none" /\ h'[r].defers = D0
          /\ h'[r].previous = "limit" /\ ~h'[r].terminated /\ ~h'[r].succeeded
          /\ ~h'[r].committed /\ ~h'[r].afterWrite
      BY <2>4, <2>5
    <2>9. HandlerInv(r)'
      BY <1>1, <1>2, <2>7, <2>8, StacksDiffer, ZenonT(40)
         DEF HandlerInv, IdleInv, guards, machine
    <2>10. IdleInv'
      BY <2>2 DEF IdleInv, Idle
    <2>11. HighInv' /\ OtherTypes'
      BY <1>1, <1>2, <2>2 DEF HighInv, TypeOK, OtherTypes, guards, machine
    <2> QED BY <1>2, <2>2, <2>5, <2>6, <2>8, <2>9, <2>10, <2>11, GateStepOf
  <1>4. CASE ~GateOpen
    <2>1. h' = [h EXCEPT ![r] = Ended(FALSE)] /\ gate' = gate /\ Ended(FALSE) \in Handler
      BY <1>4, EndedHandler DEF Begin
    <2>2. Others(r) /\ h'[r] = Ended(FALSE)
      BY <1>1, <2>1, Replaced, Zenon
    <2>3. HandlerInv(r)' /\ ~Busy(r)'
      BY <2>2, EndedInv
    <2>4. ASSUME NEW s \in Reqs, s # r PROVE HandlerInv(s)'
      <3>1. h'[s] = h[s] /\ HandlerInv(s)
        BY <2>2, <2>4 DEF Others, IInv
      <3> QED BY <1>2, <3>1, UnmovedInv
    <2>5. GateInv'
      BY <1>1, <2>1, <2>2, <2>3 DEF GateInv, Others
    <2>6. IdleInv'
      BY <1>1, <1>2, <2>1 DEF IdleInv, Idle, guards, machine
    <2>7. HighInv' /\ OtherTypes'
      BY <1>1, <1>2, <2>1 DEF HighInv, TypeOK, OtherTypes, guards, machine
    <2>8. TypeOK'
      BY <2>2, <2>7 DEF TypeOK, OtherTypes, Others
    <2> QED BY <2>3, <2>4, <2>5, <2>6, <2>7, <2>8 DEF IInv
  <1> QED BY <1>3, <1>4

-----------------------------------------------------------------------------
(* What happens around the handlers touches no guard that a capture holds.   *)
LEMMA AroundStep ==
  ASSUME IInv, UNCHANGED <<gate, h, usage, machine, abandoned>>, ChStays, HighInv', OtherTypes',
         barrier \in Reqs \/ barrier' \in Reqs => barrier' = barrier,
         highLock \in Reqs \/ highLock' \in Reqs => highLock' = highLock /\ high' = high,
         forwarder'.quiescing <=> forwarder.quiescing,
         forwarder.quiescing /\ forwarder.inflight = 0 => forwarder'.inflight = 0,
         pinger'.paused <=> pinger.paused,
         pinger.paused /\ ~pinger.probe => ~pinger'.probe
  PROVE  IInv'
  <1>1. TypeOK /\ GateInv /\ IdleInv /\ \A r \in Reqs : HandlerInv(r)
    BY DEF IInv
  <1>2. TypeOK'
    BY <1>1 DEF TypeOK, OtherTypes
  <1>3. GateInv'
    BY <1>1 DEF GateInv
  <1>4. IdleInv'
    BY <1>1 DEF IdleInv, Idle, machine, ChStays
  <1>5. ASSUME NEW r \in Reqs PROVE HandlerInv(r)'
    <2>1. HandlerInv(r) /\ h'[r] = h[r]
      BY <1>1
    <2>2. StackInv(r)' /\ ResultInv(r)' /\ RootInv(r)'
      BY <2>1, Unmoved
    <2>3. HasForward(r) \/ ~(h[r].pc \in {"pause", "freeze"} \cup Reading)
      BY <2>1 DEF HandlerInv
    <2>4. GuardInv(r)'
      BY <2>1, <2>3, ZenonT(40) DEF HandlerInv, ChStays
    <2>5. FreeInv(r)'
      BY <2>1 DEF HandlerInv
    <2>6. MachineInv(r)'
      BY <2>1, ZenonT(40) DEF HandlerInv, machine, ChStays
    <2> QED BY <2>2, <2>4, <2>5, <2>6, Zenon DEF HandlerInv
  <1> QED BY <1>2, <1>3, <1>4, <1>5 DEF IInv

(* A disk fails, CH exits or is signalled, the controller works. *)
LEMMA OutsideStep ==
  ASSUME IInv,
         DiskFails \/ CHExits \/ SignalShutdown \/ SignalKills \/ SignalUnlocks
            \/ ControllerAcquires \/ ControllerStep
  PROVE  IInv'
  <1>1. TypeOK /\ HighInv
    BY DEF IInv
  <1>2. "none" \notin Reqs /\ "controller" \notin Reqs /\ "signal" \notin Reqs
    BY CaptureAssumption
  <1> USE DEF ChStays
  <1>3. CASE DiskFails
    <2>1. HighInv' /\ OtherTypes'
      BY <1>1, <1>3 DEF DiskFails, HighInv, TypeOK, OtherTypes, guards, machine
    <2> QED BY <1>3, <2>1, AroundStep DEF DiskFails, guards
  <1>4. CASE CHExits
    <2>1. HighInv' /\ OtherTypes'
      BY <1>1, <1>4 DEF CHExits, HighInv, TypeOK, OtherTypes, guards, machine
    <2> QED BY <1>4, <2>1, AroundStep DEF CHExits, guards
  <1>5. CASE SignalShutdown
    <2>1. HighInv' /\ OtherTypes'
      BY <1>1, <1>5 DEF SignalShutdown, HighInv, TypeOK, OtherTypes, Holders, machine
    <2> QED BY <1>2, <1>5, <2>1, AroundStep DEF SignalShutdown
  <1>6. CASE SignalKills
    <2>1. HighInv' /\ OtherTypes'
      BY <1>1, <1>6 DEF SignalKills, HighInv, TypeOK, OtherTypes, guards, machine
    <2> QED BY <1>6, <2>1, AroundStep DEF SignalKills, guards
  <1>7. CASE SignalUnlocks
    <2>1. HighInv' /\ OtherTypes'
      BY <1>1, <1>7 DEF SignalUnlocks, HighInv, TypeOK, OtherTypes, Holders, machine
    <2> QED BY <1>2, <1>7, <2>1, AroundStep DEF SignalUnlocks
  <1>8. CASE ControllerAcquires
    <2>1. HighInv' /\ OtherTypes'
      BY <1>1, <1>8 DEF ControllerAcquires, HighInv, TypeOK, OtherTypes, Holders, machine
    <2> QED BY <1>2, <1>8, <2>1, AroundStep DEF ControllerAcquires
  <1>9. CASE ControllerLocks
    <2>1. HighInv' /\ OtherTypes'
      BY <1>1, <1>2, <1>9 DEF ControllerLocks, HighInv, TypeOK, OtherTypes, Holders, machine
    <2> QED BY <1>2, <1>9, <2>1, AroundStep DEF ControllerLocks
  <1>10. CASE ControllerWrites
    <2>1. HighInv' /\ OtherTypes'
      BY <1>1, <1>10 DEF ControllerWrites, HighInv, TypeOK, OtherTypes, Holders, machine
    <2>2. barrier = "controller"
      BY <1>1, <1>10 DEF ControllerWrites, HighInv
    <2> QED BY <1>2, <1>10, <2>1, <2>2, AroundStep DEF ControllerWrites
  <1>11. CASE ControllerReleases
    <2>1. HighInv' /\ OtherTypes'
      BY <1>1, <1>11 DEF ControllerReleases, HighInv, TypeOK, OtherTypes, Holders, machine
    <2> QED BY <1>2, <1>11, <2>1, AroundStep DEF ControllerReleases
  <1> QED BY <1>3, <1>4, <1>5, <1>6, <1>7, <1>8, <1>9, <1>10, <1>11 DEF ControllerStep

(* A connection is admitted only while the forwarder is not quiescing, and a *)
(* probe only while the pinger is not paused.                                *)
LEMMA TrafficStep ==
  ASSUME IInv, ForwardBegin \/ ForwardEnd \/ ProbeBegin \/ ProbeEnd
  PROVE  IInv'
  <1>1. /\ TypeOK /\ HighInv
        /\ forwarder \in [quiescing : BOOLEAN, inflight : 0 .. MaxInflight]
        /\ pinger \in [paused : BOOLEAN, probe : BOOLEAN] /\ MaxInflight \in Nat
    BY CaptureAssumption DEF IInv, TypeOK
  <1> USE DEF ChStays
  <1>2. CASE ForwardBegin
    <2>1. /\ forwarder' \in [quiescing : BOOLEAN, inflight : 0 .. MaxInflight]
          /\ forwarder'.quiescing <=> forwarder.quiescing
          /\ ~forwarder.quiescing
      BY <1>1, <1>2 DEF ForwardBegin
    <2>2. HighInv' /\ OtherTypes'
      BY <1>1, <1>2, <2>1 DEF ForwardBegin, HighInv, TypeOK, OtherTypes, machine
    <2> QED BY <1>2, <2>1, <2>2, AroundStep DEF ForwardBegin
  <1>3. CASE ForwardEnd
    <2>1. /\ forwarder' \in [quiescing : BOOLEAN, inflight : 0 .. MaxInflight]
          /\ forwarder'.quiescing <=> forwarder.quiescing
          /\ forwarder.inflight # 0
      BY <1>1, <1>3 DEF ForwardEnd
    <2>2. HighInv' /\ OtherTypes'
      BY <1>1, <1>3, <2>1 DEF ForwardEnd, HighInv, TypeOK, OtherTypes, machine
    <2> QED BY <1>3, <2>1, <2>2, AroundStep DEF ForwardEnd
  <1>4. CASE ProbeBegin
    <2>1. /\ pinger' \in [paused : BOOLEAN, probe : BOOLEAN]
          /\ (pinger'.paused <=> pinger.paused) /\ ~pinger.paused
      BY <1>1, <1>4 DEF ProbeBegin
    <2>2. HighInv' /\ OtherTypes'
      BY <1>1, <1>4, <2>1 DEF ProbeBegin, HighInv, TypeOK, OtherTypes, machine
    <2> QED BY <1>4, <2>1, <2>2, AroundStep DEF ProbeBegin
  <1>5. CASE ProbeEnd
    <2>1. /\ pinger' \in [paused : BOOLEAN, probe : BOOLEAN]
          /\ (pinger'.paused <=> pinger.paused) /\ ~pinger'.probe
      BY <1>1, <1>5 DEF ProbeEnd
    <2>2. HighInv' /\ OtherTypes'
      BY <1>1, <1>5, <2>1 DEF ProbeEnd, HighInv, TypeOK, OtherTypes, machine
    <2> QED BY <1>5, <2>1, <2>2, AroundStep DEF ProbeEnd
  <1> QED BY <1>2, <1>3, <1>4, <1>5

-----------------------------------------------------------------------------
(* Before the first capture nothing is held and the VM runs. *)
LEMMA Initially ==
  ASSUME Init PROVE IInv
  <1> DEFINE x == NewHandler("idle", "snapshot", FALSE, FALSE)
  <1>1. /\ x \in Handler /\ x.pc = "idle" /\ x.err = "none" /\ x.defers = D0
        /\ x.previous = "limit" /\ ~x.terminated /\ ~x.succeeded /\ ~x.committed /\ ~x.afterWrite
    <2>1. <<>> \in Seq(Guards)
      OBVIOUS
    <2> QED BY <2>1 DEF NewHandler, Handler, Pcs, D0
  <1>2. \A r \in Reqs : h[r] = x
    BY DEF Init
  <1>3. TypeOK
    <2>1. h \in [Reqs -> Handler]
      BY <1>1 DEF Init
    <2>2. forwarder \in [quiescing : BOOLEAN, inflight : 0 .. MaxInflight]
      BY CaptureAssumption DEF Init
    <2>3. OtherTypes
      BY <2>2 DEF Init, OtherTypes, Holders
    <2> QED BY <2>1, <2>3 DEF TypeOK, OtherTypes
  <1>4. GateInv
    BY <1>1, <1>2 DEF GateInv
  <1>5. IdleInv /\ HighInv
    BY CaptureAssumption DEF Init, IdleInv, HighInv
  <1>6. ASSUME NEW r \in Reqs PROVE HandlerInv(r)
    BY <1>1, <1>2, StacksDiffer, ZenonT(40) DEF HandlerInv
  <1> QED BY <1>3, <1>4, <1>5, <1>6 DEF IInv

(* Every step of a handler keeps the invariant. *)
LEMMA HandlerSteps ==
  ASSUME IInv, NEW r \in Reqs, HandlerStep(r) PROVE IInv'
  BY PrepareStep, BeginSnapshotStep, LiftMemoryHighStep, DrainThrottlesStep, PauseForwarderStep,
     PausePingerStep, DrainPingerStep, QuiesceStep, DrainForwarderStep, PauseVMStep,
     QuiesceBackendsStep, CaptureDisksStep, CaptureMemoryStep, CheckBeforeCommitStep, CommitStep,
     CloseSinkStep, ResumeVMStep, FinalCheckStep, UndoBackendsStep, UndoVMStep,
     UndoCheckpointStep, ReattachStep, TerminateStep, TerminateGraceStep, TerminateKilledStep,
     CheckContextStep, UnwindStep, FinishStep, RespondStep, DestroyRequestStep,
     DestroyGraceStep, DestroyKilledStep, Zenon DEF HandlerStep

(* The invariant holds in every reachable state. *)
LEMMA Invariant == Spec => []IInv
  <1>1. Init => IInv
    BY Initially
  <1>2. IInv /\ [Next]_vars => IInv'
    <2> SUFFICES ASSUME IInv, [Next]_vars PROVE IInv'
      OBVIOUS
    <2>1. ASSUME NEW r \in Reqs, Begin(r) \/ HandlerStep(r) \/ CancelContext(r) PROVE IInv'
      BY <2>1, BeginStep, HandlerSteps, CancelContextStep
    <2>2. CASE UNCHANGED vars
      <3>1. TypeOK /\ HighInv
        BY DEF IInv
      <3>2. HighInv' /\ OtherTypes' /\ ChStays
        BY <2>2, <3>1 DEF vars, guards, machine, HighInv, TypeOK, OtherTypes, ChStays
      <3>3. UNCHANGED <<gate, h, usage, machine, abandoned, barrier, high, highLock,
                        forwarder, pinger>>
        BY <2>2 DEF vars, guards, machine
      <3> QED BY <3>2, <3>3, AroundStep
    <2> QED BY <2>1, <2>2, OutsideStep, TrafficStep DEF Next
  <1> QED BY <1>1, <1>2, PTL DEF Spec

(* While a capture reads disks and memory and commits the root, nothing      *)
(* moves: the guest is frozen, CH paused, the backends stopped, no forwarded *)
(* connection and no probe is under way, and this capture holds the Budget   *)
(* barrier and the lifted memory.high, whoever else wants them.              *)
THEOREM NothingMovesWhileReading == Spec => []FreezeWindow
  <1>1. IInv => FreezeWindow
    <2> SUFFICES ASSUME IInv, NEW r \in Reqs, h[r].pc \in Reading
                 PROVE  /\ guest = "frozen" /\ vm = "paused" /\ backends = "quiesced"
                        /\ forwarder = [quiescing |-> TRUE, inflight |-> 0]
                        /\ pinger = [paused |-> TRUE, probe |-> FALSE]
                        /\ barrier = r /\ highLock = r /\ high = "max"
      BY DEF FreezeWindow
    <2>1. HandlerInv(r) /\ h[r].defers = D5
      BY DEF IInv, HandlerInv
    <2>2. /\ guest = "frozen" /\ vm = "paused" /\ backends = "quiesced"
          /\ barrier = r /\ highLock = r /\ high = "max"
          /\ forwarder.quiescing /\ forwarder.inflight = 0 /\ pinger.paused /\ ~pinger.probe
      BY <2>1 DEF HandlerInv
    <2>3. /\ forwarder \in [quiescing : BOOLEAN, inflight : 0 .. MaxInflight]
          /\ pinger \in [paused : BOOLEAN, probe : BOOLEAN]
      BY DEF IInv, TypeOK
    <2>4. forwarder = [quiescing |-> TRUE, inflight |-> 0]
      BY <2>2, <2>3
    <2>5. pinger = [paused |-> TRUE, probe |-> FALSE]
      BY <2>2, <2>3
    <2> QED BY <2>2, <2>4, <2>5
  <1> QED BY <1>1, Invariant, PTL

(* After the commit of a capture without resume, CH stays paused and the     *)
(* guards stay held until destroyAfterSnapshot has seen CH exit or has       *)
(* killed it; and a root that may have been published keeps its checkpoints. *)
THEOREM CommitIsFinal == Spec => []CommittedHolds
  <1>1. IInv => GuardsOutliveVM
    <2> SUFFICES ASSUME IInv, NEW r \in Reqs, h[r].afterWrite
                 PROVE  /\ h[r].pc \in Owning =>
                             /\ barrier = r /\ highLock = r /\ high = "max"
                             /\ vm = "paused" /\ pinger.paused /\ forwarder.quiescing
                             /\ ~Idle
                        /\ h[r].pc = "done" => ch \in {"killed", "exited"}
      BY DEF GuardsOutliveVM
    <2>1. HandlerInv(r) /\ GateInv
      BY DEF IInv
    <2>2. h[r].pc \in Owning => Kept(r) /\ ~Idle
      BY <2>1 DEF Owning, GateInv, Idle
    <2> QED BY <2>1, <2>2 DEF HandlerInv
  <1>2. IInv => RootKeepsCheckpoints
    BY DEF IInv, HandlerInv, RootKeepsCheckpoints
  <1>3. IInv => CommittedHolds
    BY <1>1, <1>2 DEF CommittedHolds
  <1> QED BY <1>3, Invariant, PTL

(* Whatever failed on the way, a capture that leaves the gate open leaves a  *)
(* VM that serves and every guard released.                                  *)
THEOREM FailureLeavesService == Spec => []ServiceableWhenIdle
  <1>1. IInv => ServiceableWhenIdle
    BY DEF IInv, IdleInv, HighInv, ServiceableWhenIdle, Serviceable
  <1> QED BY <1>1, Invariant, PTL
=============================================================================

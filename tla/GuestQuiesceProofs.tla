-------------------------- MODULE GuestQuiesceProofs --------------------------
(***************************************************************************)
(* Proofs about GuestQuiesce, for any sets of exec and port-forward        *)
(* sessions and any number of captures, of work that begins and of waits   *)
(* that lapse.                                                             *)
(***************************************************************************)
EXTENDS GuestQuiesce, TLAPS

(* The points of the quiesce handler at which a part of the guest is known  *)
(* to be still, each contained in the one before.                           *)
Replying == {"reply"}
Unbound == {"mux"} \cup Replying
Undialled == {"listeners"} \cup Unbound
Frozen == {"forwards"} \cup Undialled
Freezing == {"confirm"} \cup Frozen
Unreported == {"reports"} \cup Freezing
Undrained == {"execDrained"} \cup Unreported
Gated == {"exec"} \cup Undrained
Paused == {"usageDone"} \cup Gated

QuiescePcs == {"idle", "usage"} \cup Paused
ReattachPcs ==
    {"idle", "usage", "usageDone", "epoch", "close", "resume", "thaw", "gates", "launched",
     "ack", "mux"}

TypeOK ==
    /\ gate \in [restart : BOOLEAN, plugin : BOOLEAN, exec : BOOLEAN, conn : BOOLEAN,
                 accept : BOOLEAN]
    /\ cgroup \in [freeze : BOOLEAN, frozen : BOOLEAN]
    /\ exec \in [Execs -> {"idle", "admitted", "cloning", "running", "ending"}]
    /\ forward \in [Forwards -> [pc : {"idle", "dialing", "binding", "accepting", "relay"},
                                 open : BOOLEAN]]
    /\ listening \in BOOLEAN
    /\ report \in [paused : BOOLEAN, active : Nat, attempts : Nat]
    /\ usage \in [paused : BOOLEAN, resuming : BOOLEAN, conn : BOOLEAN, gen : Nat]
    /\ mux \in BOOLEAN
    /\ handler \in [Handlers -> [pc : QuiescePcs \cup ReattachPcs, rollback : BOOLEAN,
                                 gen : Nat]]
    /\ handler["quiesce"].pc \in QuiescePcs
    /\ \A h \in Reattaching : handler[h].pc \in ReattachPcs
    /\ host \in [pc : {"running", "recover", "again", "gone", "captured"} \cup Handlers,
                 newHost : BOOLEAN]

(* What the quiesce handler has stopped when it is at pc. *)
Still(pc) ==
    /\ pc \in Paused => usage.paused
    /\ pc \in Gated => ~usage.conn
    /\ pc \in Undrained => gate.exec
    /\ pc \in Unreported => report.paused /\ \A e \in Execs : exec[e] = "idle"
    /\ pc \in Freezing => report.active = 0 /\ cgroup.freeze
    /\ pc \in Frozen => cgroup.frozen
    /\ pc \in Undialled => gate.conn
    /\ pc \in Unbound => gate.accept /\ ~listening /\ \A c \in Forwards : ~forward[c].open
    /\ pc \in Replying => ~mux

(* As long as the host waits for the answer, no other handler runs that     *)
(* could undo what quiesce has stopped; once the host has the answer, none  *)
(* runs at all.  A quiesce handler that the host gave up promises nothing.  *)
BarrierInv ==
    /\ report.active = report.attempts
    /\ host.pc = "quiesce" =>
          /\ \A h \in Reattaching : handler[h].pc = "idle"
          /\ Still(handler["quiesce"].pc)
    /\ host.pc = "captured" => HandlersIdle /\ Still("reply")

IInv == TypeOK /\ BarrierInv

-----------------------------------------------------------------------------
USE DEF Replying, Unbound, Undialled, Frozen, Freezing, Unreported, Undrained, Gated, Paused,
        QuiescePcs, ReattachPcs, Handlers, Reattaching

(* No request has been made: nothing is promised. *)
LEMMA InitiallyInv == Init => IInv
  <1> SUFFICES ASSUME Init PROVE IInv
    OBVIOUS
  <1>1. host.pc = "running"
    BY DEF Init
  <1>2. handler \in [Handlers -> [pc : QuiescePcs \cup ReattachPcs, rollback : BOOLEAN, gen : Nat]]
    BY DEF Init
  <1>3. handler["quiesce"].pc = "idle" /\ \A h \in Reattaching : handler[h].pc = "idle"
    BY DEF Init
  <1>4. TypeOK
    BY <1>2, <1>3 DEF Init, TypeOK
  <1>5. BarrierInv
    BY <1>1 DEF Init, BarrierInv
  <1> QED
    BY <1>4, <1>5 DEF IInv

(* A step that leaves the barrier's own state alone. *)
LEMMA Untouched ==
  ASSUME IInv,
         UNCHANGED <<gate, cgroup, exec, forward, listening, report, usage, mux, handler, host>>
  PROVE  IInv'
  BY DEF IInv, TypeOK, BarrierInv, Still, HandlersIdle

(* A step beside the handlers, after which whatever was still, and behind a *)
(* closed gate, is still.                                                   *)
LEMMA StaysStill ==
  ASSUME IInv, TypeOK', gate' = gate, handler' = handler, host' = host, mux' = mux,
         report'.active = report'.attempts,
         usage.paused => usage'.paused /\ (~usage.conn => ~usage'.conn),
         report.paused => report'.paused /\ (report.active = 0 => report'.active = 0),
         gate.exec => \A e \in Execs : exec[e] = "idle" => exec'[e] = "idle",
         cgroup.freeze => cgroup'.freeze,
         cgroup.frozen => cgroup'.frozen,
         gate.accept /\ ~listening => ~listening',
         gate.conn => \A c \in Forwards : ~forward[c].open => ~forward'[c].open
  PROVE  IInv'
  <1>1. ASSUME NEW pc, Still(pc) PROVE Still(pc)'
    BY <1>1 DEF Still
  <1>2. BarrierInv'
    BY <1>1 DEF IInv, BarrierInv, HandlersIdle
  <1> QED
    BY <1>2 DEF IInv

(* Whatever runs beside the handlers in PID 1 - the app, the plugin, exec   *)
(* and port-forward sessions, reports and the usage connection - keeps the  *)
(* barrier: what quiesce has stopped does not begin again behind its gates. *)
LEMMA BystandersKeep ==
  ASSUME IInv,
         \/ Settle \/ handleAppExit \/ restartApp \/ phase2ForkApp \/ onExit
         \/ \E l \in Launchers : launchCheck(l) \/ startPluginProcess(l)
         \/ \E e \in Execs : beginSession(e) \/ forkExecChild(e) \/ endSession(e)
         \/ \E c \in Forwards : add(c) \/ getOrCreate(c) \/ promote(c) \/ sessionEnds(c)
         \/ beginAttempt \/ endAttempt \/ serve
  PROVE  IInv'
  <1> USE DEF lifecycle, processes, sessions, streams
  <1>t. TypeOK /\ report.active = report.attempts
    BY DEF IInv, BarrierInv
  <1>1. CASE Settle
    <2>1. /\ UNCHANGED <<gate, handler, host, exec, forward, listening, report, usage, mux>>
          /\ cgroup' \in [freeze : BOOLEAN, frozen : BOOLEAN]
          /\ (cgroup.freeze => cgroup'.freeze) /\ (cgroup.frozen => cgroup'.frozen)
      BY <1>1, <1>t DEF Settle, TypeOK
    <2>2. TypeOK'
      BY <2>1, <1>t DEF TypeOK
    <2> QED
      BY <1>t, <2>1, <2>2, StaysStill
  <1>2. CASE handleAppExit \/ restartApp \/ phase2ForkApp \/ onExit
    BY <1>2, Untouched DEF handleAppExit, restartApp, phase2ForkApp, onExit
  <1>3. ASSUME NEW l \in Launchers, launchCheck(l) \/ startPluginProcess(l) PROVE IInv'
    BY <1>3, Untouched DEF launchCheck, startPluginProcess
  <1>4. ASSUME NEW e \in Execs, beginSession(e) PROVE IInv'
    <2>1. TypeOK'
      BY <1>4, <1>t DEF beginSession, TypeOK
    <2> QED
      BY <1>4, <1>t, <2>1, StaysStill DEF beginSession, TypeOK
  <1>5. ASSUME NEW e \in Execs, forkExecChild(e) \/ endSession(e) PROVE IInv'
    <2>1. TypeOK'
      BY <1>5, <1>t DEF forkExecChild, endSession, TypeOK
    <2> QED
      BY <1>5, <1>t, <2>1, StaysStill DEF forkExecChild, endSession, TypeOK
  <1>6. ASSUME NEW c \in Forwards, add(c) PROVE IInv'
    <2>1. TypeOK'
      BY <1>6, <1>t DEF add, TypeOK
    <2> QED
      BY <1>6, <1>t, <2>1, StaysStill DEF add, TypeOK
  <1>7. ASSUME NEW c \in Forwards, getOrCreate(c) \/ promote(c) \/ sessionEnds(c) PROVE IInv'
    <2>1. /\ UNCHANGED <<gate, cgroup, handler, host, exec, report, usage, mux>>
          /\ listening' \in BOOLEAN /\ (gate.accept => listening' = listening)
      BY <1>7, <1>t DEF getOrCreate, promote, sessionEnds, remove, TypeOK
    <2>2. /\ forward' \in [Forwards -> [pc : {"idle", "dialing", "binding", "accepting", "relay"},
                                        open : BOOLEAN]]
          /\ \A d \in Forwards : ~forward[d].open => ~forward'[d].open
      <3>1. forward \in [Forwards -> [pc : {"idle", "dialing", "binding", "accepting", "relay"},
                                     open : BOOLEAN]]
        BY <1>t DEF TypeOK
      <3>2. \/ forward' = [forward EXCEPT ![c] = [pc |-> "idle", open |-> FALSE]]
            \/ forward' = [forward EXCEPT ![c].pc = "accepting"]
            \/ forward' = [forward EXCEPT ![c].pc = "relay"]
        BY <1>7 DEF getOrCreate, promote, sessionEnds, remove
      <3>3. CASE forward' = [forward EXCEPT ![c] = [pc |-> "idle", open |-> FALSE]]
        BY <3>1, <3>3
      <3>4. CASE forward' = [forward EXCEPT ![c].pc = "accepting"]
        BY <3>1, <3>4
      <3>5. CASE forward' = [forward EXCEPT ![c].pc = "relay"]
        BY <3>1, <3>5
      <3> QED
        BY <3>2, <3>3, <3>4, <3>5
    <2>3. TypeOK'
      BY <2>1, <2>2, <1>t DEF TypeOK
    <2> QED
      BY <1>t, <2>1, <2>2, <2>3, StaysStill
  <1>8. CASE beginAttempt \/ endAttempt
    <2>1. /\ UNCHANGED <<gate, cgroup, handler, host, exec, forward, listening, usage, mux>>
          /\ report' \in [paused : BOOLEAN, active : Nat, attempts : Nat]
          /\ report'.active = report'.attempts /\ (report.paused => report'.paused)
          /\ report.paused /\ report.active = 0 => report'.active = 0
      <3>1. report \in [paused : BOOLEAN, active : Nat, attempts : Nat]
        BY <1>t DEF TypeOK
      <3>2. CASE beginAttempt
        <4>1. /\ ~report.paused
              /\ report' = [report EXCEPT !.active = @ + 1, !.attempts = @ + 1]
              /\ UNCHANGED <<gate, cgroup, handler, host, exec, forward, listening, usage, mux>>
          BY <3>2 DEF beginAttempt
        <4>2. report' = [paused |-> report.paused, active |-> report.active + 1,
                         attempts |-> report.attempts + 1]
          BY <3>1, <4>1
        <4> QED
          BY <3>1, <4>1, <4>2, <1>t
      <3>3. CASE endAttempt
        <4>1. /\ report.attempts > 0
              /\ report' = [report EXCEPT !.active = @ - 1, !.attempts = @ - 1]
              /\ UNCHANGED <<gate, cgroup, handler, host, exec, forward, listening, usage, mux>>
          BY <3>3 DEF endAttempt
        <4>2. report' = [paused |-> report.paused, active |-> report.active - 1,
                         attempts |-> report.attempts - 1]
          BY <3>1, <4>1
        <4>3. report.active - 1 \in Nat /\ report.attempts - 1 \in Nat
          BY <3>1, <4>1, <1>t
        <4> QED
          BY <3>1, <4>1, <4>2, <4>3, <1>t
      <3> QED
        BY <1>8, <3>2, <3>3
    <2>2. TypeOK'
      BY <2>1, <1>t DEF TypeOK
    <2> QED
      BY <1>t, <2>1, <2>2, StaysStill
  <1>9. CASE serve
    <2>1. /\ UNCHANGED <<gate, cgroup, handler, host, exec, forward, listening, report, mux>>
          /\ usage' \in [paused : BOOLEAN, resuming : BOOLEAN, conn : BOOLEAN, gen : Nat]
          /\ usage'.paused = usage.paused /\ (usage.paused /\ ~usage.conn => ~usage'.conn)
      BY <1>9, <1>t DEF serve, TypeOK
    <2>2. TypeOK'
      BY <2>1, <1>t DEF TypeOK
    <2> QED
      BY <1>t, <2>1, <2>2, StaysStill
  <1> QED
    BY <1>1, <1>2, <1>3, <1>4, <1>5, <1>6, <1>7, <1>8, <1>9

(* A handler goes on to its next statement and the others stay. *)
LEMMA Goes ==
  ASSUME TypeOK, NEW h \in Handlers, NEW p, goto(h, p),
         h = "quiesce" => p \in QuiescePcs,
         h \in Reattaching => p \in ReattachPcs
  PROVE  /\ handler' \in [Handlers -> [pc : QuiescePcs \cup ReattachPcs, rollback : BOOLEAN,
                                       gen : Nat]]
         /\ handler'["quiesce"].pc \in QuiescePcs
         /\ \A g \in Reattaching : handler'[g].pc \in ReattachPcs
         /\ handler'[h].pc = p
         /\ \A g \in Handlers : g # h => handler'[g] = handler[g]
  <1>1. /\ handler \in [Handlers -> [pc : QuiescePcs \cup ReattachPcs, rollback : BOOLEAN,
                                     gen : Nat]]
        /\ handler["quiesce"].pc \in QuiescePcs
        /\ \A g \in Reattaching : handler[g].pc \in ReattachPcs
    BY DEF TypeOK
  <1>2. handler' = [handler EXCEPT ![h].pc = p]
    BY DEF goto
  <1>3. p \in QuiescePcs \cup ReattachPcs
    OBVIOUS
  <1>4. /\ handler'[h] = [handler[h] EXCEPT !.pc = p]
        /\ \A g \in Handlers : g # h => handler'[g] = handler[g]
    BY <1>1, <1>2
  <1>5. handler'[h] \in [pc : QuiescePcs \cup ReattachPcs, rollback : BOOLEAN, gen : Nat]
    BY <1>1, <1>3, <1>4
  <1>6. handler'[h].pc = p
    BY <1>1, <1>4
  <1>7. handler' \in [Handlers -> [pc : QuiescePcs \cup ReattachPcs, rollback : BOOLEAN,
                                   gen : Nat]]
    <2>1. handler' = [g \in Handlers |-> IF g = h THEN handler'[h] ELSE handler[g]]
      BY <1>1, <1>2
    <2> QED
      BY <1>1, <1>5, <2>1
  <1>8. /\ handler'["quiesce"].pc \in QuiescePcs
        /\ \A g \in Reattaching : handler'[g].pc \in ReattachPcs
    BY <1>1, <1>4, <1>6
  <1> QED
    BY <1>4, <1>6, <1>7, <1>8

(* A handler that returns leaves no host waiting for it: neither for        *)
(* quiesce nor with an answer of quiesce.                                   *)
LEMMA Left ==
  ASSUME TypeOK, NEW h \in Handlers, Returns(h)
  PROVE  /\ goto(h, "idle")
         /\ host' \in [pc : {"running", "recover", "again", "gone", "captured"} \cup Handlers,
                       newHost : BOOLEAN]
         /\ host' = host \/ host'.pc \notin {"quiesce", "captured"}
         /\ host.pc = h => host'.pc \notin {"quiesce", "captured"}
  <1>1. host \in [pc : {"running", "recover", "again", "gone", "captured"} \cup Handlers,
                  newHost : BOOLEAN]
    BY DEF TypeOK
  <1>2. NextAttempt(h) \in [pc : {"recover", "again", "gone"}, newHost : BOOLEAN]
    BY <1>1 DEF NextAttempt
  <1> QED
    BY <1>1, <1>2 DEF Returns, Waits, goto

(* A step of the quiesce handler that goes on to p with everything still    *)
(* that has to be at p.                                                     *)
LEMMA QuiesceAdvances ==
  ASSUME IInv, TypeOK', handler["quiesce"].pc # "idle",
         \A h \in Reattaching : handler'[h] = handler[h],
         host' = host \/ host'.pc \notin {"quiesce", "captured"},
         report'.active = report'.attempts,
         host'.pc = "quiesce" => Still(handler["quiesce"].pc)'
  PROVE  IInv'
  <1>1. host.pc # "captured"
    BY DEF IInv, BarrierInv, HandlersIdle
  <1>2. BarrierInv'
    BY <1>1 DEF IInv, BarrierInv
  <1> QED
    BY <1>2 DEF IInv

(* A step of the quiesce handler that gives up. *)
LEMMA Fails ==
  ASSUME IInv, Returns("quiesce"), handler["quiesce"].pc # "idle",
         UNCHANGED <<gate, cgroup, exec, forward, listening, report, usage, mux>>
  PROVE  IInv'
  <1>t. TypeOK /\ report.active = report.attempts
    BY DEF IInv, BarrierInv
  <1>1. goto("quiesce", "idle")
    BY <1>t, Left
  <1>2. TypeOK'
    BY <1>1, <1>t, Goes, Left DEF TypeOK
  <1>3. \A h \in Reattaching : handler'[h] = handler[h]
    BY <1>1, <1>t, Goes
  <1>4. host' = host \/ host'.pc \notin {"quiesce", "captured"}
    BY <1>t, Left
  <1>5. host'.pc # "quiesce"
    BY <1>t, Left
  <1> QED
    BY <1>2, <1>3, <1>4, <1>5, <1>t, QuiesceAdvances

(* The quiesce handler adds to what is still, one part at a step, and a     *)
(* handler that fails sends the host on to its recovery.                    *)
LEMMA QuiesceKeeps ==
  ASSUME IInv,
         \/ quiesceUsage \/ quiesceGates \/ quiesceExecSessions \/ pauseAndDrain
         \/ cgroupFreeze \/ closeConnectSessions \/ quiesceMUX \/ quiesced
  PROVE  IInv'
  <1> USE DEF lifecycle, processes, sessions, streams
  <1>t. /\ TypeOK /\ report.active = report.attempts
        /\ host.pc = "quiesce" => Still(handler["quiesce"].pc)
    BY DEF IInv, BarrierInv
  <1>1. CASE quiesceUsage
    <2>1. goto("quiesce", "usageDone") /\ handler["quiesce"].pc # "idle"
      BY <1>1 DEF quiesceUsage
    <2>2. /\ UNCHANGED <<gate, cgroup, host, exec, forward, listening, report, mux>>
          /\ usage' = [usage EXCEPT !.paused = TRUE, !.resuming = FALSE, !.gen = @ + 1]
      BY <1>1 DEF quiesceUsage, pauseLocked
    <2>3. /\ usage' \in [paused : BOOLEAN, resuming : BOOLEAN, conn : BOOLEAN, gen : Nat]
          /\ usage'.paused
      <3>1. usage \in [paused : BOOLEAN, resuming : BOOLEAN, conn : BOOLEAN, gen : Nat]
        BY <1>t DEF TypeOK
      <3>2. usage' = [paused |-> TRUE, resuming |-> FALSE, conn |-> usage.conn,
                      gen |-> usage.gen + 1]
        BY <2>2, <3>1
      <3> QED
        BY <3>1, <3>2
    <2>4. TypeOK'
      BY <2>1, <2>2, <2>3, <1>t, Goes DEF TypeOK
    <2>5. Still("usageDone")'
      BY <2>3 DEF Still
    <2>6. handler'["quiesce"].pc = "usageDone" /\ \A h \in Reattaching : handler'[h] = handler[h]
      BY <2>1, <1>t, Goes
    <2> QED
      BY <2>1, <2>2, <2>4, <2>5, <2>6, <1>t, QuiesceAdvances
  <1>2. CASE quiesceGates
    <2>1. /\ UNCHANGED <<cgroup, exec, forward, listening, report, usage, mux>>
          /\ handler["quiesce"].pc = "usageDone"
      BY <1>2 DEF quiesceGates
    <2>2. CASE Returns("quiesce") /\ UNCHANGED gate
      BY <2>1, <2>2, <1>t, Fails
    <2>3. CASE /\ ~usage.conn /\ goto("quiesce", "exec") /\ UNCHANGED host
               /\ gate' = [gate EXCEPT !.restart = TRUE, !.plugin = TRUE]
      <3>1. gate' \in [restart : BOOLEAN, plugin : BOOLEAN, exec : BOOLEAN, conn : BOOLEAN,
                       accept : BOOLEAN]
        BY <2>3, <1>t DEF TypeOK
      <3>2. TypeOK'
        BY <2>1, <2>3, <3>1, <1>t, Goes DEF TypeOK
      <3>3. handler'["quiesce"].pc = "exec" /\ \A h \in Reattaching : handler'[h] = handler[h]
        BY <2>3, <1>t, Goes
      <3>4. host.pc = "quiesce" => Still("exec")'
        BY <2>1, <2>3, <1>t DEF Still
      <3> QED
        BY <2>1, <2>3, <3>2, <3>3, <3>4, <1>t, QuiesceAdvances
    <2> QED
      BY <1>2, <2>2, <2>3 DEF quiesceGates
  <1>3. CASE quiesceExecSessions
    <2>1. /\ UNCHANGED <<cgroup, host, forward, listening, report, usage, mux>>
          /\ handler["quiesce"].pc = "exec" /\ goto("quiesce", "execDrained")
          /\ gate' = [gate EXCEPT !.exec = TRUE]
          /\ exec' = [e \in Execs |-> IF exec[e] = "running" THEN "ending" ELSE exec[e]]
      BY <1>3 DEF quiesceExecSessions
    <2>2. /\ gate' \in [restart : BOOLEAN, plugin : BOOLEAN, exec : BOOLEAN, conn : BOOLEAN,
                        accept : BOOLEAN]
          /\ gate'.exec
      BY <2>1, <1>t DEF TypeOK
    <2>3. exec' \in [Execs -> {"idle", "admitted", "cloning", "running", "ending"}]
      BY <2>1, <1>t DEF TypeOK
    <2>4. TypeOK'
      BY <2>1, <2>2, <2>3, <1>t, Goes DEF TypeOK
    <2>5. handler'["quiesce"].pc = "execDrained" /\ \A h \in Reattaching : handler'[h] = handler[h]
      BY <2>1, <1>t, Goes
    <2>6. host.pc = "quiesce" => Still("execDrained")'
      BY <2>1, <2>2, <1>t DEF Still
    <2> QED
      BY <2>1, <2>4, <2>5, <2>6, <1>t, QuiesceAdvances
  <1>4. CASE pauseAndDrain
    <2>1. /\ UNCHANGED <<gate, cgroup, exec, forward, listening, usage, mux>>
          /\ handler["quiesce"].pc = "execDrained"
      BY <1>4 DEF pauseAndDrain
    <2>2. CASE Returns("quiesce") /\ UNCHANGED report
      BY <2>1, <2>2, <1>t, Fails
    <2>3. CASE /\ \A e \in Execs : exec[e] = "idle"
               /\ goto("quiesce", "reports") /\ UNCHANGED host
               /\ report' = [report EXCEPT !.paused = TRUE]
      <3>1. /\ report' \in [paused : BOOLEAN, active : Nat, attempts : Nat]
            /\ report'.paused /\ report'.active = report'.attempts
        BY <2>3, <1>t DEF TypeOK
      <3>2. TypeOK'
        BY <2>1, <2>3, <3>1, <1>t, Goes DEF TypeOK
      <3>3. handler'["quiesce"].pc = "reports" /\ \A h \in Reattaching : handler'[h] = handler[h]
        BY <2>3, <1>t, Goes
      <3>4. host.pc = "quiesce" => Still("reports")'
        BY <2>1, <2>3, <3>1, <1>t DEF Still
      <3> QED
        BY <2>1, <2>3, <3>1, <3>2, <3>3, <3>4, <1>t, QuiesceAdvances
    <2> QED
      BY <1>4, <2>2, <2>3 DEF pauseAndDrain
  <1>5. CASE cgroupFreeze
    <2>1. UNCHANGED <<gate, exec, forward, listening, report, usage, mux>>
      BY <1>5 DEF cgroupFreeze
    <2>2. CASE /\ handler["quiesce"].pc = "reports" /\ report.active = 0
               /\ goto("quiesce", "confirm") /\ UNCHANGED host
               /\ cgroup' = [cgroup EXCEPT !.freeze = TRUE]
      <3>1. cgroup' \in [freeze : BOOLEAN, frozen : BOOLEAN] /\ cgroup'.freeze
        BY <2>2, <1>t DEF TypeOK
      <3>2. TypeOK'
        BY <2>1, <2>2, <3>1, <1>t, Goes DEF TypeOK
      <3>3. handler'["quiesce"].pc = "confirm" /\ \A h \in Reattaching : handler'[h] = handler[h]
        BY <2>2, <1>t, Goes
      <3>4. host.pc = "quiesce" => Still("confirm")'
        BY <2>1, <2>2, <3>1, <1>t DEF Still
      <3> QED
        BY <2>1, <2>2, <3>2, <3>3, <3>4, <1>t, QuiesceAdvances
    <2>3. CASE /\ handler["quiesce"].pc = "confirm" /\ cgroup.frozen
               /\ goto("quiesce", "forwards") /\ UNCHANGED <<host, cgroup>>
      <3>1. TypeOK'
        BY <2>1, <2>3, <1>t, Goes DEF TypeOK
      <3>2. handler'["quiesce"].pc = "forwards" /\ \A h \in Reattaching : handler'[h] = handler[h]
        BY <2>3, <1>t, Goes
      <3>3. host.pc = "quiesce" => Still("forwards")'
        BY <2>1, <2>3, <1>t DEF Still
      <3> QED
        BY <2>1, <2>3, <3>1, <3>2, <3>3, <1>t, QuiesceAdvances
    <2>4. CASE handler["quiesce"].pc = "confirm" /\ Returns("quiesce") /\ UNCHANGED cgroup
      BY <2>1, <2>4, <1>t, Fails
    <2> QED
      BY <1>5, <2>2, <2>3, <2>4 DEF cgroupFreeze
  <1>6. CASE closeConnectSessions
    <2>1. UNCHANGED <<cgroup, host, exec, report, usage, mux>>
      BY <1>6 DEF closeConnectSessions
    <2>2. CASE /\ handler["quiesce"].pc = "forwards" /\ goto("quiesce", "listeners")
               /\ gate' = [gate EXCEPT !.conn = TRUE] /\ UNCHANGED <<forward, listening>>
      <3>1. /\ gate' \in [restart : BOOLEAN, plugin : BOOLEAN, exec : BOOLEAN, conn : BOOLEAN,
                          accept : BOOLEAN]
            /\ gate'.conn /\ (gate.exec => gate'.exec)
        BY <2>2, <1>t DEF TypeOK
      <3>2. TypeOK'
        BY <2>1, <2>2, <3>1, <1>t, Goes DEF TypeOK
      <3>3. handler'["quiesce"].pc = "listeners" /\ \A h \in Reattaching : handler'[h] = handler[h]
        BY <2>2, <1>t, Goes
      <3>4. host.pc = "quiesce" => Still("listeners")'
        BY <2>1, <2>2, <3>1, <1>t DEF Still
      <3> QED
        BY <2>1, <2>2, <3>2, <3>3, <3>4, <1>t, QuiesceAdvances
    <2>3. CASE /\ handler["quiesce"].pc = "listeners" /\ goto("quiesce", "mux")
               /\ gate' = [gate EXCEPT !.accept = TRUE] /\ listening' = FALSE
               /\ forward' = [c \in Forwards |-> [forward[c] EXCEPT !.open = FALSE]]
      <3>1. /\ gate' \in [restart : BOOLEAN, plugin : BOOLEAN, exec : BOOLEAN, conn : BOOLEAN,
                          accept : BOOLEAN]
            /\ gate'.accept /\ (gate.exec => gate'.exec) /\ (gate.conn => gate'.conn)
        BY <2>3, <1>t DEF TypeOK
      <3>2. /\ forward' \in [Forwards -> [pc : {"idle", "dialing", "binding", "accepting", "relay"},
                                          open : BOOLEAN]]
            /\ \A c \in Forwards : ~forward'[c].open
        <4>1. forward \in [Forwards -> [pc : {"idle", "dialing", "binding", "accepting", "relay"},
                                        open : BOOLEAN]]
          BY <1>t DEF TypeOK
        <4>2. ASSUME NEW c \in Forwards
              PROVE  /\ [forward[c] EXCEPT !.open = FALSE] \in
                           [pc : {"idle", "dialing", "binding", "accepting", "relay"}, open : BOOLEAN]
                     /\ ~[forward[c] EXCEPT !.open = FALSE].open
          BY <4>1
        <4> QED
          BY <2>3, <4>2
      <3>3. TypeOK'
        <4>1. listening' \in BOOLEAN
          BY <2>3
        <4> QED
          BY <2>1, <2>3, <3>1, <3>2, <4>1, <1>t, Goes DEF TypeOK
      <3>4. handler'["quiesce"].pc = "mux" /\ \A h \in Reattaching : handler'[h] = handler[h]
        BY <2>3, <1>t, Goes
      <3>5. host.pc = "quiesce" => Still("mux")'
        BY <2>1, <2>3, <3>1, <3>2, <1>t DEF Still
      <3> QED
        BY <2>1, <2>3, <3>3, <3>4, <3>5, <1>t, QuiesceAdvances
    <2> QED
      BY <1>6, <2>2, <2>3 DEF closeConnectSessions
  <1>7. CASE quiesceMUX
    <2>1. /\ UNCHANGED <<gate, cgroup, host, exec, forward, listening, report, usage>>
          /\ mux' \in BOOLEAN /\ ~mux' /\ handler["quiesce"].pc = "mux" /\ goto("quiesce", "reply")
      BY <1>7 DEF quiesceMUX, closeLiveMUX
    <2>2. TypeOK'
      BY <2>1, <1>t, Goes DEF TypeOK
    <2>3. handler'["quiesce"].pc = "reply" /\ \A h \in Reattaching : handler'[h] = handler[h]
      BY <2>1, <1>t, Goes
    <2>4. host.pc = "quiesce" => Still("reply")'
      BY <2>1, <1>t DEF Still
    <2> QED
      BY <2>1, <2>2, <2>3, <2>4, <1>t, QuiesceAdvances
  <1>8. CASE quiesced
    BY <1>8 DEF quiesced, Waits, goto, IInv, TypeOK, BarrierInv, Still, HandlersIdle
  <1> QED
    BY <1>1, <1>2, <1>3, <1>4, <1>5, <1>6, <1>7, <1>8

(* A handler of an attach or a restore runs only when the host neither      *)
(* waits for quiesce nor relies on its answer, so its steps may undo        *)
(* everything.                                                              *)
LEMMA ReattachAdvances ==
  ASSUME IInv, TypeOK', NEW h \in Reattaching, handler[h].pc # "idle",
         host' = host \/ host'.pc \notin {"quiesce", "captured"},
         report'.active = report'.attempts
  PROVE  IInv'
  <1>1. host.pc \notin {"quiesce", "captured"}
    BY DEF IInv, BarrierInv, HandlersIdle
  <1> QED
    BY <1>1 DEF IInv, BarrierInv

(* The usage gate keeps its fields. *)
LEMMA UsageRecords ==
  ASSUME usage \in [paused : BOOLEAN, resuming : BOOLEAN, conn : BOOLEAN, gen : Nat]
  PROVE  /\ pauseLocked \in [paused : BOOLEAN, resuming : BOOLEAN, conn : BOOLEAN, gen : Nat]
         /\ resume \in [paused : BOOLEAN, resuming : BOOLEAN, conn : BOOLEAN, gen : Nat]
  <1>1. usage.gen + 1 \in Nat /\ (usage.paused \/ usage.resuming) \in BOOLEAN
    OBVIOUS
  <1>2. pauseLocked \in [paused : BOOLEAN, resuming : BOOLEAN, conn : BOOLEAN, gen : Nat]
    BY <1>1 DEF pauseLocked
  <1>3. resume \in [paused : BOOLEAN, resuming : BOOLEAN, conn : BOOLEAN, gen : Nat]
    BY <1>1 DEF resume
  <1> QED
    BY <1>2, <1>3

(* The attach and the restore handlers keep the barrier. *)
LEMMA ReattachKeeps ==
  ASSUME IInv, NEW h \in Reattaching,
         \/ restoreBarrier(h) \/ reattachClose(h) \/ finishResume(h) \/ thaw(h)
         \/ resumeAfterThaw(h) \/ writeAck(h) \/ reattachMUX(h)
  PROVE  IInv'
  <1> USE DEF lifecycle, processes, sessions, streams
  <1>t. /\ TypeOK /\ report.active = report.attempts /\ h \in Handlers /\ h # "quiesce"
        /\ report \in [paused : BOOLEAN, active : Nat, attempts : Nat]
        /\ usage \in [paused : BOOLEAN, resuming : BOOLEAN, conn : BOOLEAN, gen : Nat]
        /\ handler[h].gen \in Nat /\ handler[h].rollback \in BOOLEAN
    BY DEF IInv, BarrierInv, TypeOK
  <1>u. usage \in [paused : BOOLEAN, resuming : BOOLEAN, conn : BOOLEAN, gen : Nat]
    BY <1>t
  <1>p. /\ pauseLocked \in [paused : BOOLEAN, resuming : BOOLEAN, conn : BOOLEAN, gen : Nat]
        /\ resume \in [paused : BOOLEAN, resuming : BOOLEAN, conn : BOOLEAN, gen : Nat]
    BY <1>u, UsageRecords
  <1>1. CASE restoreBarrier(h)
    <2>1. UNCHANGED <<gate, cgroup, exec, forward, listening, mux>> /\ handler[h].pc # "idle"
      BY <1>1 DEF restoreBarrier
    <2>2. /\ usage' \in [paused : BOOLEAN, resuming : BOOLEAN, conn : BOOLEAN, gen : Nat]
          /\ report' \in [paused : BOOLEAN, active : Nat, attempts : Nat]
          /\ report'.active = report'.attempts
      BY <1>1, <1>t, <1>p DEF restoreBarrier
    <2>3. CASE Returns(h)
      <3>1. TypeOK'
        BY <2>1, <2>2, <2>3, <1>t, Left, Goes DEF TypeOK
      <3> QED
        BY <2>1, <2>2, <2>3, <3>1, <1>t, Left, ReattachAdvances
    <2>4. ASSUME NEW p \in {"usageDone", "epoch", "close"}, goto(h, p), UNCHANGED host PROVE IInv'
      <3>1. TypeOK'
        BY <2>1, <2>2, <2>4, <1>t, Goes DEF TypeOK
      <3> QED
        BY <2>1, <2>2, <2>4, <3>1, <1>t, ReattachAdvances
    <2> QED
      BY <1>1, <2>3, <2>4 DEF restoreBarrier
  <1>2. CASE reattachClose(h)
    <2>1. /\ UNCHANGED <<gate, cgroup, host, exec, forward, listening, report, usage>>
          /\ mux' \in BOOLEAN /\ handler[h].pc # "idle" /\ goto(h, "resume")
      BY <1>2 DEF reattachClose, closeLiveMUX
    <2>2. TypeOK'
      BY <2>1, <1>t, Goes DEF TypeOK
    <2> QED
      BY <2>1, <2>2, <1>t, ReattachAdvances
  <1>3. CASE finishResume(h)
    <2>1. /\ UNCHANGED <<gate, cgroup, host, exec, forward, listening, report, mux>>
          /\ usage' = resume /\ handler[h].pc # "idle"
          /\ handler' = [handler EXCEPT ![h] =
                           [pc |-> "thaw", gen |-> resume.gen, rollback |-> resume.resuming]]
      BY <1>3 DEF finishResume
    <2>2. [pc |-> "thaw", gen |-> resume.gen, rollback |-> resume.resuming]
             \in [pc : QuiescePcs \cup ReattachPcs, rollback : BOOLEAN, gen : Nat]
      BY <1>p
    <2>3. /\ handler' \in [Handlers -> [pc : QuiescePcs \cup ReattachPcs, rollback : BOOLEAN,
                                        gen : Nat]]
          /\ handler'["quiesce"].pc \in QuiescePcs
          /\ \A g \in Reattaching : handler'[g].pc \in ReattachPcs
      BY <2>1, <2>2, <1>t DEF TypeOK
    <2>4. TypeOK'
      BY <2>1, <2>3, <1>t, <1>p DEF TypeOK
    <2> QED
      BY <2>1, <2>4, <1>t, ReattachAdvances
  <1>4. CASE thaw(h)
    <2>1. /\ UNCHANGED <<gate, host, exec, forward, listening, report, usage, mux>>
          /\ cgroup' \in [freeze : BOOLEAN, frozen : BOOLEAN]
          /\ handler[h].pc # "idle" /\ goto(h, "gates")
      BY <1>4, <1>t DEF thaw, TypeOK
    <2>2. TypeOK'
      BY <2>1, <1>t, Goes DEF TypeOK
    <2> QED
      BY <2>1, <2>2, <1>t, ReattachAdvances
  <1>5. CASE resumeAfterThaw(h)
    <2>1. /\ UNCHANGED <<cgroup, host, exec, forward, listening, report, usage, mux>>
          /\ handler[h].pc # "idle" /\ (goto(h, "launched") \/ goto(h, "ack"))
      BY <1>5 DEF resumeAfterThaw
    <2>2. gate' \in [restart : BOOLEAN, plugin : BOOLEAN, exec : BOOLEAN, conn : BOOLEAN,
                     accept : BOOLEAN]
      <3>1. gate \in [restart : BOOLEAN, plugin : BOOLEAN, exec : BOOLEAN, conn : BOOLEAN,
                      accept : BOOLEAN]
        BY <1>t DEF TypeOK
      <3>2. \/ gate' = [gate EXCEPT !.exec = FALSE, !.conn = FALSE, !.accept = FALSE,
                                    !.plugin = FALSE]
            \/ gate' = [gate EXCEPT !.restart = FALSE]
        BY <1>5 DEF resumeAfterThaw
      <3>3. CASE gate' = [gate EXCEPT !.restart = FALSE]
        BY <3>1, <3>3
      <3>4. CASE gate' = [gate EXCEPT !.exec = FALSE, !.conn = FALSE, !.accept = FALSE,
                                      !.plugin = FALSE]
        <4>1. gate' = [restart |-> gate.restart, plugin |-> FALSE, exec |-> FALSE,
                       conn |-> FALSE, accept |-> FALSE]
          BY <3>1, <3>4
        <4> QED
          BY <3>1, <4>1
      <3> QED
        BY <3>2, <3>3, <3>4
    <2>3. TypeOK'
      BY <2>1, <2>2, <1>t, Goes DEF TypeOK
    <2> QED
      BY <2>1, <2>3, <1>t, ReattachAdvances
  <1>6. CASE writeAck(h)
    <2>1. /\ UNCHANGED <<gate, cgroup, exec, forward, listening, report, mux>>
          /\ handler[h].pc # "idle" /\ (goto(h, "mux") \/ goto(h, "idle"))
          /\ host' = host \/ host' = [pc |-> "running", newHost |-> FALSE]
      BY <1>6 DEF writeAck
    <2>2. usage' \in [paused : BOOLEAN, resuming : BOOLEAN, conn : BOOLEAN, gen : Nat]
      BY <1>6, <1>t, <1>p DEF writeAck, rollbackResume
    <2>3. host' \in [pc : {"running", "recover", "again", "gone", "captured"} \cup Handlers,
                     newHost : BOOLEAN]
      <3>1. host \in [pc : {"running", "recover", "again", "gone", "captured"} \cup Handlers,
                      newHost : BOOLEAN]
        BY <1>t DEF TypeOK
      <3>2. CASE host' = [pc |-> "running", newHost |-> FALSE]
        BY <3>2
      <3> QED
        BY <2>1, <3>1, <3>2
    <2>4. TypeOK'
      BY <2>1, <2>2, <2>3, <1>t, Goes DEF TypeOK
    <2>5. host' = host \/ host'.pc \notin {"quiesce", "captured"}
      BY <2>1
    <2> QED
      BY <2>1, <2>4, <2>5, <1>t, ReattachAdvances
  <1>7. CASE reattachMUX(h)
    <2>1. /\ UNCHANGED <<gate, cgroup, host, exec, forward, listening>>
          /\ mux' \in BOOLEAN /\ handler[h].pc # "idle" /\ goto(h, "idle")
          /\ report' = resumeEpoch /\ usage' = commitResume(h)
      BY <1>7 DEF reattachMUX
    <2>2. /\ usage' \in [paused : BOOLEAN, resuming : BOOLEAN, conn : BOOLEAN, gen : Nat]
          /\ report' \in [paused : BOOLEAN, active : Nat, attempts : Nat]
          /\ report'.active = report'.attempts
      BY <2>1, <1>t DEF resumeEpoch, commitResume
    <2>3. TypeOK'
      BY <2>1, <2>2, <1>t, Goes DEF TypeOK
    <2> QED
      BY <2>1, <2>2, <2>3, <1>t, ReattachAdvances
  <1> QED
    BY <1>1, <1>2, <1>3, <1>4, <1>5, <1>6, <1>7

(* The host asks for a capture only when no handler is left, so none from   *)
(* an earlier capture undoes it.                                            *)
LEMMA HostKeeps ==
  ASSUME IInv, SendQuiesce \/ GivesUp \/ OpenMUXViaAttach \/ OpenMUXViaRestore
  PROVE  IInv'
  <1> USE DEF lifecycle, processes, sessions, streams, goto, IInv, TypeOK, BarrierInv, Still,
              HandlersIdle
  <1>1. CASE SendQuiesce
    BY <1>1 DEF SendQuiesce
  <1>2. CASE GivesUp
    BY <1>2 DEF GivesUp, NextAttempt
  <1>3. CASE OpenMUXViaAttach
    BY <1>3 DEF OpenMUXViaAttach
  <1>4. CASE OpenMUXViaRestore
    BY <1>4 DEF OpenMUXViaRestore
  <1> QED
    BY <1>1, <1>2, <1>3, <1>4

(* Every step of PID 1 and of the host keeps the barrier. *)
LEMMA StepKeepsInv == IInv /\ [Next]_vars => IInv'
  <1> SUFFICES ASSUME IInv, [Next]_vars PROVE IInv'
    OBVIOUS
  <1>1. CASE UNCHANGED vars
    BY <1>1, Untouched DEF vars, lifecycle, processes, sessions, streams
  <1>2. CASE Next
    BY <1>2, BystandersKeep, QuiesceKeeps, ReattachKeeps, HostKeeps DEF Next
  <1> QED
    BY <1>1, <1>2

(* When the host has received `quiesced`, the app is confirmed frozen and   *)
(* no exec session, port-forward connection, listener, usage connection,    *)
(* memory report or MUX session is alive, whatever handlers earlier         *)
(* captures left behind and whatever began in between                       *)
(* (handleReverseConnShutdown in cmd/sandbox-init/vsock.go).                *)
THEOREM CaptureFindsStillGuest == Spec => []QuiescedIsStill
  <1>1. Init => IInv
    BY InitiallyInv
  <1>2. IInv /\ [Next]_vars => IInv'
    BY StepKeepsInv
  <1>3. IInv => QuiescedIsStill
    BY DEF IInv, TypeOK, BarrierInv, Still, QuiescedIsStill
  <1> QED
    BY <1>1, <1>2, <1>3, PTL DEF Spec
=============================================================================

------------------------- MODULE RuntimeOwnerProofs -------------------------
(***************************************************************************)
(* Proofs about RuntimeOwner, for any set of operations and any number of  *)
(* disks.                                                                  *)
(***************************************************************************)
EXTENDS RuntimeOwner, TLAPS

Closing == state \in {"closing", "closed"}
PreSpawn == {"idle", "entry", "setup", "spawn"}
PostReap == {"joinStop", "joinWork", "joinOps", "finish", "finishOps", "cleanup", "done"}
Stopped == {"joinWork", "joinOps", "finishOps", "cleanup", "done"}

(* At most one signal per source, and none without a cause. *)
SignalInv ==
    /\ signals + forwarded <= (IF startCtx THEN 1 ELSE 0) + (IF closeRequested THEN 1 ELSE 0)
    /\ (signals > 0 \/ shutdown) => (closeRequested \/ (startCtx /\ start # "ok"))
    /\ closeRequested => Closing

(* CH exists only between the spawn and the reap. *)
EngineInv ==
    /\ engine \in PreSpawn => ch = "none"
    /\ engine \in PostReap => ch \in {"none", "reaped"}
    /\ engine \in Stopped => Closing
    /\ engine = "done" <=> exit # "none"
    /\ engine = "idle" => start \in {"prepare", "err"}
    /\ start = "prepare" => engine = "idle"
    /\ released => engine = "done" \/ (engine = "idle" /\ start = "err")
    /\ engine = "done" => released
    /\ start = "err" => released

(* Contexts are cancelled only once CH is gone, a fatal aside. *)
ContextInv ==
    /\ lifeCancelled => \/ ch = "reaped"
                        \/ engine \in PostReap
                        \/ engine = "idle" /\ start = "err"
    /\ backendsCancelled => \/ readFatal # "none"
                            \/ ch = "reaped"
                            \/ engine \in PostReap
    /\ readFatal # "none" => engine \notin {"idle", "entry"}

(* Ownership of workMu, of the disks and of the operations. *)
OwnershipInv ==
    /\ workMu = "launch" <=> launch = "prepare"
    /\ workMu = "cleanup" <=> engine = "cleanup"
    /\ launch # "idle" => start = "ok" /\ state \notin {"starting", "ready"}
    /\ launch = "idle" => disks = 0
    /\ released => disks = 0 /\ launch # "prepare"
    /\ start # "ok" => \A o \in Ops : ops[o] = "idle"
    /\ engine \in {"cleanup", "done"} => \A o \in Ops : ops[o] # "active"

(* The launch outcome. *)
OutcomeInv ==
    /\ launchSucceeded => /\ launchFailure = "none"
                          /\ handshake = "mux"
                          /\ state \notin {"starting", "ready", "launching"}
    /\ launch = "ok" => launchSucceeded
    /\ launch \in {"idle", "prepare", "fail", "closing", "err"} => ~launchSucceeded
    /\ launch = "fail" => launchFailure # "none"
    /\ launch \in {"closing", "err"} => Closing
    /\ launch = "err" => released
    /\ specPublished => launch \in {"wait", "decide", "fail", "closing", "ok", "err"}
    /\ notifier = "pending" => launch \in {"wait", "decide", "fail", "closing", "ok", "err"}

(* What the published result knows. *)
ResultInv ==
    /\ engine \in PreSpawn => handshake = "none"
    /\ ch = "none" => handshake = "none"
    /\ engine \in PostReap => handshake \notin {"sent", "acked", "bridged"}
    /\ engine \in PostReap /\ readFatal # "none" => engineErr
    /\ exit # "none" => state = "closed"
    /\ ExitTellsFailure

IInv == TypeOK /\ SignalInv /\ EngineInv /\ ContextInv /\ OwnershipInv
               /\ OutcomeInv /\ ResultInv

-----------------------------------------------------------------------------
(* The definitions every leaf below needs. *)
USE DEF IInv, States, Causes

(* The initial state satisfies the inductive invariant. *)
LEMMA OwnerInit == Init => IInv
  <1> SUFFICES ASSUME Init PROVE IInv
    OBVIOUS
  <1>1. OwnerTypes
    BY ZenonT(30) DEF Init, OwnerTypes
  <1>2. SignalTypes
    <2>1. signals = 0 /\ forwarded = 0 /\ shutdown = FALSE
      BY DEF Init
    <2>2. signals \in 0..2 /\ forwarded \in 0..2
      BY <2>1
    <2>3. shutdown \in BOOLEAN
      BY ZenonT(30), <2>1
    <2> QED BY <2>2, <2>3 DEF SignalTypes
  <1>3. EngineTypes
    BY ZenonT(30) DEF Init, EngineTypes
  <1>4. LaunchTypes
    <2>1. disks = 0 /\ ops = [o \in Ops |-> "idle"]
      BY DEF Init
    <2>2. disks \in 0..NDisks /\ ops \in [Ops -> {"idle", "active", "done"}]
      BY <2>1, OwnerAssumption
    <2>3. /\ launch = "idle" /\ launchCtx = FALSE /\ workMu = "free"
          /\ specPublished = FALSE /\ handshake = "none" /\ app = {}
          /\ fact = "none" /\ launchFailure = "none" /\ launchSucceeded = FALSE
          /\ notifier = "idle"
      BY DEF Init
    <2> QED BY ZenonT(30), <2>2, <2>3 DEF LaunchTypes
  <1>5. SignalInv /\ EngineInv /\ ContextInv /\ OutcomeInv /\ ResultInv
    BY DEF Init, SignalInv, EngineInv, ContextInv, OutcomeInv, ResultInv,
           ExitTellsFailure, Closing, PreSpawn, PostReap, Stopped
  <1>6. OwnershipInv
    BY DEF Init, OwnershipInv
  <1> QED BY <1>1, <1>2, <1>3, <1>4, <1>5, <1>6 DEF TypeOK

(* A step of the Start caller preserves the invariant. *)
LEMMA StartStepPreserves == IInv /\ StartStep => IInv'
  <1> SUFFICES ASSUME IInv, StartStep PROVE IInv'
    OBVIOUS
  <1>1. CASE StartPrepareFails
    <2> USE <1>1 DEF StartPrepareFails, sigVars, engVars, chVars, ctxVars,
                  launchVars, factVars, constVars
    <2>1. TypeOK'
      BY DEF TypeOK, OwnerTypes, SignalTypes, EngineTypes, LaunchTypes,
             SignalInv
    <2>2. SignalInv' /\ EngineInv' /\ ContextInv'
      BY DEF TypeOK, OwnerTypes, SignalTypes, SignalInv, Closing, EngineTypes,
             EngineInv, ContextInv, ResultInv, PreSpawn, PostReap, Stopped
    <2>3. OwnershipInv' /\ OutcomeInv'
      BY DEF TypeOK, OwnerTypes, SignalTypes, EngineTypes, LaunchTypes,
             SignalInv, EngineInv, OwnershipInv, Closing, PreSpawn, PostReap,
             Stopped, OutcomeInv, ResultInv
    <2>4. ResultInv'
      BY DEF TypeOK, OwnerTypes, EngineTypes, LaunchTypes, EngineInv,
             OwnershipInv, OutcomeInv, ResultInv, ExitTellsFailure, Closing,
             PreSpawn, PostReap, Stopped
    <2> QED BY <2>1, <2>2, <2>3, <2>4
  <1>2. CASE StartEngine
    <2> USE <1>2 DEF StartEngine, sigVars, chVars, ctxVars, launchVars, factVars,
                  ownVars, constVars, endVars
    <2>1. TypeOK'
      BY DEF TypeOK, OwnerTypes, SignalTypes, EngineTypes, LaunchTypes,
             SignalInv
    <2>2. SignalInv' /\ EngineInv' /\ ContextInv'
      BY DEF TypeOK, OwnerTypes, SignalTypes, SignalInv, Closing, EngineTypes,
             EngineInv, ContextInv, ResultInv, PreSpawn, PostReap, Stopped
    <2>3. OwnershipInv' /\ OutcomeInv'
      BY DEF TypeOK, OwnerTypes, SignalTypes, EngineTypes, LaunchTypes,
             SignalInv, EngineInv, OwnershipInv, Closing, PreSpawn, PostReap,
             Stopped, OutcomeInv, ResultInv
    <2>4. ResultInv'
      BY DEF TypeOK, OwnerTypes, EngineTypes, LaunchTypes, EngineInv,
             OwnershipInv, OutcomeInv, ResultInv, ExitTellsFailure, Closing,
             PreSpawn, PostReap, Stopped
    <2> QED BY <2>1, <2>2, <2>3, <2>4
  <1>3. CASE StartObservesReady
    <2> USE <1>3 DEF StartObservesReady, sigVars, engVars, chVars, ctxVars,
                  launchVars, factVars, ownVars, constVars, endVars
    <2>1. TypeOK'
      BY DEF TypeOK, OwnerTypes, SignalTypes, EngineTypes, LaunchTypes,
             SignalInv
    <2>2. SignalInv' /\ EngineInv' /\ ContextInv'
      BY DEF TypeOK, OwnerTypes, SignalTypes, SignalInv, Closing, EngineTypes,
             EngineInv, ContextInv, ResultInv, PreSpawn, PostReap, Stopped
    <2>3. OwnershipInv' /\ OutcomeInv'
      BY DEF TypeOK, OwnerTypes, SignalTypes, EngineTypes, LaunchTypes,
             SignalInv, EngineInv, OwnershipInv, Closing, PreSpawn, PostReap,
             Stopped, OutcomeInv, ResultInv
    <2>4. ResultInv'
      BY DEF TypeOK, OwnerTypes, EngineTypes, LaunchTypes, EngineInv,
             OwnershipInv, OutcomeInv, ResultInv, ExitTellsFailure, Closing,
             PreSpawn, PostReap, Stopped
    <2> QED BY <2>1, <2>2, <2>3, <2>4
  <1>4. CASE StartDecide
    <2> USE <1>4 DEF StartDecide, RequestClose, engVars, chVars, ctxVars,
                  launchVars, factVars, constVars, endVars
    <2>1. OwnerTypes'
      BY ZenonT(30) DEF TypeOK, OwnerTypes
    <2>2. SignalTypes'
      BY DEF TypeOK, OwnerTypes, SignalTypes, SignalInv
    <2>3. EngineTypes'
      BY DEF TypeOK, EngineTypes
    <2>4. LaunchTypes'
      BY OwnerAssumption DEF TypeOK, LaunchTypes
    <2>5. SignalInv'
      BY DEF TypeOK, OwnerTypes, SignalTypes, SignalInv, Closing
    <2>6. EngineInv'
      BY DEF TypeOK, OwnerTypes, EngineTypes, EngineInv, ContextInv, ResultInv,
             Closing, PreSpawn, PostReap, Stopped
    <2>7. ContextInv'
      BY DEF TypeOK, OwnerTypes, EngineTypes, EngineInv, ContextInv, PreSpawn,
             PostReap, Stopped
    <2>8. OwnershipInv'
      BY DEF TypeOK, OwnerTypes, SignalTypes, EngineTypes, LaunchTypes,
             SignalInv, EngineInv, OwnershipInv, Closing, PreSpawn, PostReap,
             Stopped
    <2>9. OutcomeInv'
      BY DEF TypeOK, OwnerTypes, LaunchTypes, SignalInv, EngineInv,
             OwnershipInv, OutcomeInv, ResultInv, Closing, Stopped
    <2>10. ResultInv'
      BY DEF TypeOK, OwnerTypes, EngineTypes, LaunchTypes, EngineInv,
             OwnershipInv, OutcomeInv, ResultInv, ExitTellsFailure, Closing,
             PreSpawn, PostReap, Stopped
    <2> QED BY <2>1, <2>2, <2>3, <2>4, <2>5, <2>6, <2>7, <2>8, <2>9, <2>10 DEF TypeOK
  <1>5. CASE StartInterrupted
    <2> USE <1>5 DEF StartInterrupted, RequestClose, engVars, chVars, ctxVars,
                  launchVars, factVars, constVars, endVars
    <2>1. TypeOK'
      BY DEF TypeOK, OwnerTypes, SignalTypes, EngineTypes, LaunchTypes,
             SignalInv
    <2>2. SignalInv' /\ EngineInv' /\ ContextInv'
      BY DEF TypeOK, OwnerTypes, SignalTypes, SignalInv, Closing, EngineTypes,
             EngineInv, ContextInv, ResultInv, PreSpawn, PostReap, Stopped
    <2>3. OwnershipInv' /\ OutcomeInv'
      BY DEF TypeOK, OwnerTypes, SignalTypes, EngineTypes, LaunchTypes,
             SignalInv, EngineInv, OwnershipInv, Closing, PreSpawn, PostReap,
             Stopped, OutcomeInv, ResultInv
    <2>4. ResultInv'
      BY DEF TypeOK, OwnerTypes, EngineTypes, LaunchTypes, EngineInv,
             OwnershipInv, OutcomeInv, ResultInv, ExitTellsFailure, Closing,
             PreSpawn, PostReap, Stopped
    <2> QED BY <2>1, <2>2, <2>3, <2>4
  <1>6. CASE StartReturnsError
    <2> USE <1>6 DEF StartReturnsError, sigVars, engVars, chVars, ctxVars,
                  launchVars, factVars, ownVars, constVars, endVars
    <2>1. TypeOK'
      BY DEF TypeOK, OwnerTypes, SignalTypes, EngineTypes, LaunchTypes,
             SignalInv
    <2>2. SignalInv' /\ EngineInv' /\ ContextInv'
      BY DEF TypeOK, OwnerTypes, SignalTypes, SignalInv, Closing, EngineTypes,
             EngineInv, ContextInv, ResultInv, PreSpawn, PostReap, Stopped
    <2>3. OwnershipInv' /\ OutcomeInv'
      BY DEF TypeOK, OwnerTypes, SignalTypes, EngineTypes, LaunchTypes,
             SignalInv, EngineInv, OwnershipInv, Closing, PreSpawn, PostReap,
             Stopped, OutcomeInv, ResultInv
    <2>4. ResultInv'
      BY DEF TypeOK, OwnerTypes, EngineTypes, LaunchTypes, EngineInv,
             OwnershipInv, OutcomeInv, ResultInv, ExitTellsFailure, Closing,
             PreSpawn, PostReap, Stopped
    <2> QED BY <2>1, <2>2, <2>3, <2>4
  <1> QED BY <1>1, <1>2, <1>3, <1>4, <1>5, <1>6 DEF StartStep

(* A step of the engine goroutine preserves the invariant. *)
LEMMA EngineStepPreserves == IInv /\ EngineStep => IInv'
  <1> SUFFICES ASSUME IInv, EngineStep PROVE IInv'
    OBVIOUS
  <1>1. CASE EngineSetup
    <2> USE <1>1 DEF EngineSetup, LifeDone, EngineMoves, sigVars, chVars,
                  launchVars, factVars, constVars, endVars
    <2>1. OwnerTypes'
      BY DEF TypeOK, OwnerTypes
    <2>2. SignalTypes'
      BY DEF TypeOK, OwnerTypes, SignalTypes, SignalInv
    <2>3. EngineTypes'
      <3>1. engineErr' \in BOOLEAN /\ backendsCancelled' \in BOOLEAN
        BY ZenonT(30) DEF TypeOK, EngineTypes
      <3> QED BY <3>1 DEF TypeOK, EngineTypes
    <2>4. LaunchTypes'
      BY OwnerAssumption DEF TypeOK, LaunchTypes
    <2>5. SignalInv'
      BY DEF TypeOK, OwnerTypes, SignalTypes, SignalInv, Closing
    <2>6. EngineInv'
      BY DEF TypeOK, OwnerTypes, EngineTypes, EngineInv, ContextInv, ResultInv,
             Closing, PreSpawn, PostReap, Stopped
    <2>7. ContextInv'
      BY DEF TypeOK, OwnerTypes, EngineTypes, EngineInv, ContextInv, PreSpawn,
             PostReap, Stopped
    <2>8. OwnershipInv'
      BY DEF TypeOK, OwnerTypes, SignalTypes, EngineTypes, LaunchTypes,
             SignalInv, EngineInv, OwnershipInv, Closing, PreSpawn, PostReap,
             Stopped
    <2>9. OutcomeInv'
      BY DEF TypeOK, OwnerTypes, LaunchTypes, SignalInv, EngineInv,
             OwnershipInv, OutcomeInv, ResultInv, Closing, Stopped
    <2>10. ResultInv'
      BY DEF TypeOK, OwnerTypes, EngineTypes, LaunchTypes, EngineInv,
             OwnershipInv, OutcomeInv, ResultInv, ExitTellsFailure, Closing,
             PreSpawn, PostReap, Stopped
    <2> QED BY <2>1, <2>2, <2>3, <2>4, <2>5, <2>6, <2>7, <2>8, <2>9, <2>10 DEF TypeOK
  <1>2. CASE EngineSpawn
    <2> USE <1>2 DEF EngineSpawn, EngineMoves, sigVars, launchVars, factVars,
                  constVars, endVars
    <2>1. OwnerTypes'
      BY DEF TypeOK, OwnerTypes
    <2>2. SignalTypes'
      BY DEF TypeOK, OwnerTypes, SignalTypes, SignalInv
    <2>3. EngineTypes'
      <3>1. engineErr' \in BOOLEAN /\ backendsCancelled' \in BOOLEAN
        BY ZenonT(30) DEF TypeOK, EngineTypes
      <3> QED BY <3>1 DEF TypeOK, EngineTypes
    <2>4. LaunchTypes'
      BY OwnerAssumption DEF TypeOK, LaunchTypes
    <2>5. SignalInv'
      BY DEF TypeOK, OwnerTypes, SignalTypes, SignalInv, Closing
    <2>6. EngineInv'
      BY DEF TypeOK, OwnerTypes, EngineTypes, EngineInv, ContextInv, ResultInv,
             Closing, PreSpawn, PostReap, Stopped
    <2>7. ContextInv'
      BY DEF TypeOK, OwnerTypes, EngineTypes, EngineInv, ContextInv, PreSpawn,
             PostReap, Stopped
    <2>8. OwnershipInv'
      BY DEF TypeOK, OwnerTypes, SignalTypes, EngineTypes, LaunchTypes,
             SignalInv, EngineInv, OwnershipInv, Closing, PreSpawn, PostReap,
             Stopped
    <2>9. OutcomeInv'
      BY DEF TypeOK, OwnerTypes, LaunchTypes, SignalInv, EngineInv,
             OwnershipInv, OutcomeInv, ResultInv, Closing, Stopped
    <2>10. ResultInv'
      BY DEF TypeOK, OwnerTypes, EngineTypes, LaunchTypes, EngineInv,
             OwnershipInv, OutcomeInv, ResultInv, ExitTellsFailure, Closing,
             PreSpawn, PostReap, Stopped
    <2> QED BY <2>1, <2>2, <2>3, <2>4, <2>5, <2>6, <2>7, <2>8, <2>9, <2>10 DEF TypeOK
  <1>3. CASE EnginePublishProcess
    <2> USE <1>3 DEF EnginePublishProcess, EngineMoves, sigVars, chVars, ctxVars,
                  launchVars, factVars, constVars, endVars
    <2>1. TypeOK'
      BY DEF TypeOK, OwnerTypes, SignalTypes, EngineTypes, LaunchTypes,
             SignalInv
    <2>2. SignalInv' /\ EngineInv' /\ ContextInv'
      BY DEF TypeOK, OwnerTypes, SignalTypes, SignalInv, Closing, EngineTypes,
             EngineInv, ContextInv, ResultInv, PreSpawn, PostReap, Stopped
    <2>3. OwnershipInv' /\ OutcomeInv'
      BY DEF TypeOK, OwnerTypes, SignalTypes, EngineTypes, LaunchTypes,
             SignalInv, EngineInv, OwnershipInv, Closing, PreSpawn, PostReap,
             Stopped, OutcomeInv, ResultInv
    <2>4. ResultInv'
      BY DEF TypeOK, OwnerTypes, EngineTypes, LaunchTypes, EngineInv,
             OwnershipInv, OutcomeInv, ResultInv, ExitTellsFailure, Closing,
             PreSpawn, PostReap, Stopped
    <2> QED BY <2>1, <2>2, <2>3, <2>4
  <1>4. CASE EngineRecheckFatal
    <2> USE <1>4 DEF EngineRecheckFatal, EngineMoves, sigVars, ctxVars,
                  launchVars, factVars, constVars, endVars
    <2>1. TypeOK'
      BY DEF TypeOK, OwnerTypes, SignalTypes, EngineTypes, LaunchTypes,
             SignalInv
    <2>2. SignalInv' /\ EngineInv' /\ ContextInv'
      BY DEF TypeOK, OwnerTypes, SignalTypes, SignalInv, Closing, EngineTypes,
             EngineInv, ContextInv, ResultInv, PreSpawn, PostReap, Stopped
    <2>3. OwnershipInv' /\ OutcomeInv'
      BY DEF TypeOK, OwnerTypes, SignalTypes, EngineTypes, LaunchTypes,
             SignalInv, EngineInv, OwnershipInv, Closing, PreSpawn, PostReap,
             Stopped, OutcomeInv, ResultInv
    <2>4. ResultInv'
      BY DEF TypeOK, OwnerTypes, EngineTypes, LaunchTypes, EngineInv,
             OwnershipInv, OutcomeInv, ResultInv, ExitTellsFailure, Closing,
             PreSpawn, PostReap, Stopped
    <2> QED BY <2>1, <2>2, <2>3, <2>4
  <1>5. CASE EnginePostSpawnBarrier
    <2> USE <1>5 DEF EnginePostSpawnBarrier, LifeDone, PostSpawnDone, EngineMoves,
                  sigVars, chVars, ctxVars, launchVars, factVars, constVars,
                  endVars
    <2>1. TypeOK'
      BY DEF TypeOK, OwnerTypes, SignalTypes, EngineTypes, LaunchTypes,
             SignalInv
    <2>2. SignalInv' /\ EngineInv' /\ ContextInv'
      BY DEF TypeOK, OwnerTypes, SignalTypes, SignalInv, Closing, EngineTypes,
             EngineInv, ContextInv, ResultInv, PreSpawn, PostReap, Stopped
    <2>3. OwnershipInv' /\ OutcomeInv'
      BY DEF TypeOK, OwnerTypes, SignalTypes, EngineTypes, LaunchTypes,
             SignalInv, EngineInv, OwnershipInv, Closing, PreSpawn, PostReap,
             Stopped, OutcomeInv, ResultInv
    <2>4. ResultInv'
      BY DEF TypeOK, OwnerTypes, EngineTypes, LaunchTypes, EngineInv,
             OwnershipInv, OutcomeInv, ResultInv, ExitTellsFailure, Closing,
             PreSpawn, PostReap, Stopped
    <2> QED BY <2>1, <2>2, <2>3, <2>4
  <1>6. CASE EngineMarkReady
    <2> USE <1>6 DEF EngineMarkReady, EngineMoves, sigVars, chVars, ctxVars,
                  launchVars, factVars, constVars, endVars
    <2>1. OwnerTypes'
      BY DEF TypeOK, OwnerTypes
    <2>2. SignalTypes'
      BY DEF TypeOK, OwnerTypes, SignalTypes, SignalInv
    <2>3. EngineTypes'
      BY ZenonT(30) DEF TypeOK, EngineTypes
    <2>4. LaunchTypes'
      BY OwnerAssumption DEF TypeOK, LaunchTypes
    <2>5. SignalInv'
      BY DEF TypeOK, OwnerTypes, SignalTypes, SignalInv, Closing
    <2>6. EngineInv'
      BY DEF TypeOK, OwnerTypes, EngineTypes, EngineInv, ContextInv, ResultInv,
             Closing, PreSpawn, PostReap, Stopped
    <2>7. ContextInv'
      BY DEF TypeOK, OwnerTypes, EngineTypes, EngineInv, ContextInv, PreSpawn,
             PostReap, Stopped
    <2>8. OwnershipInv'
      BY DEF TypeOK, OwnerTypes, SignalTypes, EngineTypes, LaunchTypes,
             SignalInv, EngineInv, OwnershipInv, Closing, PreSpawn, PostReap,
             Stopped
    <2>9. OutcomeInv'
      BY DEF TypeOK, OwnerTypes, LaunchTypes, SignalInv, EngineInv,
             OwnershipInv, OutcomeInv, ResultInv, Closing, Stopped
    <2>10. ResultInv'
      BY DEF TypeOK, OwnerTypes, EngineTypes, LaunchTypes, EngineInv,
             OwnershipInv, OutcomeInv, ResultInv, ExitTellsFailure, Closing,
             PreSpawn, PostReap, Stopped
    <2> QED BY <2>1, <2>2, <2>3, <2>4, <2>5, <2>6, <2>7, <2>8, <2>9, <2>10 DEF TypeOK
  <1>7. CASE EnginePostSpawnFails
    <2> USE <1>7 DEF EnginePostSpawnFails, LifeDone, PostSpawnDone, EngineMoves,
                  sigVars, ctxVars, launchVars, factVars, constVars, endVars
    <2>1. OwnerTypes'
      BY DEF TypeOK, OwnerTypes
    <2>2. SignalTypes'
      BY DEF TypeOK, OwnerTypes, SignalTypes, SignalInv
    <2>3. EngineTypes'
      BY ZenonT(30) DEF TypeOK, EngineTypes
    <2>4. LaunchTypes'
      BY OwnerAssumption DEF TypeOK, LaunchTypes
    <2>5. SignalInv'
      BY DEF TypeOK, OwnerTypes, SignalTypes, SignalInv, Closing
    <2>6. EngineInv'
      BY DEF TypeOK, OwnerTypes, EngineTypes, EngineInv, ContextInv, ResultInv,
             Closing, PreSpawn, PostReap, Stopped
    <2>7. ContextInv'
      BY DEF TypeOK, OwnerTypes, EngineTypes, EngineInv, ContextInv, PreSpawn,
             PostReap, Stopped
    <2>8. OwnershipInv'
      BY DEF TypeOK, OwnerTypes, SignalTypes, EngineTypes, LaunchTypes,
             SignalInv, EngineInv, OwnershipInv, Closing, PreSpawn, PostReap,
             Stopped
    <2>9. OutcomeInv'
      BY DEF TypeOK, OwnerTypes, LaunchTypes, SignalInv, EngineInv,
             OwnershipInv, OutcomeInv, ResultInv, Closing, Stopped
    <2>10. ResultInv'
      BY DEF TypeOK, OwnerTypes, EngineTypes, LaunchTypes, EngineInv,
             OwnershipInv, OutcomeInv, ResultInv, ExitTellsFailure, Closing,
             PreSpawn, PostReap, Stopped
    <2> QED BY <2>1, <2>2, <2>3, <2>4, <2>5, <2>6, <2>7, <2>8, <2>9, <2>10 DEF TypeOK
  <1>8. CASE EngineSignal
    <2> USE <1>8 DEF EngineSignal, ctxVars, startVars, launchVars, factVars,
                  ownVars, constVars, endVars
    <2>1. TypeOK'
      BY DEF TypeOK, OwnerTypes, SignalTypes, EngineTypes, LaunchTypes,
             SignalInv
    <2>2. SignalInv' /\ EngineInv' /\ ContextInv'
      BY DEF TypeOK, OwnerTypes, SignalTypes, SignalInv, Closing, EngineTypes,
             EngineInv, ContextInv, ResultInv, PreSpawn, PostReap, Stopped
    <2>3. OwnershipInv' /\ OutcomeInv'
      BY DEF TypeOK, OwnerTypes, SignalTypes, EngineTypes, LaunchTypes,
             SignalInv, EngineInv, OwnershipInv, Closing, PreSpawn, PostReap,
             Stopped, OutcomeInv, ResultInv
    <2>4. ResultInv'
      BY DEF TypeOK, OwnerTypes, EngineTypes, LaunchTypes, EngineInv,
             OwnershipInv, OutcomeInv, ResultInv, ExitTellsFailure, Closing,
             PreSpawn, PostReap, Stopped
    <2> QED BY <2>1, <2>2, <2>3, <2>4
  <1>9. CASE EngineGraceExpires
    <2> USE <1>9 DEF EngineGraceExpires, EngineMoves, sigVars, engVars, ctxVars,
                  launchVars, factVars, constVars, endVars
    <2>1. TypeOK'
      BY DEF TypeOK, OwnerTypes, SignalTypes, EngineTypes, LaunchTypes,
             SignalInv
    <2>2. SignalInv' /\ EngineInv' /\ ContextInv'
      BY DEF TypeOK, OwnerTypes, SignalTypes, SignalInv, Closing, EngineTypes,
             EngineInv, ContextInv, ResultInv, PreSpawn, PostReap, Stopped
    <2>3. OwnershipInv' /\ OutcomeInv'
      BY ZenonT(30) DEF TypeOK, OwnerTypes, SignalTypes, EngineTypes, LaunchTypes,
             SignalInv, EngineInv, OwnershipInv, Closing, PreSpawn, PostReap,
             Stopped, OutcomeInv, ResultInv
    <2>4. ResultInv'
      BY ZenonT(30) DEF TypeOK, OwnerTypes, EngineTypes, LaunchTypes, EngineInv,
             OwnershipInv, OutcomeInv, ResultInv, ExitTellsFailure, Closing,
             PreSpawn, PostReap, Stopped
    <2> QED BY <2>1, <2>2, <2>3, <2>4
  <1>10. CASE EngineReaped
    <2> USE <1>10 DEF EngineReaped, EngineMoves, sigVars, chVars, launchVars,
                  factVars, constVars, endVars
    <2>1. OwnerTypes'
      BY DEF TypeOK, OwnerTypes
    <2>2. SignalTypes'
      BY DEF TypeOK, OwnerTypes, SignalTypes, SignalInv
    <2>3. EngineTypes'
      BY DEF TypeOK, EngineTypes
    <2>4. LaunchTypes'
      BY OwnerAssumption DEF TypeOK, LaunchTypes
    <2>5. SignalInv'
      BY DEF TypeOK, OwnerTypes, SignalTypes, SignalInv, Closing
    <2>6. EngineInv'
      BY DEF TypeOK, OwnerTypes, EngineTypes, EngineInv, ContextInv, ResultInv,
             Closing, PreSpawn, PostReap, Stopped
    <2>7. ContextInv'
      BY DEF TypeOK, OwnerTypes, EngineTypes, EngineInv, ContextInv, PreSpawn,
             PostReap, Stopped
    <2>8. OwnershipInv'
      BY DEF TypeOK, OwnerTypes, SignalTypes, EngineTypes, LaunchTypes,
             SignalInv, EngineInv, OwnershipInv, Closing, PreSpawn, PostReap,
             Stopped
    <2>9. OutcomeInv'
      BY ZenonT(30) DEF TypeOK, OwnerTypes, LaunchTypes, SignalInv, EngineInv,
             OwnershipInv, OutcomeInv, ResultInv, Closing, Stopped
    <2>10. ResultInv'
      BY ZenonT(30) DEF TypeOK, OwnerTypes, EngineTypes, LaunchTypes, EngineInv,
             OwnershipInv, OutcomeInv, ResultInv, ExitTellsFailure, Closing,
             PreSpawn, PostReap, Stopped
    <2> QED BY <2>1, <2>2, <2>3, <2>4, <2>5, <2>6, <2>7, <2>8, <2>9, <2>10 DEF TypeOK
  <1>11. CASE EngineJoin
    <2> USE <1>11 DEF EngineJoin, OpsDrained, WorkMuFree, MarkExiting, EngineMoves,
                  sigVars, chVars, ctxVars, launchVars, factVars, constVars,
                  endVars
    <2>1. OwnerTypes'
      BY DEF TypeOK, OwnerTypes
    <2>2. SignalTypes'
      BY DEF TypeOK, OwnerTypes, SignalTypes, SignalInv
    <2>3. EngineTypes'
      BY DEF TypeOK, EngineTypes
    <2>4. LaunchTypes'
      BY OwnerAssumption DEF TypeOK, LaunchTypes
    <2>5. SignalInv'
      BY DEF TypeOK, OwnerTypes, SignalTypes, SignalInv, Closing
    <2>6. EngineInv'
      BY DEF TypeOK, OwnerTypes, EngineTypes, EngineInv, ContextInv, ResultInv,
             Closing, PreSpawn, PostReap, Stopped
    <2>7. ContextInv'
      BY DEF TypeOK, OwnerTypes, EngineTypes, EngineInv, ContextInv, PreSpawn,
             PostReap, Stopped
    <2>8. OwnershipInv'
      BY ZenonT(30) DEF TypeOK, OwnerTypes, SignalTypes, EngineTypes, LaunchTypes,
             SignalInv, EngineInv, OwnershipInv, Closing, PreSpawn, PostReap,
             Stopped
    <2>9. OutcomeInv'
      BY ZenonT(30) DEF TypeOK, OwnerTypes, LaunchTypes, SignalInv, EngineInv,
             OwnershipInv, OutcomeInv, ResultInv, Closing, Stopped
    <2>10. ResultInv'
      BY ZenonT(30) DEF TypeOK, OwnerTypes, EngineTypes, LaunchTypes, EngineInv,
             OwnershipInv, OutcomeInv, ResultInv, ExitTellsFailure, Closing,
             PreSpawn, PostReap, Stopped
    <2> QED BY <2>1, <2>2, <2>3, <2>4, <2>5, <2>6, <2>7, <2>8, <2>9, <2>10 DEF TypeOK
  <1>12. CASE EngineCleanup
    <2> USE <1>12 DEF EngineCleanup, sigVars, chVars, ctxVars, startVars, factVars,
                  constVars
    <2>1. OwnerTypes'
      BY DEF TypeOK, OwnerTypes
    <2>2. SignalTypes'
      BY DEF TypeOK, OwnerTypes, SignalTypes, SignalInv
    <2>3. EngineTypes'
      BY DEF TypeOK, EngineTypes
    <2>4. LaunchTypes'
      BY OwnerAssumption DEF TypeOK, LaunchTypes
    <2>5. SignalInv'
      BY DEF TypeOK, OwnerTypes, SignalTypes, SignalInv, Closing
    <2>6. EngineInv'
      BY DEF TypeOK, OwnerTypes, EngineTypes, EngineInv, ContextInv, ResultInv,
             Closing, PreSpawn, PostReap, Stopped
    <2>7. ContextInv'
      BY DEF TypeOK, OwnerTypes, EngineTypes, EngineInv, ContextInv, PreSpawn,
             PostReap, Stopped
    <2>8. OwnershipInv'
      BY ZenonT(30) DEF TypeOK, OwnerTypes, SignalTypes, EngineTypes, LaunchTypes,
             SignalInv, EngineInv, OwnershipInv, Closing, PreSpawn, PostReap,
             Stopped
    <2>9. OutcomeInv'
      BY ZenonT(30) DEF TypeOK, OwnerTypes, LaunchTypes, SignalInv, EngineInv,
             OwnershipInv, OutcomeInv, ResultInv, Closing, Stopped
    <2>10. ResultInv'
      BY ZenonT(30) DEF TypeOK, OwnerTypes, EngineTypes, LaunchTypes, EngineInv,
             OwnershipInv, OutcomeInv, ResultInv, ExitTellsFailure, Closing,
             PreSpawn, PostReap, Stopped
    <2> QED BY <2>1, <2>2, <2>3, <2>4, <2>5, <2>6, <2>7, <2>8, <2>9, <2>10 DEF TypeOK
  <1> QED BY <1>1, <1>2, <1>3, <1>4, <1>5, <1>6, <1>7, <1>8, <1>9, <1>10,
             <1>11, <1>12 DEF EngineStep

(* A step of the Launch caller preserves the invariant. *)
LEMMA LaunchStepPreserves == IInv /\ LaunchStep => IInv'
  <1> SUFFICES ASSUME IInv, LaunchStep PROVE IInv'
    OBVIOUS
  <1>1. CASE LaunchOpenDisk
    <2> USE <1>1 DEF LaunchOpenDisk, LaunchMoves, engVars, chVars, ctxVars,
                  startVars, constVars, endVars
    <2>1. OwnerTypes'
      BY DEF TypeOK, OwnerTypes
    <2>2. SignalTypes'
      BY DEF TypeOK, OwnerTypes, SignalTypes, SignalInv
    <2>3. EngineTypes'
      BY DEF TypeOK, EngineTypes
    <2>4. LaunchTypes'
      BY OwnerAssumption DEF TypeOK, LaunchTypes
    <2>5. SignalInv'
      BY DEF TypeOK, OwnerTypes, SignalTypes, SignalInv, Closing
    <2>6. EngineInv'
      BY ZenonT(30) DEF TypeOK, OwnerTypes, EngineTypes, EngineInv, ContextInv, ResultInv,
             Closing, PreSpawn, PostReap, Stopped
    <2>7. ContextInv'
      BY ZenonT(30) DEF TypeOK, OwnerTypes, EngineTypes, EngineInv, ContextInv, PreSpawn,
             PostReap, Stopped
    <2>8. OwnershipInv'
      BY ZenonT(30) DEF TypeOK, OwnerTypes, SignalTypes, EngineTypes, LaunchTypes,
             SignalInv, EngineInv, OwnershipInv, Closing, PreSpawn, PostReap,
             Stopped
    <2>9. OutcomeInv'
      BY ZenonT(30) DEF TypeOK, OwnerTypes, LaunchTypes, SignalInv, EngineInv,
             OwnershipInv, OutcomeInv, ResultInv, Closing, Stopped
    <2>10. ResultInv'
      BY ZenonT(30) DEF TypeOK, OwnerTypes, EngineTypes, LaunchTypes, EngineInv,
             OwnershipInv, OutcomeInv, ResultInv, ExitTellsFailure, Closing,
             PreSpawn, PostReap, Stopped
    <2> QED BY <2>1, <2>2, <2>3, <2>4, <2>5, <2>6, <2>7, <2>8, <2>9, <2>10 DEF TypeOK
  <1>2. CASE LaunchPrepareFails
    <2> USE <1>2 DEF LaunchPrepareFails, RequestClose, LaunchMoves, engVars,
                  chVars, ctxVars, startVars, constVars, endVars
    <2>1. TypeOK'
      BY DEF TypeOK, OwnerTypes, SignalTypes, EngineTypes, LaunchTypes,
             SignalInv
    <2>2. SignalInv' /\ EngineInv' /\ ContextInv'
      BY DEF TypeOK, OwnerTypes, SignalTypes, SignalInv, Closing, EngineTypes,
             EngineInv, ContextInv, ResultInv, PreSpawn, PostReap, Stopped
    <2>3. OwnershipInv' /\ OutcomeInv'
      BY ZenonT(30) DEF TypeOK, OwnerTypes, SignalTypes, EngineTypes, LaunchTypes,
             SignalInv, EngineInv, OwnershipInv, Closing, PreSpawn, PostReap,
             Stopped, OutcomeInv, ResultInv
    <2>4. ResultInv'
      BY ZenonT(30) DEF TypeOK, OwnerTypes, EngineTypes, LaunchTypes, EngineInv,
             OwnershipInv, OutcomeInv, ResultInv, ExitTellsFailure, Closing,
             PreSpawn, PostReap, Stopped
    <2> QED BY <2>1, <2>2, <2>3, <2>4
  <1>3. CASE LaunchInstall
    <2> USE <1>3 DEF LaunchInstall, LifeDone, LaunchCtxDone, RequestClose,
                  LaunchMoves, engVars, chVars, ctxVars, startVars, constVars,
                  endVars
    <2>1. OwnerTypes'
      BY DEF TypeOK, OwnerTypes
    <2>2. SignalTypes'
      BY DEF TypeOK, OwnerTypes, SignalTypes, SignalInv
    <2>3. EngineTypes'
      BY DEF TypeOK, EngineTypes
    <2>4. LaunchTypes'
      BY OwnerAssumption DEF TypeOK, LaunchTypes
    <2>5. SignalInv'
      BY DEF TypeOK, OwnerTypes, SignalTypes, SignalInv, Closing
    <2>6. EngineInv'
      BY ZenonT(30) DEF TypeOK, OwnerTypes, EngineTypes, EngineInv, ContextInv, ResultInv,
             Closing, PreSpawn, PostReap, Stopped
    <2>7. ContextInv'
      BY ZenonT(30) DEF TypeOK, OwnerTypes, EngineTypes, EngineInv, ContextInv, PreSpawn,
             PostReap, Stopped
    <2>8. OwnershipInv'
      BY ZenonT(30) DEF TypeOK, OwnerTypes, SignalTypes, EngineTypes, LaunchTypes,
             SignalInv, EngineInv, OwnershipInv, Closing, PreSpawn, PostReap,
             Stopped
    <2>9. OutcomeInv'
      BY ZenonT(30) DEF TypeOK, OwnerTypes, LaunchTypes, SignalInv, EngineInv,
             OwnershipInv, OutcomeInv, ResultInv, Closing, Stopped
    <2>10. ResultInv'
      BY ZenonT(30) DEF TypeOK, OwnerTypes, EngineTypes, LaunchTypes, EngineInv,
             OwnershipInv, OutcomeInv, ResultInv, ExitTellsFailure, Closing,
             PreSpawn, PostReap, Stopped
    <2> QED BY ZenonT(30), <2>1, <2>2, <2>3, <2>4, <2>5, <2>6, <2>7, <2>8, <2>9, <2>10 DEF TypeOK
  <1>4. CASE LaunchConfirm
    <2> USE <1>4 DEF LaunchConfirm, LaunchMoves, engVars, chVars, ctxVars,
                  startVars, constVars, endVars
    <2>1. TypeOK'
      BY DEF TypeOK, OwnerTypes, SignalTypes, EngineTypes, LaunchTypes,
             SignalInv
    <2>2. SignalInv' /\ EngineInv' /\ ContextInv'
      BY ZenonT(30) DEF TypeOK, OwnerTypes, SignalTypes, SignalInv, Closing, EngineTypes,
             EngineInv, ContextInv, ResultInv, PreSpawn, PostReap, Stopped
    <2>3. OwnershipInv' /\ OutcomeInv'
      BY ZenonT(30) DEF TypeOK, OwnerTypes, SignalTypes, EngineTypes, LaunchTypes,
             SignalInv, EngineInv, OwnershipInv, Closing, PreSpawn, PostReap,
             Stopped, OutcomeInv, ResultInv
    <2>4. ResultInv'
      BY DEF TypeOK, OwnerTypes, EngineTypes, LaunchTypes, EngineInv,
             OwnershipInv, OutcomeInv, ResultInv, ExitTellsFailure, Closing,
             PreSpawn, PostReap, Stopped
    <2> QED BY <2>1, <2>2, <2>3, <2>4
  <1>5. CASE LaunchSucceeds
    <2> USE <1>5 DEF LaunchSucceeds, LaunchMoves, engVars, chVars, ctxVars,
                  startVars, constVars, endVars
    <2>1. TypeOK'
      BY DEF TypeOK, OwnerTypes, SignalTypes, EngineTypes, LaunchTypes,
             SignalInv
    <2>2. SignalInv' /\ EngineInv' /\ ContextInv'
      BY DEF TypeOK, OwnerTypes, SignalTypes, SignalInv, Closing, EngineTypes,
             EngineInv, ContextInv, ResultInv, PreSpawn, PostReap, Stopped
    <2>3. OwnershipInv' /\ OutcomeInv'
      BY ZenonT(30) DEF TypeOK, OwnerTypes, SignalTypes, EngineTypes, LaunchTypes,
             SignalInv, EngineInv, OwnershipInv, Closing, PreSpawn, PostReap,
             Stopped, OutcomeInv, ResultInv
    <2>4. ResultInv'
      BY ZenonT(30) DEF TypeOK, OwnerTypes, EngineTypes, LaunchTypes, EngineInv,
             OwnershipInv, OutcomeInv, ResultInv, ExitTellsFailure, Closing,
             PreSpawn, PostReap, Stopped
    <2> QED BY <2>1, <2>2, <2>3, <2>4
  <1>6. CASE LaunchWaitEnds
    <2> USE <1>6 DEF LaunchWaitEnds, LifeDone, LaunchCtxDone, LaunchMoves,
                  engVars, chVars, ctxVars, startVars, constVars, endVars
    <2>1. TypeOK'
      BY DEF TypeOK, OwnerTypes, SignalTypes, EngineTypes, LaunchTypes,
             SignalInv
    <2>2. SignalInv' /\ EngineInv' /\ ContextInv'
      BY DEF TypeOK, OwnerTypes, SignalTypes, SignalInv, Closing, EngineTypes,
             EngineInv, ContextInv, ResultInv, PreSpawn, PostReap, Stopped
    <2>3. OwnershipInv' /\ OutcomeInv'
      BY DEF TypeOK, OwnerTypes, SignalTypes, EngineTypes, LaunchTypes,
             SignalInv, EngineInv, OwnershipInv, Closing, PreSpawn, PostReap,
             Stopped, OutcomeInv, ResultInv
    <2>4. ResultInv'
      BY DEF TypeOK, OwnerTypes, EngineTypes, LaunchTypes, EngineInv,
             OwnershipInv, OutcomeInv, ResultInv, ExitTellsFailure, Closing,
             PreSpawn, PostReap, Stopped
    <2> QED BY ZenonT(30), <2>1, <2>2, <2>3, <2>4
  <1>7. CASE LaunchDecide
    <2> USE <1>7 DEF LaunchDecide, LaunchMoves, engVars, chVars, ctxVars,
                  startVars, constVars, endVars
    <2>1. TypeOK'
      BY DEF TypeOK, OwnerTypes, SignalTypes, EngineTypes, LaunchTypes,
             SignalInv
    <2>2. SignalInv' /\ EngineInv' /\ ContextInv'
      BY DEF TypeOK, OwnerTypes, SignalTypes, SignalInv, Closing, EngineTypes,
             EngineInv, ContextInv, ResultInv, PreSpawn, PostReap, Stopped
    <2>3. OwnershipInv' /\ OutcomeInv'
      BY DEF TypeOK, OwnerTypes, SignalTypes, EngineTypes, LaunchTypes,
             SignalInv, EngineInv, OwnershipInv, Closing, PreSpawn, PostReap,
             Stopped, OutcomeInv, ResultInv
    <2>4. ResultInv'
      BY DEF TypeOK, OwnerTypes, EngineTypes, LaunchTypes, EngineInv,
             OwnershipInv, OutcomeInv, ResultInv, ExitTellsFailure, Closing,
             PreSpawn, PostReap, Stopped
    <2> QED BY ZenonT(30), <2>1, <2>2, <2>3, <2>4
  <1>8. CASE LaunchFails
    <2> USE <1>8 DEF LaunchFails, RequestClose, LaunchMoves, engVars, chVars,
                  ctxVars, startVars, constVars, endVars
    <2>1. TypeOK'
      BY DEF TypeOK, OwnerTypes, SignalTypes, EngineTypes, LaunchTypes,
             SignalInv
    <2>2. SignalInv' /\ EngineInv' /\ ContextInv'
      BY DEF TypeOK, OwnerTypes, SignalTypes, SignalInv, Closing, EngineTypes,
             EngineInv, ContextInv, ResultInv, PreSpawn, PostReap, Stopped
    <2>3. OwnershipInv' /\ OutcomeInv'
      BY DEF TypeOK, OwnerTypes, SignalTypes, EngineTypes, LaunchTypes,
             SignalInv, EngineInv, OwnershipInv, Closing, PreSpawn, PostReap,
             Stopped, OutcomeInv, ResultInv
    <2>4. ResultInv'
      BY DEF TypeOK, OwnerTypes, EngineTypes, LaunchTypes, EngineInv,
             OwnershipInv, OutcomeInv, ResultInv, ExitTellsFailure, Closing,
             PreSpawn, PostReap, Stopped
    <2> QED BY ZenonT(30), <2>1, <2>2, <2>3, <2>4
  <1>9. CASE LaunchReturnsError
    <2> USE <1>9 DEF LaunchReturnsError, LaunchMoves, engVars, chVars, ctxVars,
                  startVars, constVars, endVars
    <2>1. TypeOK'
      BY DEF TypeOK, OwnerTypes, SignalTypes, EngineTypes, LaunchTypes,
             SignalInv
    <2>2. SignalInv' /\ EngineInv' /\ ContextInv'
      BY ZenonT(30) DEF TypeOK, OwnerTypes, SignalTypes, SignalInv, Closing, EngineTypes,
             EngineInv, ContextInv, ResultInv, PreSpawn, PostReap, Stopped
    <2>3. OwnershipInv' /\ OutcomeInv'
      BY ZenonT(30) DEF TypeOK, OwnerTypes, SignalTypes, EngineTypes, LaunchTypes,
             SignalInv, EngineInv, OwnershipInv, Closing, PreSpawn, PostReap,
             Stopped, OutcomeInv, ResultInv
    <2>4. ResultInv'
      BY ZenonT(30) DEF TypeOK, OwnerTypes, EngineTypes, LaunchTypes, EngineInv,
             OwnershipInv, OutcomeInv, ResultInv, ExitTellsFailure, Closing,
             PreSpawn, PostReap, Stopped
    <2> QED BY ZenonT(30), <2>1, <2>2, <2>3, <2>4
  <1> QED BY <1>1, <1>2, <1>3, <1>4, <1>5, <1>6, <1>7, <1>8, <1>9 DEF LaunchStep

(* A step of the launch conversation with the guest preserves the invariant. *)
LEMMA GuestStepPreserves == IInv /\ GuestStep => IInv'
  <1> SUFFICES ASSUME IInv, GuestStep PROVE IInv'
    OBVIOUS
  <1>1. CASE GuestHello
    <2> USE <1>1 DEF GuestHello, BackendsDone, RequestClose, OnLaunchFailure,
                  GuestMoves, Serving, engVars, chVars, ctxVars, startVars,
                  launchVars, constVars, endVars
    <2>1. OwnerTypes'
      BY DEF TypeOK, OwnerTypes
    <2>2. SignalTypes'
      BY DEF TypeOK, OwnerTypes, SignalTypes, SignalInv
    <2>3. EngineTypes'
      BY DEF TypeOK, EngineTypes
    <2>4. LaunchTypes'
      BY OwnerAssumption DEF TypeOK, LaunchTypes
    <2>5. SignalInv'
      BY DEF TypeOK, OwnerTypes, SignalTypes, SignalInv, Closing
    <2>6. EngineInv'
      BY ZenonT(30) DEF TypeOK, OwnerTypes, EngineTypes, EngineInv, ContextInv, ResultInv,
             Closing, PreSpawn, PostReap, Stopped
    <2>7. ContextInv'
      BY ZenonT(30) DEF TypeOK, OwnerTypes, EngineTypes, EngineInv, ContextInv, PreSpawn,
             PostReap, Stopped
    <2>8. OwnershipInv'
      BY DEF TypeOK, OwnerTypes, SignalTypes, EngineTypes, LaunchTypes,
             SignalInv, EngineInv, OwnershipInv, Closing, PreSpawn, PostReap,
             Stopped
    <2>9. OutcomeInv'
      BY DEF TypeOK, OwnerTypes, LaunchTypes, SignalInv, EngineInv,
             OwnershipInv, OutcomeInv, ResultInv, Closing, Stopped
    <2>10. ResultInv'
      BY ZenonT(30) DEF TypeOK, OwnerTypes, EngineTypes, LaunchTypes, EngineInv,
             OwnershipInv, OutcomeInv, ResultInv, ExitTellsFailure, Closing,
             PreSpawn, PostReap, Stopped
    <2> QED BY ZenonT(30), <2>1, <2>2, <2>3, <2>4, <2>5, <2>6, <2>7, <2>8, <2>9, <2>10 DEF TypeOK
  <1>2. CASE GuestSendLaunch
    <2> USE <1>2 DEF GuestSendLaunch, RequestClose, OnLaunchFailure, GuestMoves,
                  HandlerLive, engVars, chVars, ctxVars, startVars, launchVars,
                  constVars, endVars
    <2>1. OwnerTypes'
      BY DEF TypeOK, OwnerTypes
    <2>2. SignalTypes'
      BY DEF TypeOK, OwnerTypes, SignalTypes, SignalInv
    <2>3. EngineTypes'
      BY DEF TypeOK, EngineTypes
    <2>4. LaunchTypes'
      BY OwnerAssumption DEF TypeOK, LaunchTypes
    <2>5. SignalInv'
      BY DEF TypeOK, OwnerTypes, SignalTypes, SignalInv, Closing
    <2>6. EngineInv'
      BY ZenonT(30) DEF TypeOK, OwnerTypes, EngineTypes, EngineInv, ContextInv, ResultInv,
             Closing, PreSpawn, PostReap, Stopped
    <2>7. ContextInv'
      BY ZenonT(30) DEF TypeOK, OwnerTypes, EngineTypes, EngineInv, ContextInv, PreSpawn,
             PostReap, Stopped
    <2>8. OwnershipInv'
      BY DEF TypeOK, OwnerTypes, SignalTypes, EngineTypes, LaunchTypes,
             SignalInv, EngineInv, OwnershipInv, Closing, PreSpawn, PostReap,
             Stopped
    <2>9. OutcomeInv'
      BY DEF TypeOK, OwnerTypes, LaunchTypes, SignalInv, EngineInv,
             OwnershipInv, OutcomeInv, ResultInv, Closing, Stopped
    <2>10. ResultInv'
      BY DEF TypeOK, OwnerTypes, EngineTypes, LaunchTypes, EngineInv,
             OwnershipInv, OutcomeInv, ResultInv, ExitTellsFailure, Closing,
             PreSpawn, PostReap, Stopped
    <2> QED BY ZenonT(30), <2>1, <2>2, <2>3, <2>4, <2>5, <2>6, <2>7, <2>8, <2>9, <2>10 DEF TypeOK
  <1>3. CASE GuestAck
    <2> USE <1>3 DEF GuestAck, BackendsDone, RequestClose, OnLaunchFailure,
                  GuestMoves, Serving, engVars, chVars, ctxVars, startVars,
                  launchVars, constVars, endVars
    <2>1. OwnerTypes'
      BY DEF TypeOK, OwnerTypes
    <2>2. SignalTypes'
      BY DEF TypeOK, OwnerTypes, SignalTypes, SignalInv
    <2>3. EngineTypes'
      BY DEF TypeOK, EngineTypes
    <2>4. LaunchTypes'
      BY OwnerAssumption DEF TypeOK, LaunchTypes
    <2>5. SignalInv'
      BY DEF TypeOK, OwnerTypes, SignalTypes, SignalInv, Closing
    <2>6. EngineInv'
      BY ZenonT(30) DEF TypeOK, OwnerTypes, EngineTypes, EngineInv, ContextInv, ResultInv,
             Closing, PreSpawn, PostReap, Stopped
    <2>7. ContextInv'
      BY ZenonT(30) DEF TypeOK, OwnerTypes, EngineTypes, EngineInv, ContextInv, PreSpawn,
             PostReap, Stopped
    <2>8. OwnershipInv'
      BY DEF TypeOK, OwnerTypes, SignalTypes, EngineTypes, LaunchTypes,
             SignalInv, EngineInv, OwnershipInv, Closing, PreSpawn, PostReap,
             Stopped
    <2>9. OutcomeInv'
      BY DEF TypeOK, OwnerTypes, LaunchTypes, SignalInv, EngineInv,
             OwnershipInv, OutcomeInv, ResultInv, Closing, Stopped
    <2>10. ResultInv'
      BY ZenonT(30) DEF TypeOK, OwnerTypes, EngineTypes, LaunchTypes, EngineInv,
             OwnershipInv, OutcomeInv, ResultInv, ExitTellsFailure, Closing,
             PreSpawn, PostReap, Stopped
    <2> QED BY ZenonT(30), <2>1, <2>2, <2>3, <2>4, <2>5, <2>6, <2>7, <2>8, <2>9, <2>10 DEF TypeOK
  <1>4. CASE GuestBridge
    <2> USE <1>4 DEF GuestBridge, RequestClose, OnLaunchFailure, GuestMoves,
                  engVars, chVars, ctxVars, startVars, launchVars, constVars,
                  endVars
    <2>1. OwnerTypes'
      BY DEF TypeOK, OwnerTypes
    <2>2. SignalTypes'
      BY DEF TypeOK, OwnerTypes, SignalTypes, SignalInv
    <2>3. EngineTypes'
      BY DEF TypeOK, EngineTypes
    <2>4. LaunchTypes'
      BY OwnerAssumption DEF TypeOK, LaunchTypes
    <2>5. SignalInv'
      BY DEF TypeOK, OwnerTypes, SignalTypes, SignalInv, Closing
    <2>6. EngineInv'
      BY ZenonT(30) DEF TypeOK, OwnerTypes, EngineTypes, EngineInv, ContextInv, ResultInv,
             Closing, PreSpawn, PostReap, Stopped
    <2>7. ContextInv'
      BY ZenonT(30) DEF TypeOK, OwnerTypes, EngineTypes, EngineInv, ContextInv, PreSpawn,
             PostReap, Stopped
    <2>8. OwnershipInv'
      BY DEF TypeOK, OwnerTypes, SignalTypes, EngineTypes, LaunchTypes,
             SignalInv, EngineInv, OwnershipInv, Closing, PreSpawn, PostReap,
             Stopped
    <2>9. OutcomeInv'
      BY DEF TypeOK, OwnerTypes, LaunchTypes, SignalInv, EngineInv,
             OwnershipInv, OutcomeInv, ResultInv, Closing, Stopped
    <2>10. ResultInv'
      BY ZenonT(30) DEF TypeOK, OwnerTypes, EngineTypes, LaunchTypes, EngineInv,
             OwnershipInv, OutcomeInv, ResultInv, ExitTellsFailure, Closing,
             PreSpawn, PostReap, Stopped
    <2> QED BY ZenonT(30), <2>1, <2>2, <2>3, <2>4, <2>5, <2>6, <2>7, <2>8, <2>9, <2>10 DEF TypeOK
  <1>5. CASE GuestMUXReady
    <2> USE <1>5 DEF GuestMUXReady, GuestMoves, engVars, chVars, ctxVars,
                  startVars, launchVars, constVars, endVars
    <2>1. TypeOK'
      BY DEF TypeOK, OwnerTypes, SignalTypes, EngineTypes, LaunchTypes,
             SignalInv
    <2>2. SignalInv' /\ EngineInv' /\ ContextInv'
      BY ZenonT(30) DEF TypeOK, OwnerTypes, SignalTypes, SignalInv, Closing, EngineTypes,
             EngineInv, ContextInv, ResultInv, PreSpawn, PostReap, Stopped
    <2>3. OwnershipInv' /\ OutcomeInv'
      BY DEF TypeOK, OwnerTypes, SignalTypes, EngineTypes, LaunchTypes,
             SignalInv, EngineInv, OwnershipInv, Closing, PreSpawn, PostReap,
             Stopped, OutcomeInv, ResultInv
    <2>4. ResultInv'
      BY ZenonT(30) DEF TypeOK, OwnerTypes, EngineTypes, LaunchTypes, EngineInv,
             OwnershipInv, OutcomeInv, ResultInv, ExitTellsFailure, Closing,
             PreSpawn, PostReap, Stopped
    <2> QED BY ZenonT(30), <2>1, <2>2, <2>3, <2>4
  <1>6. CASE GuestApp
    <2> USE <1>6 DEF GuestApp, sigVars, engVars, chVars, ctxVars, startVars,
                  launchVars, ownVars, constVars, endVars
    <2>1. TypeOK'
      BY DEF TypeOK, OwnerTypes, SignalTypes, EngineTypes, LaunchTypes,
             SignalInv
    <2>2. SignalInv' /\ EngineInv' /\ ContextInv'
      BY ZenonT(30) DEF TypeOK, OwnerTypes, SignalTypes, SignalInv, Closing, EngineTypes,
             EngineInv, ContextInv, ResultInv, PreSpawn, PostReap, Stopped
    <2>3. OwnershipInv' /\ OutcomeInv'
      BY DEF TypeOK, OwnerTypes, SignalTypes, EngineTypes, LaunchTypes,
             SignalInv, EngineInv, OwnershipInv, Closing, PreSpawn, PostReap,
             Stopped, OutcomeInv, ResultInv
    <2>4. ResultInv'
      BY ZenonT(30) DEF TypeOK, OwnerTypes, EngineTypes, LaunchTypes, EngineInv,
             OwnershipInv, OutcomeInv, ResultInv, ExitTellsFailure, Closing,
             PreSpawn, PostReap, Stopped
    <2> QED BY ZenonT(30), <2>1, <2>2, <2>3, <2>4
  <1>7. CASE ObserveInitialLaunch
    <2> USE <1>7 DEF ObserveInitialLaunch, sigVars, engVars, chVars, ctxVars,
                  startVars, launchVars, ownVars, constVars, endVars
    <2>1. TypeOK'
      BY DEF TypeOK, OwnerTypes, SignalTypes, EngineTypes, LaunchTypes,
             SignalInv
    <2>2. SignalInv' /\ EngineInv' /\ ContextInv'
      BY DEF TypeOK, OwnerTypes, SignalTypes, SignalInv, Closing, EngineTypes,
             EngineInv, ContextInv, ResultInv, PreSpawn, PostReap, Stopped
    <2>3. OwnershipInv' /\ OutcomeInv'
      BY ZenonT(30) DEF TypeOK, OwnerTypes, SignalTypes, EngineTypes, LaunchTypes,
             SignalInv, EngineInv, OwnershipInv, Closing, PreSpawn, PostReap,
             Stopped, OutcomeInv, ResultInv
    <2>4. ResultInv'
      BY ZenonT(30) DEF TypeOK, OwnerTypes, EngineTypes, LaunchTypes, EngineInv,
             OwnershipInv, OutcomeInv, ResultInv, ExitTellsFailure, Closing,
             PreSpawn, PostReap, Stopped
    <2> QED BY ZenonT(30), <2>1, <2>2, <2>3, <2>4
  <1> QED BY ZenonT(30), <1>1, <1>2, <1>3, <1>4, <1>5, <1>6, <1>7 DEF GuestStep

(* Every step of the system preserves the invariant. *)
LEMMA OwnerNext == IInv /\ [Next]_vars => IInv'
  <1> SUFFICES ASSUME IInv, [Next]_vars PROVE IInv'
    OBVIOUS
  <1>1. CASE StartCtxCancel
    <2> USE <1>1 DEF StartCtxCancel, engVars, chVars, ctxVars, launchVars,
                  factVars, ownVars, constVars, endVars
    <2>1. TypeOK'
      BY DEF TypeOK, OwnerTypes, SignalTypes, EngineTypes, LaunchTypes,
             SignalInv
    <2>2. SignalInv' /\ EngineInv' /\ ContextInv'
      BY DEF TypeOK, OwnerTypes, SignalTypes, SignalInv, Closing, EngineTypes,
             EngineInv, ContextInv, ResultInv, PreSpawn, PostReap, Stopped
    <2>3. OwnershipInv' /\ OutcomeInv'
      BY DEF TypeOK, OwnerTypes, SignalTypes, EngineTypes, LaunchTypes,
             SignalInv, EngineInv, OwnershipInv, Closing, PreSpawn, PostReap,
             Stopped, OutcomeInv, ResultInv
    <2>4. ResultInv'
      BY DEF TypeOK, OwnerTypes, EngineTypes, LaunchTypes, EngineInv,
             OwnershipInv, OutcomeInv, ResultInv, ExitTellsFailure, Closing,
             PreSpawn, PostReap, Stopped
    <2> QED BY ZenonT(30), <2>1, <2>2, <2>3, <2>4
  <1>2. CASE ClientClose
    <2> USE <1>2 DEF ClientClose, RequestClose, engVars, chVars, ctxVars,
                  startVars, launchVars, factVars, constVars, endVars
    <2>1. TypeOK'
      BY DEF TypeOK, OwnerTypes, SignalTypes, EngineTypes, LaunchTypes,
             SignalInv
    <2>2. SignalInv' /\ EngineInv' /\ ContextInv'
      BY DEF TypeOK, OwnerTypes, SignalTypes, SignalInv, Closing, EngineTypes,
             EngineInv, ContextInv, ResultInv, PreSpawn, PostReap, Stopped
    <2>3. OwnershipInv' /\ OutcomeInv'
      BY DEF TypeOK, OwnerTypes, SignalTypes, EngineTypes, LaunchTypes,
             SignalInv, EngineInv, OwnershipInv, Closing, PreSpawn, PostReap,
             Stopped, OutcomeInv, ResultInv
    <2>4. ResultInv'
      BY DEF TypeOK, OwnerTypes, EngineTypes, LaunchTypes, EngineInv,
             OwnershipInv, OutcomeInv, ResultInv, ExitTellsFailure, Closing,
             PreSpawn, PostReap, Stopped
    <2> QED BY ZenonT(30), <2>1, <2>2, <2>3, <2>4
  <1>3. CASE PumpSignal
    <2> USE <1>3 DEF PumpSignal, engVars, chVars, ctxVars, startVars, launchVars,
                  factVars, ownVars, constVars, endVars
    <2>1. TypeOK'
      BY DEF TypeOK, OwnerTypes, SignalTypes, EngineTypes, LaunchTypes,
             SignalInv
    <2>2. SignalInv' /\ EngineInv' /\ ContextInv'
      BY DEF TypeOK, OwnerTypes, SignalTypes, SignalInv, Closing, EngineTypes,
             EngineInv, ContextInv, ResultInv, PreSpawn, PostReap, Stopped
    <2>3. OwnershipInv' /\ OutcomeInv'
      BY DEF TypeOK, OwnerTypes, SignalTypes, EngineTypes, LaunchTypes,
             SignalInv, EngineInv, OwnershipInv, Closing, PreSpawn, PostReap,
             Stopped, OutcomeInv, ResultInv
    <2>4. ResultInv'
      BY DEF TypeOK, OwnerTypes, EngineTypes, LaunchTypes, EngineInv,
             OwnershipInv, OutcomeInv, ResultInv, ExitTellsFailure, Closing,
             PreSpawn, PostReap, Stopped
    <2> QED BY ZenonT(30), <2>1, <2>2, <2>3, <2>4
  <1>4. CASE CHExit
    <2> USE <1>4 DEF CHExit, sigVars, engVars, ctxVars, startVars, launchVars,
                  factVars, ownVars, constVars, endVars
    <2>1. TypeOK'
      BY DEF TypeOK, OwnerTypes, SignalTypes, EngineTypes, LaunchTypes,
             SignalInv
    <2>2. SignalInv' /\ EngineInv' /\ ContextInv'
      BY ZenonT(30) DEF TypeOK, OwnerTypes, SignalTypes, SignalInv, Closing, EngineTypes,
             EngineInv, ContextInv, ResultInv, PreSpawn, PostReap, Stopped
    <2>3. OwnershipInv' /\ OutcomeInv'
      BY DEF TypeOK, OwnerTypes, SignalTypes, EngineTypes, LaunchTypes,
             SignalInv, EngineInv, OwnershipInv, Closing, PreSpawn, PostReap,
             Stopped, OutcomeInv, ResultInv
    <2>4. ResultInv'
      BY ZenonT(30) DEF TypeOK, OwnerTypes, EngineTypes, LaunchTypes, EngineInv,
             OwnershipInv, OutcomeInv, ResultInv, ExitTellsFailure, Closing,
             PreSpawn, PostReap, Stopped
    <2> QED BY ZenonT(30), <2>1, <2>2, <2>3, <2>4
  <1>5. CASE ReaperObserve
    <2> USE <1>5 DEF ReaperObserve, MarkExiting, ReaperRunning, sigVars, engVars,
                  ctxVars, startVars, launchVars, factVars, constVars, endVars
    <2>1. TypeOK'
      BY DEF TypeOK, OwnerTypes, SignalTypes, EngineTypes, LaunchTypes,
             SignalInv
    <2>2. SignalInv' /\ EngineInv' /\ ContextInv'
      BY ZenonT(30) DEF TypeOK, OwnerTypes, SignalTypes, SignalInv, Closing, EngineTypes,
             EngineInv, ContextInv, ResultInv, PreSpawn, PostReap, Stopped
    <2>3. OwnershipInv' /\ OutcomeInv'
      BY DEF TypeOK, OwnerTypes, SignalTypes, EngineTypes, LaunchTypes,
             SignalInv, EngineInv, OwnershipInv, Closing, PreSpawn, PostReap,
             Stopped, OutcomeInv, ResultInv
    <2>4. ResultInv'
      BY ZenonT(30) DEF TypeOK, OwnerTypes, EngineTypes, LaunchTypes, EngineInv,
             OwnershipInv, OutcomeInv, ResultInv, ExitTellsFailure, Closing,
             PreSpawn, PostReap, Stopped
    <2> QED BY ZenonT(30), <2>1, <2>2, <2>3, <2>4
  <1>6. CASE ReaperReap
    <2> USE <1>6 DEF ReaperReap, MarkExiting, ReaperRunning, sigVars, engVars,
                  startVars, launchVars, factVars, constVars, endVars
    <2>1. TypeOK'
      BY DEF TypeOK, OwnerTypes, SignalTypes, EngineTypes, LaunchTypes,
             SignalInv
    <2>2. SignalInv' /\ EngineInv' /\ ContextInv'
      BY ZenonT(30) DEF TypeOK, OwnerTypes, SignalTypes, SignalInv, Closing, EngineTypes,
             EngineInv, ContextInv, ResultInv, PreSpawn, PostReap, Stopped
    <2>3. OwnershipInv' /\ OutcomeInv'
      BY DEF TypeOK, OwnerTypes, SignalTypes, EngineTypes, LaunchTypes,
             SignalInv, EngineInv, OwnershipInv, Closing, PreSpawn, PostReap,
             Stopped, OutcomeInv, ResultInv
    <2>4. ResultInv'
      BY ZenonT(30) DEF TypeOK, OwnerTypes, EngineTypes, LaunchTypes, EngineInv,
             OwnershipInv, OutcomeInv, ResultInv, ExitTellsFailure, Closing,
             PreSpawn, PostReap, Stopped
    <2> QED BY ZenonT(30), <2>1, <2>2, <2>3, <2>4
  <1>7. CASE ReadFatalRecord
    <2> USE <1>7 DEF ReadFatalRecord, sigVars, engVars, chVars, ctxVars,
                  startVars, launchVars, factVars, ownVars, constVars, endVars
    <2>1. OwnerTypes'
      BY DEF TypeOK, OwnerTypes
    <2>2. SignalTypes'
      BY ZenonT(30) DEF TypeOK, OwnerTypes, SignalTypes, SignalInv
    <2>3. EngineTypes'
      BY DEF TypeOK, EngineTypes
    <2>4. LaunchTypes'
      BY OwnerAssumption DEF TypeOK, LaunchTypes
    <2>5. SignalInv'
      BY ZenonT(30) DEF TypeOK, OwnerTypes, SignalTypes, SignalInv, Closing
    <2>6. EngineInv'
      BY ZenonT(30) DEF TypeOK, OwnerTypes, EngineTypes, EngineInv, ContextInv, ResultInv,
             Closing, PreSpawn, PostReap, Stopped
    <2>7. ContextInv'
      BY ZenonT(30) DEF TypeOK, OwnerTypes, EngineTypes, EngineInv, ContextInv, PreSpawn,
             PostReap, Stopped
    <2>8. OwnershipInv'
      BY ZenonT(30) DEF TypeOK, OwnerTypes, SignalTypes, EngineTypes, LaunchTypes,
             SignalInv, EngineInv, OwnershipInv, Closing, PreSpawn, PostReap,
             Stopped
    <2>9. OutcomeInv'
      BY ZenonT(30) DEF TypeOK, OwnerTypes, LaunchTypes, SignalInv, EngineInv,
             OwnershipInv, OutcomeInv, ResultInv, Closing, Stopped
    <2>10. ResultInv'
      BY ZenonT(30) DEF TypeOK, OwnerTypes, EngineTypes, LaunchTypes, EngineInv,
             OwnershipInv, OutcomeInv, ResultInv, ExitTellsFailure, Closing,
             PreSpawn, PostReap, Stopped
    <2> QED BY ZenonT(30), <2>1, <2>2, <2>3, <2>4, <2>5, <2>6, <2>7, <2>8, <2>9, <2>10 DEF TypeOK
  <1>8. CASE ReadFatalTerminate
    <2> USE <1>8 DEF ReadFatalTerminate, sigVars, engVars, startVars, launchVars,
                  factVars, ownVars, constVars, endVars
    <2>1. OwnerTypes'
      BY DEF TypeOK, OwnerTypes
    <2>2. SignalTypes'
      BY ZenonT(30) DEF TypeOK, OwnerTypes, SignalTypes, SignalInv
    <2>3. EngineTypes'
      BY DEF TypeOK, EngineTypes
    <2>4. LaunchTypes'
      BY OwnerAssumption DEF TypeOK, LaunchTypes
    <2>5. SignalInv'
      BY DEF TypeOK, OwnerTypes, SignalTypes, SignalInv, Closing
    <2>6. EngineInv'
      BY DEF TypeOK, OwnerTypes, EngineTypes, EngineInv, ContextInv, ResultInv,
             Closing, PreSpawn, PostReap, Stopped
    <2>7. ContextInv'
      BY DEF TypeOK, OwnerTypes, EngineTypes, EngineInv, ContextInv, PreSpawn,
             PostReap, Stopped
    <2>8. OwnershipInv'
      BY DEF TypeOK, OwnerTypes, SignalTypes, EngineTypes, LaunchTypes,
             SignalInv, EngineInv, OwnershipInv, Closing, PreSpawn, PostReap,
             Stopped
    <2>9. OutcomeInv'
      BY DEF TypeOK, OwnerTypes, LaunchTypes, SignalInv, EngineInv,
             OwnershipInv, OutcomeInv, ResultInv, Closing, Stopped
    <2>10. ResultInv'
      BY DEF TypeOK, OwnerTypes, EngineTypes, LaunchTypes, EngineInv,
             OwnershipInv, OutcomeInv, ResultInv, ExitTellsFailure, Closing,
             PreSpawn, PostReap, Stopped
    <2> QED BY ZenonT(30), <2>1, <2>2, <2>3, <2>4, <2>5, <2>6, <2>7, <2>8, <2>9, <2>10 DEF TypeOK
  <1>9. CASE LaunchBegin
    <2> USE <1>9 DEF LaunchBegin, LaunchMoves, engVars, chVars, ctxVars,
                  startVars, constVars, endVars
    <2>1. TypeOK'
      BY DEF TypeOK, OwnerTypes, SignalTypes, EngineTypes, LaunchTypes,
             SignalInv
    <2>2. SignalInv' /\ EngineInv' /\ ContextInv'
      BY DEF TypeOK, OwnerTypes, SignalTypes, SignalInv, Closing, EngineTypes,
             EngineInv, ContextInv, ResultInv, PreSpawn, PostReap, Stopped
    <2>3. OwnershipInv' /\ OutcomeInv'
      BY DEF TypeOK, OwnerTypes, SignalTypes, EngineTypes, LaunchTypes,
             SignalInv, EngineInv, OwnershipInv, Closing, PreSpawn, PostReap,
             Stopped, OutcomeInv, ResultInv
    <2>4. ResultInv'
      BY DEF TypeOK, OwnerTypes, EngineTypes, LaunchTypes, EngineInv,
             OwnershipInv, OutcomeInv, ResultInv, ExitTellsFailure, Closing,
             PreSpawn, PostReap, Stopped
    <2> QED BY <2>1, <2>2, <2>3, <2>4
  <1>10. CASE LaunchCtxCancel
    <2> USE <1>10 DEF LaunchCtxCancel, sigVars, engVars, chVars, ctxVars,
                  startVars, factVars, ownVars, constVars, endVars
    <2>1. TypeOK'
      BY DEF TypeOK, OwnerTypes, SignalTypes, EngineTypes, LaunchTypes,
             SignalInv
    <2>2. SignalInv' /\ EngineInv' /\ ContextInv'
      BY DEF TypeOK, OwnerTypes, SignalTypes, SignalInv, Closing, EngineTypes,
             EngineInv, ContextInv, ResultInv, PreSpawn, PostReap, Stopped
    <2>3. OwnershipInv' /\ OutcomeInv'
      BY DEF TypeOK, OwnerTypes, SignalTypes, EngineTypes, LaunchTypes,
             SignalInv, EngineInv, OwnershipInv, Closing, PreSpawn, PostReap,
             Stopped, OutcomeInv, ResultInv
    <2>4. ResultInv'
      BY DEF TypeOK, OwnerTypes, EngineTypes, LaunchTypes, EngineInv,
             OwnershipInv, OutcomeInv, ResultInv, ExitTellsFailure, Closing,
             PreSpawn, PostReap, Stopped
    <2> QED BY <2>1, <2>2, <2>3, <2>4
  <1>11. CASE LaunchTimeout
    <2> USE <1>11 DEF LaunchTimeout, LaunchMoves, engVars, chVars, ctxVars,
                  startVars, constVars, endVars
    <2>1. TypeOK'
      BY DEF TypeOK, OwnerTypes, SignalTypes, EngineTypes, LaunchTypes,
             SignalInv
    <2>2. SignalInv' /\ EngineInv' /\ ContextInv'
      BY DEF TypeOK, OwnerTypes, SignalTypes, SignalInv, Closing, EngineTypes,
             EngineInv, ContextInv, ResultInv, PreSpawn, PostReap, Stopped
    <2>3. OwnershipInv' /\ OutcomeInv'
      BY DEF TypeOK, OwnerTypes, SignalTypes, EngineTypes, LaunchTypes,
             SignalInv, EngineInv, OwnershipInv, Closing, PreSpawn, PostReap,
             Stopped, OutcomeInv, ResultInv
    <2>4. ResultInv'
      BY DEF TypeOK, OwnerTypes, EngineTypes, LaunchTypes, EngineInv,
             OwnershipInv, OutcomeInv, ResultInv, ExitTellsFailure, Closing,
             PreSpawn, PostReap, Stopped
    <2> QED BY <2>1, <2>2, <2>3, <2>4
  <1>12. CASE NotifyReady
    <2> USE <1>12 DEF NotifyReady, LifeDone, LaunchCtxDone, CommitLaunch, sigVars,
                  engVars, chVars, ctxVars, startVars, launchVars, constVars,
                  endVars
    <2>1. OwnerTypes'
      BY DEF TypeOK, OwnerTypes
    <2>2. SignalTypes'
      BY DEF TypeOK, OwnerTypes, SignalTypes, SignalInv
    <2>3. EngineTypes'
      <3>1. ready' \in BOOLEAN
        BY DEF TypeOK, EngineTypes
      <3> QED BY <3>1 DEF TypeOK, EngineTypes
    <2>4. LaunchTypes'
      <3>1. launchSucceeded' \in BOOLEAN
        BY DEF TypeOK, LaunchTypes
      <3> QED BY <3>1 DEF TypeOK, LaunchTypes
    <2>5. SignalInv'
      BY DEF TypeOK, OwnerTypes, SignalTypes, SignalInv, Closing
    <2>6. EngineInv'
      BY DEF TypeOK, OwnerTypes, EngineTypes, EngineInv, ContextInv, ResultInv,
             Closing, PreSpawn, PostReap, Stopped
    <2>7. ContextInv'
      BY DEF TypeOK, OwnerTypes, EngineTypes, EngineInv, ContextInv, PreSpawn,
             PostReap, Stopped
    <2>8. OwnershipInv'
      BY DEF TypeOK, OwnerTypes, SignalTypes, EngineTypes, LaunchTypes,
             SignalInv, EngineInv, OwnershipInv, Closing, PreSpawn, PostReap,
             Stopped
    <2>9. OutcomeInv'
      BY DEF TypeOK, OwnerTypes, LaunchTypes, SignalInv, EngineInv,
             OwnershipInv, OutcomeInv, ResultInv, Closing, Stopped
    <2>10. ResultInv'
      BY DEF TypeOK, OwnerTypes, EngineTypes, LaunchTypes, EngineInv,
             OwnershipInv, OutcomeInv, ResultInv, ExitTellsFailure, Closing,
             PreSpawn, PostReap, Stopped
    <2> QED BY <2>1, <2>2, <2>3, <2>4, <2>5, <2>6, <2>7, <2>8, <2>9, <2>10 DEF TypeOK
  <1>13. CASE StartStep
    BY <1>13, StartStepPreserves
  <1>14. CASE EngineStep
    BY <1>14, EngineStepPreserves
  <1>15. CASE LaunchStep
    BY <1>15, LaunchStepPreserves
  <1>16. CASE GuestStep
    BY <1>16, GuestStepPreserves
  <1>17. CASE OpStep
    <2> PICK o \in Ops : OpBegin(o) \/ OpEnd(o)
      BY <1>17 DEF OpStep
    <2>1. CASE OpBegin(o)
      <3>1. OwnerTypes'
        BY <2>1 DEF OpBegin, sigVars, engVars, chVars, ctxVars, startVars,
               launchVars, factVars, ownVars, constVars, endVars, TypeOK,
               OwnerTypes
      <3>2. SignalTypes'
        BY <2>1 DEF OpBegin, sigVars, engVars, chVars, ctxVars, startVars,
               launchVars, factVars, ownVars, constVars, endVars, TypeOK,
               OwnerTypes, SignalTypes, SignalInv
      <3>3. EngineTypes'
        BY <2>1 DEF OpBegin, sigVars, engVars, chVars, ctxVars, startVars,
               launchVars, factVars, ownVars, constVars, endVars, TypeOK,
               EngineTypes
      <3>4. LaunchTypes'
        BY <2>1, OwnerAssumption DEF OpBegin, sigVars, engVars, chVars, ctxVars, startVars,
               launchVars, factVars, ownVars, constVars, endVars, TypeOK,
               LaunchTypes
      <3>5. SignalInv'
        BY <2>1 DEF OpBegin, sigVars, engVars, chVars, ctxVars, startVars,
               launchVars, factVars, ownVars, constVars, endVars, TypeOK,
               OwnerTypes, SignalTypes, SignalInv, Closing
      <3>6. EngineInv'
        BY <2>1 DEF OpBegin, sigVars, engVars, chVars, ctxVars, startVars,
               launchVars, factVars, ownVars, constVars, endVars, TypeOK,
               OwnerTypes, EngineTypes, EngineInv, ContextInv, ResultInv,
               Closing, PreSpawn, PostReap, Stopped
      <3>7. ContextInv'
        BY <2>1 DEF OpBegin, sigVars, engVars, chVars, ctxVars, startVars,
               launchVars, factVars, ownVars, constVars, endVars, TypeOK,
               OwnerTypes, EngineTypes, EngineInv, ContextInv, PreSpawn,
               PostReap, Stopped
      <3>8. OwnershipInv'
        BY <2>1 DEF OpBegin, sigVars, engVars, chVars, ctxVars, startVars,
               launchVars, factVars, ownVars, constVars, endVars, TypeOK,
               OwnerTypes, SignalTypes, EngineTypes, LaunchTypes, SignalInv,
               EngineInv, OwnershipInv, Closing, PreSpawn, PostReap, Stopped
      <3>9. OutcomeInv'
        BY <2>1 DEF OpBegin, sigVars, engVars, chVars, ctxVars, startVars,
               launchVars, factVars, ownVars, constVars, endVars, TypeOK,
               OwnerTypes, LaunchTypes, SignalInv, EngineInv, OwnershipInv,
               OutcomeInv, ResultInv, Closing, Stopped
      <3>10. ResultInv'
        BY <2>1 DEF OpBegin, sigVars, engVars, chVars, ctxVars, startVars,
               launchVars, factVars, ownVars, constVars, endVars, TypeOK,
               OwnerTypes, EngineTypes, LaunchTypes, EngineInv, OwnershipInv,
               OutcomeInv, ResultInv, ExitTellsFailure, Closing, PreSpawn,
               PostReap, Stopped
      <3> QED BY <3>1, <3>2, <3>3, <3>4, <3>5, <3>6, <3>7, <3>8, <3>9, <3>10 DEF TypeOK
    <2>2. CASE OpEnd(o)
      <3>1. OwnerTypes'
        BY <2>2 DEF OpEnd, sigVars, engVars, chVars, ctxVars, startVars, launchVars,
               factVars, ownVars, constVars, endVars, TypeOK, OwnerTypes
      <3>2. SignalTypes'
        BY <2>2 DEF OpEnd, sigVars, engVars, chVars, ctxVars, startVars, launchVars,
               factVars, ownVars, constVars, endVars, TypeOK, OwnerTypes,
               SignalTypes, SignalInv
      <3>3. EngineTypes'
        BY <2>2 DEF OpEnd, sigVars, engVars, chVars, ctxVars, startVars, launchVars,
               factVars, ownVars, constVars, endVars, TypeOK, EngineTypes
      <3>4. LaunchTypes'
        BY <2>2, OwnerAssumption DEF OpEnd, sigVars, engVars, chVars, ctxVars, startVars, launchVars,
               factVars, ownVars, constVars, endVars, TypeOK, LaunchTypes
      <3>5. SignalInv'
        BY <2>2 DEF OpEnd, sigVars, engVars, chVars, ctxVars, startVars, launchVars,
               factVars, ownVars, constVars, endVars, TypeOK, OwnerTypes,
               SignalTypes, SignalInv, Closing
      <3>6. EngineInv'
        BY <2>2 DEF OpEnd, sigVars, engVars, chVars, ctxVars, startVars, launchVars,
               factVars, ownVars, constVars, endVars, TypeOK, OwnerTypes,
               EngineTypes, EngineInv, ContextInv, ResultInv, Closing,
               PreSpawn, PostReap, Stopped
      <3>7. ContextInv'
        BY <2>2 DEF OpEnd, sigVars, engVars, chVars, ctxVars, startVars, launchVars,
               factVars, ownVars, constVars, endVars, TypeOK, OwnerTypes,
               EngineTypes, EngineInv, ContextInv, PreSpawn, PostReap, Stopped
      <3>8. OwnershipInv'
        BY <2>2 DEF OpEnd, sigVars, engVars, chVars, ctxVars, startVars, launchVars,
               factVars, ownVars, constVars, endVars, TypeOK, OwnerTypes,
               SignalTypes, EngineTypes, LaunchTypes, SignalInv, EngineInv,
               OwnershipInv, Closing, PreSpawn, PostReap, Stopped
      <3>9. OutcomeInv'
        BY <2>2 DEF OpEnd, sigVars, engVars, chVars, ctxVars, startVars, launchVars,
               factVars, ownVars, constVars, endVars, TypeOK, OwnerTypes,
               LaunchTypes, SignalInv, EngineInv, OwnershipInv, OutcomeInv,
               ResultInv, Closing, Stopped
      <3>10. ResultInv'
        BY <2>2 DEF OpEnd, sigVars, engVars, chVars, ctxVars, startVars, launchVars,
               factVars, ownVars, constVars, endVars, TypeOK, OwnerTypes,
               EngineTypes, LaunchTypes, EngineInv, OwnershipInv, OutcomeInv,
               ResultInv, ExitTellsFailure, Closing, PreSpawn, PostReap, Stopped
      <3> QED BY <3>1, <3>2, <3>3, <3>4, <3>5, <3>6, <3>7, <3>8, <3>9, <3>10 DEF TypeOK
    <2> QED BY <2>1, <2>2
  <1>18. CASE UNCHANGED vars
    <2>1. OwnerTypes'
      BY <1>18 DEF vars, TypeOK, OwnerTypes
    <2>2. SignalTypes'
      BY <1>18 DEF vars, TypeOK, OwnerTypes, SignalTypes, SignalInv
    <2>3. EngineTypes'
      BY <1>18 DEF vars, TypeOK, EngineTypes
    <2>4. LaunchTypes'
      BY <1>18, OwnerAssumption DEF vars, TypeOK, LaunchTypes
    <2>5. SignalInv'
      BY <1>18 DEF vars, TypeOK, OwnerTypes, SignalTypes, SignalInv, Closing
    <2>6. EngineInv'
      BY <1>18 DEF vars, TypeOK, OwnerTypes, EngineTypes, EngineInv, ContextInv,
             ResultInv, Closing, PreSpawn, PostReap, Stopped
    <2>7. ContextInv'
      BY <1>18 DEF vars, TypeOK, OwnerTypes, EngineTypes, EngineInv, ContextInv,
             PreSpawn, PostReap, Stopped
    <2>8. OwnershipInv'
      BY <1>18 DEF vars, TypeOK, OwnerTypes, SignalTypes, EngineTypes, LaunchTypes,
             SignalInv, EngineInv, OwnershipInv, Closing, PreSpawn, PostReap,
             Stopped
    <2>9. OutcomeInv'
      BY <1>18 DEF vars, TypeOK, OwnerTypes, LaunchTypes, SignalInv, EngineInv,
             OwnershipInv, OutcomeInv, ResultInv, Closing, Stopped
    <2>10. ResultInv'
      BY <1>18 DEF vars, TypeOK, OwnerTypes, EngineTypes, LaunchTypes, EngineInv,
             OwnershipInv, OutcomeInv, ResultInv, ExitTellsFailure, Closing,
             PreSpawn, PostReap, Stopped
    <2> QED BY <2>1, <2>2, <2>3, <2>4, <2>5, <2>6, <2>7, <2>8, <2>9, <2>10 DEF TypeOK
  <1> QED BY ZenonT(30), <1>1, <1>2, <1>3, <1>4, <1>5, <1>6, <1>7, <1>8, <1>9, <1>10,
             <1>11, <1>12, <1>13, <1>14, <1>15, <1>16, <1>17, <1>18 DEF Next

HIDE DEF IInv, States, Causes

(* The inductive invariant holds in every reachable state. *)
THEOREM OwnerInvariant == Spec => []IInv
  BY OwnerInit, OwnerNext, PTL DEF Spec

(* Type correctness: in particular the private signal channel of capacity 4
   never holds more than two signals, so requestClose and the start context's
   AfterFunc never block. *)
THEOREM OwnerTypeCorrect == Spec => []TypeOK
  <1>1. IInv => TypeOK
    BY DEF IInv
  <1> QED BY <1>1, OwnerInvariant, PTL

(* Success and failure of a launch exclude each other and Launch returns the
   one that was recorded. *)
THEOREM LaunchHasOneOutcome == Spec => []OneLaunchOutcome
  <1>1. IInv => OneLaunchOutcome
    BY DEF IInv, TypeOK, OwnerTypes, SignalTypes, EngineTypes, LaunchTypes, SignalInv, EngineInv, ContextInv, OwnershipInv,
           OutcomeInv, ResultInv, Closing, PreSpawn, PostReap, Stopped, OneLaunchOutcome
  <1> QED BY <1>1, OwnerInvariant, PTL

(* cleanupResources runs only when CH is reaped and no operation and no Launch
   preparation uses what it releases. *)
THEOREM CleanupIsLast == Spec => []ResourcesOutliveUsers
  <1>1. IInv => ResourcesOutliveUsers
    BY DEF IInv, TypeOK, OwnerTypes, SignalTypes, EngineTypes, LaunchTypes, SignalInv, EngineInv, ContextInv, OwnershipInv,
           OutcomeInv, ResultInv, Closing, PreSpawn, PostReap, Stopped, ResourcesOutliveUsers
  <1> QED BY <1>1, OwnerInvariant, PTL

(* A failed start or launch has already released everything. *)
THEOREM ErrorMeansReleased == Spec => []FailureIsTerminal
  <1>1. IInv => FailureIsTerminal
    BY DEF IInv, TypeOK, OwnerTypes, SignalTypes, EngineTypes, LaunchTypes, SignalInv, EngineInv, ContextInv, OwnershipInv,
           OutcomeInv, ResultInv, Closing, PreSpawn, PostReap, Stopped, FailureIsTerminal
  <1> QED BY <1>1, OwnerInvariant, PTL

(* No shutdown takes the backends away from a live CH. *)
THEOREM BackendsServeUntilExit == Spec => []BackendsOutliveCH
  <1>1. IInv => BackendsOutliveCH
    BY DEF IInv, TypeOK, OwnerTypes, SignalTypes, EngineTypes, LaunchTypes, SignalInv, EngineInv, ContextInv, OwnershipInv,
           OutcomeInv, ResultInv, Closing, PreSpawn, PostReap, Stopped, BackendsOutliveCH, BackendsDone
  <1> QED BY <1>1, OwnerInvariant, PTL

(* The start context cannot stop a runtime that was returned. *)
THEOREM NoStraySignal == Spec => []ReturnedRuntimeNotSignalled
  <1>1. IInv => ReturnedRuntimeNotSignalled
    BY DEF IInv, TypeOK, OwnerTypes, SignalTypes, EngineTypes, LaunchTypes, SignalInv, EngineInv, ContextInv, OwnershipInv,
           OutcomeInv, ResultInv, Closing, PreSpawn, PostReap, Stopped, ReturnedRuntimeNotSignalled
  <1> QED BY <1>1, OwnerInvariant, PTL

(* Launch never waits for workMu while it holds mu. *)
THEOREM AdmissionNeverBlocks == Spec => []WorkMuFreeAtAdmission
  <1>1. IInv => WorkMuFreeAtAdmission
    BY DEF IInv, TypeOK, OwnerTypes, SignalTypes, EngineTypes, LaunchTypes, SignalInv, EngineInv, ContextInv, OwnershipInv,
           OutcomeInv, ResultInv, Closing, PreSpawn, PostReap, Stopped, WorkMuFreeAtAdmission
  <1> QED BY <1>1, OwnerInvariant, PTL

(* The published result is an error after fatal I/O or a failure the guest told. *)
THEOREM ResultTellsFailure == Spec => []ExitTellsFailure
  <1>1. IInv => ExitTellsFailure
    BY DEF IInv, TypeOK, OwnerTypes, SignalTypes, EngineTypes, LaunchTypes, SignalInv, EngineInv, ContextInv, OwnershipInv,
           OutcomeInv, ResultInv, Closing, PreSpawn, PostReap, Stopped, ExitTellsFailure
  <1> QED BY <1>1, OwnerInvariant, PTL
=============================================================================

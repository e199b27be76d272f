------------------------------- MODULE ExecJoin ------------------------------
(***************************************************************************)
(* An exec session of cmd/sandbox-init (exec.go, child.go): the session's  *)
(* goroutine in PID 1, the exec-join helper it forks and registers, the    *)
(* command the helper forks inside the app's namespaces, and the sole      *)
(* reaper.  The helper and the command each pass the two gates of          *)
(* coordinateChild.  The kernel kills a process whose parent-death signal  *)
(* is armed in the step its parent ends; arming it later binds it to the   *)
(* next parent.                                                            *)
(***************************************************************************)
EXTENDS Naturals, FiniteSets

CONSTANTS
    Sessions,  \* exec sessions; a session's number stands for its helper's pid
    MaxKills   \* helpers killed by anything but their session or a quiesce

VARIABLES
    sess,      \* the session: [pc, code]
    conn,      \* its connection: "open" | "lost"
    helper,    \* exec-join: [pc, code]
    cmd,       \* the command: [pc, armed]
    quiescing, waiters, pending, live,   \* execRegistry
    status,    \* wait channels: the status delivered, or "none"
    left       \* kills left

regVars == <<quiescing, waiters, pending, live, status>>
vars == <<sess, conn, helper, cmd, regVars, left>>

at(s, p) == sess[s].pc = p
go(s, p) == sess' = [sess EXCEPT ![s].pc = p]

Gone == {"none", "dead", "reaped"}

(* What the kernel does when a helper ends: an armed command dies with it. *)
orphaned(c, s) ==
    IF c[s].armed /\ c[s].pc \notin {"none", "dead"} THEN [c EXCEPT ![s].pc = "dead"] ELSE c

helperEnds(s, code) ==
    /\ helper' = [helper EXCEPT ![s] = [pc |-> "dead", code |-> code]]
    /\ cmd' = orphaned(cmd, s)

kill(s) ==
    IF helper[s].pc \in Gone THEN UNCHANGED <<helper, cmd>> ELSE helperEnds(s, "killed")

-----------------------------------------------------------------------------
(* runExecSession: admission, and the fork of the helper. *)
beginSession(s) ==
    /\ at(s, "new")
    /\ go(s, IF quiescing THEN "end" ELSE "fork")
    /\ UNCHANGED <<conn, helper, cmd, regVars, left>>

forkExecChild(s) ==
    /\ at(s, "fork")
    /\ \/ /\ helper' = [helper EXCEPT ![s].pc = "gate"] /\ go(s, "register")
       \/ /\ go(s, "end") /\ UNCHANGED helper
    /\ UNCHANGED <<conn, cmd, regVars, left>>

(* register, in onSpawn: a status the reaper already has is delivered at   *)
(* once, and a child that came too late for a quiesce is killed.           *)
register(s) ==
    /\ at(s, "register")
    /\ IF s \in DOMAIN pending
       THEN /\ status' = [status EXCEPT ![s] = pending[s]]
            /\ pending' = [p \in DOMAIN pending \ {s} |-> pending[p]]
            /\ UNCHANGED <<waiters, live>>
       ELSE /\ waiters' = waiters \cup {s} /\ live' = live \cup {s}
            /\ UNCHANGED <<status, pending>>
    /\ IF quiescing THEN go(s, "failed") /\ kill(s)
       ELSE go(s, "start") /\ UNCHANGED <<helper, cmd>>
    /\ UNCHANGED <<conn, quiescing, left>>

(* The helper's gates, as its session passes them. *)
coordinateHelper(s) ==
    /\ \/ /\ at(s, "start") /\ helper[s].pc = "gate"
          /\ helper' = [helper EXCEPT ![s].pc = "setup"] /\ go(s, "ready")
       \/ /\ at(s, "ready") /\ helper[s].pc = "ready"
          /\ helper' = [helper EXCEPT ![s].pc = "fork"] /\ go(s, "exec")
       \/ /\ at(s, "exec") /\ helper[s].pc = "started"
          /\ helper' = [helper EXCEPT ![s].pc = "wait"] /\ go(s, "ack")
    /\ UNCHANGED <<conn, cmd, regVars, left>>

(* The helper reports an error and ends when it is acknowledged, or it is  *)
(* gone; the session waits for the reaper and drops its registration.      *)
coordinateFails(s) ==
    /\ sess[s].pc \in {"start", "ready", "exec"} /\ helper[s].pc \in Gone \cup {"error"}
    /\ go(s, "failed")
    /\ (IF helper[s].pc = "error" THEN helperEnds(s, "exit") ELSE UNCHANGED <<helper, cmd>>)
    /\ UNCHANGED <<conn, regVars, left>>

(* done *)
forget(s) ==
    /\ waiters' = waiters \ {s} /\ live' = live \ {s}
    /\ pending' = [p \in DOMAIN pending \ {s} |-> pending[p]]

sessionFails(s) ==
    /\ at(s, "failed") /\ status[s] # "none"
    /\ go(s, "end") /\ forget(s)
    /\ UNCHANGED <<conn, helper, cmd, quiescing, status, left>>

(* exec_ack, and the MUX; an ack that cannot be written kills the helper.  *)
writeExecAck(s) ==
    /\ at(s, "ack")
    /\ IF conn[s] = "open" THEN go(s, "run") /\ UNCHANGED <<helper, cmd>>
       ELSE go(s, "lost") /\ kill(s)
    /\ UNCHANGED <<conn, regVars, left>>

(* The connection is lost while the command runs: kill, and wait. *)
sessionLost(s) ==
    /\ at(s, "run") /\ conn[s] = "lost"
    /\ go(s, "lost") /\ kill(s)
    /\ UNCHANGED <<conn, regVars, left>>

(* The status, which is sent; the MUX is closed, and the deferred done.    *)
sessionEnds(s) ==
    /\ sess[s].pc \in {"run", "lost"} /\ status[s] # "none"
    /\ sess' = [sess EXCEPT ![s] = [pc |-> "end", code |-> status[s]]]
    /\ forget(s)
    /\ UNCHANGED <<conn, helper, cmd, quiescing, status, left>>

-----------------------------------------------------------------------------
(* runExecJoin: its namespaces, the fork of the command, the mount join    *)
(* while the command stands at its gate, and the proxied status.           *)
runExecJoin(s) ==
    /\ \/ /\ helper[s].pc = "setup"
          /\ helper' = [helper EXCEPT ![s].pc = "ready"] /\ UNCHANGED cmd
       \/ /\ helper[s].pc = "fork"
          /\ helper' = [helper EXCEPT ![s].pc = "start"]
          /\ cmd' = [cmd EXCEPT ![s].pc = "born"]
       \/ /\ helper[s].pc = "start" /\ cmd[s].pc = "gate"
          /\ helper' = [helper EXCEPT ![s].pc = "joins"]
          /\ cmd' = [cmd EXCEPT ![s].pc = "setup"]
       \/ /\ helper[s].pc = "joins" /\ cmd[s].pc = "ready"
          /\ helper' = [helper EXCEPT ![s].pc = "execs"]
          /\ cmd' = [cmd EXCEPT ![s].pc = "cred"]
       \/ /\ helper[s].pc = "execs" /\ cmd[s].pc \in {"run", "dead"}
          /\ helper' = [helper EXCEPT ![s].pc = "started"] /\ UNCHANGED cmd
    /\ UNCHANGED <<sess, conn, regVars, left>>

(* Any of it fails, or the command does: it is killed and waited for, and  *)
(* the error goes to PID 1.                                                *)
joinFails(s) ==
    /\ helper[s].pc \in {"setup", "fork", "start", "joins", "execs"}
    /\ helper[s].pc = "execs" => cmd[s].pc = "error"
    /\ helper' = [helper EXCEPT ![s].pc = "error"]
    /\ cmd' = IF cmd[s].pc = "none" THEN cmd ELSE [cmd EXCEPT ![s].pc = "dead"]
    /\ UNCHANGED <<sess, conn, regVars, left>>

proxyStatus(s) ==
    /\ helper[s].pc = "wait" /\ cmd[s].pc = "dead"
    /\ helperEnds(s, "exit")
    /\ UNCHANGED <<sess, conn, regVars, left>>

(* runJoinedExecChild: the signal first, then the gates.  The socket of a  *)
(* helper that is gone ends every wait.                                    *)
armParentDeathSignal(c, s) == [c EXCEPT ![s].armed = helper[s].pc \notin Gone]

runJoinedExecChild(s) ==
    /\ \/ /\ cmd[s].pc = "born"
          /\ cmd' = [armParentDeathSignal(cmd, s) EXCEPT ![s].pc = "gate"]
       \/ /\ cmd[s].pc = "setup"
          /\ \E p \in {"ready", "error"} : cmd' = [cmd EXCEPT ![s].pc = p]
       \/ /\ cmd[s].pc \in {"gate", "ready", "error"} /\ helper[s].pc \in Gone
          /\ cmd' = [cmd EXCEPT ![s].pc = "dead"]
    /\ UNCHANGED <<sess, conn, helper, regVars, left>>

(* Mutant: arming the signal again is taken to be enough. *)
verifyNothing(s) == TRUE

(* The peer of the handshake socket is still there. *)
verifyChildParentAlive(s) == helper[s].pc \notin Gone

(* execFinalApplication(joined): a change of credentials clears the        *)
(* signal, it is armed again, and the helper is looked for.                *)
applyCred(s) ==
    /\ cmd[s].pc = "cred"
    /\ \E keeps \in BOOLEAN :
          cmd' = [cmd EXCEPT ![s] = [pc |-> "rearm", armed |-> @.armed /\ keeps]]
    /\ UNCHANGED <<sess, conn, helper, regVars, left>>

rearm(s) ==
    /\ cmd[s].pc = "rearm"
    /\ cmd' = [armParentDeathSignal(cmd, s) EXCEPT ![s].pc = "verify"]
    /\ UNCHANGED <<sess, conn, helper, regVars, left>>

execFinalApplication(s) ==
    /\ cmd[s].pc = "verify"
    /\ \E p \in {"run", "error"} :
          cmd' = [cmd EXCEPT ![s].pc = IF verifyChildParentAlive(s) THEN p ELSE "error"]
    /\ UNCHANGED <<sess, conn, helper, regVars, left>>

commandExits(s) ==
    /\ cmd[s].pc = "run"
    /\ cmd' = [cmd EXCEPT ![s].pc = "dead"]
    /\ UNCHANGED <<sess, conn, helper, regVars, left>>

-----------------------------------------------------------------------------
(* deliver, by the reaper: to the session that waits, or kept for the one  *)
(* that has not registered yet.                                            *)
deliver(s) ==
    /\ helper[s].pc = "dead"
    /\ helper' = [helper EXCEPT ![s].pc = "reaped"]
    /\ live' = live \ {s}
    /\ IF s \in waiters
       THEN /\ waiters' = waiters \ {s}
            /\ status' = [status EXCEPT ![s] = helper[s].code]
            /\ UNCHANGED pending
       ELSE /\ pending' = [p \in DOMAIN pending \cup {s} |->
                              IF p = s THEN helper[s].code ELSE pending[p]]
            /\ UNCHANGED <<waiters, status>>
    /\ UNCHANGED <<sess, conn, cmd, quiescing, left>>

(* beginQuiesce: no session is admitted any more, and those that are live  *)
(* lose their helper and their connection.  rollback or attach ends it.    *)
beginQuiesce ==
    /\ ~quiescing
    /\ quiescing' = TRUE
    /\ helper' = [s \in Sessions |-> IF s \in live /\ helper[s].pc \notin Gone
                                     THEN [pc |-> "dead", code |-> "killed"] ELSE helper[s]]
    /\ cmd' = [s \in Sessions |-> IF s \in live /\ helper[s].pc \notin Gone
                                  THEN orphaned(cmd, s)[s] ELSE cmd[s]]
    /\ conn' = [s \in Sessions |-> IF sess[s].pc \in {"new", "end"} THEN conn[s] ELSE "lost"]
    /\ UNCHANGED <<sess, waiters, pending, live, status, left>>

endQuiesce ==
    /\ quiescing /\ \A s \in Sessions : sess[s].pc \in {"new", "end"}
    /\ quiescing' = FALSE
    /\ UNCHANGED <<sess, conn, helper, cmd, waiters, pending, live, status, left>>

HostHangsUp(s) ==
    /\ conn[s] = "open" /\ ~at(s, "new")
    /\ conn' = [conn EXCEPT ![s] = "lost"]
    /\ UNCHANGED <<sess, helper, cmd, regVars, left>>

HelperKilled(s) ==
    /\ left > 0 /\ helper[s].pc \notin Gone
    /\ kill(s) /\ left' = left - 1
    /\ UNCHANGED <<sess, conn, regVars>>

Done ==
    /\ \A s \in Sessions : at(s, "end")
    /\ UNCHANGED vars

Init ==
    /\ sess = [s \in Sessions |-> [pc |-> "new", code |-> "none"]]
    /\ conn = [s \in Sessions |-> "open"]
    /\ helper = [s \in Sessions |-> [pc |-> "none", code |-> "none"]]
    /\ cmd = [s \in Sessions |-> [pc |-> "none", armed |-> FALSE]]
    /\ quiescing = FALSE /\ waiters = {} /\ pending = [p \in {} |-> "none"] /\ live = {}
    /\ status = [s \in Sessions |-> "none"]
    /\ left = MaxKills

Next ==
    \/ \E s \in Sessions :
          \/ beginSession(s) \/ forkExecChild(s) \/ register(s) \/ coordinateHelper(s)
          \/ coordinateFails(s) \/ sessionFails(s) \/ writeExecAck(s) \/ sessionLost(s)
          \/ sessionEnds(s) \/ runExecJoin(s) \/ joinFails(s) \/ proxyStatus(s)
          \/ runJoinedExecChild(s) \/ applyCred(s) \/ rearm(s) \/ execFinalApplication(s)
          \/ commandExits(s) \/ deliver(s) \/ HostHangsUp(s) \/ HelperKilled(s)
    \/ beginQuiesce \/ endQuiesce \/ Done

Spec == Init /\ [][Next]_vars

-----------------------------------------------------------------------------
(* A command never outlives its helper, nor a helper its session: whenever *)
(* the helper is killed, before, in or after the command's change of       *)
(* credentials, no user code runs without it; a session that has ended     *)
(* leaves no process and no registration behind, and the exit code it sent *)
(* is the one its own helper ended with.                                   *)
ExecOwned ==
    \A s \in Sessions :
        /\ cmd[s].pc = "run" => helper[s].pc \notin Gone
        /\ at(s, "end") => /\ helper[s].pc \in {"none", "reaped"} /\ cmd[s].pc # "run"
                           /\ s \notin waiters \cup live \cup DOMAIN pending
                           /\ sess[s].code \in {"none", helper[s].code}
==============================================================================

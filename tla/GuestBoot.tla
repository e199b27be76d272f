------------------------------ MODULE GuestBoot ------------------------------
(***************************************************************************)
(* cmd/sandbox-init from PID 1's first step to the power-off, with the     *)
(* host's launch server (pkg/guestlink/launchsrv.go) at the other end: the *)
(* boot steps, the launch handshake, the two-gate handshake with the       *)
(* helper that becomes the app, restarts, the reaper, a shutdown request   *)
(* over the reverse channel, and the initial launch fact the host decides  *)
(* on.  Quiesce and attach are in GuestQuiesce, exec in ExecJoin.          *)
(*                                                                         *)
(* Attempt n is the n-th fork of the app: kid[n] is the process, launch[n] *)
(* the goroutine that coordinates it (main for the first one).             *)
(***************************************************************************)
EXTENDS Naturals, Sequences, FiniteSets

CONSTANTS
    Policies,     \* the values of launch.restart
    Controls,     \* the values of launch.cgroup_control
    MaxAttempts,  \* forks of the app; the last one's exit is final
    MaxKills      \* processes killed from outside

Attempts == 1..MaxAttempts

VARIABLES
    spec,     \* [policy, control] of the LaunchSpec
    main,     \* PID 1's main goroutine: steps of Boot left, then its place
    tree,     \* mounts: [old |-> reachable only before the switch, new |-> under /sysroot]
    cgroup,   \* applicationCgroups: [made, delegated, pinned]
    notify,   \* the signals PID 1 has asked for
    pending,  \* the signals in sigCh
    fact,     \* initialLaunch: [token, state]
    sup,      \* the supervisor is published
    appPid, shutdown, drained,
    kid,      \* [pc, sees, in] of each attempt
    launch,   \* [pc] of the goroutine of each attempt
    request,  \* a shutdown request in the reverse channel: [pc, sup]
    srv,      \* the launch server: [pc, spec, acked, mux, open]
    wire,     \* facts on their way to the host, in Pongs and notifications
    host,     \* Runtime.Launch: [started, failed, done]
    told,     \* the app was sent its stop signal
    ran,      \* history: attempts that reached user code
    kills

mainVars == <<main, tree, cgroup>>
sigVars == <<notify, pending>>
appVars == <<appPid, shutdown, drained, told>>
procVars == <<kid, launch, ran, kills>>
hostVars == <<srv, wire, host>>
vars == <<spec, mainVars, sigVars, fact, sup, appVars, procVars, request, hostVars>>

-----------------------------------------------------------------------------
(* The steps of main before the fork: where each one mounts, what must be  *)
(* reachable for it, and what it provides.                                 *)
step(f, needs, gives) == [f |-> f, needs |-> needs, gives |-> gives]

phaseBaseRuntime == step("phaseBaseRuntime", {}, {"proc", "sys", "dev", "payload", "sysdisks"})
bringUpLoopback == step("bringUpLoopback", {"sys"}, {})
waitForLaunch == step("waitForLaunch", {}, {})
mountRoot == step("mountRoot", {"dev"}, {"root"})
bindPayload == step("bindPayload", {"payload", "root"}, {"payload"})
applyVolumeMounts == step("applyVolumeMounts", {"root"}, {"volumes"})
assembleDataDisk == step("assembleDataDisk", {"root", "dev", "sysdisks"}, {"disks"})
phase1bSwitchRoot == step("phase1bSwitchRoot", {"root", "proc", "sys", "dev"}, {"pts"})
cgroupMount == step("cgroupMount", {"sys"}, {"cgroup"})
mountRunDirs == step("mountRunDirs", {"root"}, {"run"})
applyNetwork == step("applyNetwork", {"sys"}, {"network"})
applyFsMounts == step("applyFsMounts", {"root"}, {"tmpfs"})
applyFiles == step("applyFiles", {"root", "run"}, {"files"})
runInit == step("runInit", {"root", "disks", "files", "network"}, {"init"})
setupAppStdio == step("setupAppStdio", {"pts"}, {"stdio"})
launchAck == step("launchAck", {}, {})

BeforeSwitch == <<mountRoot, bindPayload, applyVolumeMounts, assembleDataDisk>>
AfterSwitch == <<cgroupMount, mountRunDirs, applyNetwork, applyFsMounts, applyFiles, runInit,
                 setupAppStdio, launchAck>>

(* phaseWorkloadRoot, with the switch at its end, and phase2Apply. *)
phaseWorkloadRoot == BeforeSwitch \o <<phase1bSwitchRoot>>

Boot == <<phaseBaseRuntime, bringUpLoopback, waitForLaunch>> \o phaseWorkloadRoot \o AfterSwitch

at(f) == main.steps # <<>> /\ Head(main.steps).f = f
reach == IF main.switched THEN tree.new ELSE tree.old \cup tree.new

(* What the app is promised: every mount of its spec, and the runtime. *)
Required == {"proc", "sys", "dev", "root", "payload", "volumes", "disks", "pts", "cgroup",
             "run", "network", "tmpfs", "files", "init", "stdio"}

alive == main.pc \notin {"off", "panic"}

(* initialLaunchOwner *)
failed(f) == IF f.state = "pending" THEN [f EXCEPT !.state = "failed"] ELSE f
started(f) == IF f.state = "pending" THEN [f EXCEPT !.state = "started"] ELSE f
exited(f) ==
    IF f.state \in {"", "pending", "started"} THEN [f EXCEPT !.state = "exited"] ELSE f
begin(f) ==
    IF f.token THEN f
    ELSE [token |-> TRUE, state |-> IF f.state = "" THEN "pending" ELSE f.state]

(* snapshot, as a message that carries it; nil without a token. *)
snapshot(f) == IF f.token THEN {f.state} ELSE {}

(* The host's end of a message that is still open when PID 1 is gone. *)
hangUp(s) == IF s.pc \in {"hello", "sent"} THEN [s EXCEPT !.pc = "broken"] ELSE s

(* die: PID 1 exits, and the kernel of the guest panics. *)
die ==
    /\ main' = [main EXCEPT !.pc = "panic", !.steps = <<>>]
    /\ fact' = failed(fact) /\ srv' = hangUp(srv)

(* doReboot, after its POWER_OFF. *)
powerOff ==
    /\ main' = [main EXCEPT !.pc = "off", !.steps = <<>>]
    /\ fact' = exited(fact) /\ srv' = hangUp(srv)

-----------------------------------------------------------------------------
(* A step of main that is not a message: its mounts go below /sysroot or,  *)
(* before that and for the runtime itself, where a switch leaves them      *)
(* behind.                                                                 *)
RunStep ==
    /\ main.pc = "boot" /\ main.steps # <<>>
    /\ Head(main.steps).f \notin {"waitForLaunch", "launchAck"}
    /\ LET s == Head(main.steps) IN
       /\ s.needs \subseteq reach
       /\ main' = [main EXCEPT !.steps = Tail(@), !.switched = @ \/ s = phase1bSwitchRoot]
       /\ tree' = IF s = phaseBaseRuntime THEN [tree EXCEPT !.old = @ \cup s.gives]
                  ELSE [tree EXCEPT !.new = @ \cup s.gives \cup
                            (IF s = phase1bSwitchRoot THEN {"proc", "sys", "dev"} ELSE {})]
       /\ cgroup' = IF s = cgroupMount THEN [cgroup EXCEPT !.made = TRUE] ELSE cgroup
    /\ UNCHANGED <<spec, sigVars, fact, sup, appVars, procVars, request, hostVars>>

(* A step fails: a mount, a device that does not appear, an init command.  *)
(* When its facilities are out of reach it always does.                    *)
StepFails ==
    /\ main.pc = "boot" /\ main.steps # <<>>
    /\ die
    /\ UNCHANGED <<spec, tree, cgroup, sigVars, sup, appVars, procVars, request, wire, host>>

(* waitForLaunch: runtime_ready, and the launch it is answered with. *)
Hello ==
    /\ main.pc = "boot" /\ at("waitForLaunch") /\ srv.pc = "listen"
    /\ srv' = [srv EXCEPT !.pc = "hello"]
    /\ UNCHANGED <<spec, mainVars, sigVars, fact, sup, appVars, procVars, request, wire, host>>

GetLaunch ==
    /\ main.pc = "boot" /\ at("waitForLaunch") /\ srv.pc = "sent"
    /\ main' = [main EXCEPT !.steps = Tail(@)]
    /\ fact' = begin(fact)
    /\ UNCHANGED <<spec, tree, cgroup, sigVars, sup, appVars, procVars, request, hostVars>>

(* The end of phase2Apply: launch_ack, the host's ack, and the MUX; then   *)
(* main asks for SIGCHLD and forks.                                        *)
SendLaunchAck ==
    /\ main.pc = "boot" /\ at("launchAck") /\ srv.pc = "sent"
    /\ main' = [main EXCEPT !.pc = "ack"]
    /\ UNCHANGED <<spec, tree, cgroup, sigVars, fact, sup, appVars, procVars, request, hostVars>>

GetAck ==
    /\ main.pc = "ack" /\ srv.acked
    /\ main' = [main EXCEPT !.pc = "fork", !.steps = <<>>]
    /\ notify' = notify \cup {"chld"}
    /\ UNCHANGED <<spec, tree, cgroup, pending, fact, sup, appVars, procVars, request, hostVars>>

HandshakeLost ==
    /\ main.pc \in {"boot", "ack"} /\ srv.pc \in {"broken", "closed"}
    /\ main.pc = "ack" \/ at("waitForLaunch") \/ at("launchAck")
    /\ die
    /\ UNCHANGED <<spec, tree, cgroup, sigVars, sup, appVars, procVars, request, wire, host>>

-----------------------------------------------------------------------------
(* A process of the app ends, and the kernel says so to PID 1. *)
ends(k, n) == [k EXCEPT ![n].pc = "dead"]
childSignal == pending' = IF "chld" \in notify THEN pending \cup {"chld"} ELSE pending
leavesKid == <<spec, mainVars, notify, fact, sup, appVars, request, hostVars>>

(* phase2ForkApp up to the start gate: the mount tree is shared, the clone *)
(* is born in the cgroup, and a restart registers it before it can go on.  *)
Spawn(n) ==
    /\ launch[n] = "fork" /\ alive
    /\ cgroup.made /\ (n > 1 => cgroup.pinned)
    /\ kid' = [kid EXCEPT ![n] = [pc |-> "gate", sees |-> tree.new,
                                  in |-> IF n = 1 THEN "app" ELSE "target"]]
    /\ launch' = [launch EXCEPT ![n] = "start"]
    /\ appPid' = IF n = 1 THEN appPid ELSE n
    /\ UNCHANGED <<spec, mainVars, sigVars, fact, sup, shutdown, drained, told, ran, kills,
                   request, hostVars>>

(* The clone fails: there is no process, and the guest goes down. *)
SpawnFails(n) ==
    /\ launch[n] = "fork" /\ alive
    /\ launch' = [launch EXCEPT ![n] = "done"]
    /\ IF n = 1 THEN die /\ UNCHANGED <<wire>>
       ELSE /\ powerOff
            /\ wire' = wire \cup snapshot(exited(fact))
    /\ UNCHANGED <<spec, tree, cgroup, sigVars, sup, appVars, kid, ran, kills, request, host>>

(* coordinateChild: "start". *)
Release(n) ==
    /\ launch[n] = "start" /\ alive /\ kid[n].pc = "gate"
    /\ kid' = [kid EXCEPT ![n].pc = "setup"]
    /\ launch' = [launch EXCEPT ![n] = "wait"]
    /\ UNCHANGED <<leavesKid, pending, ran, kills>>

(* runPrimaryExecChild: its own mounts, the pinned namespace of a restart, *)
(* the move into /init of the first one; then "ready".                     *)
Setup(n) ==
    /\ kid[n].pc = "setup" /\ alive
    /\ kid' = [kid EXCEPT ![n] = [@ EXCEPT !.pc = "ready",
                                  !.in = IF n = 1 /\ spec.control THEN "target" ELSE @]]
    /\ UNCHANGED <<leavesKid, pending, launch, ran, kills>>

(* childSync.fail: the child waits until its error is acknowledged. *)
SetupFails(n) ==
    /\ kid[n].pc \in {"setup", "go"} /\ alive
    /\ kid' = [kid EXCEPT ![n].pc = "error"]
    /\ UNCHANGED <<leavesKid, pending, launch, ran, kills>>

(* Mutant: "go" does not wait for the delegation. *)
ReadyEarly(n) ==
    /\ launch[n] = "wait" /\ alive /\ kid[n].pc = "ready"
    /\ cgroup' = IF n = 1 THEN [cgroup EXCEPT !.pinned = TRUE] ELSE cgroup
    /\ kid' = [kid EXCEPT ![n].pc = "go"]
    /\ launch' = [launch EXCEPT ![n] = "exec"]
    /\ UNCHANGED <<spec, main, tree, sigVars, fact, sup, appVars, ran, kills, request, hostVars>>

(* cgroupFinalizeBootstrap, while the first child stands at its gate, and  *)
(* "go".                                                                   *)
Ready(n) ==
    /\ launch[n] = "wait" /\ alive /\ kid[n].pc = "ready"
    /\ cgroup' = IF n = 1 THEN [cgroup EXCEPT !.pinned = TRUE, !.delegated = spec.control] ELSE cgroup
    /\ kid' = [kid EXCEPT ![n].pc = "go"]
    /\ launch' = [launch EXCEPT ![n] = "exec"]
    /\ UNCHANGED <<spec, main, tree, sigVars, fact, sup, appVars, ran, kills, request, hostVars>>

(* execFinalApplication *)
Exec(n) ==
    /\ kid[n].pc = "go" /\ alive
    /\ kid' = [kid EXCEPT ![n].pc = "run"]
    /\ ran' = ran \cup {n}
    /\ UNCHANGED <<leavesKid, pending, launch, kills>>

(* The child's socket is closed without an error: the program was started, *)
(* or the helper was killed on its way to it.                              *)
AfterEOF(n) ==
    /\ launch[n] = "exec" /\ alive /\ kid[n].pc \in {"run", "dead", "reaped"}
    /\ launch' = [launch EXCEPT ![n] = "report"]
    /\ UNCHANGED <<leavesKid, pending, kid, ran, kills>>

(* The child reported an error, died at a gate, or could not be finalized: *)
(* "abort", after which it exits.  The first one is reaped here and takes  *)
(* the guest down; the reaper has any other.                               *)
CoordinateFails(n) ==
    /\ alive
    /\ \/ launch[n] \in {"wait", "exec"} /\ kid[n].pc = "error"
       \/ launch[n] \in {"start", "wait"} /\ kid[n].pc \in {"dead", "reaped"}
       \/ launch[n] = "wait" /\ kid[n].pc = "ready" /\ n = 1
    /\ launch' = [launch EXCEPT ![n] = "done"]
    /\ IF n = 1
       THEN /\ kid' = [kid EXCEPT ![n].pc = "reaped"]
            /\ die /\ UNCHANGED pending
       ELSE /\ kid' = IF kid[n].pc = "error" THEN ends(kid, n) ELSE kid
            /\ (IF kid[n].pc = "error" THEN childSignal ELSE UNCHANGED pending)
            /\ UNCHANGED <<main, fact, srv>>
    /\ UNCHANGED <<spec, tree, cgroup, notify, sup, appVars, ran, kills, request, wire, host>>

(* The app exits, or somebody kills the process before it is one. *)
AppExits(n) ==
    /\ kid[n].pc = "run" /\ alive
    /\ kid' = ends(kid, n) /\ childSignal
    /\ UNCHANGED <<leavesKid, launch, ran, kills>>

Killed(n) ==
    /\ kid[n].pc \in {"gate", "setup", "ready", "go", "error"} /\ alive /\ kills < MaxKills
    /\ kid' = ends(kid, n) /\ childSignal /\ kills' = kills + 1
    /\ UNCHANGED <<leavesKid, launch, ran>>

-----------------------------------------------------------------------------
(* main after the first fork: the supervisor, the fact, and app_started;   *)
(* a restart only notifies.                                                *)
Publish ==
    /\ launch[1] = "report" /\ main.pc = "fork"
    /\ appPid' = 1 /\ sup' = TRUE
    /\ main' = [main EXCEPT !.pc = "started"] /\ launch' = [launch EXCEPT ![1] = "done"]
    /\ UNCHANGED <<spec, tree, cgroup, sigVars, fact, shutdown, drained, told, kid, ran, kills,
                   request, hostVars>>

Started ==
    /\ main.pc = "started"
    /\ fact' = started(fact)
    /\ wire' = wire \cup snapshot(started(fact))
    /\ main' = [main EXCEPT !.pc = "notify"]
    /\ UNCHANGED <<spec, tree, cgroup, sigVars, sup, appVars, procVars, request, srv, host>>

(* The notification was acknowledged, refused or timed out. *)
phase3Supervise ==
    /\ main.pc = "notify"
    /\ main' = [main EXCEPT !.pc = "supervise"]
    /\ notify' = notify \cup {"term"}
    /\ UNCHANGED <<spec, tree, cgroup, pending, fact, sup, appVars, procVars, request, hostVars>>

notifyAppStarted(n) ==
    /\ n > 1 /\ launch[n] = "report" /\ alive
    /\ wire' = wire \cup snapshot(fact)
    /\ launch' = [launch EXCEPT ![n] = "done"]
    /\ UNCHANGED <<spec, mainVars, sigVars, fact, sup, appVars, kid, ran, kills, request, srv, host>>

(* wantRestart, for the exit statuses there are. *)
wantRestart(policy) ==
    CASE policy = "always" -> {TRUE} [] policy = "on-failure" -> {TRUE, FALSE} [] OTHER -> {FALSE}

(* One round of Wait4: the app's exit restarts it or ends the guest; the   *)
(* status of any other process goes to a session that waits for it.        *)
handleAppExit(n) ==
    /\ kid' = [kid EXCEPT ![n].pc = "reaped"]
    /\ IF n # appPid
       THEN UNCHANGED <<launch, main, fact>>
       ELSE \E again \in wantRestart(spec.policy) :
                IF ~shutdown /\ again /\ n < MaxAttempts
                THEN /\ launch' = [launch EXCEPT ![n + 1] = "sleep"]
                     /\ UNCHANGED <<main, fact>>
                ELSE /\ main' = [main EXCEPT !.pc = "ending"]
                     /\ fact' = exited(fact)
                     /\ UNCHANGED launch

Reap ==
    /\ main.pc = "supervise" /\ "chld" \in pending
    /\ \/ \E n \in Attempts : /\ kid[n].pc = "dead" /\ handleAppExit(n) /\ UNCHANGED pending
       \/ /\ \A n \in Attempts : kid[n].pc # "dead"
          /\ pending' = pending \ {"chld"}
          /\ UNCHANGED <<kid, launch, main, fact>>
    /\ UNCHANGED <<spec, tree, cgroup, notify, sup, appVars, ran, kills, request, hostVars>>

(* SIGTERM: no restart from now on, the stop signal, and after the app's   *)
(* exit or the grace the same end.                                         *)
Terminate ==
    /\ main.pc = "supervise" /\ "term" \in pending
    /\ pending' = pending \ {"term"}
    /\ shutdown' = TRUE /\ told' = TRUE /\ fact' = exited(fact)
    /\ main' = [main EXCEPT !.pc = "ending"]
    /\ UNCHANGED <<spec, tree, cgroup, notify, sup, appPid, drained, procVars, request, hostVars>>

(* appExited, and notifyAppExited with its fact. *)
Ending ==
    /\ main.pc = "ending"
    /\ drained' = TRUE
    /\ fact' = exited(fact) /\ wire' = wire \cup snapshot(exited(fact))
    /\ main' = [main EXCEPT !.pc = "reboot"]
    /\ UNCHANGED <<spec, tree, cgroup, sigVars, sup, appPid, shutdown, told, procVars, request, srv, host>>

doReboot ==
    /\ main.pc = "reboot"
    /\ powerOff
    /\ UNCHANGED <<spec, tree, cgroup, sigVars, sup, appVars, procVars, request, wire, host>>

(* restartApp after its delay: it stops for a shutdown, and for a bridge   *)
(* that is closed; a failed re-wire ends the guest.                        *)
restartApp(n) ==
    /\ launch[n] = "sleep" /\ alive
    /\ launch' = [launch EXCEPT ![n] = IF shutdown \/ drained THEN "done" ELSE "fork"]
    /\ UNCHANGED <<leavesKid, pending, kid, ran, kills>>

-----------------------------------------------------------------------------
(* The reverse channel: a handler has loaded the supervisor when it reads  *)
(* the request.  It acknowledges, marks the exit, and ends the guest or    *)
(* sends PID 1 a signal, which kills it when nothing asked for it.         *)
ShutdownRequest ==
    /\ request.pc = "none" /\ alive /\ main.up
    /\ request' = [pc |-> "acked", sup |-> sup]
    /\ fact' = exited(fact)
    /\ UNCHANGED <<spec, mainVars, sigVars, sup, appVars, procVars, hostVars>>

ShutdownActs ==
    /\ request.pc = "acked" /\ alive
    /\ request' = [request EXCEPT !.pc = "done"]
    /\ IF ~request.sup THEN powerOff /\ UNCHANGED pending
       ELSE IF "term" \in notify
       THEN pending' = pending \cup {"term"} /\ UNCHANGED <<main, fact, srv>>
       ELSE /\ main' = [main EXCEPT !.pc = "panic", !.steps = <<>>]
            /\ srv' = hangUp(srv) /\ UNCHANGED <<pending, fact>>
    /\ UNCHANGED <<spec, tree, cgroup, notify, sup, appVars, procVars, wire, host>>

(* serveReverseChannelDynamic starts before runtime_ready. *)
ServeReverse ==
    /\ main.pc = "boot" /\ ~main.up /\ at("waitForLaunch")
    /\ main' = [main EXCEPT !.up = TRUE]
    /\ UNCHANGED <<spec, tree, cgroup, sigVars, fact, sup, appVars, procVars, request, hostVars>>

Ping ==
    /\ alive /\ main.up
    /\ wire' = wire \cup snapshot(fact) /\ wire' # wire
    /\ UNCHANGED <<spec, mainVars, sigVars, fact, sup, appVars, procVars, request, srv, host>>

-----------------------------------------------------------------------------
(* The launch server.  SetSpec is the host's; the handler of the hello     *)
(* sends it, waits for launch_ack, acknowledges and hands the connection   *)
(* over; a handshake it has begun and not completed fails the launch.      *)
SetSpec ==
    /\ ~srv.spec
    /\ srv' = [srv EXCEPT !.spec = TRUE]
    /\ UNCHANGED <<spec, mainVars, sigVars, fact, sup, appVars, procVars, request, wire, host>>

SendLaunch ==
    /\ srv.pc = "hello" /\ srv.spec
    /\ srv' = [srv EXCEPT !.pc = "sent"]
    /\ UNCHANGED <<spec, mainVars, sigVars, fact, sup, appVars, procVars, request, wire, host>>

WriteAck ==
    /\ srv.pc = "sent" /\ main.pc = "ack"
    /\ srv' = [srv EXCEPT !.pc = "acked", !.acked = TRUE]
    /\ UNCHANGED <<spec, mainVars, sigVars, fact, sup, appVars, procVars, request, wire, host>>

OnMUXReady ==
    /\ srv.pc = "acked"
    /\ srv' = [srv EXCEPT !.pc = "mux", !.mux = TRUE]
    /\ UNCHANGED <<spec, mainVars, sigVars, fact, sup, appVars, procVars, request, wire, host>>

(* StartTimeout, or the guest hung up. *)
OnLaunchFailure ==
    /\ srv.pc \in {"sent", "broken"}
    /\ srv' = [srv EXCEPT !.pc = IF srv.pc = "sent" THEN "broken" ELSE "closed"]
    /\ host' = IF srv.spec /\ ~host.done THEN [host EXCEPT !.failed = TRUE] ELSE host
    /\ UNCHANGED <<spec, mainVars, sigVars, fact, sup, appVars, procVars, request, wire>>

(* observeInitialLaunch of a fact that arrives, in whatever order. *)
observeInitialLaunch ==
    /\ ~host.done /\ ~host.failed
    /\ \E f \in wire :
          host' = CASE f = "started" -> [host EXCEPT !.started = TRUE]
                    [] f \in {"failed", "exited"} -> [host EXCEPT !.failed = TRUE]
                    [] OTHER -> host
    /\ UNCHANGED <<spec, mainVars, sigVars, fact, sup, appVars, procVars, request, srv, wire>>

(* commitLaunch *)
commitLaunch ==
    /\ host.started /\ ~host.failed /\ ~host.done /\ srv.acked /\ srv.mux
    /\ host' = [host EXCEPT !.done = TRUE]
    /\ UNCHANGED <<spec, mainVars, sigVars, fact, sup, appVars, procVars, request, srv, wire>>

(* The guest is down, or its app runs and nothing is under way. *)
Rests ==
    /\ ~alive \/ (main.pc = "supervise" /\ pending = {})
    /\ UNCHANGED vars

-----------------------------------------------------------------------------
Init ==
    /\ spec \in [policy : Policies, control : Controls]
    /\ main = [pc |-> "boot", steps |-> Boot, switched |-> FALSE, up |-> FALSE]
    /\ tree = [old |-> {}, new |-> {}]
    /\ cgroup = [made |-> FALSE, delegated |-> FALSE, pinned |-> FALSE]
    /\ notify = {} /\ pending = {}
    /\ fact = [token |-> FALSE, state |-> ""]
    /\ sup = FALSE /\ appPid = 0 /\ shutdown = FALSE /\ drained = FALSE /\ told = FALSE
    /\ kid = [n \in Attempts |-> [pc |-> "none", sees |-> {}, in |-> ""]]
    /\ launch = [n \in Attempts |-> IF n = 1 THEN "main" ELSE "none"]
    /\ request = [pc |-> "none", sup |-> FALSE]
    /\ srv = [pc |-> "listen", spec |-> FALSE, acked |-> FALSE, mux |-> FALSE]
    /\ wire = {} /\ host = [started |-> FALSE, failed |-> FALSE, done |-> FALSE]
    /\ ran = {} /\ kills = 0

(* main goes into the first fork. *)
ForkFirst ==
    /\ main.pc = "fork" /\ launch[1] = "main"
    /\ launch' = [launch EXCEPT ![1] = "fork"]
    /\ UNCHANGED <<leavesKid, pending, kid, ran, kills>>

Next ==
    \/ RunStep \/ StepFails \/ Hello \/ GetLaunch \/ SendLaunchAck \/ GetAck \/ HandshakeLost
    \/ ForkFirst \/ Publish \/ Started \/ phase3Supervise \/ Reap \/ Terminate \/ Ending \/ doReboot
    \/ \E n \in Attempts :
          \/ Spawn(n) \/ SpawnFails(n) \/ Release(n) \/ Setup(n) \/ SetupFails(n) \/ Ready(n)
          \/ Exec(n) \/ AfterEOF(n) \/ CoordinateFails(n) \/ AppExits(n) \/ Killed(n)
          \/ notifyAppStarted(n) \/ restartApp(n)
    \/ ShutdownRequest \/ ShutdownActs \/ ServeReverse \/ Ping
    \/ SetSpec \/ SendLaunch \/ WriteAck \/ OnMUXReady \/ OnLaunchFailure
    \/ observeInitialLaunch \/ commitLaunch \/ Rests

Spec == Init /\ [][Next]_vars

-----------------------------------------------------------------------------
(* User code runs only behind every gate: with all its mounts, in the      *)
(* cgroup the spec asks for, below a namespace PID 1 has pinned and, with  *)
(* cgroup_control, after the controllers were delegated (the "go" of       *)
(* coordinateChild).                                                       *)
Confined ==
    \A n \in Attempts : kid[n].pc = "run" =>
        /\ Required \subseteq kid[n].sees
        /\ cgroup.pinned
        /\ spec.control => cgroup.delegated /\ kid[n].in = "target"

(* Whatever fails or is killed, PID 1 never stands over nothing: while it  *)
(* supervises, there is a process of the app it will recognise, a signal   *)
(* it has not taken, or a restart on its way.                              *)
Supervised ==
    main.pc = "supervise" =>
        \/ pending # {}
        \/ \E n \in Attempts : \/ n = appPid /\ kid[n].pc \notin {"none", "reaped", "dead"}
                               \/ launch[n] \in {"sleep", "fork"}

(* The outcome of Launch is true of the guest: success means that the      *)
(* program was started, failure that it was not or that the guest goes     *)
(* down, whichever Pong or notification came first, late or twice.         *)
OutcomeTrue ==
    /\ host.started => 1 \in ran \/ kills > 0
    /\ host.failed /\ ~host.done => fact.state \in {"failed", "exited"} \/ srv.pc \in {"broken", "closed"}

(* The app of a guest is accounted for from its fork to its end: confined  *)
(* before its program runs, supervised whatever dies, and truly reported   *)
(* to the host (coordinateChild, phase3Supervise, initialLaunchOwner).     *)
AppAccounted == Confined /\ Supervised /\ OutcomeTrue
==============================================================================

------------------------------- MODULE MCGuest -------------------------------
(***************************************************************************)
(* Small instances of the models of what a running guest talks to, and of  *)
(* what it is billed for: the capture barrier in its init (GuestQuiesce),  *)
(* the console of its app (AppConsole), its block device (VhostBlk) and    *)
(* the file of its usage, saved in the background while observations go on *)
(* (UsageStore).  A behaviour is one of one of them; the variables of the  *)
(* others keep their initial values.                                       *)
(***************************************************************************)
EXTENDS GuestQuiesce

CONSTANTS
    Roles, Window, MaxWrites, MaxGens, MaxSessions, MaxFaults,
    MaxReqs, MaxEvents, Segments

VARIABLES
    which,
    proc, pipe, bridge, task, pump, holder, sess, link, fault,
    server, masters, sstop, ctxDone, stopper, table, feat, q, drainMu, event, w,
    pauseGate, quiescer, windows, inflight, fatal, bound, avail, kicked, used, notified,
    disk, answer,
    file, tail, exists, live, manager, writer, close, vmm, raw, past, count

Console == INSTANCE AppConsole WITH app <- proc
Vhost == INSTANCE VhostBlk WITH
    serve <- server, mem <- table, gate <- pauseGate,
    captures <- windows
Usage == INSTANCE UsageStore WITH
    Slots <- {0}, Values <- {2}, Second <- 3, Hertz <- 2,
    MaxEvents <- 2, MaxTicks <- 1, MaxRuns <- 2, MaxFaults <- 1, mgr <- manager

consoleVars == <<proc, pipe, bridge, task, pump, holder, sess, link, fault>>
vhostVars ==
    <<server, masters, sstop, ctxDone, stopper, table, feat, q, drainMu, event, w,
      pauseGate, quiescer, windows, inflight, fatal, bound, avail, kicked, used, notified,
      disk, answer>>
usageVars == <<file, tail, exists, live, manager, writer, close, vmm, raw, past, count>>
allVars == <<which, vars, consoleVars, vhostVars, usageVars>>

MCInit ==
    /\ which \in {"quiesce", "console", "vhost", "usage"}
    /\ Init
    /\ Console!Init
    /\ Vhost!Init
    /\ Usage!Init

\* The host need not capture again, and the runs that open the usage file
\* come to an end.
Rests == which \in {"quiesce", "usage"} /\ UNCHANGED allVars

MCNext ==
    \/ which = "quiesce" /\ Next /\ UNCHANGED <<which, consoleVars, vhostVars, usageVars>>
    \/ which = "console" /\ Console!Next /\ UNCHANGED <<which, vars, vhostVars, usageVars>>
    \/ which = "vhost" /\ Vhost!Next /\ UNCHANGED <<which, vars, consoleVars, usageVars>>
    \/ which = "usage" /\ Usage!Next /\ UNCHANGED <<which, vars, consoleVars, vhostVars>>
    \/ Rests

MCSpec == MCInit /\ [][MCNext]_allVars

\* The host receives the app's output in order, without duplicates or gaps
\* (AppConsole!OutputExact).
OutputExact == Console!OutputExact

\* Requests complete in ring order, once, and honestly, a quiesced worker is
\* outside every request and uses the memory table in force, and a worker that
\* waits has nothing to do (VhostBlk!CompletionsExact, VhostBlk!WorkerConfined,
\* VhostBlk!KickNotLost).
RequestsExact == Vhost!CompletionsExact /\ Vhost!WorkerConfined /\ Vhost!KickNotLost

\* Whatever write of the usage file fails and wherever a run is killed, the
\* windows add up to the totals, the counters claim no more than they know,
\* and the saved record is in the file (UsageStore!UsageExact).
UsageExact == Usage!UsageExact
==============================================================================

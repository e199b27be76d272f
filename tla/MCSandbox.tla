------------------------------ MODULE MCSandbox -------------------------------
(***************************************************************************)
(* Small instances of the life of a sandbox: one restored run on the host, *)
(* from set-up to release (RestoreRun), the boot of its guest up to the    *)
(* supervised app (GuestBoot), an exec into it (ExecJoin), the managed     *)
(* directory of its checkpoints (ManagedDirectory), the diff file of a     *)
(* writable disk and its creation (DiffFile, FreshDiff), and the           *)
(* publication of what was captured (Publication, LocationPublish), the    *)
(* layers under its disks through the generations (PortableGraph), and the *)
(* ownership of its run directory (RunIdentity).  A behaviour is one of    *)
(* one of them; the variables of the others keep their initial values.     *)
(***************************************************************************)
EXTENDS RunIdentity, Integers, Sequences, TLC

CONSTANTS NoLayer, Nil

VARIABLES
    which,
    at, phase, settle, holds, defers, running, cancelled, ch, told, fatal, signals, loop,
    high, captures, ready,
    spec, main, tree, limits, notify, pending, fact, sup, appPid, shutdown, drained, kid,
    launch, request, srv, wire, client, sent, ran, deaths,
    sess, conn, helper, cmd, quiescing, waiters, unclaimed, live, status, rest,
    store, stored, alias, current, op, owner, next, run, mgr, parent, count, base, want, final,
    data, pres, bitmap, payload, open, failed, lock, batch, disc, old, may, left,
    c, fresh, claimed, lockOf, made, inode, safe, budget,
    place, content, creator, withdrawn, loc, cleans, crashes,
    target, carrier, lost, memo, pub, runs, faults,
    vm, shown, artifact, writes, taken, vms

Run == INSTANCE RestoreRun WITH MaxSignals <- 2, MaxCaptures <- 1, held <- holds

Boot == INSTANCE GuestBoot WITH
    Policies <- {"never", "on-failure"}, Controls <- {TRUE}, MaxAttempts <- 2, MaxKills <- 1,
    cgroup <- limits, host <- client, told <- sent, kills <- deaths

Join == INSTANCE ExecJoin WITH
    Sessions <- {1, 2}, MaxKills <- 1, pending <- unclaimed, left <- rest

Managed == INSTANCE ManagedDirectory WITH
    Disks <- {1, 2}, MaxRuns <- 2, MaxCaptures <- 1, MaxWrites <- 1, MaxKills <- 1,
    MaxCleanups <- 1, None <- Nil, files <- stored

\* Three blocks, the last in a presence page of its own.
TwoPages(b) == IF b = 3 THEN 2 ELSE 1

Diff == INSTANCE DiffFile WITH
    Blocks <- {1, 2, 3}, pageOf <- TwoPages, Values <- {"a", "b"}, MaxWrites <- 2,
    MaxDiscards <- 1, MaxFaults <- 1, MaxCrashes <- 1, fatal <- failed

Creation == INSTANCE FreshDiff WITH
    Creators <- {1, 2, 3}, Claims <- {1, 2, 3}, MaxFaults <- 1, MaxCrashes <- 1,
    MaxPowerLoss <- 1, final <- fresh, left <- budget

Location == INSTANCE LocationPublish WITH
    Publishers <- {1, 2}, Inodes <- {1, 2, 3}, MaxCleans <- 1, MaxCrashes <- 1, pub <- loc,
    dir <- place

\* Layers of two blocks.  "d" reads like "a", "x" does not, and "c" reads like
\* "a" over "b".
LayerOf ==
    ("a" :> <<"a", "hole">>) @@ ("b" :> <<"b", "b">>) @@ ("c" :> <<"a", "b">>)
      @@ ("d" :> <<"a", "hole">>) @@ ("x" :> <<"b", "hole">>)

Self(refs) == [self |-> <<"hole", "a">>, refs |-> refs]
External(refs) == [self |-> NoLayer, refs |-> refs]

\* "e0" is published already; "e2" reads like "e1".
SandboxOf ==
    ("e0" :> <<Self(<<"b">>)>>)
      @@ ("e1" :> <<Self(<<"b">>), External(<<"a", "b">>)>>)
      @@ ("e2" :> <<Self(<<"b">>), External(<<"c">>)>>)

SnapshotOf ==
    ("s" :> [memory |-> Self(<<"a">>), sandbox |-> "e1"])
      @@ ("s0" :> [memory |-> Self(<<"a">>), sandbox |-> "e0"])

NoRewrite == [replace |-> {}, reduce |-> {}, any |-> FALSE, skip |-> FALSE]

\* Rewrites that are equivalent, that are not, that name nothing of a graph,
\* that overlap, and one that skips the verification.
Rewrites ==
    {[NoRewrite EXCEPT !.any = TRUE],
     [NoRewrite EXCEPT !.replace = {<<"a", "d">>}],
     [NoRewrite EXCEPT !.replace = {<<"a", "x">>}],
     [NoRewrite EXCEPT !.replace = {<<"e1", "e2">>}],
     [NoRewrite EXCEPT !.reduce = {<<"a", "c">>}],
     [NoRewrite EXCEPT !.reduce = {<<"a", "b">>}, !.skip = TRUE],
     [NoRewrite EXCEPT !.reduce = {<<"e1", "auto">>}, !.replace = {<<"a", "d">>}]}

Graph == INSTANCE Publication WITH
    Publishers <- {1, 2}, Blocks <- {1, 2}, Content <- LayerOf, Sandboxes <- SandboxOf,
    Snapshots <- SnapshotOf, Portable <- {"b", "e0"}, Options <- Rewrites,
    NoOptions <- NoRewrite, MaxRuns <- 2, MaxFaults <- 1, None <- Nil

Portable == INSTANCE PortableGraph WITH
    Blocks <- {1}, Values <- {1}, Hole <- 0, Formatted <- 2, Built <- 3, Original <- 1,
    Override <- 2, MaxPortableArtifactRefs <- 6, MaxWrites <- 2, MaxCaptures <- 4, MaxRuns <- 3,
    run <- vm, made <- artifact, captures <- taken, runs <- vms

\* Three calls of two processes, each with its sandbox id.
ProcessOf(x) == 1 + (x % 2)

runVars ==
    <<at, phase, settle, holds, defers, running, cancelled, ch, told, fatal, signals, loop,
      high, captures, ready>>
bootVars ==
    <<spec, main, tree, limits, notify, pending, fact, sup, appPid, shutdown, drained, kid,
      launch, request, srv, wire, client, sent, ran, deaths>>
joinVars == <<sess, conn, helper, cmd, quiescing, waiters, unclaimed, live, status, rest>>
managedVars ==
    <<store, stored, alias, current, op, owner, next, run, mgr, parent, count, base, want, final>>
diffVars == <<data, pres, bitmap, payload, open, failed, lock, batch, disc, old, may, left>>
creationVars == <<c, fresh, claimed, lockOf, made, inode, safe, budget>>
locationVars == <<place, content, creator, withdrawn, loc, cleans, crashes>>
graphVars == <<target, carrier, lost, memo, pub, runs, faults>>
layerVars == <<vm, shown, artifact, writes, taken, vms>>
allVars ==
    <<which, runVars, bootVars, joinVars, managedVars, diffVars, creationVars, locationVars,
      graphVars, layerVars, vars>>

\* A guest boots with either restart policy, the publishers of a location
\* differ in what they publish, a Bundle holds one of two roots, and a diff may
\* be provisioned; for the other components one of each is enough.
MCInit ==
    /\ which \in {"run", "boot", "exec", "managed", "diff", "creation", "location", "graph",
                 "layers", "identity"}
    /\ Run!Init /\ Boot!Init /\ Join!Init /\ Managed!Init /\ Diff!Init /\ Creation!Init
    /\ Location!Init /\ Graph!Init /\ Portable!Init /\ Init
    /\ which # "boot" => spec.policy = "never"
    /\ which # "location" => \A p \in {1, 2} : loc[p].kind = "single"
    /\ which # "graph" => carrier = "e1"
    /\ which # "creation" => fresh = Creation!Empty

\* The bounded requests of these components come to an end; the others say
\* themselves where they may rest.
Rest == which \notin {"run", "boot", "exec"} /\ UNCHANGED allVars

MCNext ==
    \/ /\ which = "run" /\ Run!Next
       /\ UNCHANGED <<which, bootVars, joinVars, managedVars, diffVars, creationVars,
                      locationVars, graphVars, layerVars, vars>>
    \/ /\ which = "boot" /\ Boot!Next
       /\ UNCHANGED <<which, runVars, joinVars, managedVars, diffVars, creationVars,
                      locationVars, graphVars, layerVars, vars>>
    \/ /\ which = "exec" /\ Join!Next
       /\ UNCHANGED <<which, runVars, bootVars, managedVars, diffVars, creationVars,
                      locationVars, graphVars, layerVars, vars>>
    \/ /\ which = "managed" /\ Managed!Next
       /\ UNCHANGED <<which, runVars, bootVars, joinVars, diffVars, creationVars,
                      locationVars, graphVars, layerVars, vars>>
    \/ /\ which = "diff" /\ Diff!Next
       /\ UNCHANGED <<which, runVars, bootVars, joinVars, managedVars, creationVars,
                      locationVars, graphVars, layerVars, vars>>
    \/ /\ which = "creation" /\ Creation!Next
       /\ UNCHANGED <<which, runVars, bootVars, joinVars, managedVars, diffVars,
                      locationVars, graphVars, layerVars, vars>>
    \/ /\ which = "location" /\ Location!Next
       /\ UNCHANGED <<which, runVars, bootVars, joinVars, managedVars, diffVars,
                      creationVars, graphVars, layerVars, vars>>
    \/ /\ which = "graph" /\ Graph!Next
       /\ UNCHANGED <<which, runVars, bootVars, joinVars, managedVars, diffVars,
                      creationVars, locationVars, layerVars, vars>>
    \/ /\ which = "identity" /\ Next
       /\ UNCHANGED <<which, runVars, bootVars, joinVars, managedVars, diffVars,
                      creationVars, locationVars, graphVars, layerVars>>
    \/ /\ which = "layers" /\ Portable!Next
       /\ UNCHANGED <<which, runVars, bootVars, joinVars, managedVars, diffVars,
                      creationVars, locationVars, graphVars, vars>>
    \/ Rest

MCSpec == MCInit /\ [][MCNext]_allVars

\* Nothing of a run is released under its user, and all of it on the return; a
\* fatal error kills the virtual machine, and an ordered shutdown is asked for
\* only with memory.high lifted (RestoreRun!ReleasedInOrder).
ReleasedInOrder == Run!ReleasedInOrder

\* The app of a guest is confined before it runs, supervised whatever dies,
\* and truly reported (GuestBoot!AppAccounted).
AppAccounted == Boot!AppAccounted

\* A command never outlives its helper, nor a helper its session
\* (ExecJoin!ExecOwned).
ExecOwned == Join!ExecOwned

\* Every source that the parent holds stays readable and exact
\* (ManagedDirectory!SourcesExact).
SourcesExact == Managed!SourcesExact

\* A diff file that is opened again has what was acknowledged, block by block
\* (DiffFile!PagesExact).
PagesExact == Diff!PagesExact

\* A diff file under its final name is complete (FreshDiff!FinalComplete).
FinalComplete == Creation!FinalComplete

\* A reference that a location publisher returned stays good
\* (LocationPublish!PublishedStays).
PublishedStays == Location!PublishedStays

\* A published graph is complete, reads as its source, and loses none of what
\* it still names (Publication!PublishedExact).
PublishedExact == Graph!PublishedExact

\* Every artifact opens as the disks it was made of, and every run reads them
\* (PortableGraph!CapturedExact).
CapturedExact == Portable!CapturedExact
=============================================================================

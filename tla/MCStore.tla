------------------------------- MODULE MCStore -------------------------------
(***************************************************************************)
(* Small instances of the two models of a disk's store: its redo log       *)
(* (RedoCommit) and its versions (VersionedStore).  A behaviour is one of  *)
(* RedoCommit or one of VersionedStore; the variables of the other keep    *)
(* their initial values.                                                   *)
(***************************************************************************)
EXTENDS RedoCommit, TLC

CONSTANTS
    Places, Blocks, Values, Views, None, MaxCheckpoints, MaxModify, Budget, MaxRounds

VARIABLES
    which,
    kind, birth, page, root, present, epoch, current, protected, garbage, retired, cps,
    failed, scan, turn, blocked, marked, held, views, unlinked, active, frozen, modified

Versioned == INSTANCE VersionedStore WITH Slots <- Places, fatal <- failed

versionedVars ==
    <<kind, birth, page, root, present, epoch, current, protected, garbage, retired, cps,
      failed, scan, turn, blocked, marked, held, views, unlinked, active, frozen, modified>>
allVars == <<which, vars, versionedVars>>

\* The store of RedoCommit starts with page p in slot p; for
\* VersionedStore one arbitrary store is enough.
MCInit ==
    /\ which \in {"redo", "versioned"}
    /\ Init /\ mem = [p \in Pages |-> p]
    /\ which # "redo" => \A p, r \in Pages : slot[p] = slot[r]
    /\ Versioned!Init

\* The bounded writes and checkpoints of VersionedStore come to an end.
Rest == which = "versioned" /\ UNCHANGED allVars

MCNext ==
    \/ which = "redo" /\ Next /\ UNCHANGED <<which, versionedVars>>
    \/ which = "versioned" /\ Versioned!Next /\ UNCHANGED <<which, vars>>
    \/ Rest

MCSpec == MCInit /\ [][MCNext]_allVars

PayloadSymmetry == Permutations(Payloads) \cup Permutations(Values)

\* Every readable version has exactly the contents it was given, and
\* Control.Current names a checkpoint only while the active version equals it
\* (VersionedStore!VersionsIntact, VersionedStore!CurrentIsExact).
VersionsExact == Versioned!VersionsIntact /\ Versioned!CurrentIsExact

\* A write or checkpoint fails for want of space only when the collector has
\* nothing left to release (VersionedStore!ExhaustionIsReal).
ExhaustionIsReal == Versioned!ExhaustionIsReal
==============================================================================

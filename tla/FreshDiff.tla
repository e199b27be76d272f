------------------------------ MODULE FreshDiff ------------------------------
(***************************************************************************)
(* The creation of a fresh diff at a path (pkg/diffstore/create.go,        *)
(* diff_file.go, blk_cow.go): every creator claims the path with a locked  *)
(* file beside it, formats a temporary file, materializes its template     *)
(* into it, makes it durable and renames it into place; an empty file the  *)
(* caller provisioned is exchanged for it.  Creators race, fail, are       *)
(* cancelled and die at any step; the machine may go down.                 *)
(*                                                                         *)
(* Files are inode numbers; a claim is an inode with a lock that dies with *)
(* its owner.  What is in a diff is in CowDisk and DiffFile.               *)
(***************************************************************************)
EXTENDS Naturals, FiniteSets

CONSTANTS
    Creators,      \* processes that create the same diff
    Claims,        \* inodes for claim files
    MaxFaults,     \* steps that fail
    MaxCrashes,    \* processes that die
    MaxPowerLoss   \* the machine goes down

None == 0
Empty == 100    \* the inode of the provisioned placeholder


VARIABLES
    c,        \* each creator: [pc, claim], the inode it locks
    final,    \* the inode the path names
    claimed,  \* the inode the claim's name stands for
    lockOf,   \* the owner of each claim inode
    made,     \* claim inodes used so far
    inode,    \* each temporary file: [full, synced, name]
    safe,     \* the inode the path names on disk
    left      \* [faults, crashes, losses]

vars == <<c, final, claimed, lockOf, made, inode, safe, left>>
names == <<final, claimed, lockOf, made>>

at(i, p) == c[i].pc = p
goto(i, p) == c' = [c EXCEPT ![i].pc = p]
fault == left.faults > 0 /\ left' = [left EXCEPT !.faults = @ - 1]

(* check of createFreshDiff: nothing at the path, or an empty file. *)
check == final \in {None, Empty}

(* createFreshDiff: check, claim, check again. *)
checkFirst(i) ==
    /\ at(i, "new")
    /\ goto(i, IF check THEN "open" ELSE "refused")
    /\ UNCHANGED <<names, inode, safe, left>>

(* acquireFreshDiffClaim: open or create the file, then the lock. *)
openClaim(i) ==
    /\ at(i, "open")
    /\ IF claimed # None
       THEN c' = [c EXCEPT ![i] = [@ EXCEPT !.pc = "flock", !.claim = claimed]]
            /\ UNCHANGED <<claimed, made>>
       ELSE \E k \in Claims \ made :
              /\ \A j \in Claims \ made : k <= j
              /\ made' = made \cup {k} /\ claimed' = k
              /\ c' = [c EXCEPT ![i] = [@ EXCEPT !.pc = "flock", !.claim = k]]
    /\ UNCHANGED <<final, lockOf, inode, safe, left>>

flock(i) ==
    /\ at(i, "flock")
    /\ IF lockOf[c[i].claim] = None
       THEN lockOf' = [lockOf EXCEPT ![c[i].claim] = i] /\ goto(i, "check")
       ELSE goto(i, "refused") /\ UNCHANGED lockOf
    /\ UNCHANGED <<final, claimed, made, inode, safe, left>>

checkAgain(i) ==
    /\ at(i, "check")
    /\ goto(i, IF check THEN "create" ELSE "abort")
    /\ UNCHANGED <<names, inode, safe, left>>

(* The template is opened, the temporary file made and formatted, and      *)
(* validateFreshBodySparse has seen the format.                            *)
createDiffFile(i) ==
    /\ at(i, "create")
    /\ inode' = [inode EXCEPT ![i] = [full |-> FALSE, synced |-> FALSE, name |-> TRUE]]
    /\ goto(i, "fill")
    /\ UNCHANGED <<names, safe, left>>

(* seedDiffTemplate, or materializeTemplate to the end of its drain. *)
materializeTemplate(i) ==
    /\ at(i, "fill")
    /\ inode' = [inode EXCEPT ![i].full = TRUE]
    /\ goto(i, "sync")
    /\ UNCHANGED <<names, safe, left>>

(* publish: Sync, then the rename. *)
publish(i) ==
    /\ at(i, "sync")
    /\ inode' = [inode EXCEPT ![i].synced = TRUE]
    /\ goto(i, "rename")
    /\ UNCHANGED <<names, safe, left>>

(* Mutant: the claim is taken to be enough, and the rename replaces. *)
commitReplaces(i) ==
    /\ at(i, "rename")
    /\ final' = i /\ inode' = [inode EXCEPT ![i].name = FALSE] /\ goto(i, "release")
    /\ UNCHANGED <<claimed, lockOf, made, safe, left>>

(* commitFreshDiff: never over another file; an empty one is locked and    *)
(* looked at, exchanged, looked at again and removed.                      *)
commitFreshDiff(i) ==
    /\ at(i, "rename")
    /\ IF final = None
       THEN /\ final' = i /\ inode' = [inode EXCEPT ![i].name = FALSE] /\ goto(i, "release")
       ELSE /\ goto(i, IF final = Empty THEN "exchange" ELSE "abort")
            /\ UNCHANGED <<final, inode>>
    /\ UNCHANGED <<claimed, lockOf, made, safe, left>>

(* The exchange, its second look and the removal of the placeholder; what  *)
(* was not the placeholder is exchanged back.                              *)
exchange(i) ==
    /\ at(i, "exchange")
    /\ IF final = Empty
       THEN /\ final' = i /\ inode' = [inode EXCEPT ![i].name = FALSE] /\ goto(i, "release")
       ELSE goto(i, "abort") /\ UNCHANGED <<final, inode>>
    /\ UNCHANGED <<claimed, lockOf, made, safe, left>>

(* releaseClaim: the name goes, whichever file it stands for by now, then  *)
(* the lock.  A name that is gone already is an error.                     *)
unclaim(i) ==
    /\ claimed' = None
    /\ lockOf' = [k \in Claims |-> IF lockOf[k] = i THEN None ELSE lockOf[k]]

releaseClaim(i) ==
    /\ at(i, "release")
    /\ unclaim(i)
    /\ goto(i, IF claimed = None THEN "failed" ELSE "dirsync")
    /\ UNCHANGED <<final, made, inode, safe, left>>

syncDirectory(i) ==
    /\ at(i, "dirsync")
    /\ safe' = final /\ goto(i, "done")
    /\ UNCHANGED <<names, inode, left>>

(* A step fails, or the disk is closed and its diff discarded. *)
Fails(i) ==
    /\ c[i].pc \in {"create", "fill", "sync", "rename", "exchange"} /\ fault
    /\ goto(i, "abort")
    /\ UNCHANGED <<names, inode, safe>>

FailsCommitted(i) ==
    /\ at(i, "dirsync") /\ fault
    /\ goto(i, "failed")
    /\ UNCHANGED <<names, inode, safe>>

(* abort and failMaterialization: the temporary file, then the claim. *)
abort(i) ==
    /\ at(i, "abort")
    /\ inode' = [inode EXCEPT ![i].name = FALSE]
    /\ unclaim(i)
    /\ goto(i, "failed")
    /\ UNCHANGED <<final, made, safe, left>>

(* A failed creator tries again, and one that found the path taken. *)
Retry(i) ==
    /\ c[i].pc \in {"failed", "refused"} /\ final # i /\ ~inode[i].name
    /\ c' = [c EXCEPT ![i] = [pc |-> "new", claim |-> None]]
    /\ UNCHANGED <<names, inode, safe, left>>

(* A process dies: its lock is gone, its names stay. *)
Crash(i) ==
    /\ c[i].pc \notin {"new", "done", "failed", "refused", "dead"} /\ left.crashes > 0
    /\ lockOf' = [k \in Claims |-> IF lockOf[k] = i THEN None ELSE lockOf[k]]
    /\ goto(i, "dead") /\ left' = [left EXCEPT !.crashes = @ - 1]
    /\ UNCHANGED <<final, claimed, made, inode, safe>>

(* The machine goes down: a name that was not made durable is there or not,*)
(* and so is what was written and not synced.                              *)
PowerLoss ==
    /\ left.losses > 0
    /\ left' = [left EXCEPT !.losses = @ - 1]
    /\ \E f \in {final, safe} :
          /\ final' = f /\ safe' = f
          /\ inode' = [i \in Creators |-> [inode[i] EXCEPT !.full = @ /\ inode[i].synced]]
    /\ c' = [i \in Creators |-> [c[i] EXCEPT !.pc = IF @ = "done" THEN @ ELSE "dead"]]
    /\ lockOf' = [k \in Claims |-> None]
    /\ UNCHANGED <<claimed, made>>

Init ==
    /\ c = [i \in Creators |-> [pc |-> "new", claim |-> None]]
    /\ final \in {None, Empty} /\ safe = final
    /\ claimed = None /\ lockOf = [k \in Claims |-> None] /\ made = {}
    /\ inode = [i \in Creators |-> [full |-> FALSE, synced |-> FALSE, name |-> FALSE]]
    /\ left = [faults |-> MaxFaults, crashes |-> MaxCrashes, losses |-> MaxPowerLoss]

Next ==
    \/ \E i \in Creators :
          \/ checkFirst(i) \/ openClaim(i) \/ flock(i) \/ checkAgain(i) \/ createDiffFile(i)
          \/ materializeTemplate(i) \/ publish(i) \/ commitFreshDiff(i) \/ exchange(i)
          \/ releaseClaim(i) \/ syncDirectory(i) \/ Fails(i) \/ FailsCommitted(i) \/ abort(i)
          \/ Retry(i) \/ Crash(i)
    \/ PowerLoss

Spec == Init /\ [][Next]_vars

-----------------------------------------------------------------------------
(* Whoever races, fails or dies, the path names nothing, the provisioned   *)
(* empty file, or a diff that is complete, also after the machine went     *)
(* down; and a creator that succeeded finds its own diff there (the rename *)
(* without replacement, behind a claim whose name may be another's).       *)
FinalComplete ==
    /\ final \in Creators => inode[final].full /\ inode[final].synced
    /\ \A i \in Creators : c[i].pc = "done" => final = i /\ safe = i
==============================================================================

----------------------------- MODULE LeaseProofs -----------------------------
(***************************************************************************)
(* Proofs about Lease, for any set of sandbox processes under one id.      *)
(***************************************************************************)
EXTENDS Lease, TLAPS

(* What the constants are: a process of the id is not the node's inventory, *)
(* and no process is the absence of one.                                    *)
Distinct == Inventory \notin Runs /\ None \notin Processes

Removing == {"lock", "same", "remove"}
Alive == {"publish", "owner", "unlinked", "look", "inspect"} \cup Removing

TypeOK ==
    /\ path \in Runs \cup {None}
    /\ locks \in [Runs -> Processes \cup {None}]
    /\ pc \in [Processes -> Alive \cup {"start", "done"}]
    /\ opened \in [Processes -> Runs \cup {None}]
    /\ pc[Inventory] \in {"look"} \cup Removing

(* A live process keeps the lock of its own inode; only an inode that was   *)
(* published is ever named or opened.                                       *)
LocksInv ==
    /\ \A p \in Runs : pc[p] \in Alive => locks[p] = p
    /\ path # None => pc[path] \in {"owner", "done"}
    /\ \A p \in Processes : pc[p] \in Removing <=> opened[p] # None
    /\ \A p \in Processes : opened[p] # None => pc[opened[p]] \in {"owner", "unlinked", "done"}

(* A cleaner past TryLock holds the lock of the stale inode; past SameFile  *)
(* the path still names it, since only the lock's holder removes the name.  *)
CleanerInv ==
    /\ \A p \in Processes : pc[p] \in {"same", "remove"} => locks[opened[p]] = p
    /\ \A p \in Processes : pc[p] = "remove" => path = opened[p]

IInv == TypeOK /\ LocksInv /\ CleanerInv /\ OwnerKeepsLease

-----------------------------------------------------------------------------
USE DEF Alive, Removing, Processes, Distinct

(* No process has made its inode: the initial state satisfies the invariant. *)
LEMMA InitiallyInv ==
  ASSUME Distinct PROVE LeaseInit => IInv
  BY DEF LeaseInit, IInv, TypeOK, LocksInv, CleanerInv, OwnerKeepsLease

(* Every step of createLease, removeUnlockedLease, LeaseHandle.Close and a  *)
(* kill preserves it.                                                       *)
LEMMA StepKeepsInv ==
  ASSUME Distinct PROVE IInv /\ [LeaseNext]_leaseVars => IInv'
  <1> SUFFICES ASSUME IInv, [LeaseNext]_leaseVars PROVE IInv'
    OBVIOUS
  <1> USE DEF IInv, TypeOK, LocksInv, CleanerInv, OwnerKeepsLease, goto
  <1>1. CASE UNCHANGED leaseVars
    BY <1>1 DEF leaseVars
  <1>2. ASSUME NEW p \in Processes, CreateTemp(p) PROVE IInv'
    BY <1>2 DEF CreateTemp
  <1>3. ASSUME NEW p \in Processes, Publish(p) PROVE IInv'
    BY <1>3 DEF Publish
  <1>4. ASSUME NEW p \in Processes, Open(p) PROVE IInv'
    BY <1>4 DEF Open, After
  <1>5. ASSUME NEW p \in Processes, TryLock(p) PROVE IInv'
    BY <1>5 DEF TryLock, After
  <1>6. ASSUME NEW p \in Processes, SameFile(p) PROVE IInv'
    BY <1>6 DEF SameFile, CloseStale, After
  <1>7. ASSUME NEW p \in Processes, RemoveName(p) PROVE IInv'
    BY <1>7 DEF RemoveName, CloseStale
  <1>8. ASSUME NEW p \in Processes, LockOwner(p) PROVE IInv'
    BY <1>8 DEF LockOwner
  <1>9. ASSUME NEW p \in Processes, Close(p) PROVE IInv'
    BY <1>9 DEF Close
  <1>10. ASSUME NEW p \in Processes, CloseFile(p) PROVE IInv'
    BY <1>10 DEF CloseFile
  <1>11. ASSUME NEW p \in Processes, Kill(p) PROVE IInv'
    BY <1>11 DEF Kill
  <1> QED
    BY <1>1, <1>2, <1>3, <1>4, <1>5, <1>6, <1>7, <1>8, <1>9, <1>10, <1>11 DEF LeaseNext

(* As long as a process owns the lease, the path names its inode and its    *)
(* lock is on it, whatever cleaners, kills and other owners do (createLease *)
(* and removeUnlockedLease in pkg/resource/lease.go).                       *)
THEOREM LeaseKept ==
  ASSUME Distinct PROVE LeaseSpec => []OwnerKeepsLease
  <1>1. LeaseInit => IInv
    BY InitiallyInv
  <1>2. IInv /\ [LeaseNext]_leaseVars => IInv'
    BY StepKeepsInv
  <1>3. IInv => OwnerKeepsLease
    BY DEF IInv
  <1> QED BY <1>1, <1>2, <1>3, PTL DEF LeaseSpec
=============================================================================

-------------------------------- MODULE Lease --------------------------------
(* The lease file of one sandbox id (pkg/resource/lease.go): every sandbox
   process that runs under the id publishes its own locked inode at one path,
   and stale records are removed by whoever meets them: a later process in
   createLease, or the node's inventory.  POSIX locks end with their process. *)
EXTENDS Naturals, FiniteSets

CONSTANTS
    Runs,       \* the sandbox processes of the id, each with one temporary file
    Inventory,  \* a process that only removes stale records
    None

VARIABLES
    path,    \* the inode the lease path names: the run that made it, or None
    locks,   \* for each inode the process that holds its write lock
    pc,      \* where each process stands
    opened   \* the inode a process holds open in removeUnlockedLease

leaseVars == <<path, locks, pc, opened>>

Processes == Runs \cup {Inventory}

LeaseInit ==
    /\ path = None
    /\ locks = [r \in Runs |-> None]
    /\ pc = [p \in Processes |-> IF p = Inventory THEN "look" ELSE "start"]
    /\ opened = [p \in Processes |-> None]

goto(p, label) == pc' = [pc EXCEPT ![p] = label]

(* createLease: a private inode is made and locked before it has a name. *)
CreateTemp(p) ==
    /\ pc[p] = "start"
    /\ locks' = [locks EXCEPT ![p] = p]
    /\ goto(p, "publish")
    /\ UNCHANGED <<path, opened>>

(* RENAME_NOREPLACE *)
Publish(p) ==
    /\ pc[p] = "publish"
    /\ IF path = None THEN path' = p /\ goto(p, "owner")
                      ELSE goto(p, "look") /\ UNCHANGED path
    /\ UNCHANGED <<locks, opened>>

After(p) == IF p = Inventory THEN "look" ELSE "inspect"

(* removeUnlockedLease: the inode is opened by its name, ... *)
Open(p) ==
    /\ pc[p] = "look"
    /\ IF path = None THEN goto(p, After(p)) /\ UNCHANGED opened
                      ELSE opened' = [opened EXCEPT ![p] = path] /\ goto(p, "lock")
    /\ UNCHANGED <<path, locks>>

(* ... locked unless a live process holds it, ... *)
TryLock(p) ==
    /\ pc[p] = "lock"
    /\ IF locks[opened[p]] = None
       THEN locks' = [locks EXCEPT ![opened[p]] = p] /\ goto(p, "same") /\ UNCHANGED opened
       ELSE opened' = [opened EXCEPT ![p] = None] /\ goto(p, After(p)) /\ UNCHANGED locks
    /\ UNCHANGED path

CloseStale(p, label) ==
    /\ locks' = [locks EXCEPT ![opened[p]] = None]
    /\ opened' = [opened EXCEPT ![p] = None]
    /\ goto(p, label)

SameFileAlways(p) ==
    /\ pc[p] = "same"
    /\ goto(p, "remove")
    /\ UNCHANGED <<path, locks, opened>>

(* ... compared with what the path names by now, ... *)
SameFile(p) ==
    /\ pc[p] = "same"
    /\ IF path = opened[p] THEN goto(p, "remove") /\ UNCHANGED <<locks, opened>>
                           ELSE CloseStale(p, After(p))
    /\ UNCHANGED path

(* ... and only then is the name removed. *)
RemoveName(p) ==
    /\ pc[p] = "remove"
    /\ path' = None
    /\ CloseStale(p, IF p = Inventory THEN "look" ELSE "publish")

(* LeaseLockOwner: createLease fails when the published inode has an owner. *)
LockOwner(p) ==
    /\ pc[p] = "inspect"
    /\ IF path = None \/ locks[path] = None
       THEN goto(p, "publish") /\ UNCHANGED locks
       ELSE locks' = [locks EXCEPT ![p] = None] /\ goto(p, "done")
    /\ UNCHANGED <<path, opened>>

(* LeaseHandle.Close: unlinked while it is still locked. *)
Close(p) ==
    /\ pc[p] = "owner"
    /\ path' = IF path = p THEN None ELSE path
    /\ goto(p, "unlinked")
    /\ UNCHANGED <<locks, opened>>

CloseFile(p) ==
    /\ pc[p] = "unlinked"
    /\ locks' = [locks EXCEPT ![p] = None]
    /\ goto(p, "done")
    /\ UNCHANGED <<path, opened>>

(* SIGKILL at any point: the kernel drops the locks, the name stays. *)
Kill(p) ==
    /\ p \in Runs /\ pc[p] \notin {"start", "done"}
    /\ locks' = [i \in Runs |-> IF locks[i] = p THEN None ELSE locks[i]]
    /\ opened' = [opened EXCEPT ![p] = None]
    /\ goto(p, "done")
    /\ UNCHANGED path

LeaseNext ==
    \E p \in Processes :
        \/ CreateTemp(p) \/ Publish(p) \/ Open(p) \/ TryLock(p) \/ SameFile(p) \/ RemoveName(p)
        \/ LockOwner(p) \/ Close(p) \/ CloseFile(p) \/ Kill(p)

LeaseSpec == LeaseInit /\ [][LeaseNext]_leaseVars

(* As long as a process owns the lease, the path names its inode and the inode
   is locked by it: no stale-record cleanup ever takes the name of a live
   owner, so the node never takes a live sandbox for a dead one, and there is
   one owner at most. *)
OwnerKeepsLease ==
    \A p \in Runs : pc[p] = "owner" => path = p /\ locks[p] = p
=============================================================================

-------------------------- MODULE RunIdentityProofs --------------------------
(***************************************************************************)
(* Proofs about RunIdentity, for any calls of any processes under any ids, *)
(* any number of inodes and of kills.                                      *)
(***************************************************************************)
EXTENDS RunIdentity, TLAPS

(* Nobody is neither a call nor a process. *)
Distinct == MaxInodes \in Nat /\ Nobody \notin Callers /\ Nobody \notin Processes

Acquiring == {"open", "flock", "same", "pid", "setlk", "named"}
Guarding == {"owner", "clean", "again", "rmdir", "close"}

(* The states with the lock of a directory, and those in which the path     *)
(* names it.                                                                *)
Locking == {"same", "pid", "setlk", "named"} \cup Guarding
Verified == {"pid", "setlk", "named", "owner", "clean", "again", "rmdir"}

TypeOK ==
    /\ named \in Inodes \cup {0}
    /\ entry \in [Inodes -> [Ids -> Inodes \cup {0}]]
    /\ files \in [Inodes -> SUBSET Callers]
    /\ flock \in [Inodes -> Callers \cup {Nobody}]
    /\ plock \in [Inodes -> Processes \cup {Nobody}]
    /\ owners \in [Processes -> Callers \cup {Nobody}]
    /\ mutex \in [Processes -> Callers \cup {Nobody}]
    /\ pc \in [Callers -> Acquiring \cup Guarding
                          \cup {"start", "lstat", "owners", "failed", "closed", "dead"}]
    /\ dir \in [Callers -> Inodes \cup {0}] /\ pid \in [Callers -> Inodes \cup {0}]

(* acquire runs under the mutex of its process and only where no guard is   *)
(* registered; a guard stays registered until its Close.                    *)
GuardInv ==
    \A c \in Callers :
        /\ pc[c] \in Acquiring => mutex[Process(c)] = c /\ owners[Process(c)] = Nobody
        /\ pc[c] \in Guarding => owners[Process(c)] = c

(* The name moves only under the lock of the directory it names. *)
DirInv ==
    \A c \in Callers :
        /\ pc[c] \in {"flock"} \cup Locking => dir[c] # 0
        /\ pc[c] \in Locking => flock[dir[c]] = c
        /\ pc[c] \in Verified => named = dir[c]
        /\ pc[c] = "owner" => c \in files[named]

(* A PID inode has one entry.  A call that holds it open either finds it    *)
(* under its own name, or has removed that name for good; so a late Close   *)
(* never drops the lock of a PID file that is in use.                       *)
PidInv ==
    /\ \A i, j \in Inodes, x, y \in Ids :
          entry[i][x] # 0 /\ entry[i][x] = entry[j][y] => i = j /\ x = y
    /\ \A c \in Callers :
          /\ pc[c] \in {"start", "lstat", "owners", "open", "flock", "same", "pid"} => pid[c] = 0
          /\ pc[c] \in {"setlk", "named"} \cup Guarding => pid[c] # 0
          /\ pc[c] \in {"setlk", "named", "owner", "clean", "again"} =>
                entry[named][Id(c)] = pid[c]
          /\ pc[c] \in {"named", "owner"} => plock[pid[c]] = Process(c)
          /\ pc[c] \in {"rmdir", "close"} => \A i \in Inodes, x \in Ids : entry[i][x] # pid[c]

(* An inode that was not made yet is nowhere. *)
FreshInv ==
    /\ inodes \in Nat
    /\ \A n \in Inodes : n > inodes =>
          /\ \A i \in Inodes, x \in Ids : entry[i][x] # n
          /\ \A c \in Callers : pid[c] # n

IInv == TypeOK /\ GuardInv /\ DirInv /\ PidInv /\ FreshInv

-----------------------------------------------------------------------------
USE DEF Acquiring, Guarding, Locking, Verified

(* Every call has a process and an id. *)
LEMMA CallTypes == \A c \in Callers : Process(c) \in Processes /\ Id(c) \in Ids
  BY DEF Processes, Ids

(* 0 is not an inode. *)
LEMMA ZeroIsNoInode == 0 \notin Inodes
  BY DEF Inodes

(* The next inode is one that nothing refers to. *)
LEMMA NextInode ==
  ASSUME Distinct, FreshInv, inodes < MaxInodes
  PROVE  /\ inodes + 1 \in Inodes /\ inodes + 1 # 0 /\ inodes + 1 \in Nat
         /\ \A n \in Inodes : n > inodes + 1 => n > inodes
         /\ \A i \in Inodes, x \in Ids : entry[i][x] # inodes + 1
         /\ \A c \in Callers : pid[c] # inodes + 1
  <1>1. inodes + 1 \in Inodes /\ inodes + 1 > inodes
    BY DEF Distinct, FreshInv, Inodes
  <1>2. \A n \in Inodes : n > inodes + 1 => n > inodes
    BY DEF FreshInv, Inodes
  <1>3. /\ \A i \in Inodes, x \in Ids : entry[i][x] # inodes + 1
        /\ \A c \in Callers : pid[c] # inodes + 1
    BY <1>1 DEF FreshInv
  <1> QED BY <1>1, <1>2, <1>3 DEF FreshInv, Inodes

(* The invariant gives the owner what Acquire promised it. *)
LEMMA OwnerHasRunDir ==
  ASSUME Distinct, IInv PROVE OwnerKeepsRunDir
  BY CallTypes, ZeroIsNoInode DEF Distinct, IInv, TypeOK, DirInv, PidInv, OwnerKeepsRunDir

(* Nothing exists at first. *)
LEMMA IdentityInit ==
  ASSUME Distinct PROVE Init => IInv
  <1> SUFFICES ASSUME Init PROVE IInv
    OBVIOUS
  <1>1. TypeOK
    BY CallTypes DEF Distinct, Init, TypeOK
  <1>2. GuardInv /\ DirInv /\ PidInv
    BY CallTypes DEF Distinct, Init, GuardInv, DirInv, PidInv
  <1>3. FreshInv
    BY ZeroIsNoInode DEF Init, FreshInv
  <1> QED BY <1>1, <1>2, <1>3 DEF IInv

(* The deferred functions of a failed acquire take nothing from others. *)
LEMMA FailsPreserves ==
  ASSUME Distinct, IInv, NEW c \in Callers, pc[c] \in Acquiring, fails(c), UNCHANGED disk
  PROVE IInv'
  <1> USE CallTypes, ZeroIsNoInode DEF Distinct, fails, unlockOwners, goto, disk
  <1>1. pid[c] = 0 => plock' = plock
    BY DEF IInv, TypeOK
  <1>2. pid[c] # 0 => plock' = [plock EXCEPT ![pid[c]] = IF @ = Process(c) THEN Nobody ELSE @]
    BY DEF IInv, TypeOK
  <1>3. TypeOK'
    <2>1. plock' \in [Inodes -> Processes \cup {Nobody}]
      BY <1>1, <1>2 DEF IInv, TypeOK
    <2> QED BY <2>1 DEF IInv, TypeOK
  <1>4. GuardInv'
    BY DEF IInv, TypeOK, GuardInv
  <1>5. DirInv'
    BY DEF IInv, TypeOK, DirInv
  <1>6. PidInv'
    <2>1. ASSUME NEW d \in Callers, pc'[d] \in {"named", "owner"}
          PROVE  plock'[pid'[d]] = Process(d)
      <3>1. d # c /\ pc[d] \in Verified /\ plock[pid[d]] = Process(d)
        BY <2>1 DEF IInv, TypeOK, PidInv
      <3>2. pid[c] # 0 => pc[c] \in Verified
        BY DEF IInv, PidInv
      <3>3. pid[c] = 0
        BY <3>1, <3>2 DEF IInv, TypeOK, DirInv
      <3> QED BY <3>1, <3>3, <1>1
    <2> QED BY <2>1 DEF IInv, TypeOK, PidInv
  <1>7. FreshInv'
    BY DEF IInv, TypeOK, FreshInv
  <1> QED BY <1>3, <1>4, <1>5, <1>6, <1>7 DEF IInv

(* A step of a call preserves the invariant. *)
LEMMA CallPreserves ==
  ASSUME Distinct, IInv, NEW c \in Callers, Call(c) PROVE IInv'
  <1> USE ZeroIsNoInode DEF Distinct, goto, disk, held, guards
  <1>0. Process(c) \in Processes /\ Id(c) \in Ids
    BY CallTypes
  <1>1. CASE MkdirAll(c)
    <2> USE <1>1 DEF MkdirAll
    <2>1. \/ UNCHANGED <<named, inodes>>
          \/ /\ named = 0 /\ named' = inodes + 1 /\ inodes' = inodes + 1
             /\ inodes + 1 \in Inodes /\ inodes + 1 # 0 /\ inodes + 1 \in Nat
             /\ \A n \in Inodes : n > inodes + 1 => n > inodes
      BY NextInode DEF IInv
    <2>2. TypeOK'
      BY <2>1 DEF IInv, TypeOK
    <2>3. GuardInv'
      BY CallTypes DEF IInv, TypeOK, GuardInv
    <2>4. DirInv' /\ PidInv'
      BY <2>1 DEF IInv, TypeOK, DirInv, PidInv
    <2>5. FreshInv'
      BY <2>1 DEF IInv, TypeOK, FreshInv
    <2> QED BY <2>2, <2>3, <2>4, <2>5 DEF IInv
  <1>2. CASE LstatDir(c)
    <2> USE <1>2 DEF LstatDir
    <2>1. TypeOK'
      BY <1>0 DEF IInv, TypeOK
    <2>2. GuardInv'
      BY CallTypes DEF IInv, TypeOK, GuardInv
    <2>3. DirInv'
      BY CallTypes DEF IInv, TypeOK, DirInv
    <2>4. PidInv'
      BY CallTypes DEF IInv, TypeOK, GuardInv, DirInv, PidInv
    <2>5. FreshInv'
      BY <1>0 DEF IInv, TypeOK, FreshInv
    <2> QED BY <2>1, <2>2, <2>3, <2>4, <2>5 DEF IInv
  <1>3. CASE LockOwners(c)
    <2>1. /\ pc[c] = "owners"
          /\ UNCHANGED <<named, entry, files, inodes, flock, plock, owners, dir, pid>>
          /\ \/ pc' = [pc EXCEPT ![c] = "failed"] /\ mutex' = mutex
             \/ /\ owners[Process(c)] = Nobody /\ mutex[Process(c)] = Nobody
                /\ pc' = [pc EXCEPT ![c] = "open"] /\ mutex' = [mutex EXCEPT ![Process(c)] = c]
      BY <1>3 DEF LockOwners
    <2>2. TypeOK'
      <3>1. mutex' \in [Processes -> Callers \cup {Nobody}]
        BY <2>1, <1>0 DEF IInv, TypeOK
      <3> QED BY <2>1, <3>1 DEF IInv, TypeOK
    <2>3. GuardInv'
      BY <2>1, CallTypes DEF IInv, TypeOK, GuardInv
    <2>4. DirInv'
      BY <2>1, CallTypes DEF IInv, TypeOK, DirInv
    <2>5. PidInv'
      BY <2>1, CallTypes DEF IInv, TypeOK, DirInv, PidInv
    <2>6. FreshInv'
      BY <2>1, <1>0 DEF IInv, TypeOK, FreshInv
    <2> QED BY <2>2, <2>3, <2>4, <2>5, <2>6 DEF IInv
  <1>4. CASE OpenDir(c)
    <2>1. CASE named = 0
      BY <1>4, <2>1, FailsPreserves DEF OpenDir
    <2>2. CASE named # 0
      <3>1. /\ pc[c] = "open"
            /\ UNCHANGED <<named, entry, files, inodes, flock, plock, owners, mutex, pid>>
            /\ pc' = [pc EXCEPT ![c] = "flock"] /\ dir' = [dir EXCEPT ![c] = named]
        BY <1>4, <2>2 DEF OpenDir
      <3>2. TypeOK'
        BY <2>2, <3>1, <1>0 DEF IInv, TypeOK
      <3>3. GuardInv'
        BY <2>2, <3>1, CallTypes DEF IInv, TypeOK, GuardInv
      <3>4. DirInv'
        BY <2>2, <3>1, CallTypes DEF IInv, TypeOK, DirInv
      <3>5. PidInv'
        BY <2>2, <3>1, CallTypes DEF IInv, TypeOK, DirInv, PidInv
      <3>6. FreshInv'
        BY <2>2, <3>1, <1>0 DEF IInv, TypeOK, FreshInv
      <3> QED BY <3>2, <3>3, <3>4, <3>5, <3>6 DEF IInv
    <2> QED BY <2>1, <2>2
  <1>5. CASE Flock(c)
    <2>1. CASE flock[dir[c]] # Nobody
      BY <1>5, <2>1, FailsPreserves DEF Flock
    <2>2. CASE flock[dir[c]] = Nobody
      <3>1. /\ pc[c] = "flock"
            /\ UNCHANGED <<named, entry, files, inodes, plock, owners, mutex, dir, pid>>
            /\ pc' = [pc EXCEPT ![c] = "same"] /\ flock' = [flock EXCEPT ![dir[c]] = c]
        BY <1>5, <2>2 DEF Flock
      <3>2. TypeOK'
        BY <2>2, <3>1, <1>0 DEF IInv, TypeOK
      <3>3. GuardInv'
        BY <2>2, <3>1, CallTypes DEF IInv, TypeOK, GuardInv
      <3>4. DirInv'
        BY <2>2, <3>1, CallTypes DEF IInv, TypeOK, DirInv
      <3>5. PidInv'
        BY <2>2, <3>1, CallTypes DEF IInv, TypeOK, DirInv, PidInv
      <3>6. FreshInv'
        BY <2>2, <3>1, <1>0 DEF IInv, TypeOK, FreshInv
      <3> QED BY <3>2, <3>3, <3>4, <3>5, <3>6 DEF IInv
    <2> QED BY <2>1, <2>2
  <1>6. CASE SameDir(c)
    <2>1. CASE named # dir[c] \/ seen[c] # dir[c]
      BY <1>6, <2>1, FailsPreserves DEF SameDir
    <2>2. CASE named = dir[c] /\ seen[c] = dir[c]
      <3>1. /\ pc[c] = "same"
            /\ UNCHANGED <<named, entry, files, inodes, flock, plock, owners, mutex, dir, pid>>
            /\ pc' = [pc EXCEPT ![c] = "pid"]
        BY <1>6, <2>2 DEF SameDir
      <3>2. TypeOK'
        BY <2>2, <3>1, <1>0 DEF IInv, TypeOK
      <3>3. GuardInv'
        BY <2>2, <3>1, CallTypes DEF IInv, TypeOK, GuardInv
      <3>4. DirInv'
        BY <2>2, <3>1, CallTypes DEF IInv, TypeOK, DirInv
      <3>5. PidInv'
        BY <2>2, <3>1, CallTypes DEF IInv, TypeOK, DirInv, PidInv
      <3>6. FreshInv'
        BY <2>2, <3>1, <1>0 DEF IInv, TypeOK, FreshInv
      <3> QED BY <3>2, <3>3, <3>4, <3>5, <3>6 DEF IInv
    <2> QED BY <2>1, <2>2
  <1>7. CASE OpenPid(c)
    <2>1. CASE named = 0
      BY <1>7, <2>1, FailsPreserves DEF OpenPid
    <2>2. CASE named # 0 /\ entry[named][Id(c)] # 0
      <3> USE <1>7, <2>2 DEF OpenPid
      <3>1. TypeOK'
        BY <1>0 DEF IInv, TypeOK
      <3>2. GuardInv'
        BY CallTypes DEF IInv, TypeOK, GuardInv
      <3>3. DirInv'
        BY CallTypes DEF IInv, TypeOK, DirInv
      <3>4. PidInv'
        BY CallTypes DEF IInv, TypeOK, DirInv, PidInv
      <3>5. FreshInv'
        BY <1>0 DEF IInv, TypeOK, FreshInv
      <3> QED BY <3>1, <3>2, <3>3, <3>4, <3>5 DEF IInv
    <2>3. CASE named # 0 /\ entry[named][Id(c)] = 0
      <3> DEFINE n == inodes + 1
      <3>1. /\ inodes' = n /\ entry' = [entry EXCEPT ![named][Id(c)] = n]
            /\ named \in Inodes /\ pc[c] = "pid"
        BY <1>7, <2>3 DEF OpenPid, IInv, TypeOK
      <3>2. /\ n \in Inodes /\ n # 0 /\ n \in Nat
            /\ \A m \in Inodes : m > n => m > inodes
            /\ \A i \in Inodes, x \in Ids : entry[i][x] # n
            /\ \A d \in Callers : pid[d] # n
        BY <1>7, <2>3, NextInode DEF OpenPid, IInv
      <3> HIDE DEF n
      <3>3. /\ \A i \in Inodes, x \in Ids :
                  entry'[i][x] = IF i = named /\ x = Id(c) THEN n ELSE entry[i][x]
            /\ entry' \in [Inodes -> [Ids -> Inodes \cup {0}]]
        BY <3>1, <3>2 DEF IInv, TypeOK
      <3>4. /\ pid' = [pid EXCEPT ![c] = n] /\ pc' = [pc EXCEPT ![c] = "setlk"]
            /\ UNCHANGED <<named, files, flock, plock, owners, mutex, dir>>
        BY <1>7, <2>3, <3>1, <3>3 DEF OpenPid
      <3>5. TypeOK'
        BY <3>2, <3>3, <3>4 DEF IInv, TypeOK
      <3>6. GuardInv' /\ DirInv'
        BY <3>1, <3>4 DEF IInv, TypeOK, GuardInv, DirInv
      <3>7. PidInv'
        BY <3>1, <3>2, <3>3, <3>4 DEF IInv, TypeOK, DirInv, PidInv
      <3>8. FreshInv'
        BY <3>1, <3>2, <3>3, <3>4 DEF IInv, TypeOK, FreshInv
      <3> QED BY <3>5, <3>6, <3>7, <3>8 DEF IInv
    <2> QED BY <2>1, <2>2, <2>3
  <1>8. CASE SetLk(c)
    <2>1. CASE plock[pid[c]] \notin {Nobody, Process(c)}
      BY <1>8, <2>1, FailsPreserves DEF SetLk
    <2>2. CASE plock[pid[c]] \in {Nobody, Process(c)}
      <3>1. /\ pc[c] = "setlk"
            /\ UNCHANGED <<named, entry, files, inodes, flock, owners, mutex, dir, pid>>
            /\ pc' = [pc EXCEPT ![c] = "named"] /\ plock' = [plock EXCEPT ![pid[c]] = Process(c)]
        BY <1>8, <2>2 DEF SetLk
      <3>2. TypeOK'
        BY <2>2, <3>1, <1>0 DEF IInv, TypeOK
      <3>3. GuardInv'
        BY <2>2, <3>1, CallTypes DEF IInv, TypeOK, GuardInv
      <3>4. DirInv'
        BY <2>2, <3>1, CallTypes DEF IInv, TypeOK, DirInv
      <3>5. PidInv'
        BY <2>2, <3>1, CallTypes DEF IInv, TypeOK, DirInv, PidInv
      <3>6. FreshInv'
        BY <2>2, <3>1, <1>0 DEF IInv, TypeOK, FreshInv
      <3> QED BY <3>2, <3>3, <3>4, <3>5, <3>6 DEF IInv
    <2> QED BY <2>1, <2>2
  <1>9. CASE SamePid(c)
    <2>1. CASE named = 0 \/ entry[IF named = 0 THEN 1 ELSE named][Id(c)] # pid[c]
      BY <1>9, <2>1, FailsPreserves DEF SamePid
    <2>2. CASE ~(named = 0 \/ entry[IF named = 0 THEN 1 ELSE named][Id(c)] # pid[c])
      <3>1. /\ pc[c] = "named" /\ UNCHANGED <<named, entry, inodes, flock, plock, dir, pid>>
            /\ pc' = [pc EXCEPT ![c] = "owner"] /\ owners' = [owners EXCEPT ![Process(c)] = c]
            /\ mutex' = [mutex EXCEPT ![Process(c)] = Nobody]
            /\ files' = [files EXCEPT ![named] = @ \cup {c}]
        BY <1>9, <2>2 DEF SamePid, unlockOwners
      <3>2. TypeOK'
        BY <2>2, <3>1, <1>0 DEF IInv, TypeOK
      <3>3. GuardInv'
        BY <2>2, <3>1, CallTypes DEF IInv, TypeOK, GuardInv
      <3>4. DirInv'
        BY <2>2, <3>1, CallTypes DEF IInv, TypeOK, DirInv
      <3>5. PidInv'
        BY <2>2, <3>1, CallTypes DEF IInv, TypeOK, DirInv, PidInv
      <3>6. FreshInv'
        BY <2>2, <3>1, <1>0 DEF IInv, TypeOK, FreshInv
      <3> QED BY <3>2, <3>3, <3>4, <3>5, <3>6 DEF IInv
    <2> QED BY <2>1, <2>2
  <1>10. CASE RemoveBegins(c)
    <2>1. /\ pc[c] = "owner"
          /\ UNCHANGED <<named, entry, files, inodes, flock, plock, owners, mutex, dir, pid>>
          /\ pc' = [pc EXCEPT ![c] = "clean"]
      <3>1. named # 0 /\ entry[named][Id(c)] = pid[c] /\ owners[Process(c)] = c
        BY <1>10 DEF RemoveBegins, IInv, DirInv, PidInv, GuardInv
      <3> QED BY <1>10, <3>1 DEF RemoveBegins, mine
    <2>2. TypeOK'
      BY <2>1, <1>0 DEF IInv, TypeOK
    <2>3. GuardInv'
      BY <2>1, CallTypes DEF IInv, TypeOK, GuardInv
    <2>4. DirInv'
      BY <2>1, CallTypes DEF IInv, TypeOK, DirInv
    <2>5. PidInv'
      BY <2>1, CallTypes DEF IInv, TypeOK, DirInv, PidInv
    <2>6. FreshInv'
      BY <2>1, <1>0 DEF IInv, TypeOK, FreshInv
    <2> QED BY <2>2, <2>3, <2>4, <2>5, <2>6 DEF IInv
  <1>11. CASE RemoveFiles(c)
    <2>1. named \in Inodes
      BY <1>11 DEF RemoveFiles, IInv, TypeOK, DirInv
    <2>2. /\ pc[c] = "clean"
          /\ UNCHANGED <<named, inodes, flock, plock, owners, mutex, dir, pid>>
          /\ pc' = [pc EXCEPT ![c] = "again"]
          /\ files' = [files EXCEPT ![named] = {}]
          /\ entry' = [entry EXCEPT ![named] = [x \in Ids |-> IF x = Id(c) THEN @[x] ELSE 0]]
      BY <1>11, <2>1 DEF RemoveFiles
    <2>3. /\ entry' \in [Inodes -> [Ids -> Inodes \cup {0}]]
          /\ \A i \in Inodes, x \in Ids :
                entry'[i][x] = IF i = named /\ x # Id(c) THEN 0 ELSE entry[i][x]
      BY <2>1, <2>2 DEF IInv, TypeOK
    <2>4. TypeOK'
      BY <2>1, <2>2, <2>3, <1>0 DEF IInv, TypeOK
    <2>5. GuardInv'
      BY <2>1, <2>2, <2>3, CallTypes DEF IInv, TypeOK, GuardInv
    <2>6. DirInv'
      BY <2>1, <2>2, <2>3, CallTypes DEF IInv, TypeOK, DirInv
    <2>7. PidInv'
      BY <2>1, <2>2, <2>3, CallTypes DEF IInv, TypeOK, DirInv, PidInv
    <2>8. FreshInv'
      BY <2>1, <2>2, <2>3, <1>0 DEF IInv, TypeOK, FreshInv
    <2> QED BY <2>4, <2>5, <2>6, <2>7, <2>8 DEF IInv
  <1>12. CASE RemovePid(c)
    <2>1. named \in Inodes /\ entry[named][Id(c)] = pid[c] /\ pid[c] # 0
      BY <1>12 DEF RemovePid, IInv, TypeOK, DirInv, PidInv
    <2>2. /\ pc[c] = "again"
          /\ UNCHANGED <<named, files, inodes, flock, plock, owners, mutex, dir, pid>>
          /\ pc' = [pc EXCEPT ![c] = "rmdir"]
          /\ entry' = [entry EXCEPT ![named][Id(c)] = 0]
      BY <1>12, <2>1 DEF RemovePid, mine
    <2>3. /\ entry' \in [Inodes -> [Ids -> Inodes \cup {0}]]
          /\ \A i \in Inodes, x \in Ids :
                entry'[i][x] = IF i = named /\ x = Id(c) THEN 0 ELSE entry[i][x]
      BY <1>0, <2>1, <2>2 DEF IInv, TypeOK
    <2>4. TypeOK'
      BY <2>1, <2>2, <2>3, <1>0 DEF IInv, TypeOK
    <2>5. GuardInv'
      BY <2>1, <2>2, <2>3, CallTypes DEF IInv, TypeOK, GuardInv
    <2>6. DirInv'
      BY <2>1, <2>2, <2>3, CallTypes DEF IInv, TypeOK, DirInv
    <2>7. PidInv'
      BY <2>1, <2>2, <2>3, CallTypes DEF IInv, TypeOK, DirInv, PidInv
    <2>8. FreshInv'
      BY <2>1, <2>2, <2>3, <1>0 DEF IInv, TypeOK, FreshInv
    <2> QED BY <2>4, <2>5, <2>6, <2>7, <2>8 DEF IInv
  <1>13. CASE RemoveDir(c)
    <2>1. /\ pc[c] = "rmdir"
          /\ UNCHANGED <<entry, files, inodes, flock, plock, owners, mutex, dir, pid>>
          /\ pc' = [pc EXCEPT ![c] = "close"]
          /\ named' \in {0, named}
      BY <1>13 DEF RemoveDir
    <2>2. named' # named => \A d \in Callers \ {c} : pc[d] \notin Verified
      BY <2>1 DEF IInv, DirInv
    <2>3. TypeOK'
      BY <2>1, <2>2, <1>0 DEF IInv, TypeOK
    <2>4. GuardInv'
      BY <2>1, <2>2, CallTypes DEF IInv, TypeOK, GuardInv
    <2>5. DirInv'
      BY <2>1, <2>2, CallTypes DEF IInv, TypeOK, DirInv
    <2>6. PidInv'
      BY <2>1, <2>2, CallTypes DEF IInv, TypeOK, DirInv, PidInv
    <2>7. FreshInv'
      BY <2>1, <2>2, <1>0 DEF IInv, TypeOK, FreshInv
    <2> QED BY <2>3, <2>4, <2>5, <2>6, <2>7 DEF IInv
  <1>14. CASE Close(c)
    <2>1. /\ pc[c] \in {"owner", "close"} /\ UNCHANGED <<named, entry, files, inodes, mutex>>
          /\ mutex[Process(c)] = Nobody
          /\ pc' = [pc EXCEPT ![c] = "closed"]
          /\ plock' = [plock EXCEPT ![pid[c]] = IF @ = Process(c) THEN Nobody ELSE @]
          /\ flock' = [i \in Inodes |-> IF flock[i] = c THEN Nobody ELSE flock[i]]
          /\ owners' = [owners EXCEPT ![Process(c)] = IF @ = c THEN Nobody ELSE @]
          /\ dir' = [dir EXCEPT ![c] = 0] /\ pid' = [pid EXCEPT ![c] = 0]
      BY <1>14 DEF Close
    <2>2. TypeOK'
      BY <2>1, <1>0 DEF IInv, TypeOK
    <2>3. GuardInv'
      BY <2>1, CallTypes DEF IInv, TypeOK, GuardInv
    <2>4. DirInv'
      BY <2>1, CallTypes DEF IInv, TypeOK, DirInv
    <2>5. PidInv'
      BY <2>1, CallTypes DEF IInv, TypeOK, DirInv, PidInv
    <2>6. FreshInv'
      BY <2>1, <1>0 DEF IInv, TypeOK, FreshInv
    <2> QED BY <2>2, <2>3, <2>4, <2>5, <2>6 DEF IInv
  <1> QED BY <1>1, <1>2, <1>3, <1>4, <1>5, <1>6, <1>7, <1>8, <1>9, <1>10, <1>11, <1>12,
             <1>13, <1>14 DEF Call

(* A killed process takes only its own locks with it. *)
LEMMA KillPreserves ==
  ASSUME Distinct, IInv, NEW p \in Processes, Kill(p) PROVE IInv'
  <1> USE CallTypes, ZeroIsNoInode DEF Distinct, Kill, disk
  <1>1. TypeOK'
    BY DEF IInv, TypeOK
  <1>2. GuardInv'
    BY DEF IInv, TypeOK, GuardInv
  <1>3. DirInv'
    BY DEF IInv, TypeOK, DirInv
  <1>4. PidInv'
    BY DEF IInv, TypeOK, PidInv
  <1>5. FreshInv'
    BY DEF IInv, TypeOK, FreshInv
  <1> QED BY <1>1, <1>2, <1>3, <1>4, <1>5 DEF IInv

(* Acquire's promise holds for every runtime until its own RemoveRunDir or  *)
(* Close, whatever other runtimes, clean-ups and kills do                   *)
(* (internal/runidentity/identity_linux.go).                                *)
THEOREM RunDirKept ==
  ASSUME Distinct PROVE Spec => []OwnerKeepsRunDir
  <1>1. Init => IInv
    BY IdentityInit
  <1>2. IInv /\ [Next]_vars => IInv'
    <2> SUFFICES ASSUME IInv, [Next]_vars PROVE IInv'
      OBVIOUS
    <2>1. CASE UNCHANGED vars
      BY <2>1 DEF vars, IInv, TypeOK, GuardInv, DirInv, PidInv, FreshInv
    <2>2. ASSUME NEW c \in Callers, Call(c) PROVE IInv'
      BY <2>2, CallPreserves
    <2>3. ASSUME NEW p \in Processes, Kill(p) PROVE IInv'
      BY <2>3, KillPreserves
    <2> QED BY <2>1, <2>2, <2>3 DEF Next
  <1>3. IInv => OwnerKeepsRunDir
    BY OwnerHasRunDir
  <1> QED BY <1>1, <1>2, <1>3, PTL DEF Spec
=============================================================================

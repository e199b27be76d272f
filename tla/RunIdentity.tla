----------------------------- MODULE RunIdentity -----------------------------
(***************************************************************************)
(* Who owns a run directory (internal/runidentity): a runtime locks the    *)
(* directory inode (flock) and its PID file inside it (a POSIX record      *)
(* lock), and removes the directory when its run is over.  Runtimes with   *)
(* different sandbox ids may share the directory.  A runtime may be killed *)
(* at any point; its locks end with it and its files stay.                 *)
(*                                                                         *)
(* The invalid names, symbolic links, hard links and files that are not    *)
(* regular, which Acquire refuses, and errors of the filesystem other than *)
(* a name that is gone are left out.                                       *)
(***************************************************************************)
EXTENDS Naturals, FiniteSets

CONSTANTS
    Callers,    \* the calls of Acquire, each with the guard it may return
    Process(_), \* the process of a call
    Id(_),      \* its sandbox id
    Nobody,     \* no call and no process
    MaxInodes,  \* directories and PID files made
    MaxKills

VARIABLES
    named,      \* the inode that the run directory's path names, or 0
    entry,      \* the PID entries of each directory: id -> inode, or 0
    files,      \* the other files in each directory: the calls that made them
    flock,      \* the call whose descriptor has locked a directory, or Nobody
    plock,      \* the process that has locked a PID file, or Nobody
    owners,     \* owners.byPath: the guard registered in each process
    mutex,      \* owners.Mutex of each process: the call that holds it
    pc, seen, dir, pid, \* of each call: dirInfo, the directory and the PID file it holds
    inodes, kills

vars == <<named, entry, files, flock, plock, owners, mutex, pc, seen, dir, pid, inodes, kills>>
disk == <<named, entry, files, inodes>>

Processes == {Process(c) : c \in Callers}
Ids == {Id(c) : c \in Callers}
Inodes == 1..MaxInodes

Init ==
    /\ named = 0 /\ inodes = 0 /\ kills = 0
    /\ entry = [i \in Inodes |-> [x \in Ids |-> 0]]
    /\ files = [i \in Inodes |-> {}]
    /\ flock = [i \in Inodes |-> Nobody] /\ plock = [i \in Inodes |-> Nobody]
    /\ owners = [p \in Processes |-> Nobody] /\ mutex = [p \in Processes |-> Nobody]
    /\ pc = [c \in Callers |-> "start"]
    /\ seen = [c \in Callers |-> 0] /\ dir = [c \in Callers |-> 0] /\ pid = [c \in Callers |-> 0]

goto(c, label) == pc' = [pc EXCEPT ![c] = label]
held == <<flock, plock>>
guards == <<owners, mutex>>

-----------------------------------------------------------------------------
(* acquire *)
MkdirAll(c) ==
    /\ pc[c] = "start"
    /\ IF named # 0 THEN UNCHANGED <<named, inodes>>
       ELSE inodes < MaxInodes /\ inodes' = inodes + 1 /\ named' = inodes + 1
    /\ goto(c, "lstat")
    /\ UNCHANGED <<entry, files, held, guards, seen, dir, pid, kills>>

LstatDir(c) ==
    /\ pc[c] = "lstat"
    /\ seen' = [seen EXCEPT ![c] = named]
    /\ goto(c, IF named = 0 THEN "failed" ELSE "owners")
    /\ UNCHANGED <<disk, held, guards, dir, pid, kills>>

(* The whole rest of acquire holds the mutex of its process. *)
LockOwners(c) ==
    /\ pc[c] = "owners" /\ mutex[Process(c)] = Nobody
    /\ IF owners[Process(c)] # Nobody THEN goto(c, "failed") /\ UNCHANGED mutex
       ELSE mutex' = [mutex EXCEPT ![Process(c)] = c] /\ goto(c, "open")
    /\ UNCHANGED <<disk, held, owners, seen, dir, pid, kills>>

unlockOwners(c) == mutex' = [mutex EXCEPT ![Process(c)] = Nobody]

(* The deferred functions of a failed acquire close what was opened.       *)
(* Closing a descriptor drops the locks that the process has on the file.  *)
fails(c) ==
    /\ flock' = [i \in Inodes |-> IF flock[i] = c THEN Nobody ELSE flock[i]]
    /\ plock' = [plock EXCEPT ![IF pid[c] = 0 THEN 1 ELSE pid[c]] =
                     IF pid[c] # 0 /\ @ = Process(c) THEN Nobody ELSE @]
    /\ dir' = [dir EXCEPT ![c] = 0] /\ pid' = [pid EXCEPT ![c] = 0]
    /\ unlockOwners(c) /\ goto(c, "failed")
    /\ UNCHANGED owners

OpenDir(c) ==
    /\ pc[c] = "open"
    /\ IF named = 0 THEN fails(c)
       ELSE /\ dir' = [dir EXCEPT ![c] = named] /\ goto(c, "flock")
            /\ UNCHANGED <<held, guards, pid>>
    /\ UNCHANGED <<disk, seen, kills>>

Flock(c) ==
    /\ pc[c] = "flock"
    /\ IF flock[dir[c]] # Nobody THEN fails(c)
       ELSE /\ flock' = [flock EXCEPT ![dir[c]] = c] /\ goto(c, "same")
            /\ UNCHANGED <<plock, guards, dir, pid>>
    /\ UNCHANGED <<disk, seen, kills>>

(* Mutant: the directory is not compared with what its name denotes now. *)
SameDirTrusting(c) ==
    /\ pc[c] = "same"
    /\ IF named = 0 THEN fails(c)
       ELSE goto(c, "pid") /\ UNCHANGED <<held, guards, dir, pid>>
    /\ UNCHANGED <<disk, seen, kills>>

(* The directory that was locked is the one first seen and still has the   *)
(* name.                                                                   *)
SameDir(c) ==
    /\ pc[c] = "same"
    /\ IF named # dir[c] \/ seen[c] # dir[c] THEN fails(c)
       ELSE goto(c, "pid") /\ UNCHANGED <<held, guards, dir, pid>>
    /\ UNCHANGED <<disk, seen, kills>>

OpenPid(c) ==
    /\ pc[c] = "pid"
    /\ \/ /\ named = 0 /\ fails(c) /\ UNCHANGED <<entry, inodes>>
       \/ /\ named # 0
          /\ IF entry[named][Id(c)] # 0 THEN UNCHANGED <<entry, inodes>>
             ELSE /\ inodes < MaxInodes /\ inodes' = inodes + 1
                  /\ entry' = [entry EXCEPT ![named][Id(c)] = inodes + 1]
          /\ pid' = [pid EXCEPT ![c] = entry'[named][Id(c)]]
          /\ goto(c, "setlk") /\ UNCHANGED <<held, guards, dir>>
    /\ UNCHANGED <<named, files, seen, kills>>

SetLk(c) ==
    /\ pc[c] = "setlk"
    /\ IF plock[pid[c]] \notin {Nobody, Process(c)} THEN fails(c)
       ELSE /\ plock' = [plock EXCEPT ![pid[c]] = Process(c)] /\ goto(c, "named")
            /\ UNCHANGED <<flock, guards, dir, pid>>
    /\ UNCHANGED <<disk, seen, kills>>

(* The PID entry is still the file that was locked; the guard is           *)
(* registered.  The runtime then fills its directory.                      *)
SamePid(c) ==
    /\ pc[c] = "named"
    /\ IF named = 0 \/ entry[IF named = 0 THEN 1 ELSE named][Id(c)] # pid[c]
       THEN fails(c) /\ UNCHANGED files
       ELSE /\ owners' = [owners EXCEPT ![Process(c)] = c]
            /\ unlockOwners(c) /\ goto(c, "owner")
            /\ files' = [files EXCEPT ![named] = @ \cup {c}]
            /\ UNCHANGED <<held, dir, pid>>
    /\ UNCHANGED <<named, entry, inodes, seen, kills>>

-----------------------------------------------------------------------------
(* removeRunDir, then Close.  Everything is addressed by name.             *)
mine(c) == named # 0 /\ entry[named][Id(c)] = pid[c]

RemoveBegins(c) ==
    /\ pc[c] = "owner" /\ mutex[Process(c)] = Nobody
    /\ goto(c, IF owners[Process(c)] = c /\ mine(c) THEN "clean" ELSE "close")
    /\ UNCHANGED <<disk, held, guards, seen, dir, pid, kills>>

RemoveFiles(c) ==
    /\ pc[c] = "clean"
    /\ IF named = 0 THEN UNCHANGED <<entry, files>>
       ELSE /\ files' = [files EXCEPT ![named] = {}]
            /\ entry' = [entry EXCEPT ![named] = [x \in Ids |-> IF x = Id(c) THEN @[x] ELSE 0]]
    /\ goto(c, "again")
    /\ UNCHANGED <<named, inodes, held, guards, seen, dir, pid, kills>>

RemovePid(c) ==
    /\ pc[c] = "again"
    /\ IF mine(c)
       THEN entry' = [entry EXCEPT ![named][Id(c)] = 0] /\ goto(c, "rmdir")
       ELSE goto(c, "close") /\ UNCHANGED entry
    /\ UNCHANGED <<named, files, inodes, held, guards, seen, dir, pid, kills>>

RemoveDir(c) ==
    /\ pc[c] = "rmdir"
    /\ named' = IF named # 0 /\ files[named] = {} /\ (\A x \in Ids : entry[named][x] = 0)
                THEN 0 ELSE named
    /\ goto(c, "close")
    /\ UNCHANGED <<entry, files, inodes, held, guards, seen, dir, pid, kills>>

(* Close; removing the directory before it is the caller's choice. *)
Close(c) ==
    /\ pc[c] \in {"owner", "close"} /\ mutex[Process(c)] = Nobody
    /\ plock' = [plock EXCEPT ![pid[c]] = IF @ = Process(c) THEN Nobody ELSE @]
    /\ flock' = [i \in Inodes |-> IF flock[i] = c THEN Nobody ELSE flock[i]]
    /\ owners' = [owners EXCEPT ![Process(c)] = IF @ = c THEN Nobody ELSE @]
    /\ dir' = [dir EXCEPT ![c] = 0] /\ pid' = [pid EXCEPT ![c] = 0]
    /\ goto(c, "closed")
    /\ UNCHANGED <<disk, mutex, seen, kills>>

(* The process is killed: the kernel drops its locks. *)
Kill(p) ==
    /\ kills < MaxKills /\ kills' = kills + 1
    /\ LET gone == {c \in Callers : Process(c) = p}
       IN /\ pc' = [c \in Callers |-> IF c \in gone THEN "dead" ELSE pc[c]]
          /\ seen' = [c \in Callers |-> IF c \in gone THEN 0 ELSE seen[c]]
          /\ dir' = [c \in Callers |-> IF c \in gone THEN 0 ELSE dir[c]]
          /\ pid' = [c \in Callers |-> IF c \in gone THEN 0 ELSE pid[c]]
          /\ flock' = [i \in Inodes |-> IF flock[i] \in gone THEN Nobody ELSE flock[i]]
    /\ plock' = [i \in Inodes |-> IF plock[i] = p THEN Nobody ELSE plock[i]]
    /\ owners' = [owners EXCEPT ![p] = Nobody] /\ mutex' = [mutex EXCEPT ![p] = Nobody]
    /\ UNCHANGED disk

Call(c) ==
    \/ MkdirAll(c) \/ LstatDir(c) \/ LockOwners(c) \/ OpenDir(c) \/ Flock(c) \/ SameDir(c)
    \/ OpenPid(c) \/ SetLk(c) \/ SamePid(c)
    \/ RemoveBegins(c) \/ RemoveFiles(c) \/ RemovePid(c) \/ RemoveDir(c) \/ Close(c)

Next == (\E c \in Callers : Call(c)) \/ (\E p \in Processes : Kill(p))

Spec == Init /\ [][Next]_vars

-----------------------------------------------------------------------------
(* Acquire's promise, until the guard's own RemoveRunDir or Close: the     *)
(* path still names the directory the runtime locked, its PID entry and    *)
(* its files are in it, and no other runtime, under the same id or another *)
(* one, owns the directory at the same time.  No clean-up of an earlier    *)
(* run reaches into it.                                                    *)
OwnerKeepsRunDir ==
    \A c \in Callers : pc[c] = "owner" =>
        /\ named = dir[c] /\ flock[named] = c
        /\ entry[named][Id(c)] = pid[c] /\ plock[pid[c]] = Process(c)
        /\ c \in files[named]
        /\ \A d \in Callers \ {c} : pc[d] \notin {"owner", "clean", "again", "rmdir"}
=============================================================================

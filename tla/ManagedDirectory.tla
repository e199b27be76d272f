--------------------------- MODULE ManagedDirectory ---------------------------
(***************************************************************************)
(* The checkpoint directory of one sandbox: pkg/artifact (checkpoint.go,   *)
(* diff_checkpoint.go, current_disks.go), pkg/sandbox (checkpoint_cold.go, *)
(* current_disks.go, diff_checkpoint.go) and the file sink of pkg/snapshot.*)
(* Runs start from a source, write their disks and capture named versions; *)
(* Reset makes a source of what a terminated run left; CleanupCheckpoint   *)
(* removes what the parent no longer needs.  Every one may be killed       *)
(* between two of its writes.                                              *)
(*                                                                         *)
(* A source is the pair of a set of disks and a version id; its file names *)
(* are digests, so a name stands for the content.  The parent is external: *)
(* it holds the source it last committed and others it wants retained, it  *)
(* resets only a run that ended, and it gives every run its own identity.  *)
(***************************************************************************)
EXTENDS Naturals, FiniteSets

CONSTANTS
    Disks,         \* the disks of the sandbox, 1 the root
    MaxRuns,       \* bound on the runs; a run names the set of disks it creates
    MaxCaptures,   \* bound on the named captures
    MaxWrites,     \* bound on the guest's writes
    MaxKills,      \* bound on processes killed
    MaxCleanups,   \* bound on the calls of CleanupCheckpoint
    None

Runs == 1..MaxRuns
Captures == 1..MaxCaptures
Ids == 1..(MaxCaptures + MaxRuns)
NoId == 0
operationID(r) == MaxCaptures + r
Roles == {"sandbox", "snapshot"}

VARIABLES
    store,     \* the DIFF of a set and disk: [now, cur, versions], or None
    files,     \* carriers and hard links: [kind, e]; partial ones have kind "partial"
    alias,     \* the semantic aliases, by role
    current,   \* CurrentDiskSet: [run, set]
    op,        \* the reset operations: [set, before]
    owner,     \* who has the lock of the directory: "run", "reset", "cleanup"
    next,      \* a start that has pinned its source and has no lock yet
    run,       \* the run: [pc, n, set, src, id, role, todo]
    mgr,       \* Reset or CleanupCheckpoint
    parent,    \* external: [src, held]
    count,     \* [runs, captures, writes, kills, cleanups]
    base,      \* what the disks of a set read below their DIFFs: a source or None
    want,      \* history: the content of each source when it was made
    final      \* history: what each run left on its disks

dirVars == <<store, files, alias, current, op>>
hist == <<base, want, final>>
vars == <<dirVars, owner, next, run, mgr, parent, count, hist>>

E(set, id) == [set |-> set, id |-> id]
Sources == [set : Runs, id : Ids]
Carrier(e) == [kind |-> "sandbox", e |-> e]
Memory(e) == [kind |-> "snapshot", e |-> e]
Lower(e) == [kind |-> "lower", e |-> e]
Litter == [kind |-> "partial", e |-> None]

IdleRun == [pc |-> "idle", n |-> 0, set |-> 0, src |-> None, id |-> NoId, role |-> "sandbox", todo |-> {}]
IdleMgr == [pc |-> "idle", n |-> 0, raw |-> None, todo |-> {}, keep |-> {}, drop |-> {}]
spend(what) == count' = [count EXCEPT ![what] = @ + 1]

Has(set, d, id) == store[set][d] # None /\ store[set][d].versions[id] # 0
Lowers(set) == IF base[set] = None THEN {} ELSE {Lower(base[set])}
-----------------------------------------------------------------------------
(* PinDiffCheckpoints: every version of the source is opened before the    *)
(* target directory is locked; the pins keep the content.                  *)
PinDiffCheckpoints ==
    /\ next = None /\ count.runs < MaxRuns
    /\ parent.src # None => /\ Carrier(parent.src) \in files
                            /\ \A d \in Disks : Has(parent.src.set, d, parent.src.id)
    /\ next' = [n |-> count.runs + 1, src |-> parent.src]
    /\ spend("runs")
    /\ UNCHANGED <<dirVars, owner, run, mgr, parent, hist>>

(* Mutant: the writers are chosen by what the pins showed. *)
ReopenIDsPinned(e) == e # None /\ \A d \in Disks : Has(e.set, d, e.id)

(* ReopenIDs, repeated under the lock: the writers of the source may be    *)
(* opened again only if nobody wrote since its version was made.           *)
ReopenIDs(e) ==
    e # None /\ \A d \in Disks : Has(e.set, d, e.id) /\ store[e.set][d].cur = e.id

(* prepareColdCheckpoint and prepareRestoreCheckpoint: the lock, and then  *)
(* the same writers or new ones over a materialization of the source.      *)
prepareCheckpoint ==
    /\ next # None
    /\ IF owner # None THEN UNCHANGED <<owner, run, base>>
       ELSE /\ owner' = "run"
            /\ LET again == ReopenIDs(next.src)
                   set == IF again THEN next.src.set ELSE next.n IN
               /\ run' = [IdleRun EXCEPT !.pc = "link", !.n = next.n, !.set = set, !.src = next.src]
               /\ base' = IF again THEN base ELSE [base EXCEPT ![set] = next.src]
    /\ next' = None
    /\ UNCHANGED <<dirVars, mgr, parent, count, want, final>>

(* RetainCurrentDisks: the lowers are linked into the directory, and then  *)
(* the description of the whole set replaces the one of the run before.    *)
linkDependencies ==
    /\ run.pc = "link"
    /\ files' = files \cup Lowers(run.set)
    /\ run' = [run EXCEPT !.pc = "retain"]
    /\ UNCHANGED <<store, alias, current, op, owner, next, mgr, parent, count, hist>>

writeCurrentJSON ==
    /\ run.pc = "retain"
    /\ current' = [run |-> run.n, set |-> run.set]
    /\ run' = [run EXCEPT !.pc = "up",
                          !.todo = {d \in Disks : store[run.set][d] = None}]
    /\ UNCHANGED <<store, files, alias, op, owner, next, mgr, parent, count, hist>>

(* A new DIFF is initialized by itself, after the description names it. *)
initializeDiff ==
    /\ run.pc = "up"
    /\ \E d \in run.todo :
          /\ store' = [store EXCEPT ![run.set][d] =
                [now |-> IF run.src = None THEN 1 ELSE want[run.src][d], cur |-> NoId,
                 versions |-> [i \in Ids |-> 0]]]
          /\ run' = [run EXCEPT !.todo = @ \ {d}]
    /\ UNCHANGED <<files, alias, current, op, owner, next, mgr, parent, count, hist>>

(* External: the guest. *)
Write ==
    /\ run.pc = "up" /\ run.todo = {} /\ count.writes < MaxWrites
    /\ \E d \in Disks :
          store' = [store EXCEPT ![run.set][d].now = count.writes + 2, ![run.set][d].cur = NoId]
    /\ spend("writes")
    /\ UNCHANGED <<files, alias, current, op, owner, next, run, mgr, parent, hist>>

(* prepareNamedCapture: the guest stands still from here. *)
prepareNamedCapture ==
    /\ run.pc = "up" /\ run.todo = {} /\ count.captures < MaxCaptures
    /\ \E role \in Roles :
          run' = [run EXCEPT !.pc = "capture", !.id = count.captures + 1, !.role = role, !.todo = Disks]
    /\ spend("captures")
    /\ UNCHANGED <<dirVars, owner, next, mgr, parent, hist>>

(* Store.Checkpoint; a version that exists is an error. *)
Versioned(set, d, id) ==
    store' = [store EXCEPT ![set][d].versions[id] = store[set][d].now, ![set][d].cur = id]

captureDisk ==
    /\ run.pc = "capture" /\ run.todo # {}
    /\ \E d \in run.todo :
          /\ Versioned(run.set, d, run.id)
          /\ run' = [run EXCEPT !.todo = @ \ {d}]
    /\ UNCHANGED <<files, alias, current, op, owner, next, mgr, parent, count, hist>>

(* FileSink.writeArtifact: a temporary file, renamed without replacement;  *)
(* killed in between it is left.  commitArtifactAlias follows.             *)
absorb(e, kinds) == files' = files \cup {[kind |-> k, e |-> e] : k \in kinds}
commitAlias(roles, e) ==
    alias' = [r \in Roles |-> IF r \in roles THEN [kind |-> r, e |-> e] ELSE alias[r]]

captureRoots ==
    /\ run.pc = "capture" /\ run.todo = {}
    /\ LET e == E(run.set, run.id) IN
       /\ absorb(e, {"sandbox", run.role})
       /\ want' = [want EXCEPT ![e] = [d \in Disks |-> store[run.set][d].now]]
    /\ run' = [run EXCEPT !.pc = "commit"]
    /\ UNCHANGED <<store, alias, current, op, owner, next, mgr, parent, count, base, final>>

(* Only the root of the capture gets its alias, the E of a Snapshot none.  *)
(* The parent learns of the capture from its answer.                       *)
captureCommits ==
    /\ run.pc = "commit"
    /\ LET e == E(run.set, run.id) IN
       /\ commitAlias({run.role}, e)
       /\ parent' = [parent EXCEPT !.src = e, !.held = @ \cup {e}]
    /\ run' = [run EXCEPT !.pc = "up", !.id = NoId, !.role = "sandbox"]
    /\ UNCHANGED <<store, files, current, op, owner, next, mgr, count, hist>>

(* A run ends, or is killed wherever it is. *)
Left(r, set) ==
    final' = [final EXCEPT ![r] = [d \in Disks |-> IF store[set][d] = None THEN 0 ELSE store[set][d].now]]

RunEnds ==
    /\ run.pc = "up" /\ run.todo = {}
    /\ Left(run.n, run.set)
    /\ run' = IdleRun /\ owner' = None
    /\ UNCHANGED <<dirVars, next, mgr, parent, count, base, want>>

RunKilled ==
    /\ run.pc # "idle" /\ count.kills < MaxKills
    /\ files' = files \cup (IF run.pc \in {"capture", "commit"} THEN {Litter} ELSE {})
    /\ IF run.pc \in {"link", "retain"} THEN UNCHANGED final ELSE Left(run.n, run.set)
    /\ \/ UNCHANGED alias
       \/ run.pc = "commit" /\ commitAlias({run.role}, E(run.set, run.id))
    /\ run' = IdleRun /\ owner' = None
    /\ spend("kills")
    /\ UNCHANGED <<store, current, op, next, mgr, parent, base, want>>

-----------------------------------------------------------------------------
(* resetCurrentDisks: the description, before and again under the lock. *)
resetReads ==
    /\ mgr.pc = "idle" /\ current # None
    /\ \E r \in Runs :
          /\ final[r] # None /\ run.n # r
          /\ mgr' = [IdleMgr EXCEPT !.pc = "lock", !.n = r, !.raw = current]
    /\ UNCHANGED <<dirVars, owner, next, run, parent, count, hist>>

giveUp == mgr' = IdleMgr

(* What Reset checks under the lock before it changes anything. *)
describes == current = mgr.raw /\ current.run = mgr.n
complete ==
    /\ Lowers(current.set) \subseteq files
    /\ \A d \in Disks : store[current.set][d] # None
Before(set) == [d \in Disks |-> store[set][d].cur]
owned == op[mgr.n] # None \/ ~\E d \in Disks : Has(current.set, d, operationID(mgr.n))

resetAdmits ==
    /\ mgr.pc = "lock"
    /\ IF owner # None \/ ~describes \/ ~complete \/ ~owned
       THEN giveUp /\ UNCHANGED <<op, owner>>
       ELSE /\ owner' = "reset"
            /\ op' = [op EXCEPT ![mgr.n] =
                  IF @ = None THEN [set |-> current.set, before |-> Before(current.set)] ELSE @]
            /\ mgr' = [mgr EXCEPT !.pc = "disks", !.todo = Disks]
    /\ UNCHANGED <<store, files, alias, current, next, run, parent, count, hist>>

(* Disk by disk, in order: a version an earlier call made is taken if it   *)
(* still is what the disk holds, any other change since admission refused. *)
resetDisk ==
    /\ mgr.pc = "disks" /\ mgr.todo # {}
    /\ LET d == CHOOSE d \in mgr.todo : \A x \in mgr.todo : d <= x
           id == operationID(mgr.n)
           s == store[current.set][d]
           ok == IF s.versions[id] # 0 THEN s.cur = id ELSE s.cur = op[mgr.n].before[d] IN
       IF ~ok THEN giveUp /\ owner' = None /\ UNCHANGED store
       ELSE /\ IF s.versions[id] # 0 THEN UNCHANGED store ELSE Versioned(current.set, d, id)
            /\ mgr' = [mgr EXCEPT !.todo = @ \ {d}]
            /\ UNCHANGED owner
    /\ UNCHANGED <<files, alias, current, op, next, run, parent, count, hist>>

resetAbsorbs ==
    /\ mgr.pc = "disks" /\ mgr.todo = {}
    /\ LET e == E(current.set, operationID(mgr.n)) IN
       /\ absorb(e, {"sandbox"})
       /\ want' = [want EXCEPT ![e] = [d \in Disks |-> store[current.set][d].versions[e.id]]]
    /\ mgr' = [mgr EXCEPT !.pc = "commit"]
    /\ UNCHANGED <<store, alias, current, op, owner, next, run, parent, count, base, final>>

(* The alias, the operation record and the answer; the parent commits it. *)
resetReturns ==
    /\ mgr.pc = "commit"
    /\ LET e == E(current.set, operationID(mgr.n)) IN
       /\ commitAlias({"sandbox"}, e)
       /\ parent' = [parent EXCEPT !.src = e, !.held = @ \cup {e}]
    /\ giveUp /\ owner' = None
    /\ UNCHANGED <<store, files, current, op, next, run, count, hist>>

-----------------------------------------------------------------------------
(* CleanupCheckpoint.  checkpointKeep.plan of the primary source and of    *)
(* the retained ones; the current set is a root of its own.                *)
keptBySources(S) ==
    {Carrier(e) : e \in S} \cup {Memory(e) : e \in S} \cup UNION {Lowers(e.set) : e \in S}
keptFiles(S) ==
    keptBySources(S) \cup (IF current = None THEN {} ELSE Lowers(current.set))
activeSet == IF current = None THEN {} ELSE {current.set}

(* The parent gives the source it committed and the others it still wants, *)
(* with every start fenced off.  A current set with a DIFF that was never  *)
(* initialized refuses the clean-up.                                       *)
cleanupPlans ==
    /\ mgr.pc = "idle" /\ owner = None /\ parent.src # None /\ count.cleanups < MaxCleanups
    /\ next = None
    /\ \A s \in activeSet, d \in Disks : store[s][d] # None
    /\ \E R \in SUBSET parent.held :
          LET S == R \cup {parent.src} IN
          /\ parent' = [parent EXCEPT !.held = S]
          /\ mgr' = [IdleMgr EXCEPT !.pc = "versions", !.keep = S,
                !.todo = {s \in Runs \ activeSet : \E d \in Disks : store[s][d] # None}]
    /\ owner' = "cleanup"
    /\ spend("cleanups")
    /\ UNCHANGED <<dirVars, next, run, hist>>

(* cleanupDiffVersionSet of one DIFF that is not active: retired when no   *)
(* kept source needs a version of it.                                      *)
keepIDs(s) == {e.id : e \in {e \in mgr.keep : e.set = s}}
swept(s, d) ==
    IF store[s][d] = None \/ keepIDs(s) = {} THEN None
    ELSE [store[s][d] EXCEPT !.versions = [i \in Ids |-> IF i \in keepIDs(s) THEN @[i] ELSE 0],
                             !.cur = IF @ \in keepIDs(s) THEN @ ELSE NoId]

cleanupDiffVersionSet ==
    /\ mgr.pc = "versions"
    /\ IF mgr.todo = {} THEN /\ mgr' = [mgr EXCEPT !.pc = "files",
                                              !.drop = files \ keptFiles(mgr.keep)]
                             /\ UNCHANGED store
       ELSE \E s \in mgr.todo, d \in Disks :
              /\ store[s][d] # swept(s, d) \/ \A x \in Disks : store[s][x] = swept(s, x)
              /\ store' = [store EXCEPT ![s][d] = swept(s, d)]
              /\ mgr' = [mgr EXCEPT !.todo =
                            IF \A x \in Disks : store'[s][x] = swept(s, x) THEN @ \ {s} ELSE @]
    /\ UNCHANGED <<files, alias, current, op, owner, next, run, parent, count, hist>>

(* The entries, in the order the directory gives them; an alias stays only *)
(* when it names the primary source.                                       *)
wantedAlias(r) == alias[r] = [kind |-> r, e |-> parent.src]

cleanupRemoves ==
    /\ mgr.pc = "files"
    /\ \/ \E f \in mgr.drop :
             /\ files' = files \ {f}
             /\ mgr' = [mgr EXCEPT !.drop = @ \ {f}]
             /\ UNCHANGED <<alias, owner>>
       \/ /\ mgr.drop = {}
          /\ alias' = [r \in Roles |-> IF wantedAlias(r) THEN alias[r] ELSE None]
          /\ giveUp /\ owner' = None /\ UNCHANGED files
    /\ UNCHANGED <<store, current, op, next, run, parent, count, hist>>

(* DeletePublishedDiffCheckpoints: the versions of a source the parent has *)
(* published elsewhere, by the lock or through the run that has it; some   *)
(* of the disks may fail.                                                  *)
DeletePublishedDiffCheckpoints ==
    /\ owner = None \/ (owner = "run" /\ run.pc = "up")
    /\ \E e \in {e \in parent.held \ {parent.src} : e.id \in Captures}, D \in SUBSET Disks :
          /\ next # None => next.src # e
          /\ parent' = [parent EXCEPT !.held = @ \ {e}]
          /\ store' = [store EXCEPT ![e.set] = [d \in Disks |->
                IF d \in D THEN [@[d] EXCEPT !.versions[e.id] = 0, !.cur = IF @ = e.id THEN NoId ELSE @]
                ELSE @[d]]]
    /\ UNCHANGED <<files, alias, current, op, owner, next, run, mgr, count, hist>>

ManagerKilled ==
    /\ mgr.pc \notin {"idle", "lock"} /\ count.kills < MaxKills
    /\ files' = files \cup (IF mgr.pc \in {"disks", "commit"} THEN {Litter} ELSE {})
    /\ \/ UNCHANGED alias
       \/ mgr.pc = "commit" /\ commitAlias({"sandbox"}, E(current.set, operationID(mgr.n)))
    /\ giveUp /\ owner' = None
    /\ spend("kills")
    /\ UNCHANGED <<store, current, op, next, run, parent, hist>>

-----------------------------------------------------------------------------
Init ==
    /\ store = [s \in Runs |-> [d \in Disks |-> None]]
    /\ files = {} /\ alias = [r \in Roles |-> None] /\ current = None
    /\ op = [r \in Runs |-> None] /\ owner = None /\ next = None
    /\ run = IdleRun /\ mgr = IdleMgr
    /\ parent = [src |-> None, held |-> {}]
    /\ count = [runs |-> 0, captures |-> 0, writes |-> 0, kills |-> 0, cleanups |-> 0]
    /\ base = [s \in Runs |-> None]
    /\ want = [e \in Sources |-> None]
    /\ final = [r \in Runs |-> None]

Runner ==
    \/ PinDiffCheckpoints \/ prepareCheckpoint \/ linkDependencies \/ writeCurrentJSON
    \/ initializeDiff \/ Write \/ prepareNamedCapture \/ captureDisk \/ captureRoots
    \/ captureCommits \/ RunEnds \/ RunKilled

Manager ==
    \/ resetReads \/ resetAdmits \/ resetDisk \/ resetAbsorbs \/ resetReturns
    \/ cleanupPlans \/ cleanupDiffVersionSet \/ cleanupRemoves
    \/ DeletePublishedDiffCheckpoints \/ ManagerKilled

Next == Runner \/ Manager
Spec == Init /\ [][Next]_vars
-----------------------------------------------------------------------------
(* Every source the parent holds can be started: its carrier, the versions *)
(* of all its disks with the content of the capture, and the lowers below  *)
(* them are in the directory, whatever run, Reset or clean-up was killed   *)
(* in between.  The disks a run left keep what is below them as well, so   *)
(* that Reset finds them (CleanupCheckpoint, RetainCurrentDisks).          *)
SourcesReadable ==
    /\ \A e \in parent.held :
          /\ Carrier(e) \in files /\ Lowers(e.set) \subseteq files
          /\ \A d \in Disks : Has(e.set, d, e.id) /\ store[e.set][d].versions[e.id] = want[e][d]
    /\ current # None =>
          /\ Lowers(current.set) \subseteq files
          /\ run.n # current.run /\ final[current.run] # None =>
                \A d \in Disks : final[current.run][d] # 0 => store[current.set][d] # None

(* A run starts on the content of its source, be it on the writers the     *)
(* source was captured from or on new ones; what Reset makes of a run is   *)
(* what that run left, all its disks at one moment, however often the      *)
(* operation was interrupted; and every source that the parent holds stays *)
(* readable (ReopenIDs, resetCurrentDisks, CleanupCheckpoint).             *)
SourcesExact ==
    /\ SourcesReadable
    /\ run.pc = "retain" /\ run.src # None =>
          \A d \in Disks : store[run.set][d] # None => store[run.set][d].now = want[run.src][d]
    /\ \A r \in Runs, e \in Sources :
          e.id = operationID(r) /\ want[e] # None => want[e] = final[r]
=============================================================================

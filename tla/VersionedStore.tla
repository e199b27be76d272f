--------------------------- MODULE VersionedStore ---------------------------
(***************************************************************************)
(* The checkpointed copy-on-write store of pkg/diffstore/internal/         *)
(* versioned: one DIFF file whose pages are allocated in slots, an active  *)
(* version that the owner writes, checkpoints that must keep their         *)
(* contents, readers in other processes that pin a checkpoint with a lock, *)
(* and a bounded garbage collector that gives slots back.                  *)
(*                                                                         *)
(* Every action is one metadata transaction.  RedoCommit shows that such a *)
(* transaction survives a crash as a whole or not at all, so a crash here  *)
(* loses only what the owner keeps in memory.                              *)
(*                                                                         *)
(* The B+ tree is one index page that holds the whole mapping: writable(), *)
(* put() and removeRange() follow the same rule at every level (edit a     *)
(* private node, copy and retire a protected one).  Checkpoint records are *)
(* never released, so they do not compete for Slots; a checkpoint is its   *)
(* position in the list (Previous is one less, Next one more) and its ID,  *)
(* which is never used twice.  Slots is also the space of the disk.        *)
(***************************************************************************)
EXTENDS Naturals, FiniteSets, Sequences, FiniteSetsExt

CONSTANTS
    Slots,            \* physical pages, the limit of the file system
    Blocks,           \* logical pages
    Values,           \* payloads
    Views,            \* readers in other processes
    None,             \* no slot, no payload, no operation
    MaxCheckpoints,   \* bound on the checkpoints ever taken
    MaxModify,        \* bound on writes and discards, 0 for no bound
    Budget,           \* pages one GC transaction may move, MaxBatchPages
    MaxRounds         \* foreground GC rounds of one attempt, 16 in the code

VARIABLES
    kind,        \* slot -> its descriptor's Kind, "free" also beyond control.Next
    birth,       \* slot -> its descriptor's Birth
    page,        \* slot -> what the page holds, EmptyPage if it was punched
    root,        \* control.Root
    present,     \* the presence area: the logical pages this DIFF owns
    epoch,       \* control.Epoch
    current,     \* control.Current, 0 if the active version is no checkpoint
    protected,   \* control.Protected
    garbage,     \* the chain of control.Garbage
    retired,     \* control.Retired
    cps,         \* the list of checkpoint records
    fatal,       \* Store.fatal: sticky until the file is opened again
    scan,        \* Store.gc, the volatile scan of the garbage collector
    turn,        \* Store.gcVersionTurn
    blocked,     \* the last GC call answered BlockedByReaders
    marked,      \* a caller between MarkModified and the store's lock
    held,        \* an operation that holds the lock while it assists GC
    views,       \* view -> the checkpoint it pins, 0 if closed
    unlinked,    \* Retire removed the file
    active,      \* history: the contents the last successful calls left
    frozen,      \* history: the contents at each checkpoint
    modified     \* the writes and discards so far, counted if they are bounded

ctrlVars == <<root, present, epoch, current, protected, garbage, retired>>
diskVars == <<kind, birth, page, ctrlVars, cps, unlinked>>
ghosts == <<active, frozen, modified>>
gcVars == <<scan, turn, blocked>>
vars == <<diskVars, fatal, gcVars, marked, held, views, ghosts>>

Kinds == {"free", "data", "index", "bitmap", "garbage"}

(* A page holds a payload, an index node or a presence bitmap. *)
EmptyPage == [data |-> None, node |-> <<>>, bits |-> {}]
DataPage(v) == [EmptyPage EXCEPT !.data = v]
NodePage(m) == [EmptyPage EXCEPT !.node = m]
BitmapPage(p) == [EmptyPage EXCEPT !.bits = p]

NoScan == [cursor |-> 0, tail |-> 0, blocked |-> 0, fresh |-> TRUE,
           pred |-> 0, predFor |-> 0, ready |-> FALSE]

(* The operations of a caller that changes the active version. *)
WriteOps == [op : {"write"}, block : Blocks, value : Values, defer : BOOLEAN]
DiscardOps == [op : {"discard"}, block : Blocks, defer : {FALSE}]
CheckpointOp == [op |-> "checkpoint", defer |-> FALSE]

-----------------------------------------------------------------------------
(* Reading a version. *)

Mapping(r) == IF r = None THEN <<>> ELSE page[r].node

(* View.ReadAt and Store.ReadAt: a page outside the presence bitmap comes   *)
(* from the base image, a present page with no mapping is zero.             *)
ReadAt(r, p) ==
    [b \in Blocks |->
        IF b \notin p THEN "base"
        ELSE IF b \notin DOMAIN Mapping(r) THEN "zero"
        ELSE page[Mapping(r)[b]].data]

Reach(r) == IF r = None THEN {} ELSE {r} \cup Range(Mapping(r))

Checkpoints == 1 .. Len(cps)
Pinned(c) == \E v \in Views : views[v] = c
PendingCount == Cardinality({c \in Checkpoints : cps[c].pending})

healthy == ~fatal /\ ~retired /\ ~unlinked

-----------------------------------------------------------------------------
(* transaction: allocation and retirement. *)

Free == {s \in Slots : kind[s] = "free"}

(* A chain of slots is a set here: which slot of it comes first matters to  *)
(* no property, so the lowest n are taken.                                  *)
Lowest(n, chain) == {s \in chain : Cardinality({r \in chain : r < s}) < n}

(* allocate: from the free list, or by moving control.Next. *)
allocate(n) == Lowest(n, Free)

protectedEpoch == IF protected = 0 THEN 0 ELSE cps[protected].epoch

(* Mutant: a slot born in the protected epoch counts as private. *)
privateAtEpoch(s) == birth[s] >= protectedEpoch

private(s) == birth[s] > protectedEpoch

(* The dead slots that a checkpoint may still need. *)
ToCheckpoint(dead) == {s \in dead : protected # 0 /\ birth[s] <= protectedEpoch}

(* retire, retirePayloads: a slot the protected checkpoint can reach joins  *)
(* its chain, any other the global chain.  The collector may punch a slot of*)
(* the global chain at any moment and fail before it publishes it as free,  *)
(* so its page counts as lost from here on; nobody reads its Birth again.   *)
retire(dead) ==
    /\ cps' = [c \in Checkpoints |->
                  IF c = protected
                  THEN [cps[c] EXCEPT !.garbage = @ \cup ToCheckpoint(dead)]
                  ELSE cps[c]]
    /\ garbage' = garbage \cup (dead \ ToCheckpoint(dead))

(* writable: a node the protected checkpoint cannot reach is edited in      *)
(* place; emptying the tree needs no node.                                  *)
CopiesRoot(m) == m # <<>> /\ (root = None \/ ~private(root))
DropsRoot(m) == root # None /\ (m = <<>> \/ ~private(root))

(* Publishes mapping m: "data" is the payload slot the operation allocated  *)
(* (or none), "index" the node, "dead" the payloads that lost their mapping.*)
Remap(m, data, value, index, dead) ==
    LET retiring == dead \cup IF DropsRoot(m) THEN {root} ELSE {}
        fresh == data \cup IF CopiesRoot(m) THEN {index} ELSE {}
        lost == retiring \ ToCheckpoint(retiring)
    IN  /\ kind' = [s \in Slots |-> IF s \in data THEN "data"
                                    ELSE IF s \in fresh THEN "index"
                                    ELSE IF s \in retiring THEN "garbage"
                                    ELSE kind[s]]
        /\ birth' = [s \in Slots |-> IF s \in fresh THEN epoch
                                     ELSE IF s \in lost THEN 0 ELSE birth[s]]
        /\ page' = [s \in Slots |-> IF s \in data THEN DataPage(value)
                                    ELSE IF s \in lost THEN EmptyPage
                                    ELSE IF m # <<>> /\ s = index THEN NodePage(m)
                                    ELSE page[s]]
        /\ root' = IF m = <<>> THEN None ELSE index
        /\ retire(retiring)

-----------------------------------------------------------------------------
(* The bodies of the transactions, and the slots each one must reserve. *)

Old(b) == IF b \in DOMAIN Mapping(root) THEN {Mapping(root)[b]} ELSE {}
InPlace(b) == \E s \in Old(b) : private(s)
With(b, s) == [x \in DOMAIN Mapping(root) \cup {b} |->
                  IF x = b THEN s ELSE Mapping(root)[x]]
Without(b) == [x \in DOMAIN Mapping(root) \ {b} |-> Mapping(root)[x]]

Need(o) ==
    CASE o.op = "checkpoint" -> 1
      [] o.op = "write" -> IF InPlace(o.block) THEN 0
                           ELSE IF CopiesRoot(With(o.block, None)) THEN 2 ELSE 1
      [] o.op = "discard" -> IF Old(o.block) # {} /\ CopiesRoot(Without(o.block))
                             THEN 1 ELSE 0

(* writePages, one page: a private payload is overwritten without a         *)
(* metadata transaction.  The fence on Current is taken again here, because *)
(* a checkpoint may have been taken since MarkModified.                     *)
WriteTx(b, v) ==
    /\ current' = 0
    /\ present' = present \cup {b}
    /\ active' = [active EXCEPT ![b] = v]
    /\ \/ /\ InPlace(b)
          /\ page' = [page EXCEPT ![Mapping(root)[b]] = DataPage(v)]
          /\ UNCHANGED <<kind, birth, root, cps, garbage>>
       \/ /\ ~InPlace(b)
          /\ LET A == allocate(Need([op |-> "write", block |-> b]))
                 d == Min(A)
             IN  Remap(With(b, d), {d}, v, IF A = {d} THEN root ELSE Max(A), Old(b))
    /\ UNCHANGED <<epoch, protected, retired, frozen, modified>>

(* Discard, DiscardPages: the page becomes logical zero. *)
DiscardTx(b) ==
    /\ current' = 0
    /\ present' = present \cup {b}
    /\ active' = [active EXCEPT ![b] = "zero"]
    /\ \/ /\ Old(b) = {}
          /\ UNCHANGED <<kind, birth, page, root, cps, garbage>>
       \/ /\ Old(b) # {}
          /\ LET A == allocate(Need([op |-> "discard", block |-> b]))
             IN  Remap(Without(b), {}, None, IF A = {} THEN root ELSE Max(A), Old(b))
    /\ UNCHANGED <<epoch, protected, retired, frozen, modified>>

(* Checkpoint: copies the presence bitmap, names the root and starts the    *)
(* next epoch.                                                              *)
CheckpointTx ==
    \E s \in allocate(1) :
        /\ kind' = [kind EXCEPT ![s] = "bitmap"]
        /\ birth' = [birth EXCEPT ![s] = epoch]
        /\ page' = [page EXCEPT ![s] = BitmapPage(present)]
        /\ cps' = Append(cps, [epoch |-> epoch, root |-> root, bitmap |-> s,
                               garbage |-> {}, visible |-> TRUE,
                               retained |-> TRUE, pending |-> FALSE])
        /\ current' = Len(cps) + 1
        /\ protected' = Len(cps) + 1
        /\ epoch' = epoch + 1
        /\ frozen' = Append(frozen, active)
        /\ UNCHANGED <<root, present, garbage, retired, active, modified>>

Tx(o) == CASE o.op = "write" -> WriteTx(o.block, o.value)
           [] o.op = "discard" -> DiscardTx(o.block)
           [] o.op = "checkpoint" -> CheckpointTx

(* reservationFailure: sticky, except for the cache's deferred writes. *)
reservationFailure(o) ==
    /\ fatal' = (fatal \/ ~o.defer)
    /\ held' = None
    /\ UNCHANGED <<diskVars, ghosts>>

(* mutateWithReservationPolicy: commit, or collect garbage and try again.   *)
mutate(o, attempt) ==
    \/ /\ Need(o) <= Cardinality(Free)
       /\ Tx(o)
       /\ held' = None
       /\ UNCHANGED <<fatal, unlinked>>
    \/ /\ Need(o) > Cardinality(Free) /\ attempt >= 2
       /\ reservationFailure(o)
    \/ /\ Need(o) > Cardinality(Free) /\ attempt < 2
       /\ held' = [op |-> o, attempt |-> attempt, rounds |-> 0, freed |-> FALSE,
                   done |-> FALSE]
       /\ UNCHANGED <<diskVars, fatal, ghosts>>

-----------------------------------------------------------------------------
(* The owner's operations. *)

(* MarkModified, before the caller takes the lock for its own transaction. *)
MarkModified ==
    /\ held = None /\ ~marked /\ healthy
    /\ MaxModify = 0 \/ modified < MaxModify
    /\ modified' = IF MaxModify = 0 THEN 0 ELSE modified + 1
    /\ marked' = TRUE
    /\ current' = 0
    /\ UNCHANGED <<kind, birth, page, root, present, epoch, protected, garbage,
                   retired, cps, unlinked, fatal, gcVars, held, views, active,
                   frozen>>

Modify(o) ==
    /\ held = None /\ marked /\ healthy
    /\ marked' = FALSE
    /\ mutate(o, 0)
    /\ UNCHANGED <<gcVars, views>>

Checkpoint ==
    /\ held = None /\ healthy
    /\ Len(cps) < MaxCheckpoints
    /\ mutate(CheckpointOp, 0)
    /\ UNCHANGED <<gcVars, marked, views>>

(* predecessor: the nearest older retained checkpoint, 0 if none. *)
predecessor(c, retained) ==
    Max({0} \cup {p \in 1 .. c - 1 : retained[p]})

(* DeleteCheckpoints of a set: every member that no reader pins is          *)
(* withdrawn in the same transaction.                                       *)
DeleteCheckpoints(ids) ==
    LET chosen == {c \in ids : cps[c].visible}
        retained == [c \in Checkpoints |-> cps[c].retained /\ (c \in chosen => Pinned(c))]
    IN  /\ held = None /\ healthy
        /\ chosen # {}
        /\ cps' = [c \in Checkpoints |->
                      IF c \in chosen
                      THEN [cps[c] EXCEPT !.visible = FALSE, !.pending = TRUE,
                                          !.retained = retained[c]]
                      ELSE cps[c]]
        /\ current' = IF current \in chosen THEN 0 ELSE current
        /\ protected' = IF protected \in chosen /\ ~retained[protected]
                        THEN predecessor(protected, retained)
                        ELSE protected
        /\ scan' = [scan EXCEPT !.fresh = FALSE]
        /\ UNCHANGED <<kind, birth, page, root, present, epoch, garbage, retired,
                       unlinked, fatal, turn, blocked, marked, held, views, ghosts>>

(* The owner does nothing more: its memory is lost or never used again, and *)
(* a caller in MarkModified gets an error.                                  *)
Forget ==
    /\ scan' = NoScan /\ turn' = FALSE /\ blocked' = FALSE
    /\ marked' = FALSE /\ held' = None

(* Retire: first no new use of the file, then unlink it once no reader is   *)
(* left.                                                                    *)
Retire ==
    /\ held = None /\ ~fatal /\ ~unlinked
    /\ retired' = TRUE
    /\ current' = 0
    /\ unlinked' = \A v \in Views : views[v] = 0
    /\ Forget
    /\ UNCHANGED <<kind, birth, page, root, present, epoch, protected, garbage,
                   cps, fatal, views, ghosts>>

-----------------------------------------------------------------------------
(* Garbage collection. *)

(* gcRelease: punches a batch of the global chain, then publishes it as     *)
(* free in one transaction.                                                 *)
gcRelease ==
    LET batch == Lowest(Budget, garbage)
    IN  /\ page' = [s \in Slots |-> IF s \in batch THEN EmptyPage ELSE page[s]]
        /\ kind' = [s \in Slots |-> IF s \in batch THEN "free" ELSE kind[s]]
        /\ garbage' = garbage \ batch
        /\ scan' = IF garbage' = {} /\ PendingCount = 0 THEN NoScan ELSE scan
        /\ blocked' = FALSE
        /\ UNCHANGED <<birth, root, present, epoch, current, protected, retired,
                       cps>>

(* One step of the search for a retained predecessor. *)
Discover(g) ==
    IF g.ready \/ g.pred = 0 THEN g
    ELSE IF cps[g.pred].retained THEN [g EXCEPT !.ready = TRUE]
    ELSE [g EXCEPT !.pred = @ - 1]

(* A retained predecessor found by an earlier transaction may have been     *)
(* deleted since; it is only used, and so only read again, for a checkpoint *)
(* that still owns a chain or the protection.                               *)
Revalidate(g, c) ==
    [g EXCEPT !.ready = @ /\ ( \/ g.pred = 0
                               \/ cps[c].garbage = {} /\ protected # c
                               \/ cps[g.pred].retained )]

(* The search of one transaction reads at most Budget predecessors. *)
Predecessor(g, c) ==
    LET begun == IF g.predFor = c THEN g
                 ELSE [g EXCEPT !.predFor = c, !.pred = c - 1,
                                !.ready = cps[c].garbage = {} /\ protected # c]
        walk[n \in 0 .. Budget] == IF n = 0 THEN Revalidate(begun, c)
                                   ELSE Discover(walk[n - 1])
    IN  [walk[Budget] EXCEPT !.ready = @ \/ walk[Budget].pred = 0]

(* The next cursor of the scan; it ends at the tail it began with. *)
Advance(g, c) ==
    IF c = g.tail THEN NoScan
    ELSE [g EXCEPT !.cursor = c + 1, !.predFor = 0, !.ready = FALSE]

(* A checkpoint with nothing to move: not deleted, or still pinned. *)
gcSkip(g, c) ==
    LET seen == IF cps[c].pending THEN g.blocked + 1 ELSE g.blocked
    IN  /\ scan' = Advance([g EXCEPT !.blocked = seen], c)
        /\ blocked' = /\ c = g.tail /\ g.fresh
                      /\ seen = PendingCount /\ PendingCount # 0
        /\ UNCHANGED <<kind, birth, page, ctrlVars, cps>>

(* The slots of a moved batch that the predecessor can reach too. *)
Inherited(moved, pred) == {s \in moved : pred # 0 /\ cps[pred].epoch >= birth[s]}

(* A withdrawn checkpoint: its bitmap and its chain move on, a slot of the  *)
(* chain to the nearest older retained version that can reach it, else to   *)
(* the global chain.                                                        *)
gcMove(g0, c) ==
    LET cp == cps[c]
        bitmap == IF cp.bitmap = None THEN {} ELSE {cp.bitmap}
        g == Predecessor(g0, c)
        room == Budget - Cardinality(bitmap)
        moved == IF g.ready THEN Lowest(room, cp.garbage) ELSE {}
        inherited == Inherited(moved, g.pred)
        left == cp.garbage \ moved
        lost == bitmap \cup (moved \ inherited)
        pending == ~(g.ready /\ left = {})
    IN  /\ kind' = [s \in Slots |-> IF s \in bitmap THEN "garbage" ELSE kind[s]]
        /\ birth' = [s \in Slots |-> IF s \in lost THEN 0 ELSE birth[s]]
        /\ page' = [s \in Slots |-> IF s \in lost THEN EmptyPage ELSE page[s]]
        /\ garbage' = garbage \cup lost
        /\ cps' = [d \in Checkpoints |->
                     IF d = c THEN [cp EXCEPT !.bitmap = None, !.garbage = left,
                                              !.pending = pending,
                                              !.retained = FALSE]
                     ELSE IF d = g.pred
                     THEN [cps[d] EXCEPT !.garbage = @ \cup inherited]
                     ELSE cps[d]]
        /\ protected' = IF g.ready /\ protected = c THEN g.pred ELSE protected
        /\ scan' = IF pending THEN g
                   ELSE IF garbage' = {} /\ PendingCount = 1 THEN NoScan
                   ELSE Advance(g, c)
        /\ blocked' = FALSE
        /\ UNCHANGED <<root, present, epoch, current, retired>>

(* gcVersions: one checkpoint of the scan.  A deleted checkpoint stays      *)
(* retained while a reader holds its lock.                                  *)
gcVersions ==
    LET g == IF scan.cursor = 0
             THEN [NoScan EXCEPT !.cursor = 1, !.tail = Len(cps)]
             ELSE scan
        cp == cps[g.cursor]
    IN  IF cp.pending /\ (~cp.retained \/ ~Pinned(g.cursor))
        THEN gcMove(g, g.cursor)
        ELSE gcSkip(g, g.cursor)

Work == garbage # {} \/ PendingCount # 0

(* gcLocked: with work of both kinds the two take turns. *)
Releases == garbage # {} /\ (PendingCount = 0 \/ ~turn)

gcLocked ==
    /\ Work
    /\ IF Releases THEN gcRelease ELSE gcVersions
    /\ turn' = IF garbage # {} /\ PendingCount # 0 THEN ~turn ELSE turn
    /\ UNCHANGED <<unlinked, ghosts>>

(* The worker of startGC, and explicit GC calls. *)
GC ==
    /\ held = None /\ healthy
    /\ gcLocked
    /\ UNCHANGED <<fatal, marked, held, views>>

(* The answers Complete and BlockedByReaders end a round of assistance. *)
More == garbage # {} \/ (PendingCount # 0 /\ ~blocked)

(* Mutant: one round of assistance, whatever it freed. *)
AssistOnce ==
    /\ held # None /\ ~held.done
    /\ \/ /\ Work /\ held.rounds < MaxRounds
          /\ gcLocked
          /\ held' = [held EXCEPT !.rounds = @ + 1, !.freed = @ \/ Releases,
                                  !.done = TRUE]
       \/ /\ ~(Work /\ held.rounds < MaxRounds)
          /\ held' = [held EXCEPT !.done = TRUE]
          /\ UNCHANGED <<diskVars, gcVars, ghosts>>
    /\ UNCHANGED <<fatal, marked, views>>

(* The foreground loop of mutateWithReservationPolicy, under the lock. *)
Assist ==
    /\ held # None /\ ~held.done
    /\ \/ /\ Work /\ held.rounds < MaxRounds
          /\ gcLocked
          /\ held' = [held EXCEPT !.rounds = @ + 1, !.freed = @ \/ Releases,
                                  !.done = ~More']
       \/ /\ ~(Work /\ held.rounds < MaxRounds)
          /\ held' = [held EXCEPT !.done = TRUE]
          /\ UNCHANGED <<diskVars, gcVars, ghosts>>
    /\ UNCHANGED <<fatal, marked, views>>

Retry ==
    /\ held # None /\ held.done
    /\ \/ held.freed /\ mutate(held.op, held.attempt + 1)
       \/ ~held.freed /\ reservationFailure(held.op)
    /\ UNCHANGED <<gcVars, marked, views>>

-----------------------------------------------------------------------------
(* Readers, failures and restarts. *)

(* openView of a checkpoint, under the metadata lock. *)
OpenView(v, c) ==
    /\ views[v] = 0 /\ ~retired /\ ~unlinked
    /\ cps[c].visible /\ cps[c].retained
    /\ views' = [views EXCEPT ![v] = c]
    /\ UNCHANGED <<diskVars, fatal, gcVars, marked, held, ghosts>>

CloseView(v) ==
    /\ views[v] # 0
    /\ views' = [views EXCEPT ![v] = 0]
    /\ UNCHANGED <<diskVars, fatal, gcVars, marked, held, ghosts>>

(* An I/O error: the transaction in hand is lost, or its outcome is left to *)
(* the replay of the next open.                                             *)
Fail ==
    /\ ~fatal /\ ~unlinked
    /\ fatal' = TRUE
    /\ Forget
    /\ UNCHANGED <<diskVars, views, ghosts>>

(* Close or the death of the owner, and openStore: only the file remains.   *)
Reopen ==
    /\ ~unlinked
    /\ fatal' = FALSE
    /\ Forget
    /\ UNCHANGED <<diskVars, views, ghosts>>

Init ==
    /\ kind = [s \in Slots |-> "free"]
    /\ birth = [s \in Slots |-> 0]
    /\ page = [s \in Slots |-> None]
    /\ root = None /\ present = {} /\ epoch = 1
    /\ current = 0 /\ protected = 0 /\ garbage = {} /\ retired = FALSE
    /\ cps = <<>> /\ unlinked = FALSE
    /\ fatal = FALSE /\ scan = NoScan /\ turn = FALSE /\ blocked = FALSE
    /\ marked = FALSE /\ held = None
    /\ views = [v \in Views |-> 0]
    /\ active = [b \in Blocks |-> "base"]
    /\ frozen = <<>> /\ modified = 0

(* A running owner and its readers. *)
Run ==
    \/ MarkModified
    \/ \E o \in WriteOps \cup DiscardOps : Modify(o)
    \/ Checkpoint
    \/ \E ids \in SUBSET Checkpoints : DeleteCheckpoints(ids)
    \/ Retire
    \/ GC
    \/ Assist
    \/ Retry
    \/ \E v \in Views : CloseView(v) \/ \E c \in Checkpoints : OpenView(v, c)

Next == Run \/ Fail \/ Reopen

Spec == Init /\ [][Next]_vars

-----------------------------------------------------------------------------
(* Properties. *)

(* The state variables keep their types. *)
TypeOK ==
    /\ kind \in [Slots -> Kinds]
    /\ birth \in [Slots -> 0 .. MaxCheckpoints + 1]
    /\ root \in Slots \cup {None}
    /\ present \subseteq Blocks
    /\ epoch = Len(cps) + 1
    /\ current \in 0 .. Len(cps) /\ protected \in 0 .. Len(cps)
    /\ garbage \subseteq Slots
    /\ \A c \in Checkpoints :
          /\ cps[c].epoch = c
          /\ cps[c].garbage \subseteq Slots
          /\ cps[c].root \in Slots \cup {None}
          /\ cps[c].bitmap \in Slots \cup {None}
    /\ scan.cursor \in 0 .. Len(cps)
    /\ views \in [Views -> 0 .. Len(cps)]
    /\ Len(frozen) = Len(cps)

(* A version that somebody can still read has exactly the contents it was   *)
(* given: the active one what the last calls wrote, a visible checkpoint    *)
(* and one a reader pins what was active when it was taken.  Neither a      *)
(* later overwrite in place, nor the retirement of a shared slot, nor the   *)
(* reuse of a slot by the collector may show (private, retire, gcVersions). *)
VersionsIntact ==
    /\ ReadAt(root, present) = active
    /\ \A c \in Checkpoints :
          cps[c].visible \/ Pinned(c) =>
              /\ cps[c].bitmap # None
              /\ ReadAt(cps[c].root, page[cps[c].bitmap].bits) = frozen[c]

(* Control.Current, which lets a restore reuse the disk without copying it, *)
(* names a checkpoint only while the active version still equals it.        *)
CurrentIsExact == current # 0 => active = frozen[current]

(* An ordinary write or checkpoint fails for want of space only when the    *)
(* collector has nothing left to release: no garbage, and every deletion    *)
(* left over waits for a reader (BlockedByReaders is honest).  The bounded  *)
(* rounds of assistance are the one exception.                              *)
ExhaustionIsReal ==
    [][held # None /\ fatal' /\ ~fatal /\ Retry =>
          \/ held.rounds = MaxRounds
          \/ garbage = {} /\ \A c \in Checkpoints : cps[c].pending => cps[c].retained]_vars
=============================================================================

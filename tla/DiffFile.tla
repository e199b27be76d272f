------------------------------- MODULE DiffFile ------------------------------
(***************************************************************************)
(* diffFile, the single-layer v3 storage of a writable disk                *)
(* (pkg/diffstore/diff_file.go, diff_direct.go, single_format.go,          *)
(* single_presence.go, internal/presence): a sparse body, presence pages   *)
(* in front of it, and their copies in memory.  A block is Hole, Zero or   *)
(* Data by its presence bit and by whether its payload is allocated.  The  *)
(* writeback worker of the cache writes batches, a frontend discards, I/O  *)
(* fails, the process dies and the file is opened again.                   *)
(*                                                                         *)
(* Encryption, alignment and the encoding of a presence page are left out: *)
(* a page is the set of its bits.  Blocks are written whole.               *)
(***************************************************************************)
EXTENDS Naturals, FiniteSets

CONSTANTS
    Blocks,      \* block numbers
    pageOf(_),   \* the presence page of a block
    Values,      \* payloads, none of them "hole" or "zero"
    MaxWrites, MaxDiscards, MaxFaults, MaxCrashes

VARIABLES
    data,      \* payload of each block in the file; "none" is a file hole
    pres,      \* presence bits in the file
    bitmap, payload,   \* their copies in memory
    open,      \* the file is open
    fatal,     \* the cache has published a failure: no new operation
    lock,      \* the owner of direct.writeMu
    batch,     \* the worker: [pc, blocks, value, fresh, todo]
    disc,      \* the frontend's discard: [pc, blocks, todo]
    old,       \* history: what each block is, as far as its user knows
    may,       \* history: what else it may be after a failure
    left       \* [writes, discards, faults, crashes] left

ops == <<batch, disc>>
file == <<data, pres>>
mem == <<bitmap, payload, open, fatal>>
vars == <<file, mem, lock, ops, old, may, left>>

kind(p, d, b) == IF ~p THEN "hole" ELSE IF ~d THEN "zero" ELSE data[b]

(* classify and decodePayload: what an open file says. *)
classify(b) == kind(b \in bitmap, b \in payload, b)

(* The bits of the presence pages, and the blocks of the allocated extents. *)
readSingleBitmap == pres
scanPayload == {b \in Blocks : data[b] # "none"}

(* What opening the file would say. *)
stored(b) == kind(b \in readSingleBitmap, b \in scanPayload, b)

pagesOf(bs) == {pageOf(b) : b \in bs}
fault == left.faults > 0 /\ left' = [left EXCEPT !.faults = @ - 1]

-----------------------------------------------------------------------------
(* openExistingDiffFile: readSingleHeader with readSingleBitmap, and       *)
(* scanPayload over the allocated extents.                                 *)
openExistingDiffFile ==
    /\ ~open
    /\ open' = TRUE /\ fatal' = FALSE
    /\ bitmap' = readSingleBitmap /\ payload' = scanPayload
    /\ old' = [b \in Blocks |-> stored(b)]
    /\ may' = [b \in Blocks |-> {stored(b)}]
    /\ UNCHANGED <<file, lock, ops, left>>

(* Mutant: a block counts as new by its presence bit alone. *)
freshByPresence(bs) == bs \ bitmap

(* prepareWrites: a block is new when it has no payload, whatever its bit. *)
prepareWrites(bs) == {b \in bs : b \notin bitmap \/ b \notin payload}

(* writePages: a batch of whole blocks, under the write lock. *)
writePages ==
    /\ open /\ ~fatal /\ batch.pc = "idle" /\ lock = "none" /\ left.writes > 0
    /\ \E bs \in SUBSET Blocks \ {{}}, v \in Values :
          /\ bs \cap disc.blocks = {}
          /\ batch' = [pc |-> "body", blocks |-> bs, value |-> v, fresh |-> prepareWrites(bs),
                       todo |-> bs]
          /\ may' = [b \in Blocks |-> IF b \in bs THEN may[b] \cup {v} ELSE may[b]]
    /\ lock' = "worker" /\ left' = [left EXCEPT !.writes = @ - 1]
    /\ UNCHANGED <<file, mem, disc, old>>

(* One write of a contiguous run, which may be all the batch has. *)
writeBody ==
    /\ batch.pc = "body" /\ lock = "worker" /\ batch.todo # {}
    /\ \E bs \in SUBSET batch.todo \ {{}} :
          /\ data' = [b \in Blocks |-> IF b \in bs THEN batch.value ELSE data[b]]
          /\ batch' = [batch EXCEPT !.todo = @ \ bs]
    /\ UNCHANGED <<pres, mem, lock, disc, old, may, left>>

startPublish ==
    /\ batch.pc = "body" /\ lock = "worker" /\ batch.todo = {}
    /\ batch' = [batch EXCEPT !.pc = "publish", !.todo = pagesOf(batch.blocks \ bitmap)]
    /\ UNCHANGED <<file, mem, lock, disc, old, may, left>>

(* publishPresence writes one page: the bits in memory and the new ones.   *)
pageWritten(page, new) ==
    {b \in Blocks : IF pageOf(b) = page THEN b \in bitmap \cup new ELSE b \in pres}

publishPresence ==
    /\ batch.pc = "publish" /\ lock = "worker" /\ batch.todo # {}
    /\ \E page \in batch.todo :
          /\ \A q \in batch.todo : page <= q
          /\ pres' = pageWritten(page, batch.blocks)
          /\ batch' = [batch EXCEPT !.todo = @ \ {page}]
    /\ UNCHANGED <<data, mem, lock, disc, old, may, left>>

idleBatch == [pc |-> "idle", blocks |-> {}, value |-> "none", fresh |-> {}, todo |-> {}]
idleDisc == [pc |-> "idle", blocks |-> {}, todo |-> {}]

(* finishWrites, after which the batch is what it wrote. *)
finishWrites ==
    /\ batch.pc = "publish" /\ lock = "worker" /\ batch.todo = {}
    /\ bitmap' = bitmap \cup batch.blocks /\ payload' = payload \cup batch.blocks
    /\ old' = [b \in Blocks |-> IF b \in batch.blocks THEN batch.value ELSE old[b]]
    /\ may' = [b \in Blocks |-> IF b \in batch.blocks THEN {batch.value} ELSE may[b]]
    /\ lock' = "none" /\ batch' = idleBatch
    /\ UNCHANGED <<file, open, fatal, disc, left>>

(* A write fails: the lock is released, the cache publishes the failure    *)
(* and then has the batch cleaned up, under the lock again.                *)
writeFails ==
    /\ batch.pc \in {"body", "publish"} /\ lock = "worker" /\ batch.todo # {} /\ fault
    /\ lock' = "none" /\ fatal' = TRUE
    /\ batch' = [batch EXCEPT !.pc = "cleanup"]
    /\ UNCHANGED <<file, bitmap, payload, open, disc, old, may>>

(* cleanupWritesLocked: new payloads are punched out, then their pages are *)
(* written from memory.  Until that is done, a block whose bit had been    *)
(* published is a Zero in the file.                                        *)
cleanupPunches ==
    /\ batch.pc = "cleanup" /\ lock = "none"
    /\ data' = [b \in Blocks |-> IF b \in batch.fresh THEN "none" ELSE data[b]]
    /\ batch' = [batch EXCEPT !.pc = "restore", !.todo = pagesOf(batch.fresh)]
    /\ lock' = "worker"
    /\ may' = [b \in Blocks |-> IF b \in batch.fresh THEN may[b] \cup {"zero"} ELSE may[b]]
    /\ UNCHANGED <<pres, mem, disc, old, left>>

cleanupRestores ==
    /\ batch.pc = "restore" /\ lock = "worker" /\ batch.todo # {}
    /\ \E page \in batch.todo :
          /\ \A q \in batch.todo : page <= q
          /\ pres' = pageWritten(page, {})
          /\ batch' = [batch EXCEPT !.todo = @ \ {page}]
    /\ UNCHANGED <<data, mem, lock, disc, old, may, left>>

cleanupEnds ==
    /\ batch.pc = "restore" /\ lock = "worker"
    /\ \/ /\ batch.todo = {}
          /\ may' = [b \in Blocks |-> IF b \in batch.blocks /\ old[b] \in {"hole", "zero"}
                                      THEN {old[b]} ELSE may[b]]
          /\ UNCHANGED left
       \/ batch.todo # {} /\ fault /\ UNCHANGED may
    /\ lock' = "none" /\ batch' = idleBatch
    /\ UNCHANGED <<file, mem, disc, old>>

-----------------------------------------------------------------------------
(* discard: a frontend holds the blocks, and the cache has frozen them.    *)
discardBegins ==
    /\ open /\ ~fatal /\ disc.pc = "idle" /\ left.discards > 0
    /\ \E bs \in SUBSET Blocks \ {{}} :
          /\ bs \cap batch.blocks = {}
          /\ disc' = [pc |-> "punch", blocks |-> bs, todo |-> {}]
          /\ may' = [b \in Blocks |-> IF b \in bs THEN may[b] \cup {"zero"} ELSE may[b]]
    /\ left' = [left EXCEPT !.discards = @ - 1]
    /\ UNCHANGED <<file, mem, lock, batch, old>>

discardPunches ==
    /\ disc.pc = "punch" /\ lock = "none"
    /\ lock' = "discard"
    /\ data' = [b \in Blocks |-> IF b \in disc.blocks THEN "none" ELSE data[b]]
    /\ disc' = [disc EXCEPT !.pc = "publish", !.todo = pagesOf(disc.blocks \ bitmap)]
    /\ UNCHANGED <<pres, mem, batch, old, may, left>>

discardPublishes ==
    /\ disc.pc = "publish" /\ disc.todo # {}
    /\ \E page \in disc.todo :
          /\ \A q \in disc.todo : page <= q
          /\ pres' = pageWritten(page, disc.blocks)
          /\ disc' = [disc EXCEPT !.todo = @ \ {page}]
    /\ UNCHANGED <<data, mem, lock, batch, old, may, left>>

discardEnds ==
    /\ disc.pc = "publish" /\ disc.todo = {}
    /\ bitmap' = bitmap \cup disc.blocks /\ payload' = payload \ disc.blocks
    /\ old' = [b \in Blocks |-> IF b \in disc.blocks THEN "zero" ELSE old[b]]
    /\ may' = [b \in Blocks |-> IF b \in disc.blocks THEN {"zero"} ELSE may[b]]
    /\ lock' = "none" /\ disc' = idleDisc
    /\ UNCHANGED <<file, open, fatal, batch, left>>

(* The failure is sticky. *)
discardFails ==
    /\ disc.pc = "publish" /\ disc.todo # {} /\ fault
    /\ fatal' = TRUE /\ lock' = "none" /\ disc' = idleDisc
    /\ UNCHANGED <<file, bitmap, payload, open, batch, old, may>>

-----------------------------------------------------------------------------
(* Close, which joins every operation. *)
Close ==
    /\ open /\ batch.pc = "idle" /\ disc.pc = "idle"
    /\ open' = FALSE
    /\ UNCHANGED <<file, bitmap, payload, fatal, lock, ops, old, may, left>>

(* The process dies; the file keeps what the kernel has taken. *)
Crash ==
    /\ open /\ left.crashes > 0
    /\ open' = FALSE /\ lock' = "none" /\ left' = [left EXCEPT !.crashes = @ - 1]
    /\ batch' = idleBatch /\ disc' = idleDisc
    /\ UNCHANGED <<file, bitmap, payload, fatal, old, may>>

(* createDiffFile: an empty body and presence pages without a bit. *)
Init ==
    /\ data = [b \in Blocks |-> "none"] /\ pres = {}
    /\ bitmap = {} /\ payload = {} /\ open = TRUE /\ fatal = FALSE
    /\ lock = "none" /\ batch = idleBatch /\ disc = idleDisc
    /\ old = [b \in Blocks |-> "hole"] /\ may = [b \in Blocks |-> {"hole"}]
    /\ left = [writes |-> MaxWrites, discards |-> MaxDiscards, faults |-> MaxFaults,
               crashes |-> MaxCrashes]

Next ==
    \/ openExistingDiffFile \/ writePages \/ writeBody \/ startPublish \/ publishPresence
    \/ finishWrites \/ writeFails \/ cleanupPunches \/ cleanupRestores \/ cleanupEnds
    \/ discardBegins \/ discardPunches \/ discardPublishes \/ discardEnds \/ discardFails
    \/ Close \/ Crash

Spec == Init /\ [][Next]_vars

-----------------------------------------------------------------------------
(* What a user of the disk reads is what was last written or discarded,    *)
(* and what is found after the process died at any point is that, or what  *)
(* the interrupted operation was writing.  A failed batch that was cleaned *)
(* up leaves a block that had no payload exactly as it was, a Zero page as *)
(* a Zero page (the Fresh of prepareWrites, and the pages cleanupWrites    *)
(* restores).                                                              *)
PagesExact ==
    /\ open /\ ~fatal =>
          \A b \in Blocks \ (batch.blocks \cup disc.blocks) : classify(b) = old[b]
    /\ \A b \in Blocks : stored(b) \in may[b]
==============================================================================

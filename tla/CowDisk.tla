------------------------------- MODULE CowDisk -------------------------------
(***************************************************************************)
(* pkg/diffstore/cow_cache.go, blk_cow.go and checkpoint_diff.go: the      *)
(* copy-on-write disks of one sandbox over their shared write-back cache.  *)
(* Guest requests, the writeback worker, the template materializer of a    *)
(* fresh disk, and Checkpoint and Close run concurrently.  The steps are   *)
(* the sections the code runs under Cache.mu and the I/O between them.     *)
(*                                                                         *)
(* A page is the pair of its halves: a partial write replaces the first    *)
(* and must keep the second, whichever layer holds it.  Requests are of    *)
(* one block, so that a stripe is a block.                                 *)
(***************************************************************************)
EXTENDS Naturals, Sequences, FiniteSets

CONSTANTS
    Disks, Blocks,  \* every disk has these blocks
    Threads,        \* guest request workers
    Versioned,      \* disks on the checkpoint format
    Fresh,          \* disks whose backend is initialized asynchronously
    Template,       \* keys their provisioning template covers
    Blank,          \* the ones of Template it covers with a zero run
    Disposable,     \* disks with discardOnClose
    Capacity, MaxDirty, \* cacheSize and maxDirtySize, in pages
    BatchLimit,     \* maxWritebackPages
    Ops,            \* the requests made: "read", "write", "discard"
    Extents,        \* what a write covers: "write" the block, "patch" a part of it
    MaxOps,         \* requests in a run, 0 for no bound
    None

Keys == Disks \X Blocks

ASSUME CowDiskAssumption ==
    /\ Versioned \subseteq Disks /\ Fresh \subseteq Disks
    /\ Template \subseteq Fresh \X Blocks /\ Blank \subseteq Template /\ Disposable \subseteq Disks
    /\ Capacity \in Nat /\ MaxDirty \in 1..Capacity
    /\ BatchLimit \in Nat \ {0} /\ MaxOps \in Nat
    /\ Ops \subseteq {"read", "write", "discard"} /\ Extents \subseteq {"write", "patch"}
    /\ None \notin Disks

VARIABLES
    page,     \* Cache.pages
    dirty,    \* Cache.dirty, a queue of keys
    err,      \* Cache.err is set
    closed,   \* Cache.closed
    clients,  \* the keys of Cache.clients
    kick,     \* the token of Cache.kick
    urgent,
    active,   \* Cache.active
    worker,   \* the worker goroutine: [pc, batch, cohort, aggregated]
    upper,    \* the presence bitmaps
    backend,  \* what the diff files hold
    payload,  \* blocks with a settled payload in a single-layer diff
    init,     \* versioned.Initialized of each disk: "pending", "ok", "failed"
    template, \* "open", "detached" (materialTemplate is nil) or "closed"
    mat,      \* the materializer: [pc, todo]
    th,       \* the request workers: [pc, op, key, data]
    mgr,      \* the owner of a disk, in Checkpoint or Close
    closing,  \* disks whose lifeCtx is cancelled
    logical,  \* history: what the guest was told is in each block
    ops       \* requests begun, when they are bounded

cacheVars == <<page, dirty, err, closed, clients, kick, urgent, active>>
diff == <<backend, payload>>
vars == <<cacheVars, worker, upper, diff, init, template, mat, th, mgr, closing,
          logical, ops>>

Base == <<"base", "base">>
Zero == <<"zero", "zero">>
Full == <<"new", "new">>
Patch(c) == <<"new", c[2]>>
Provisioned == <<"template", "template">>

(* readLower: the template while it is open, then the base. *)
Lower(k) == CASE k \in Blank -> Zero [] k \in Template \ Blank -> Provisioned [] OTHER -> Base

NoPage == [st |-> "none", data |-> Zero, zero |-> FALSE, charged |-> FALSE]
Cached == {k \in Keys : page[k].st # "none"}
Clean == {k \in Keys : page[k].st = "clean"}
dirtyUsed == Cardinality({k \in Keys : page[k].charged})
charges(d) == Cardinality({k \in Keys : page[k].charged /\ k[1] = d})

Without(q, K) == SelectSeq(q, LAMBDA k : k \notin K)

(* reserveLocked: the page to evict, None when there is room; no answer    *)
(* when every page is in use.                                              *)
reserveLocked == IF Cardinality(Cached) < Capacity THEN {None} ELSE Clean
Reserved(e, k, p) == [x \in Keys |-> IF x = k THEN p ELSE IF x = e THEN NoPage ELSE page[x]]

(* checkLocked, with the lifetime context of a disk. *)
Unhealthy(d) == err \/ closed \/ d \in closing

(* signalLocked wakes everyone who waits for a change of the cache. *)
Awake(pc) == CASE pc = "wait" -> "enter" [] pc = "rwait" -> "locked" [] pc = "dwait" -> "discard"
               [] pc = "drainwait" -> "drain" [] pc = "detachwait" -> "detach" [] OTHER -> pc
wokenTh == [t \in Threads |-> [th[t] EXCEPT !.pc = Awake(@)]]
wokenMgr == [d \in Disks |-> Awake(mgr[d])]
wokenMat == [d \in Disks |-> [mat[d] EXCEPT !.pc = Awake(@)]]
signalLocked == mgr' = wokenMgr /\ mat' = wokenMat
noSignal == UNCHANGED <<mgr, mat>>

kickLocked(now) == kick' = TRUE /\ urgent' = (urgent \/ now)
noKick == UNCHANGED <<kick, urgent>>

(* failLocked *)
failLocked == err' = TRUE /\ kickLocked(TRUE)

-----------------------------------------------------------------------------
(* Requests.  A thread that has a request holds opMu for reading; from     *)
(* "locked" on it holds the stripe of its block.                           *)

NoReq == [pc |-> "idle", op |-> "read", key |-> None, data |-> Zero]
Unlocked == {"idle", "enter", "wait"}
Readers(k) == {t \in Threads : th[t].pc \notin Unlocked /\ th[t].key = k /\ th[t].op = "read"}
Writers(k) == {t \in Threads : th[t].pc \notin Unlocked /\ th[t].key = k /\ th[t].op # "read"}
MatHolds(k) == mat[k[1]].pc = "write" /\ mat[k[1]].key = k
inFlight(d) == {t \in Threads : th[t].pc # "idle" /\ th[t].key[1] = d}

(* Checkpoint and Close hold opMu, or wait for it, and admit no request. *)
Barred(d) == mgr[d] \notin {"run", "ready"}

at(t, pc) == th[t].pc = pc
goto(t, pc) == th' = [th EXCEPT ![t].pc = pc]
wokenGoto(t, r) == th' = [wokenTh EXCEPT ![t] = r]
finish(t) == th' = [th EXCEPT ![t] = NoReq]
answer(t, d) == [th[t] EXCEPT !.pc = "answered", !.data = d]

diskVars == <<upper, diff, init, template, closing, ops>>
restVars == <<worker, clients, closed, active>>

(* begin, and the wait of Discard for an initialized backend. *)
Start(t) ==
    /\ at(t, "idle")
    /\ MaxOps # 0 => ops < MaxOps
    /\ \E k \in Keys, op \in Ops :
          /\ ~Barred(k[1]) /\ ~Unhealthy(k[1]) /\ k[1] \in clients
          /\ op = "discard" => init[k[1]] = "ok"
          /\ th' = [th EXCEPT ![t] = [pc |-> "enter", op |-> op, key |-> k, data |-> Zero]]
    /\ ops' = IF MaxOps = 0 THEN 0 ELSE ops + 1
    /\ UNCHANGED <<cacheVars, worker, upper, diff, init, template, mat, mgr, closing, logical>>

(* blockLock: a request enters with its stripe, or goes on with it. *)
Entered(t) ==
    LET k == th[t].key IN
    \/ at(t, "locked")
    \/ /\ at(t, "enter")
       /\ Writers(k) = {} /\ ~MatHolds(k)
       /\ th[t].op # "read" => Readers(k) = {}

(* The context of a waiting request ends: its own, or the disk's. *)
Cancel(t) ==
    /\ th[t].pc \in {"wait", "rwait", "dwait"}
    /\ finish(t)
    /\ UNCHANGED <<cacheVars, worker, upper, diff, init, template, mat, mgr, closing, logical, ops>>

(* A check of the cache's health fails, and the request with it. *)
Refused(t) ==
    /\ Entered(t) \/ at(t, "discard")
    /\ th[t].op = "read" => th[t].key \in upper
    /\ Unhealthy(th[t].key[1])
    /\ finish(t)
    /\ UNCHANGED <<cacheVars, worker, upper, diff, init, template, mat, mgr, closing, logical, ops>>

(* Cache.read, of a block the upper layer has. *)
CacheRead(t) ==
    LET k == th[t].key IN
    /\ Entered(t) /\ th[t].op = "read" /\ k \in upper /\ ~Unhealthy(k[1])
    /\ \/ /\ page[k].st \in {"clean", "dirty", "writeback"}
          /\ th' = [th EXCEPT ![t] = answer(t, page[k].data)]
          /\ UNCHANGED page
       \/ /\ page[k].st \in {"loading", "constructing", "discarding"}
          /\ goto(t, "rwait")
          /\ UNCHANGED page
       \/ /\ page[k].st = "none"
          /\ \E e \in reserveLocked : page' = Reserved(e, k, [NoPage EXCEPT !.st = "loading"])
          /\ goto(t, "load")
       \/ /\ page[k].st = "none" /\ reserveLocked = {}
          /\ goto(t, "bypass")
          /\ UNCHANGED page
    /\ UNCHANGED <<dirty, err, kick, urgent, restVars, diskVars, mat, mgr, logical>>

(* The read from the diff file into the loading page. *)
Load(t) ==
    LET k == th[t].key IN
    /\ at(t, "load")
    /\ \/ /\ ~Unhealthy(k[1])
          /\ page' = [page EXCEPT ![k].st = "clean", ![k].data = backend[k]]
          /\ wokenGoto(t, answer(t, backend[k]))
          /\ UNCHANGED err /\ noKick
       \/ /\ page' = [page EXCEPT ![k] = NoPage]
          /\ wokenGoto(t, NoReq)
          /\ IF Unhealthy(k[1]) \/ k[1] \notin Versioned THEN UNCHANGED err /\ noKick ELSE failLocked
    /\ signalLocked
    /\ UNCHANGED <<dirty, restVars, diskVars, logical>>

(* Every page of the cache is busy: the read goes round it. *)
Bypass(t) ==
    /\ at(t, "bypass")
    /\ th' = [th EXCEPT ![t] = answer(t, backend[th[t].key])]
    /\ UNCHANGED <<cacheVars, worker, upper, diff, init, template, mat, mgr, closing, logical, ops>>

(* The lower layers: readRangeLocked looks whether a template is there,    *)
(* readLower looks again and borrows it.                                   *)
ReadLower(t) ==
    LET k == th[t].key IN
    /\ \/ /\ Entered(t) /\ th[t].op = "read" /\ k \notin upper
          /\ th' = [th EXCEPT ![t] = IF template[k[1]] = "open" THEN [@ EXCEPT !.pc = "lower"]
                                     ELSE answer(t, Base)]
       \/ /\ at(t, "lower")
          /\ th' = [th EXCEPT ![t] = IF template[k[1]] = "open" THEN [@ EXCEPT !.pc = "borrowed"]
                                     ELSE answer(t, Base)]
       \/ /\ at(t, "borrowed")
          /\ th' = [th EXCEPT ![t] = answer(t, Lower(k))]
    /\ UNCHANGED <<cacheVars, worker, upper, diff, init, template, mat, mgr, closing, logical, ops>>

Answered(t) ==
    /\ at(t, "answered")
    /\ finish(t)
    /\ UNCHANGED <<cacheVars, worker, upper, diff, init, template, mat, mgr, closing, logical, ops>>

(* retryLocked: the request gives up its stripe and waits for a change. *)
Retry(t) ==
    /\ goto(t, "wait")
    /\ kickLocked(TRUE)
    /\ UNCHANGED <<page, dirty, logical>>

(* The guest is told that block k holds c now. *)
Accept(t, k, c) ==
    /\ logical' = [logical EXCEPT ![k] = c]
    /\ wokenGoto(t, NoReq)

NewContent(op, old) == IF op = "write" THEN Full ELSE Patch(old)

(* Cache.write.  A write covers its block or only a part of it. *)
Write(t) ==
    LET k == th[t].key
        st == page[k].st IN
    /\ Entered(t) /\ th[t].op = "write" /\ ~Unhealthy(k[1])
    /\ \/ /\ \/ st \notin {"none", "clean", "dirty"}
             \/ st \in {"none", "clean"} /\ dirtyUsed = MaxDirty
             \/ st = "none" /\ reserveLocked = {}
          /\ Retry(t)
       \/ /\ st = "dirty" \/ (st = "clean" /\ dirtyUsed < MaxDirty)
          /\ \E op \in Extents :
                /\ page' = [page EXCEPT ![k] = [@ EXCEPT !.st = "dirty", !.data = NewContent(op, @),
                                                         !.zero = FALSE, !.charged = TRUE]]
                /\ logical' = [logical EXCEPT ![k] = NewContent(op, @)]
          /\ finish(t)
          /\ IF st = "clean" THEN dirty' = Append(dirty, k) /\ kickLocked(FALSE)
                             ELSE UNCHANGED dirty /\ noKick
       \/ /\ st = "none" /\ dirtyUsed < MaxDirty
          /\ \E e \in reserveLocked :
                page' = Reserved(e, k, [NoPage EXCEPT !.st = "constructing", !.charged = TRUE])
          /\ \E op \in Extents :
                th' = [th EXCEPT ![t].op = op, ![t].pc = IF op = "write" THEN "publish" ELSE "fill"]
          /\ UNCHANGED <<dirty, logical>> /\ noKick
    /\ UNCHANGED <<err, restVars, diskVars, mat, mgr>>

(* Mutation: a partial write always starts from the lower layer. *)
FillFromLower(t) ==
    LET k == th[t].key IN
    /\ \/ /\ FALSE
          /\ th' = [th EXCEPT ![t].pc = "publish", ![t].data = backend[k]]
       \/ /\ at(t, "fill") /\ template[k[1]] # "open"
          /\ th' = [th EXCEPT ![t].pc = "publish", ![t].data = Base]
       \/ /\ at(t, "fill") /\ template[k[1]] = "open"
          /\ goto(t, "fillBorrowed")
       \/ /\ at(t, "fillBorrowed")
          /\ th' = [th EXCEPT ![t].pc = "publish", ![t].data = Lower(k)]
    /\ UNCHANGED <<cacheVars, worker, upper, diff, init, template, mat, mgr, closing, logical, ops>>

(* init of writeBlockLocked: the old content a partial write keeps. *)
Fill(t) ==
    LET k == th[t].key IN
    /\ \/ /\ at(t, "fill") /\ k \in upper
          /\ th' = [th EXCEPT ![t].pc = "publish", ![t].data = backend[k]]
       \/ /\ at(t, "fill") /\ k \notin upper /\ template[k[1]] # "open"
          /\ th' = [th EXCEPT ![t].pc = "publish", ![t].data = Base]
       \/ /\ at(t, "fill") /\ k \notin upper /\ template[k[1]] = "open"
          /\ goto(t, "fillBorrowed")
       \/ /\ at(t, "fillBorrowed")
          /\ th' = [th EXCEPT ![t].pc = "publish", ![t].data = Lower(k)]
    /\ UNCHANGED <<cacheVars, worker, upper, diff, init, template, mat, mgr, closing, logical, ops>>

(* The page becomes readable and dirty, and the block present; or the      *)
(* reservation is given back.                                              *)
Publish(t) ==
    LET k == th[t].key IN
    /\ at(t, "publish")
    /\ \/ /\ ~Unhealthy(k[1])
          /\ page' = [page EXCEPT ![k].st = "dirty", ![k].data = NewContent(th[t].op, th[t].data)]
          /\ Accept(t, k, NewContent(th[t].op, logical[k]))
          /\ dirty' = Append(dirty, k)
          /\ upper' = upper \cup {k}
          /\ kickLocked(FALSE)
          /\ UNCHANGED err
       \/ /\ page' = [page EXCEPT ![k] = NoPage]
          /\ wokenGoto(t, NoReq)
          /\ Unhealthy(k[1]) \/ th[t].op = "patch"
          /\ IF ~Unhealthy(k[1]) /\ k \in upper /\ k[1] \in Versioned
             THEN failLocked ELSE UNCHANGED err /\ noKick
          /\ UNCHANGED <<dirty, upper, logical>>
    /\ signalLocked
    /\ UNCHANGED <<restVars, diff, init, template, closing, ops>>

(* Cache.stageZero; under pressure with no Zero of this disk pending, the  *)
(* synchronous path.                                                       *)
StageZero(t) ==
    LET k == th[t].key
        st == page[k].st
        full == dirtyUsed = MaxDirty \/ (st = "none" /\ reserveLocked = {})
        pendingZero == \E q \in Keys : q[1] = k[1] /\ page[q].charged /\ page[q].zero
        p == [NoPage EXCEPT !.st = "dirty", !.zero = TRUE, !.charged = TRUE] IN
    /\ Entered(t) /\ th[t].op = "discard" /\ k[1] \in Versioned /\ ~Unhealthy(k[1])
    /\ \/ /\ \/ st \notin {"none", "clean", "dirty"}
             \/ st \in {"none", "clean"} /\ full /\ pendingZero
          /\ Retry(t)
          /\ noSignal /\ UNCHANGED upper
       \/ /\ st \in {"none", "clean"} /\ full /\ ~pendingZero
          /\ goto(t, "discard")
          /\ UNCHANGED <<page, dirty, upper, logical>> /\ noSignal /\ noKick
       \/ /\ st = "dirty" \/ ~full
          /\ st \in {"none", "clean", "dirty"}
          /\ \E e \in IF st = "none" THEN reserveLocked ELSE {None} : page' = Reserved(e, k, p)
          /\ dirty' = IF st = "dirty" THEN dirty ELSE Append(dirty, k)
          /\ upper' = upper \cup {k}
          /\ Accept(t, k, Zero)
          /\ signalLocked /\ kickLocked(FALSE)
    /\ UNCHANGED <<err, restVars, diff, init, template, closing, ops>>

(* Disk.Discard: a versioned disk stages zeros, and discards a block only   *)
(* when it cannot; any other disk discards at once.                         *)
Discards(t) ==
    \/ at(t, "discard")
    \/ Entered(t) /\ th[t].op = "discard" /\ th[t].key[1] \notin Versioned

(* Cache.discard of one block: freeze the page, if there is one. *)
DiscardFreeze(t) ==
    LET k == th[t].key IN
    /\ Discards(t)
    /\ ~Unhealthy(k[1])
    /\ IF page[k].st \in {"none", "clean", "dirty"}
       THEN /\ page' = IF page[k].st = "none" THEN page ELSE [page EXCEPT ![k].st = "discarding"]
            /\ dirty' = Without(dirty, {k})
            /\ goto(t, "discarding")
       ELSE /\ goto(t, "dwait")
            /\ UNCHANGED <<page, dirty>>
    /\ UNCHANGED <<err, kick, urgent, restVars, diskVars, mat, mgr, logical>>

(* The discard in the diff, and its completion or sticky failure. *)
DiscardDone(t) ==
    LET k == th[t].key IN
    /\ at(t, "discarding")
    /\ page' = [page EXCEPT ![k] = NoPage]
    /\ \/ /\ backend' = [backend EXCEPT ![k] = Zero]
          /\ payload' = payload \ {k}
          /\ upper' = upper \cup {k}
          /\ Accept(t, k, Zero)
          /\ UNCHANGED err /\ noKick
       \/ /\ failLocked
          /\ wokenGoto(t, NoReq)
          /\ UNCHANGED <<diff, upper, logical>>
    /\ signalLocked
    /\ UNCHANGED <<dirty, restVars, init, template, closing, ops>>

-----------------------------------------------------------------------------
(* The writeback worker, Cache.run. *)

(* backendWritable *)
Eligible(k) == init[k[1]] = "ok"

(* oldestEligibleLocked *)
oldestEligible == {i \in 1..Len(dirty) : Eligible(dirty[i]) /\ \A j \in 1..(i - 1) : ~Eligible(dirty[j])}

workerVars == <<upper, init, template, closing, ops, clients, closed, logical>>

WorkerLoop ==
    /\ worker.pc = "loop"
    /\ worker' =
         IF err \/ closed THEN [worker EXCEPT !.pc = "exit"]
         ELSE IF oldestEligible = {} THEN [worker EXCEPT !.pc = "blocked", !.aggregated = FALSE]
         ELSE [worker EXCEPT !.pc = IF ~worker.aggregated /\ ~urgent THEN "aggregate" ELSE "select",
                             !.aggregated = TRUE]
    /\ UNCHANGED <<page, dirty, err, kick, urgent, active, diff, mat, mgr, th, workerVars>>

WorkerKicked ==
    /\ worker.pc = "blocked" /\ kick
    /\ kick' = FALSE
    /\ worker' = [worker EXCEPT !.pc = "loop"]
    /\ UNCHANGED <<page, dirty, err, urgent, active, diff, mat, mgr, th, workerVars>>

(* aggregate: kicks are taken until it is urgent or the deadline comes. *)
Aggregate ==
    /\ worker.pc = "aggregate"
    /\ kick' \in {kick, FALSE}
    /\ worker' = [worker EXCEPT !.pc = "select"]
    /\ UNCHANGED <<page, dirty, err, urgent, active, diff, mat, mgr, th, workerVars>>

(* The oldest eligible page, and more dirty pages of its disk and kind. *)
Select ==
    /\ worker.pc = "select"
    /\ IF err \/ closed \/ oldestEligible = {}
       THEN /\ worker' = [worker EXCEPT !.pc = IF err \/ closed THEN "exit" ELSE "loop"]
            /\ urgent' = (urgent /\ (err \/ closed))
            /\ UNCHANGED <<page, dirty, active, th>> /\ noSignal
       ELSE \E i \in oldestEligible :
            LET a == dirty[i]
                same == {k \in Keys : /\ page[k].st = "dirty" /\ k[1] = a[1]
                                      /\ page[k].zero = page[a].zero} IN
            \E B \in SUBSET same :
                /\ a \in B
                /\ Cardinality(B) = BatchLimit \/ (B = same /\ Cardinality(B) < BatchLimit)
                /\ page' = [k \in Keys |-> IF k \in B THEN [page[k] EXCEPT !.st = "writeback"] ELSE page[k]]
                /\ dirty' = Without(dirty, B)
                /\ active' = a[1]
                /\ worker' = [worker EXCEPT !.pc = "write", !.batch = B]
                /\ urgent' = FALSE
                /\ th' = wokenTh /\ signalLocked
    /\ UNCHANGED <<err, kick, diff, workerVars>>

(* diff.writePages put the frozen pages K in the file; a single-layer diff *)
(* settles them with finishWrites when all of them are there.              *)
Store(K) == backend' = [k \in Keys |-> IF k \in K THEN page[k].data ELSE backend[k]]
Settle(K) == payload' = payload \cup {k \in K : k[1] \notin Versioned}

zeroBatch == \A k \in worker.batch : page[k].zero

(* Mutation: a batch that was stored in part is taken for done. *)
WritePrefix ==
    /\ worker.pc \in {"write", "rewrite"}
    /\ \/ /\ ~err
          /\ Store(worker.batch) /\ Settle(worker.batch)
          /\ worker' = [worker EXCEPT !.pc = "finish"]
       \/ /\ ~err /\ worker.pc = "write" /\ ~zeroBatch /\ active \in Versioned
          /\ \E K \in SUBSET worker.batch : Store(K)
          /\ UNCHANGED payload
          /\ worker' = [worker EXCEPT !.pc = "finish"]
       \/ /\ \E K \in SUBSET worker.batch : (err => K = {}) /\ Store(K)
          /\ UNCHANGED payload
          /\ worker' = [worker EXCEPT !.pc = "failed"]
    /\ UNCHANGED <<page, dirty, err, kick, urgent, active, mat, mgr, th, workerVars>>

(* writeFrozen; the second attempt, after the repair, is the last one. *)
WriteFrozen ==
    /\ worker.pc \in {"write", "rewrite"}
    /\ \/ /\ ~err
          /\ Store(worker.batch) /\ Settle(worker.batch)
          /\ worker' = [worker EXCEPT !.pc = "finish"]
       \/ /\ ~err /\ worker.pc = "write" /\ ~zeroBatch /\ active \in Versioned
          /\ \E K \in SUBSET worker.batch : Store(K)
          /\ UNCHANGED payload
          /\ worker' = [worker EXCEPT !.pc = "repair"]
       \/ /\ \E K \in SUBSET worker.batch : (err => K = {}) /\ Store(K)
          /\ UNCHANGED payload
          /\ worker' = [worker EXCEPT !.pc = "failed"]
    /\ UNCHANGED <<page, dirty, err, kick, urgent, active, mat, mgr, th, workerVars>>

(* repairSpacePressure: freeze the Zero pages of the disk. *)
Repair ==
    /\ worker.pc = "repair"
    /\ IF err
       THEN /\ worker' = [worker EXCEPT !.pc = "failed"]
            /\ UNCHANGED <<page, dirty, th>> /\ noSignal
       ELSE LET Z == {k \in Keys : page[k].st = "dirty" /\ page[k].zero /\ k[1] = active} IN
            /\ page' = [k \in Keys |-> IF k \in Z THEN [page[k] EXCEPT !.st = "writeback"] ELSE page[k]]
            /\ dirty' = Without(dirty, Z)
            /\ worker' = [worker EXCEPT !.pc = "cohort", !.cohort = Z]
            /\ th' = wokenTh /\ signalLocked
    /\ UNCHANGED <<err, kick, urgent, active, diff, workerVars>>

(* completeWritebackLocked *)
Completed(K) ==
    [k \in Keys |-> CASE k \in K /\ page[k].zero -> NoPage
                      [] k \in K /\ ~page[k].zero -> [page[k] EXCEPT !.st = "clean", !.charged = FALSE]
                      [] OTHER -> page[k]]

Cohort ==
    /\ worker.pc = "cohort"
    /\ \/ /\ worker.cohort = {} \/ ~err
          /\ Store(worker.cohort)
          /\ page' = Completed(worker.cohort)
          /\ worker' = [worker EXCEPT !.pc = "rewrite", !.cohort = {}]
       \/ /\ worker.cohort # {}
          /\ \E K \in SUBSET worker.cohort : (err => K = {}) /\ Store(K)
          /\ worker' = [worker EXCEPT !.pc = "failed", !.cohort = {}]
          /\ UNCHANGED page
    /\ th' = wokenTh /\ signalLocked
    /\ UNCHANGED <<payload, dirty, err, kick, urgent, active, workerVars>>

(* The failure is published before the cleanup, which may block. *)
WriteFailed ==
    /\ worker.pc = "failed"
    /\ failLocked
    /\ worker' = [worker EXCEPT !.pc = "cleanup"]
    /\ th' = wokenTh /\ signalLocked
    /\ UNCHANGED <<page, dirty, active, diff, workerVars>>

(* Mutation: every block of the failed batch is punched. *)
CleanupAll ==
    /\ worker.pc = "cleanup"
    /\ backend' = [k \in Keys |-> IF k \in worker.batch /\ active \notin Versioned
                                  THEN Zero ELSE backend[k]]
    /\ worker' = [worker EXCEPT !.pc = "finish"]
    /\ UNCHANGED <<payload, page, dirty, err, kick, urgent, active, mat, mgr, th, workerVars>>

(* cleanupWriteFailure of a single-layer diff punches the blocks that had  *)
(* no payload when prepareWrites looked, before the batch.                 *)
Cleanup ==
    /\ worker.pc = "cleanup"
    /\ backend' = [k \in Keys |-> IF k \in worker.batch \ payload /\ active \notin Versioned
                                  THEN Zero ELSE backend[k]]
    /\ worker' = [worker EXCEPT !.pc = "finish"]
    /\ UNCHANGED <<payload, page, dirty, err, kick, urgent, active, mat, mgr, th, workerVars>>

(* Mutation: the end of a batch wakes nobody. *)
FinishSilent ==
    /\ worker.pc = "finish"
    /\ page' = IF err THEN page ELSE Completed(worker.batch)
    /\ active' = None
    /\ worker' = [worker EXCEPT !.pc = "loop", !.batch = {}]
    /\ UNCHANGED th /\ noSignal
    /\ UNCHANGED <<dirty, err, kick, urgent, diff, workerVars>>

Finish ==
    /\ worker.pc = "finish"
    /\ page' = IF err THEN page ELSE Completed(worker.batch)
    /\ active' = None
    /\ worker' = [worker EXCEPT !.pc = "loop", !.batch = {}]
    /\ th' = wokenTh /\ signalLocked
    /\ UNCHANGED <<dirty, err, kick, urgent, diff, workerVars>>

-----------------------------------------------------------------------------
(* The materializer of a fresh disk, runMaterializer. *)

Discarded(d) == d \in closing /\ d \in Disposable
Borrowers(d) == {t \in Threads : th[t].pc \in {"borrowed", "fillBorrowed"} /\ th[t].key[1] = d}
step(d, pc) == mat' = [mat EXCEPT ![d].pc = pc]
matRest == <<page, dirty, closed, clients, active, worker, closing, logical, ops>>

(* Initialization of the backend ends. *)
Initialized(d) ==
    /\ init[d] = "pending"
    /\ \E r \in {"ok", "failed"} : init' = [init EXCEPT ![d] = r]
    /\ UNCHANGED <<cacheVars, worker, upper, diff, template, mat, th, mgr, closing, logical, ops>>

(* The worker is told that the disk can be written now. *)
MatInitialized(d) ==
    /\ mat[d].pc = "init" /\ init[d] = "ok"
    /\ mat' = [wokenMat EXCEPT ![d].pc = IF Discarded(d) THEN "discarded" ELSE "scan"]
    /\ mgr' = wokenMgr /\ th' = wokenTh
    /\ kickLocked(TRUE)
    /\ UNCHANGED <<matRest, err, upper, diff, init, template>>

(* materializeRange and materializeZero: the next block, under its stripe. *)
MatLock(d) ==
    /\ mat[d].pc = "scan" /\ ~Discarded(d)
    /\ \E k \in mat[d].todo :
          /\ \A j \in mat[d].todo : j[2] >= k[2]
          /\ Readers(k) = {} /\ Writers(k) = {}
          /\ mat' = [mat EXCEPT ![d] = [@ EXCEPT !.pc = "write", !.key = k, !.todo = @ \ {k}]]
    /\ UNCHANGED <<matRest, err, kick, urgent, upper, diff, init, template, mgr, th>>

MatWrite(d) ==
    /\ mat[d].pc = "write"
    /\ LET k == mat[d].key IN
       \/ /\ backend' = IF k \in upper THEN backend ELSE [backend EXCEPT ![k] = Lower(k)]
          /\ IF k \in upper \cup Blank THEN UNCHANGED payload ELSE Settle({k})
          /\ upper' = upper \cup {k}
          /\ mat' = [mat EXCEPT ![d] = [@ EXCEPT !.pc = "scan", !.key = None]]
       \/ /\ k \notin upper
          /\ mat' = [mat EXCEPT ![d] = [@ EXCEPT !.pc = "failed", !.key = None]]
          /\ UNCHANGED <<diff, upper>>
    /\ UNCHANGED <<matRest, err, kick, urgent, init, template, mgr, th>>

(* Every page of the template is in the upper layer: hide it, wait for who *)
(* still reads it, close it.                                               *)
MatDetach(d) ==
    /\ mat[d].pc = "scan" /\ mat[d].todo = {}
    /\ IF template[d] = "open"
       THEN template' = [template EXCEPT ![d] = "detached"] /\ step(d, "join")
       ELSE UNCHANGED template /\ step(d, "drain")
    /\ UNCHANGED <<matRest, err, kick, urgent, upper, diff, init, mgr, th>>

MatJoin(d) ==
    /\ mat[d].pc = "join" /\ Borrowers(d) = {}
    /\ template' = [template EXCEPT ![d] = "closed"]
    /\ step(d, "drain")
    /\ UNCHANGED <<matRest, err, kick, urgent, upper, diff, init, mgr, th>>

MatDrain(d) ==
    /\ mat[d].pc = "drain"
    /\ IF err THEN step(d, "failed") /\ noKick
       ELSE IF charges(d) = 0 THEN step(d, "publish") /\ noKick
       ELSE step(d, "drainwait") /\ kickLocked(TRUE)
    /\ UNCHANGED <<matRest, err, upper, diff, init, template, mgr, th>>

(* publish: sync, rename and sync of the directory. *)
MatPublish(d) ==
    /\ mat[d].pc = "publish"
    /\ \/ Discarded(d) /\ step(d, "discarded")
       \/ ~Discarded(d) /\ step(d, "done")
       \/ ~Discarded(d) /\ step(d, "failed")
    /\ UNCHANGED <<matRest, err, kick, urgent, upper, diff, init, template, mgr, th>>

(* Close of a disposable disk ends the materialization. *)
MatDiscard(d) ==
    /\ mat[d].pc \in {"scan", "drainwait"} /\ Discarded(d)
    /\ step(d, "discarded")
    /\ UNCHANGED <<matRest, err, kick, urgent, upper, diff, init, template, mgr, th>>

(* The failure and the completion are published together. *)
MatFail(d) ==
    /\ mat[d].pc = "failed" \/ (mat[d].pc = "init" /\ init[d] = "failed")
    /\ mat' = [wokenMat EXCEPT ![d].pc = "done", ![d].ok = FALSE]
    /\ mgr' = wokenMgr /\ th' = wokenTh
    /\ failLocked
    /\ UNCHANGED <<matRest, upper, diff, init, template>>

matReady(d) == mat[d].pc \in {"drain", "drainwait", "publish", "discarded", "done"}
materialized(d) == mat[d].pc \in {"discarded", "done"}

-----------------------------------------------------------------------------
(* The owner of a disk: Checkpoint and Close. *)

own(d, pc) == mgr' = [mgr EXCEPT ![d] = pc]
mgrRest == <<dirty, err, worker, upper, diff, init, mat, th, logical, ops, urgent, kick, active>>
mgrDisk == <<page, clients, closed, closing, template>>

Checkpoint(d) ==
    /\ d \in Versioned /\ mgr[d] = "run" /\ own(d, "ready")
    /\ UNCHANGED <<mgrRest, mgrDisk>>

(* WaitMaterialReady, before new requests are held up. *)
CheckpointReady(d) ==
    /\ mgr[d] = "ready" /\ matReady(d)
    /\ own(d, IF mat[d].ok THEN "lock" ELSE "run")
    /\ UNCHANGED <<mgrRest, mgrDisk>>

(* opMu is held: no request is under way and none starts. *)
CheckpointLocked(d) ==
    /\ mgr[d] = "lock" /\ inFlight(d) = {}
    /\ own(d, IF Unhealthy(d) THEN "run" ELSE "drain")
    /\ UNCHANGED <<mgrRest, mgrDisk>>

(* Mutation: drain looks at the dirty queue only. *)
DrainQueueOnly(d) ==
    /\ mgr[d] = "drain"
    /\ IF err \/ ~\E i \in 1..Len(dirty) : dirty[i][1] = d
       THEN own(d, IF d \in closing THEN "detach" ELSE IF err THEN "run" ELSE "materialized") /\ noKick
       ELSE own(d, "drainwait") /\ kickLocked(TRUE)
    /\ UNCHANGED <<dirty, err, worker, upper, diff, init, mat, th, logical, ops, active, mgrDisk>>

(* Cache.drain, of Checkpoint and of Close. *)
Drain(d) ==
    /\ mgr[d] = "drain"
    /\ IF err \/ charges(d) = 0
       THEN own(d, IF d \in closing THEN "detach" ELSE IF err THEN "run" ELSE "materialized") /\ noKick
       ELSE own(d, "drainwait") /\ kickLocked(TRUE)
    /\ UNCHANGED <<dirty, err, worker, upper, diff, init, mat, th, logical, ops, active, mgrDisk>>

CheckpointMaterialized(d) ==
    /\ mgr[d] = "materialized" /\ materialized(d)
    /\ own(d, IF mat[d].ok THEN "checkpoint" ELSE "run")
    /\ UNCHANGED <<mgrRest, mgrDisk>>

(* Store.Checkpoint, and the end of a call whose context ended. *)
CheckpointEnd(d) ==
    /\ \/ mgr[d] = "checkpoint"
       \/ mgr[d] \in {"ready", "drainwait", "materialized"} /\ d \notin closing
    /\ own(d, "run")
    /\ UNCHANGED <<mgrRest, mgrDisk>>

Close(d) ==
    /\ mgr[d] = "run" /\ d \in clients
    /\ closing' = closing \cup {d}
    /\ own(d, "closeLock")
    /\ UNCHANGED <<mgrRest, page, clients, closed, template>>

CloseJoined(d) ==
    /\ mgr[d] = "closeLock" /\ inFlight(d) = {}
    /\ materialized(d)
    /\ own(d, "drain")
    /\ UNCHANGED <<mgrRest, mgrDisk>>

(* Mutation: detach does not wait for the I/O of the disk. *)
DetachNow(d) ==
    /\ mgr[d] = "detach"
    /\ IF FALSE
       THEN own(d, "detachwait") /\ UNCHANGED <<page, dirty, clients, template, mat, th>>
       ELSE /\ page' = [k \in Keys |-> IF k[1] = d THEN NoPage ELSE page[k]]
            /\ dirty' = Without(dirty, {k \in Keys : k[1] = d})
            /\ clients' = clients \ {d}
            /\ template' = [template EXCEPT ![d] = "closed"]
            /\ mgr' = [wokenMgr EXCEPT ![d] = "closed"]
            /\ mat' = wokenMat /\ th' = wokenTh
    /\ UNCHANGED <<err, worker, upper, diff, init, logical, ops, urgent, kick, active, closed, closing>>

(* detach, diff.Close and failMaterialization. *)
Detach(d) ==
    /\ mgr[d] = "detach"
    /\ IF active = d
       THEN own(d, "detachwait") /\ UNCHANGED <<page, dirty, clients, template, mat, th>>
       ELSE /\ page' = [k \in Keys |-> IF k[1] = d THEN NoPage ELSE page[k]]
            /\ dirty' = Without(dirty, {k \in Keys : k[1] = d})
            /\ clients' = clients \ {d}
            /\ template' = [template EXCEPT ![d] = "closed"]
            /\ mgr' = [wokenMgr EXCEPT ![d] = "closed"]
            /\ mat' = wokenMat /\ th' = wokenTh
    /\ UNCHANGED <<err, worker, upper, diff, init, logical, ops, urgent, kick, active, closed, closing>>

(* Cache.Close, after the disks: the worker ends. *)
CloseCache ==
    /\ clients = {} /\ ~closed
    /\ closed' = TRUE
    /\ kickLocked(TRUE)
    /\ UNCHANGED <<page, dirty, err, clients, active, worker, upper, diff, init, template, mat, th,
                   mgr, closing, logical, ops>>

-----------------------------------------------------------------------------
Init ==
    /\ page = [k \in Keys |-> NoPage] /\ dirty = <<>>
    /\ err = FALSE /\ closed = FALSE /\ clients = Disks
    /\ kick = FALSE /\ urgent = FALSE /\ active = None
    /\ worker = [pc |-> "loop", batch |-> {}, cohort |-> {}, aggregated |-> FALSE]
    /\ upper = {}
    /\ backend = [k \in Keys |-> Zero] /\ payload = {}
    /\ init = [d \in Disks |-> IF d \in Fresh \cap Versioned THEN "pending" ELSE "ok"]
    /\ template = [d \in Disks |-> IF \E k \in Template : k[1] = d THEN "open" ELSE "closed"]
    /\ mat = [d \in Disks |-> [pc |-> IF d \in Fresh THEN "init" ELSE "done", key |-> None,
                               todo |-> {k \in Template : k[1] = d}, ok |-> TRUE]]
    /\ th = [t \in Threads |-> NoReq]
    /\ mgr = [d \in Disks |-> "run"]
    /\ closing = {}
    /\ logical = [k \in Keys |-> Lower(k)]
    /\ ops = 0

ThreadStep(t) ==
    \/ Refused(t) \/ CacheRead(t) \/ Load(t) \/ Bypass(t) \/ ReadLower(t) \/ Answered(t)
    \/ Write(t) \/ Fill(t) \/ Publish(t) \/ StageZero(t) \/ DiscardFreeze(t) \/ DiscardDone(t)

WorkerStep ==
    \/ WorkerLoop \/ WorkerKicked \/ Aggregate \/ Select \/ WriteFrozen \/ Repair \/ Cohort
    \/ WriteFailed \/ Cleanup \/ Finish

MatStep(d) ==
    \/ Initialized(d) \/ MatInitialized(d) \/ MatLock(d) \/ MatWrite(d) \/ MatDetach(d) \/ MatJoin(d)
    \/ MatDrain(d) \/ MatPublish(d) \/ MatDiscard(d) \/ MatFail(d)

OwnerStep(d) ==
    \/ CheckpointReady(d) \/ CheckpointLocked(d) \/ Drain(d) \/ CheckpointMaterialized(d)
    \/ CheckpointEnd(d) \/ CloseJoined(d) \/ Detach(d)

Next ==
    \/ \E t \in Threads : Start(t) \/ Cancel(t) \/ ThreadStep(t)
    \/ WorkerStep \/ CloseCache
    \/ \E d \in Disks : MatStep(d) \/ Checkpoint(d) \/ Close(d) \/ OwnerStep(d)

Spec == Init /\ [][Next]_vars

-----------------------------------------------------------------------------
States == {"none", "loading", "constructing", "clean", "dirty", "writeback", "discarding"}
Halves == {"base", "zero", "new", "template"}

(* Every variable holds a value its code counterpart can hold; the dirty   *)
(* list has each dirty page once.                                          *)
TypeOK ==
    /\ page \in [Keys -> [st : States, data : Halves \X Halves, zero : BOOLEAN,
                          charged : BOOLEAN]]
    /\ {dirty[i] : i \in 1..Len(dirty)} = {k \in Keys : page[k].st = "dirty"}
    /\ Len(dirty) = Cardinality({k \in Keys : page[k].st = "dirty"})
    /\ backend \in [Keys -> Halves \X Halves]
    /\ upper \subseteq Keys /\ clients \subseteq Disks /\ closing \subseteq Disks
    /\ active \in Disks \cup {None}
    /\ worker.batch \cup worker.cohort \subseteq Keys

(* A read of a block returns what the guest was last told is there, be it   *)
(* in the cache, in flight, in the diff, in the template or in the base.    *)
ReadsLatest == \A t \in Threads : th[t].pc = "answered" => th[t].data = logical[th[t].key]

(* What the cache no longer holds dirty is in the diff file: a page leaves  *)
(* the dirty state only when its last content is stored.                    *)
StoredWhenClean ==
    ~err => \A k \in upper : page[k].st \in {"none", "loading", "clean"} => backend[k] = logical[k]

(* Disk.Checkpoint captures every accepted write and discard, and nothing   *)
(* is under way when it does.  When Disk.Close is done no request uses the  *)
(* disk any more and it has left no page behind; on a healthy cache every   *)
(* accepted write is stored.  A batch that fails takes back only what it    *)
(* put into holes of the file: a block an earlier batch settled on a        *)
(* single-layer diff keeps a payload, so that the open of the diff after    *)
(* the failure finds the guest's data.                                      *)
BoundariesStore ==
    /\ \A d \in Disks : mgr[d] \in {"checkpoint", "closed"} =>
           /\ inFlight(d) = {}
           /\ mgr[d] = "checkpoint" => \A k \in Template : k[1] = d => k \in upper
           /\ mgr[d] = "closed" => \A k \in Keys : k[1] = d => page[k] = NoPage
           /\ mgr[d] = "checkpoint" \/ ~err =>
                  \A k \in upper : k[1] = d => backend[k] = logical[k]
    /\ \A k \in payload : k \in upper /\ backend[k] # Zero

(* The buffers of a batch belong to its I/O until that returns: no request, *)
(* no detach and no failure changes or releases a frozen page meanwhile.    *)
FrozenUntilWritten ==
    [][\A k \in worker.batch : k \notin worker'.batch \/ page'[k] = page[k]]_vars

(* The context of a closing disk ends every wait of its requests. *)
CancelClosing(t) == th[t].key # None /\ th[t].key[1] \in closing /\ Cancel(t)

Fairness ==
    /\ \A t \in Threads : WF_vars(ThreadStep(t)) /\ SF_vars(Entered(t) /\ ThreadStep(t)) /\ WF_vars(CancelClosing(t))
    /\ WF_vars(WorkerStep)
    /\ \A d \in Disks : WF_vars(MatStep(d)) /\ SF_vars(MatLock(d)) /\ WF_vars(OwnerStep(d))

FairSpec == Spec /\ Fairness

(* Whatever fails and whoever competes for the budget, every admitted       *)
(* request is answered, and Checkpoint and Close return.                    *)
AllReturn ==
    /\ \A t \in Threads : th[t].pc # "idle" ~> th[t].pc = "idle"
    /\ \A d \in Disks : mgr[d] \notin {"run", "closed"} ~> mgr[d] \in {"run", "closed"}
=============================================================================

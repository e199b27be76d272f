------------------------------ MODULE PageLoader ------------------------------
(***************************************************************************)
(* pkg/uffd: the handler that fills guest memory on demand.  vCPU faults   *)
(* and mandatory loads of the backends run on per-page workers, one        *)
(* speculative tail runs behind them, and the VMM releases pages at any    *)
(* moment.  Each action under installMu is one step; source reads, queue   *)
(* sends and the tail slot are between them.                               *)
(*                                                                         *)
(* The kernel, the vCPUs and the VMM's balloon are external: they are what *)
(* the handler's ioctls and events assume of them.                         *)
(***************************************************************************)
EXTENDS Naturals, Sequences, FiniteSets

CONSTANTS
    N,             \* pages of RAM
    DataPages,     \* pages the snapshot source has Data for; {} is ZeroSource
    Chunked,       \* Data is served as ChunkRuns
    Seeded,        \* pages the VMM wrote before it registered the region
    Workers, WorkerOf,  \* pageIdxHash
    QueueCap,      \* capacity of a worker's queue
    FillPages,     \* pages of one fault's fill: zeroFaultFillBytes, ordinaryDataFaultFillBytes
    VCPUs, Loaders,
    Failing,       \* whether a source read may fail for good
    Closing,       \* whether Close is called
    MaxReleases,   \* bound on releases by the VMM; 0 is none
    MaxUses,       \* bound on accesses by vCPUs and loads by backends; 0 is none
    None

Pages == 1..N

ASSUME PageLoaderAssumption ==
    /\ N \in Nat \ {0} /\ DataPages \subseteq Pages /\ Seeded \subseteq Pages
    /\ WorkerOf \in [Pages -> Workers] /\ QueueCap \in Nat \ {0} /\ FillPages \in Nat \ {0}
    /\ Chunked \in BOOLEAN /\ Failing \in BOOLEAN /\ Closing \in BOOLEAN 
    /\ MaxReleases \in Nat /\ MaxUses \in Nat

VARIABLES
    mem,       \* the folios of the memfd: "none", "snap", "zero" or "new"
    vcpu,      \* [pc, page, write]: "run", "wait" for a fault, or "retry" once woken
    faults,    \* fault events nobody has read: <<vcpu, page>>
    ch,        \* the balloon worker of the VMM, in the release of some pages
    changing,  \* the kernel's mmap_changing
    state,     \* PageStateMap
    queue,     \* the queues of the workers
    worker,    \* [pc, load, page, by, kind, st, lo, hi]: the event and the fill it plans
    reader,    \* the event reader: [pc, batch]
    tailBusy, tailQ, tail,
    loader,    \* callers of EnsureLoaded: [pc, first, page, last]
    dirty, released, \* cfg.Dirty, with what the CPU log adds, and Handler.released
    view,      \* the CaptureView being streamed
    closing, ctxDone, fatal, closer,
    logical,   \* history: what the guest has in each page
    uses       \* accesses and loads begun, when they are bounded

kernel == <<mem, vcpu, faults, ch, changing>>
tailVars == <<tailBusy, tailQ, tail>>
life == <<closing, ctxDone, fatal, closer, uses>>
track == <<dirty, released, view, logical>>
vars == <<kernel, state, queue, worker, reader, tailVars, loader, track, life>>

(* The start of an access or of a load. *)
Begin ==
    /\ MaxUses = 0 \/ uses < MaxUses
    /\ uses' = IF MaxUses = 0 THEN 0 ELSE uses + 1

Source(p) == IF p \in DataPages THEN "snap" ELSE "zero"
ZeroSource == DataPages = {}

IdleWorker == [pc |-> "idle", load |-> FALSE, page |-> 1, by |-> None, kind |-> "zero",
               st |-> "absent", lo |-> 1, hi |-> 1]
IdleTail == [pc |-> "idle", kind |-> "zero", st |-> "absent", lo |-> 1, page |-> 1, hi |-> 1]
IdleLoader == [pc |-> "idle", first |-> 1, page |-> 1, last |-> 1]
at(w, pc) == worker[w].pc = pc
goto(w, pc) == worker' = [worker EXCEPT ![w].pc = pc]
free(w) == worker' = [worker EXCEPT ![w] = IdleWorker]

releaseTail == tailBusy' = FALSE

Max(S) == CHOOSE m \in S : \A x \in S : x <= m
Min(S) == CHOOSE m \in S : \A x \in S : m <= x

(* PageStateMap.RunLength: the last page of the run of s from p to at most *)
(* hi, p - 1 when there is none; and RunBounds, its first page downwards.  *)
RunEnd(p, hi, s) == Max({p - 1} \cup {e \in p..hi : \A x \in p..e : state[x] = s})
RunStart(p, lo, s) == Min({p + 1} \cup {b \in lo..p : \A x \in b..p : state[x] = s})

(* stateHardEnd; and the end of the source's run that holds p. *)
HardEnd(p, s) == RunEnd(p, IF p + FillPages - 1 < N THEN p + FillPages - 1 ELSE N, s)
SourceEnd(p) == Max({e \in p..N : \A x \in p..e : Source(x) = Source(p)})
SourceStart(p) == Min({b \in 1..p : \A x \in b..p : Source(x) = Source(p)})

Least(a, b) == IF a < b THEN a ELSE b

-----------------------------------------------------------------------------
(* External: the kernel wakes who waits for pages P; an event that was not *)
(* read yet goes with its waiter.                                          *)
Wake(P) ==
    /\ vcpu' = [v \in VCPUs |-> IF vcpu[v].pc = "wait" /\ vcpu[v].page \in P
                                THEN [vcpu[v] EXCEPT !.pc = "retry"] ELSE vcpu[v]]
    /\ faults' = {f \in faults : f[2] \notin P}
NoWake == UNCHANGED <<vcpu, faults>>

(* External: UFFDIO_COPY or UFFDIO_ZEROPAGE of the pages lo..hi: how many  *)
(* it installs, and the error when there is none.  The kernel stops at a   *)
(* page that exists, and may stop earlier.                                 *)
Results(lo, hi) ==
    IF changing THEN {[n |-> 0, err |-> "EAGAIN"]}
    ELSE IF mem[lo] # "none" THEN {[n |-> 0, err |-> "EEXIST"]}
    ELSE {[n |-> k, err |-> "ok"] :
              k \in {k \in 1..(hi - lo + 1) : \A p \in lo..(lo + k - 1) : mem[p] = "none"}}

Install(lo, n, c) == mem' = [p \in Pages |-> IF p \in lo..(lo + n - 1) THEN c ELSE mem[p]]

(* SetRangeIf *)
SetRangeIf(lo, hi, old, new) ==
    state' = [p \in Pages |-> IF p \in lo..hi /\ state[p] = old THEN new ELSE state[p]]

(* External: a vCPU reads or writes a page it owns. *)
Touch(v, p, write) ==
    IF mem[p] = "none"
    THEN /\ vcpu' = [vcpu EXCEPT ![v] = [pc |-> "wait", page |-> p, write |-> write]]
         /\ faults' = faults \cup {<<v, p>>}
         /\ UNCHANGED <<mem, dirty, logical>>
    ELSE /\ vcpu' = [vcpu EXCEPT ![v] = [pc |-> "run", page |-> 1, write |-> FALSE]]
         /\ UNCHANGED faults
         /\ IF write
            THEN /\ mem' = [mem EXCEPT ![p] = "new"]
                 /\ dirty' = dirty \cup {p}
                 /\ logical' = [logical EXCEPT ![p] = "new"]
            ELSE UNCHANGED <<mem, dirty, logical>>

vcpuRest == <<ch, changing, state, queue, worker, reader, tailVars, loader, released, view,
              closing, ctxDone, fatal, closer>>

Access(v) ==
    /\ vcpu[v].pc = "run" /\ view = None /\ ~fatal /\ Begin
    /\ \E p \in Pages \ ch.pages, write \in BOOLEAN : Touch(v, p, write)
    /\ UNCHANGED vcpuRest

Retry(v) ==
    /\ vcpu[v].pc = "retry" /\ ~fatal
    /\ Touch(v, vcpu[v].page, vcpu[v].write)
    /\ UNCHANGED <<vcpuRest, uses>>

Owned(p) ==
    \/ \E v \in VCPUs : vcpu[v].pc # "run" /\ vcpu[v].page = p
    \/ \E l \in Loaders : loader[l].pc # "idle" /\ p \in loader[l].first..loader[l].last

(* External: the balloon worker releases pages the guest does not use: an  *)
(* event, which it waits for, and then the hole in the memfd.              *)
Release ==
    /\ ch.pc = "idle" /\ view = None /\ ~fatal
    /\ MaxReleases = 0 \/ ch.count < MaxReleases
    /\ \E lo, hi \in Pages :
          /\ lo <= hi /\ \A p \in lo..hi : ~Owned(p)
          /\ ch' = [pc |-> "event", pages |-> lo..hi,
                     count |-> IF MaxReleases = 0 THEN 0 ELSE ch.count + 1]
    /\ changing' = TRUE
    /\ UNCHANGED <<mem, vcpu, faults, state, queue, worker, reader, tailVars, loader, track, life>>

ReleaseResumes ==
    /\ ch.pc = "acked"
    /\ ch' = [ch EXCEPT !.pc = "punch"]
    /\ changing' = FALSE
    /\ UNCHANGED <<mem, vcpu, faults, state, queue, worker, reader, tailVars, loader, track, life>>

Punch ==
    /\ ch.pc = "punch"
    /\ mem' = [p \in Pages |-> IF p \in ch.pages THEN "none" ELSE mem[p]]
    /\ logical' = [p \in Pages |-> IF p \in ch.pages THEN "zero" ELSE logical[p]]
    /\ ch' = [ch EXCEPT !.pc = "idle", !.pages = {}]
    /\ UNCHANGED <<vcpu, faults, changing, state, queue, worker, reader, tailVars, loader,
                   dirty, released, view, life>>

-----------------------------------------------------------------------------
(* runReader, drain, dispatch: one read takes every event that is pending; *)
(* a release is published before any install can follow, the faults are    *)
(* sent to the queues after it, one blocking send at a time.               *)
dispatchReleaseUnmarked ==
    IF ch.pc = "event"
    THEN /\ released' = released \cup ch.pages
         /\ state' = [p \in Pages |-> IF p \in ch.pages THEN "released" ELSE state[p]]
         /\ ch' = [ch EXCEPT !.pc = "acked"]
         /\ UNCHANGED dirty
    ELSE UNCHANGED <<released, dirty, state, ch>>

dispatchRelease ==
    IF ch.pc = "event"
    THEN /\ released' = released \cup ch.pages
         /\ dirty' = dirty \cup ch.pages
         /\ state' = [p \in Pages |-> IF p \in ch.pages THEN "released" ELSE state[p]]
         /\ ch' = [ch EXCEPT !.pc = "acked"]
    ELSE UNCHANGED <<released, dirty, state, ch>>

drain ==
    /\ reader.pc = "run" /\ reader.batch = {}
    /\ faults # {} \/ ch.pc = "event"
    /\ reader' = [reader EXCEPT !.batch = faults]
    /\ faults' = {}
    /\ dispatchRelease
    /\ UNCHANGED <<mem, vcpu, changing, queue, worker, tailVars, loader, view, logical, life>>

dispatchDrops ==
    /\ \E f \in reader.batch :
          /\ reader' = [reader EXCEPT !.batch = @ \ {f}]
          /\ LET w == WorkerOf[f[2]] IN
             IF Len(queue[w]) < QueueCap
             THEN queue' = [queue EXCEPT ![w] =
                               Append(@, [load |-> FALSE, page |-> f[2], by |-> None])]
             ELSE UNCHANGED queue
    /\ UNCHANGED <<kernel, state, worker, tailVars, loader, track, life>>

dispatch ==
    /\ \E f \in reader.batch :
          /\ reader' = [reader EXCEPT !.batch = @ \ {f}]
          /\ LET w == WorkerOf[f[2]] IN
             \/ /\ Len(queue[w]) < QueueCap
                /\ queue' = [queue EXCEPT ![w] =
                                Append(@, [load |-> FALSE, page |-> f[2], by |-> None])]
             \/ ctxDone /\ UNCHANGED queue
    /\ UNCHANGED <<kernel, state, worker, tailVars, loader, track, life>>

ReaderExit ==
    /\ reader.pc = "run" /\ reader.batch = {} /\ closer \notin {"open", "cancel"}
    /\ reader' = [reader EXCEPT !.pc = "exit"]
    /\ UNCHANGED <<kernel, state, queue, worker, tailVars, loader, track, life>>

-----------------------------------------------------------------------------
(* runWorker and handleFault: the next event of the queue; a fault goes by *)
(* the state its page has now.                                             *)
handleFault(w, p) ==
    CASE state[p] = "absent" ->
            [IdleWorker EXCEPT !.pc = "scan", !.page = p]
      [] state[p] = "released" ->
            [IdleWorker EXCEPT !.pc = "install", !.page = p, !.st = "released",
                               !.lo = p, !.hi = HardEnd(p, "released")]
      [] OTHER ->
            [IdleWorker EXCEPT !.pc = "install", !.page = p, !.st = "loaded", !.lo = p, !.hi = p]

Take(w) ==
    /\ at(w, "idle") /\ queue[w] # <<>> /\ ~ctxDone
    /\ LET ev == Head(queue[w]) IN
       worker' = [worker EXCEPT ![w] =
          IF ev.load THEN [IdleWorker EXCEPT !.pc = "lstate", !.load = TRUE,
                                             !.page = ev.page, !.by = ev.by]
          ELSE handleFault(w, ev.page)]
    /\ queue' = [queue EXCEPT ![w] = Tail(@)]
    /\ UNCHANGED <<kernel, state, reader, tailVars, loader, track, life>>

WorkerExit(w) ==
    /\ at(w, "idle") /\ ctxDone
    /\ goto(w, "exit")
    /\ UNCHANGED <<kernel, state, queue, reader, tailVars, loader, track, life>>

(* failRead: nobody is woken, the owner is told and the handler cancelled. *)
failRead == fatal' = TRUE /\ ctxDone' = TRUE

(* handleAbsentFault, up to the read: a stale event is woken, an ordinary  *)
(* run is bounded by the fill, a chunk takes the tail slot first and plans *)
(* both sides (handleChunkFault, chunkPopulationBounds).                   *)
handleAbsentFault(w) ==
    /\ at(w, "scan")
    /\ LET p == worker[w].page
           hard == HardEnd(p, "absent")
           end == Least(SourceEnd(p), hard)
           lo == RunStart(p, SourceStart(p), "absent")
           hi == RunEnd(p, SourceEnd(p), "absent")
           plan(pc, kind, a, b) ==
               worker' = [worker EXCEPT ![w].pc = pc, ![w].kind = kind, ![w].lo = a, ![w].hi = b]
       IN
       \/ /\ hard < p /\ Wake({p}) /\ free(w)
          /\ UNCHANGED <<tailBusy, fatal, ctxDone>>
       \/ /\ hard >= p /\ NoWake
          /\ \/ /\ Source(p) = "zero" /\ plan("install", "zero", p, end)
                /\ UNCHANGED <<tailBusy, fatal, ctxDone>>
             \/ /\ Source(p) = "snap" /\ (~Chunked \/ tailBusy \/ closing \/ lo = hi)
                /\ plan("read", "data", p, IF Chunked THEN p ELSE end)
                /\ UNCHANGED <<tailBusy, fatal, ctxDone>>
             \/ /\ Source(p) = "snap" /\ Chunked /\ ~tailBusy /\ ~closing /\ lo < hi
                /\ tailBusy' = TRUE /\ plan("read", "window", lo, hi)
                /\ UNCHANGED <<fatal, ctxDone>>
             \/ /\ ~ZeroSource /\ ctxDone /\ free(w)
                /\ UNCHANGED <<tailBusy, fatal, ctxDone>>
             \/ /\ ~ZeroSource /\ Failing /\ ~ctxDone /\ failRead /\ free(w)
                /\ UNCHANGED tailBusy
    /\ UNCHANGED <<mem, ch, changing, state, queue, reader, tailQ, tail, loader, track,
                   closing, closer, uses>>

(* A fault that ends here gives back the tail slot its window holds. *)
dropFault(w) ==
    /\ free(w)
    /\ IF worker[w].kind = "window" THEN releaseTail ELSE UNCHANGED tailBusy

(* readRequiredRun: into the page buffer, or the window into tailBuf. *)
readRequiredRun(w) ==
    /\ at(w, "read")
    /\ \/ /\ goto(w, "install") /\ UNCHANGED <<tailBusy, fatal, ctxDone>>
       \/ /\ ctxDone /\ dropFault(w) /\ UNCHANGED <<fatal, ctxDone>>
       \/ /\ Failing /\ ~ctxDone /\ dropFault(w) /\ failRead
    /\ UNCHANGED <<kernel, state, queue, reader, tailQ, tail, loader, track, closing, closer, uses>>

(* urgentCopy, urgentZero and finishUrgent, under installMu: what was read *)
(* for another state of the page is not installed.  Only a page this fault *)
(* settled itself may have a tail.                                         *)
UrgentContent(w) ==
    IF state[worker[w].page] = worker[w].st /\ worker[w].kind # "zero" THEN "snap" ELSE "zero"

Urgent(w) ==
    /\ at(w, "install")
    /\ LET p == worker[w].page IN
       \/ /\ ctxDone /\ NoWake /\ dropFault(w) /\ UNCHANGED <<mem, state, dirty>>
       \/ /\ ~ctxDone /\ state[p] # worker[w].st /\ state[p] = "loaded"
          /\ Wake({p}) /\ dropFault(w) /\ UNCHANGED <<mem, state, dirty>>
       \/ /\ ~ctxDone /\ (state[p] = worker[w].st \/ state[p] # "loaded")
          /\ Wake({p})
          /\ \E r \in Results(p, p) :
                /\ Install(p, r.n, UrgentContent(w))
                /\ dirty' = IF r.err = "EEXIST" THEN dirty \cup {p} ELSE dirty
                /\ state' = IF r.err = "EAGAIN" THEN state ELSE [state EXCEPT ![p] = "loaded"]
                /\ IF r.n = 1 /\ state[p] = worker[w].st /\ worker[w].lo < worker[w].hi
                   THEN /\ goto(w, IF worker[w].kind = "window" THEN "enqueue" ELSE "reserve")
                        /\ UNCHANGED tailBusy
                   ELSE dropFault(w)
    /\ UNCHANGED <<ch, changing, queue, reader, tailQ, tail, loader, released, view, logical, life>>

(* tryReserveTail after an ordinary or a zero page. *)
tryReserveTail(w) ==
    /\ at(w, "reserve")
    /\ IF closing \/ tailBusy
       THEN free(w) /\ UNCHANGED tailBusy
       ELSE goto(w, "enqueue") /\ tailBusy' = TRUE
    /\ UNCHANGED <<kernel, state, queue, reader, tailQ, tail, loader, track, life>>

(* enqueueReservedTail: the check, and then the send on the channel, which *)
(* are two steps: a cancellation does not take tailSubmit.                 *)
enqueueReservedTail(w) ==
    /\ at(w, "enqueue")
    /\ IF closing \/ ctxDone
       THEN free(w) /\ releaseTail
       ELSE goto(w, "send") /\ UNCHANGED tailBusy
    /\ UNCHANGED <<kernel, state, queue, reader, tailQ, tail, loader, track, life>>

sendTail(w) ==
    /\ at(w, "send")
    /\ tailQ' = [pc |-> "idle", kind |-> worker[w].kind, st |-> worker[w].st,
                 lo |-> worker[w].lo, page |-> worker[w].page, hi |-> worker[w].hi]
    /\ free(w)
    /\ UNCHANGED <<kernel, state, queue, reader, tailBusy, tail, loader, track, life>>

-----------------------------------------------------------------------------
(* runTailWorker: one task at a time, planned again on the state of now.   *)
TailTake ==
    /\ tail.pc = "idle" /\ tailQ # None
    /\ tailQ' = None
    /\ LET start == tailQ.page + 1
           hi == RunEnd(start, tailQ.hi, tailQ.st)
           task == [tailQ EXCEPT !.hi = hi]
       IN IF ctxDone \/ (tailQ.kind # "window" /\ hi < start)
          THEN tail' = IdleTail /\ releaseTail
          ELSE /\ tail' = CASE tailQ.kind = "window" -> [tailQ EXCEPT !.pc = "suffix"]
                            [] tailQ.kind = "data" -> [task EXCEPT !.pc = "read"]
                            [] OTHER -> [task EXCEPT !.pc = "install"]
               /\ UNCHANGED tailBusy
    /\ UNCHANGED <<kernel, state, queue, worker, reader, loader, track, life>>

TailExit ==
    /\ tail.pc = "idle" /\ ctxDone
    /\ tail' = [IdleTail EXCEPT !.pc = "exit"]
    /\ IF tailQ # None THEN tailQ' = None /\ releaseTail ELSE UNCHANGED <<tailQ, tailBusy>>
    /\ UNCHANGED <<kernel, state, queue, worker, reader, loader, track, life>>

(* The deferred read of processTail: it is not retried. *)
TailRead ==
    /\ tail.pc = "read"
    /\ \/ tail' = [tail EXCEPT !.pc = "install"] /\ UNCHANGED tailBusy
       \/ (ctxDone \/ Failing) /\ tail' = IdleTail /\ releaseTail
    /\ UNCHANGED <<kernel, state, queue, worker, reader, tailQ, loader, track, life>>

(* executeTailIO on the pages lo..hi, under installMu: what still has the  *)
(* expected state, as far as the kernel goes; full tells of all of it.     *)
TailEnd(lo, hi) == RunEnd(lo, hi, tail.st)

executeTailIO(lo, hi, full) ==
    LET end == TailEnd(lo, hi) IN
    \/ /\ ctxDone \/ end < lo
       /\ ~full /\ NoWake /\ UNCHANGED <<mem, state, dirty>>
    \/ /\ ~ctxDone /\ end >= lo
       /\ \E r \in Results(lo, end) :
             /\ full = (lo + r.n - 1 = hi)
             /\ Install(lo, r.n, IF tail.kind = "zero" THEN "zero" ELSE "snap")
             /\ SetRangeIf(lo, lo + r.n - 1, tail.st, "loaded")
             /\ Wake(lo..(lo + r.n - 1))
             /\ dirty' = IF r.err = "EEXIST" THEN dirty \cup lo..end ELSE dirty

tailRest == <<ch, changing, queue, worker, reader, tailQ, loader, released, view, logical, life>>

TailInstall ==
    /\ tail.pc = "install"
    /\ \E full \in BOOLEAN : executeTailIO(tail.page + 1, tail.hi, full)
    /\ tail' = IdleTail /\ releaseTail
    /\ UNCHANGED tailRest

(* processBufferedSuffix; the prefix is tried only after all of it. *)
TailSuffix ==
    /\ tail.pc = "suffix"
    /\ IF tail.hi = tail.page
       THEN /\ tail' = [tail EXCEPT !.pc = "prefix"]
            /\ UNCHANGED <<mem, state, dirty, vcpu, faults, tailBusy>>
       ELSE \E full \in BOOLEAN :
              /\ executeTailIO(tail.page + 1, tail.hi, full)
              /\ IF full /\ tail.lo < tail.page
                 THEN tail' = [tail EXCEPT !.pc = "prefix"] /\ UNCHANGED tailBusy
                 ELSE tail' = IdleTail /\ releaseTail
    /\ UNCHANGED tailRest

(* processBufferedPrefix: the run that ends next to the fault. *)
TailPrefix ==
    /\ tail.pc = "prefix"
    /\ LET lo == RunStart(tail.page - 1, tail.lo, tail.st) IN
       IF lo >= tail.page THEN NoWake /\ UNCHANGED <<mem, state, dirty>>
       ELSE \E full \in BOOLEAN : executeTailIO(lo, tail.page - 1, full)
    /\ tail' = IdleTail /\ releaseTail
    /\ UNCHANGED tailRest

-----------------------------------------------------------------------------
(* EnsureLoaded: page by page until the range is Loaded, then the backend  *)
(* may touch it.                                                           *)
EnsureLoaded(l) ==
    /\ loader[l].pc = "idle" /\ ~closing /\ ~ctxDone /\ view = None /\ Begin
    /\ \E first, last \in Pages :
          /\ first <= last /\ ch.pages \cap first..last = {}
          /\ loader' = [loader EXCEPT ![l] =
                [pc |-> "check", first |-> first, page |-> first, last |-> last]]
    /\ UNCHANGED <<kernel, state, queue, worker, reader, tailVars, track,
                   closing, ctxDone, fatal, closer>>

LoaderCheckFirst(l) ==
    /\ loader[l].pc = "check"
    /\ LET at1 == RunEnd(loader[l].page, loader[l].last, "loaded") + 1 IN
       loader' = [loader EXCEPT ![l] =
          IF ctxDone THEN IdleLoader
          ELSE IF at1 >= @.last THEN [@ EXCEPT !.pc = "exposed"]
          ELSE [@ EXCEPT !.page = at1, !.pc = "submit"]]
    /\ UNCHANGED <<kernel, state, queue, worker, reader, tailVars, track, life>>

LoaderCheck(l) ==
    /\ loader[l].pc = "check"
    /\ LET at1 == RunEnd(loader[l].page, loader[l].last, "loaded") + 1 IN
       loader' = [loader EXCEPT ![l] =
          IF ctxDone THEN IdleLoader
          ELSE IF at1 > @.last THEN [@ EXCEPT !.pc = "exposed"]
          ELSE [@ EXCEPT !.page = at1, !.pc = "submit"]]
    /\ UNCHANGED <<kernel, state, queue, worker, reader, tailVars, track, life>>

LoaderSubmit(l) ==
    /\ loader[l].pc = "submit"
    /\ LET w == WorkerOf[loader[l].page] IN
       /\ Len(queue[w]) < QueueCap
       /\ queue' = [queue EXCEPT ![w] =
                       Append(@, [load |-> TRUE, page |-> loader[l].page, by |-> l])]
    /\ loader' = [loader EXCEPT ![l].pc = "wait"]
    /\ UNCHANGED <<kernel, state, worker, reader, tailVars, track, life>>

(* The caller's context ends, by itself or with the handler's: its request *)
(* stays behind with nobody to answer.                                     *)
LoaderCancel(l) ==
    /\ loader[l].pc \in {"check", "submit", "wait"}
    /\ loader' = [loader EXCEPT ![l] = IdleLoader]
    /\ queue' = [w \in Workers |->
          [i \in DOMAIN queue[w] |->
              IF queue[w][i].by = l THEN [queue[w][i] EXCEPT !.by = None] ELSE queue[w][i]]]
    /\ worker' = [w \in Workers |->
          IF worker[w].by = l THEN [worker[w] EXCEPT !.by = None] ELSE worker[w]]
    /\ UNCHANGED <<kernel, state, reader, tailVars, track, life>>

(* External: the vhost backend reads or writes the range it asked for; a   *)
(* hole it touches is a fresh zero folio.                                  *)
Use(l) ==
    /\ loader[l].pc = "exposed"
    /\ LET range == loader[l].first..loader[l].last IN
       \E write \in BOOLEAN :
          /\ mem' = [p \in Pages |-> IF p \notin range THEN mem[p]
                                     ELSE IF write THEN "new"
                                     ELSE IF mem[p] = "none" THEN "zero" ELSE mem[p]]
          /\ dirty' = IF write THEN dirty \cup range ELSE dirty
          /\ logical' = [p \in Pages |-> IF p \in range /\ write THEN "new" ELSE logical[p]]
    /\ loader' = [loader EXCEPT ![l] = IdleLoader]
    /\ UNCHANGED <<vcpu, faults, ch, changing, state, queue, worker, reader, tailVars,
                   released, view, life>>

(* The answer of loadPage on the request's channel. *)
reply(w, ok, again) ==
    /\ free(w)
    /\ loader' = IF worker[w].by = None THEN loader
                 ELSE [loader EXCEPT ![worker[w].by] =
                          IF ok THEN [@ EXCEPT !.pc = "check", !.page = @ + 1]
                          ELSE IF again THEN [@ EXCEPT !.pc = "check"]
                          ELSE IdleLoader]

LoadEnded(w) == ctxDone \/ worker[w].by = None

(* loadPage: the state, the read, and the install under installMu only if  *)
(* the state is still the one the content was read for.                    *)
loadState(w) ==
    /\ at(w, "lstate")
    /\ LET st == state[worker[w].page] IN
       IF LoadEnded(w) THEN reply(w, FALSE, FALSE)
       ELSE IF st = "loaded" THEN reply(w, TRUE, FALSE)
       ELSE /\ worker' = [worker EXCEPT ![w].st = st, ![w].pc =
                             IF st = "absent" /\ ~ZeroSource THEN "lread" ELSE "linstall"]
            /\ UNCHANGED loader
    /\ UNCHANGED <<kernel, state, queue, reader, tailVars, track, life>>

loadRead(w) ==
    /\ at(w, "lread")
    /\ \/ goto(w, "linstall") /\ UNCHANGED loader
       \/ state[worker[w].page] # "absent" /\ goto(w, "lstate") /\ UNCHANGED loader
       \/ (LoadEnded(w) \/ Failing) /\ reply(w, FALSE, FALSE)
    /\ UNCHANGED <<kernel, state, queue, reader, tailVars, track, life>>

LoadContent(w) == IF worker[w].st = "absent" THEN Source(worker[w].page) ELSE "zero"

loadInstall(w) ==
    /\ at(w, "linstall")
    /\ LET p == worker[w].page IN
       IF LoadEnded(w)
       THEN reply(w, FALSE, FALSE) /\ NoWake /\ UNCHANGED <<mem, state, dirty>>
       ELSE IF state[p] # worker[w].st
       THEN goto(w, "lstate") /\ NoWake /\ UNCHANGED <<mem, state, dirty, loader>>
       ELSE \E r \in Results(p, p) :
              IF r.err = "EAGAIN"
              THEN reply(w, FALSE, TRUE) /\ NoWake /\ UNCHANGED <<mem, state, dirty>>
              ELSE /\ reply(w, TRUE, FALSE) /\ Wake({p})
                   /\ state' = [state EXCEPT ![p] = "loaded"]
                   /\ Install(p, r.n, LoadContent(w))
                   /\ dirty' = IF r.err = "EEXIST" THEN dirty \cup {p} ELSE dirty
    /\ UNCHANGED <<ch, changing, queue, reader, tailVars, released, view, logical, life>>

-----------------------------------------------------------------------------
(* CaptureView, with the VM and the backends paused: residency and state   *)
(* of one moment.  The stream that follows reads the pages later, while    *)
(* workers and tails may still fill holes.                                 *)
CaptureView ==
    /\ view = None /\ ~closing /\ ~ctxDone
    /\ \A v \in VCPUs : vcpu[v].pc = "run"
    /\ \A l \in Loaders : loader[l].pc = "idle"
    /\ ch.pc = "idle"
    /\ LET resident == {p \in Pages : mem[p] # "none"}
           zeros == {p \in Pages \ resident : state[p] # "absent"}
       IN /\ released' = released \cup zeros
          /\ dirty' = dirty \cup zeros
          /\ view' = [materialized |-> resident, dirty |-> dirty', released |-> released']
    /\ UNCHANGED <<kernel, state, queue, worker, reader, tailVars, loader, logical, life>>

CaptureEnds ==
    /\ view # None
    /\ view' = None
    /\ UNCHANGED <<kernel, state, queue, worker, reader, tailVars, loader, dirty, released,
                   logical, life>>

(* CaptureMemory (pkg/snapshot): what the capture writes for a page. *)
kindAt(p) ==
    IF p \in view.materialized
    THEN IF p \in view.dirty THEN "data" ELSE "inherit"
    ELSE IF p \in view.released THEN "zero" ELSE "inherit"

-----------------------------------------------------------------------------
(* Close.  closing is seen before the cancellation: they are two stores,   *)
(* and the tail reads both without the lock Close holds.                   *)
CloseBegins ==
    /\ closer = "open" /\ Closing
    /\ closing' = TRUE /\ closer' = "cancel"
    /\ UNCHANGED <<kernel, state, queue, worker, reader, tailVars, loader, track, ctxDone, fatal, uses>>

CloseCancels ==
    /\ closer = "cancel"
    /\ ctxDone' = TRUE /\ closer' = "reader"
    /\ UNCHANGED <<kernel, state, queue, worker, reader, tailVars, loader, track, closing, fatal, uses>>

CloseStep(from, cond, to) ==
    /\ closer = from /\ cond /\ closer' = to
    /\ UNCHANGED <<kernel, state, queue, worker, reader, tailVars, loader, track,
                   closing, ctxDone, fatal, uses>>

Close ==
    \/ CloseBegins
    \/ CloseCancels
    \/ CloseStep("reader", reader.pc = "exit", "submit")
    \/ CloseStep("submit", \A w \in Workers : ~at(w, "send"), "idle")
    \/ CloseStep("idle", ~tailBusy, "join")
    \/ CloseStep("join", /\ tail.pc = "exit" /\ \A w \in Workers : at(w, "exit")
                         /\ \A l \in Loaders : loader[l].pc = "idle", "done")

Init ==
    /\ mem = [p \in Pages |-> IF p \in Seeded THEN "new" ELSE "none"]
    /\ vcpu = [v \in VCPUs |-> [pc |-> "run", page |-> 1, write |-> FALSE]]
    /\ faults = {} /\ ch = [pc |-> "idle", pages |-> {}, count |-> 0] /\ changing = FALSE
    /\ state = [p \in Pages |-> "absent"]
    /\ queue = [w \in Workers |-> <<>>]
    /\ worker = [w \in Workers |-> IdleWorker]
    /\ reader = [pc |-> "run", batch |-> {}]
    /\ tailBusy = FALSE /\ tailQ = None /\ tail = IdleTail
    /\ loader = [l \in Loaders |-> IdleLoader]
    /\ dirty = Seeded /\ released = {} /\ view = None
    /\ closing = FALSE /\ ctxDone = FALSE /\ fatal = FALSE /\ closer = "open"
    /\ logical = [p \in Pages |-> IF p \in Seeded THEN "new" ELSE Source(p)]
    /\ uses = 0

Worker(w) ==
    \/ Take(w) \/ WorkerExit(w) \/ handleAbsentFault(w) \/ readRequiredRun(w) \/ Urgent(w)
    \/ tryReserveTail(w) \/ enqueueReservedTail(w) \/ sendTail(w)
    \/ loadState(w) \/ loadRead(w) \/ loadInstall(w)

TailWorker == TailTake \/ TailExit \/ TailRead \/ TailInstall \/ TailSuffix \/ TailPrefix

Loader(l) == LoaderCheck(l) \/ LoaderSubmit(l) \/ Use(l)

Terminated ==
    /\ ctxDone
    /\ UNCHANGED vars

Next ==
    \/ \E v \in VCPUs : Access(v) \/ Retry(v)
    \/ Release \/ ReleaseResumes \/ Punch
    \/ drain \/ dispatch \/ ReaderExit
    \/ \E w \in Workers : Worker(w)
    \/ TailWorker
    \/ \E l \in Loaders : EnsureLoaded(l) \/ Loader(l) \/ LoaderCancel(l)
    \/ CaptureView \/ CaptureEnds
    \/ Close
    \/ Terminated

Spec == Init /\ [][Next]_vars

(* Every goroutine of the handler is scheduled, a source read ends, and    *)
(* the VMM goes on with a release the handler has acknowledged.  A channel *)
(* serves its blocked senders in order, so none of them is passed over for *)
(* ever.  Nothing obliges a vCPU, a backend, the balloon or Close to begin.*)
Fairness ==
    /\ WF_vars(drain) /\ SF_vars(dispatch) /\ WF_vars(ReaderExit)
    /\ \A w \in Workers : WF_vars(Worker(w))
    /\ WF_vars(TailWorker)
    /\ \A l \in Loaders : WF_vars(Loader(l)) /\ SF_vars(LoaderSubmit(l))
                           /\ WF_vars(ctxDone /\ LoaderCancel(l))
    /\ \A v \in VCPUs : WF_vars(Retry(v))
    /\ WF_vars(ReleaseResumes) /\ WF_vars(Punch) /\ WF_vars(CaptureEnds)
    /\ WF_vars(closer # "open" /\ Close)

FairSpec == Spec /\ Fairness

-----------------------------------------------------------------------------
Contents == {"snap", "zero", "new"}
States == {"absent", "loaded", "released"}

(* The type of the state. *)
TypeOK ==
    /\ mem \in [Pages -> Contents \cup {"none"}]
    /\ vcpu \in [VCPUs -> [pc : {"run", "wait", "retry"}, page : Pages, write : BOOLEAN]]
    /\ faults \subseteq VCPUs \X Pages
    /\ ch \in [pc : {"idle", "event", "acked", "punch"}, pages : SUBSET Pages, count : 0..MaxReleases]
    /\ changing \in BOOLEAN /\ tailBusy \in BOOLEAN
    /\ closing \in BOOLEAN /\ ctxDone \in BOOLEAN /\ fatal \in BOOLEAN
    /\ state \in [Pages -> States]
    /\ \A w \in Workers :
          /\ Len(queue[w]) <= QueueCap
          /\ \A i \in DOMAIN queue[w] :
                queue[w][i] \in [load : BOOLEAN, page : Pages, by : Loaders \cup {None}]
    /\ worker \in [Workers ->
          [pc : {"idle", "scan", "read", "install", "reserve", "enqueue", "send",
                 "lstate", "lread", "linstall", "exit"},
           load : BOOLEAN, page : Pages, by : Loaders \cup {None},
           kind : {"zero", "data", "window"}, st : States, lo : Pages, hi : Pages]]
    /\ reader.pc \in {"run", "exit"} /\ reader.batch \subseteq VCPUs \X Pages
    /\ tail.pc \in {"idle", "read", "install", "suffix", "prefix", "exit"}
    /\ loader \in [Loaders -> [pc : {"idle", "check", "submit", "wait", "exposed"},
                               first : Pages, page : Pages \cup {N + 1}, last : Pages]]
    /\ dirty \subseteq Pages /\ released \subseteq Pages
    /\ view = None \/ kindAt(1) \in {"data", "zero", "inherit"}
    /\ closer \in {"open", "cancel", "reader", "submit", "idle", "join", "done"}
    /\ logical \in [Pages -> Contents]
    /\ uses \in 0..MaxUses

(* Outside a release the pages hold what the guest has in them: a folio    *)
(* has the guest's content, a hole nobody loaded stands for the source,    *)
(* and a hole of any other state for zeroes - whatever races between a     *)
(* stale read, a tail and a release of the page (urgentCopy,               *)
(* executeTailIO, loadPage, handleRemoveLocked).                           *)
MemoryExact ==
    \A p \in Pages \ ch.pages :
        CASE mem[p] # "none" -> mem[p] = logical[p]
          [] state[p] = "absent" -> logical[p] = Source(p)
          [] OTHER -> logical[p] = "zero"

(* A backend that EnsureLoaded let through never makes a folio of zeroes   *)
(* where the guest has something else: the mmap it touches is not          *)
(* registered and would not fault.                                         *)
BackendSeesMemory ==
    \A l \in Loaders : loader[l].pc = "exposed" =>
        \A p \in loader[l].first..loader[l].last :
            logical[p] = IF mem[p] = "none" THEN "zero" ELSE mem[p]

(* The stream that follows CaptureView writes the guest's memory: Data     *)
(* pages are read while workers and tails still fill holes, Zero pages and *)
(* pages left to the source are decided by the view alone.                 *)
CaptureExact ==
    view # None =>
        \A p \in Pages :
            CASE kindAt(p) = "data" -> mem[p] = logical[p]
              [] kindAt(p) = "zero" -> logical[p] = "zero"
              [] OTHER -> logical[p] = Source(p)

(* A fault is resolved, unless the handler was cancelled, and a mandatory  *)
(* load returns, however the queues are filled and whatever release is in  *)
(* progress: the reader must get past a full queue to the event that lets  *)
(* the ioctls work again (dispatch, EnsureLoaded).                         *)
AccessesEnd ==
    /\ \A v \in VCPUs : vcpu[v].pc # "run" ~> (vcpu[v].pc = "run" \/ ctxDone)
    /\ \A l \in Loaders : loader[l].pc # "idle" ~> loader[l].pc = "idle"

(* Close joins the tail, the reader and the workers and returns.           *)
CloseReturns == closing ~> closer = "done"
=============================================================================

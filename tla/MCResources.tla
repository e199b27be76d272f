----------------------------- MODULE MCResources -----------------------------
(***************************************************************************)
(* Small instances of the models of a sandbox's memory and of its claim on *)
(* the node: the memory controller (MemoryControl), the client of the      *)
(* node's reservations (ReservationSession), the lease file (Lease), the   *)
(* window of a capture over on-demand memory (PageLoader) and the sampler  *)
(* of what the sandbox uses (UsageSampler).  A behaviour is one of one of  *)
(* them; the variables of the others keep their initial values.            *)
(***************************************************************************)
EXTENDS MemoryControl, Lease

CONSTANTS
    MaxFaults, MaxRestarts, MaxMoves,
    N, Seeded, Workers, w1, w2, FillPages, VCPUs, MaxReleases

VARIABLES
    which,
    h, client, node, ctx, session, syncStart, rpc, goroutine, applied, env, known,
    mem, vcpu, faults, vmm, changing, state, queue, worker, reader, tailBusy, tailQ, tail,
    loader, dirty, released, view, closing, ctxDone, fatal, closer, logical, uses,
    now, process0, raw, live, smp, loop, slot, out, final, stop, capture, count, lost

AllPages == 1..N
TwoWorkers == [p \in AllPages |-> IF p % 2 = 1 THEN w1 ELSE w2]

Reservation == INSTANCE ReservationSession WITH
    Capacity <- 3, InitialBudget <- 2, pc <- goroutine
Window == INSTANCE PageLoader WITH
    DataPages <- AllPages, Chunked <- TRUE, WorkerOf <- TwoWorkers, Loaders <- {},
    Failing <- TRUE, Closing <- TRUE, MaxUses <- 0, ch <- vmm

Sampler == INSTANCE UsageSampler WITH
    Slots <- {0, 1}, Values <- {1}, Second <- 3, Hertz <- 2, MaxTime <- 1, MaxTicks <- 1,
    MaxRounds <- 2, MaxPauses <- 1, MaxFaults <- 0, ch <- process0

reservationVars ==
    <<h, client, node, ctx, session, syncStart, rpc, goroutine, applied, env, known>>
windowVars ==
    <<mem, vcpu, faults, vmm, changing, state, queue, worker, reader, tailBusy, tailQ,
      tail, loader, dirty, released, view, closing, ctxDone, fatal, closer, logical, uses>>
samplerVars ==
    <<now, process0, raw, live, smp, loop, slot, out, final, stop, capture, count, lost>>
allVars == <<which, vars, reservationVars, leaseVars, windowVars, samplerVars>>

\* A snapshot caught the balloon one page short of its target.
RestoredBalloons == {<<3, 2>>}

\* The memory controller starts cold or restored; for the other components
\* one of its initial states is enough.
MCInit ==
    /\ which \in {"memory", "reservation", "lease", "window", "sampler"}
    /\ Init
    /\ which # "memory" => ~ctl.norm
    /\ Reservation!Init
    /\ LeaseInit
    /\ Window!Init
    /\ Sampler!Init

\* Every process of the lease has ended, or the account is sealed.
Rests ==
    /\ \/ which = "lease" /\ \A p \in Runs : pc[p] = "done"
       \/ which = "sampler" /\ live.closed
    /\ UNCHANGED allVars

MCNext ==
    \/ /\ which = "memory" /\ Next
       /\ UNCHANGED <<which, reservationVars, leaseVars, windowVars, samplerVars>>
    \/ /\ which = "reservation" /\ Reservation!Next
       /\ UNCHANGED <<which, vars, leaseVars, windowVars, samplerVars>>
    \/ /\ which = "lease" /\ LeaseNext
       /\ UNCHANGED <<which, vars, reservationVars, windowVars, samplerVars>>
    \/ /\ which = "window" /\ Window!Next
       /\ UNCHANGED <<which, vars, reservationVars, leaseVars, samplerVars>>
    \/ /\ which = "sampler" /\ Sampler!Next
       /\ UNCHANGED <<which, vars, reservationVars, leaseVars, windowVars>>
    \/ Rests

MCSpec == MCInit /\ [][MCNext]_allVars

\* The memory in use is charged at the node, and a Release whose exchanges
\* were not lost leaves nothing charged (ReservationSession!ReservationCovers,
\* ReservationSession!ReleaseReaches).
ReservationExact == Reservation!ReservationCovers /\ Reservation!ReleaseReaches

\* Outside a release the pages hold what the guest has in them, and what a
\* capture streams is the guest's memory (PageLoader!MemoryExact,
\* PageLoader!CaptureExact).
WindowExact == Window!MemoryExact /\ Window!CaptureExact

\* However the sampler's reads, a capture, the reaper and Stop interleave, no
\* time is billed that was not measured, and no counter claims more than was
\* seen (UsageSampler!SamplesHonest).
SamplesHonest == Sampler!SamplesHonest
=============================================================================

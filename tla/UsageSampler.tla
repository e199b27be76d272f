----------------------------- MODULE UsageSampler -----------------------------
(***************************************************************************)
(* The sampler of a run (pkg/usage/sample.go): its loop with the rounds    *)
(* and their slots, of which each has at most one reader, Pause and Resume *)
(* of a capture, the final read of the VMM by the reaper, and Stop.  The   *)
(* manager it reports to is UsageAccount's snapshot; UsageStore models how *)
(* that is saved.                                                          *)
(***************************************************************************)
EXTENDS UsageAccount, FiniteSetsExt

CONSTANTS
    Values,     \* what a gauge may read
    MaxTime, MaxTicks, MaxRounds, MaxPauses, MaxFaults

VARIABLES
    now,
    ch,        \* the VMM process: "run" | "zombie" | "gone"
    raw,       \* its CPU ticks; those of sandbox-ctl are not told apart
    live,      \* Manager.live
    smp,       \* Sampler: [paused, ready, wake, generation, request, cancelRound, sources]
    loop,      \* its goroutine and round: [pc, id, generation, next, pending, begun, expired, tick, ticked]
    slot,      \* sampleSlot: [busy, id, start]
    out,       \* results on their way to the goroutine that waits for them
    final,     \* FinalCH: [pc, id, begun]
    stop,      \* Stop: [pc, id, begun, expired]
    capture,   \* a capture has paused the sampler
    count,     \* [pauses, faults]
    lost       \* history: the intervals in a capture

smpVars == <<smp, loop, slot, out>>
endVars == <<final, stop>>
world == <<now, ch, raw, capture, lost>>
vars == <<live, smpVars, endVars, world, count>>

fault == count.faults < MaxFaults /\ count' = [count EXCEPT !.faults = @ + 1]

-----------------------------------------------------------------------------
(* sample.go *)
source(i) == IF i \in smp.sources THEN "identity" ELSE "name"

(* Sampler.missing *)
gaugeMissing(s, i, id) ==
    Gauge(s, i, [request |-> id, source |-> source(i), at |-> now, value |-> 0, width |-> 0,
                 ok |-> FALSE])

missing(s, i, id, isFinal) ==
    gaugeMissing(IF i \in Processes THEN CounterMissing(s, i, isFinal) ELSE s, i, id)

(* The closures that readProcess and readGuest return.  A process that has *)
(* exited has CPU times, and no RSS.                                       *)
apply(s, r, isFinal) ==
    IF ~r.ok THEN missing(s, r.slot, r.id, isFinal)
    ELSE Gauge(IF r.slot \in Processes THEN Counter(s, r.slot, 1, r.ticks) ELSE s, r.slot,
               [request |-> r.id, source |-> "identity", at |-> (r.start + r.end) \div 2,
                value |-> r.value, width |-> r.end - r.start, ok |-> r.gauge])

learns(r) == IF r.ok THEN smp.sources \cup {r.slot} ELSE smp.sources

startSlot(i, id) == slot' = [slot EXCEPT ![i] = [busy |-> TRUE, id |-> id, start |-> now]]

(* A read ends: its slot is free, and its result goes to the one round or  *)
(* final read that asked for it, if that still waits.                      *)
awaited(id) ==
    \/ loop.pc \in {"launch", "wait"} /\ loop.id = id
    \/ final.pc = "wait" /\ final.id = id
    \/ stop.pc = "read" /\ stop.id = id

readEnds(i) ==
    /\ slot[i].busy
    /\ slot' = [slot EXCEPT ![i] = [busy |-> FALSE, id |-> 0, start |-> 0]]
    /\ \E ok \in BOOLEAN, v \in Values :
          /\ ok => i # 0 \/ ch \in {"run", "zombie"}
          /\ IF ~ok /\ (i # 0 \/ ch = "run") THEN fault ELSE UNCHANGED count
          /\ out' = IF ~awaited(slot[i].id) THEN out
                    ELSE out \cup {[slot |-> i, id |-> slot[i].id, start |-> slot[i].start,
                                    end |-> now, ok |-> ok, value |-> IF ok THEN v ELSE 0,
                                    gauge |-> i # 0 \/ ch = "run",
                                    ticks |-> IF i = 0 THEN raw ELSE 0]}
    /\ UNCHANGED <<live, smp, loop, endVars, world>>

roundReturns ==
    /\ loop' = [loop EXCEPT !.pc = "idle", !.id = 0, !.generation = 0, !.pending = {},
                            !.begun = 0, !.expired = FALSE]
    /\ out' = {r \in out : r.id # loop.id}
    /\ smp' = [smp EXCEPT !.cancelRound = FALSE]

current == ~smp.paused /\ smp.generation = loop.generation

(* The loop takes a tick of its schedule, or a wake-up. *)
loopTicks ==
    /\ loop.pc = "idle" /\ smp.request < MaxRounds
    /\ \E tick \in (loop.tick + 1)..now :
          /\ live' = IF ~smp.paused /\ loop.ticked /\ tick > loop.tick + 1
                     THEN discontinue(live) ELSE live
          /\ loop' = [loop EXCEPT !.tick = tick, !.ticked = TRUE,
                                  !.pc = IF smp.paused THEN "idle" ELSE "begin"]
    /\ UNCHANGED <<smp, slot, out, endVars, world, count>>

loopWakes ==
    /\ loop.pc = "idle" /\ smp.wake /\ smp.request < MaxRounds
    /\ smp' = [smp EXCEPT !.wake = FALSE]
    /\ loop' = [loop EXCEPT !.pc = IF smp.paused THEN "idle" ELSE "begin"]
    /\ UNCHANGED <<live, slot, out, endVars, world, count>>

loopEnds ==
    /\ loop.pc = "idle" /\ stop.pc # Absent
    /\ loop' = [loop EXCEPT !.pc = "ended"]
    /\ UNCHANGED <<live, smp, slot, out, endVars, world, count>>

roundBegins ==
    /\ loop.pc = "begin"
    /\ IF smp.paused
       THEN loop' = [loop EXCEPT !.pc = "idle"] /\ UNCHANGED smp
       ELSE /\ loop' = [loop EXCEPT !.pc = "number", !.generation = smp.generation, !.begun = now,
                                    !.expired = stop.pc # Absent]
            /\ smp' = [smp EXCEPT !.cancelRound = TRUE]
    /\ UNCHANGED <<live, slot, out, endVars, world, count>>

roundNumbers ==
    /\ loop.pc = "number"
    /\ smp' = [smp EXCEPT !.request = @ + 1]
    /\ loop' = [loop EXCEPT !.pc = "launch", !.id = smp.request + 1, !.next = 0]
    /\ UNCHANGED <<live, slot, out, endVars, world, count>>

(* A slot that is still reading gets no second reader; its source is       *)
(* missing in this round.                                                  *)
roundLaunches ==
    /\ loop.pc = "launch"
    /\ IF ~current THEN roundReturns /\ UNCHANGED <<live, slot>>
       ELSE LET i == loop.next
                skip == i = 2 /\ ~smp.ready
            IN /\ loop' = [loop EXCEPT !.pc = IF i + 1 \in Slots THEN "launch" ELSE "wait",
                                       !.next = IF i + 1 \in Slots THEN i + 1 ELSE 0,
                                       !.pending = IF skip \/ slot[i].busy THEN @ ELSE @ \cup {i}]
               /\ IF skip \/ slot[i].busy THEN UNCHANGED slot ELSE startSlot(i, loop.id)
               /\ live' = IF ~skip /\ slot[i].busy THEN missing(live, i, loop.id, FALSE) ELSE live
               /\ UNCHANGED <<smp, out>>
    /\ UNCHANGED <<endVars, world, count>>

roundExpires ==
    /\ loop.pc \in {"number", "launch", "wait"} /\ now > loop.begun /\ ~loop.expired
    /\ loop' = [loop EXCEPT !.expired = TRUE]
    /\ UNCHANGED <<live, smp, slot, out, endVars, world, count>>

acceptResult(r) ==
    /\ loop.pc = "wait" /\ r.id = loop.id
    /\ loop' = [loop EXCEPT !.pending = @ \ {r.slot}]
    /\ out' = out \ {r}
    /\ live' = IF ~current THEN live
               ELSE IF loop.expired THEN missing(live, r.slot, r.id, FALSE)
               ELSE apply(live, r, FALSE)
    /\ smp' = IF current /\ ~loop.expired THEN [smp EXCEPT !.sources = learns(r)] ELSE smp
    /\ UNCHANGED <<slot, endVars, world, count>>

roundGivesUp ==
    /\ loop.pc = "wait" /\ loop.expired /\ loop.pending # {}
    /\ live' = IF current
               THEN FoldSet(LAMBDA i, s : missing(s, i, loop.id, FALSE), live, loop.pending)
               ELSE live
    /\ roundReturns
    /\ UNCHANGED <<slot, endVars, world, count>>

roundIsDone ==
    /\ loop.pc = "wait" /\ loop.pending = {}
    /\ roundReturns
    /\ UNCHANGED <<live, slot, endVars, world, count>>

-----------------------------------------------------------------------------
(* Mutant: a capture does not end the time domain of the gauges. *)
fenceKeepsGauges(pauseGauges) ==
    /\ smp' = [smp EXCEPT !.paused = TRUE, !.generation = @ + 1, !.cancelRound = FALSE]
    /\ loop' = IF smp.cancelRound THEN [loop EXCEPT !.expired = TRUE] ELSE loop
    /\ live' = IF smp.cancelRound THEN discontinuePending(live, smp.request) ELSE live

(* fence: no result of an earlier round counts any more.  A capture ends   *)
(* every gauge's time domain; a final read keeps its last endpoint.        *)
fence(pauseGauges) ==
    /\ smp' = [smp EXCEPT !.paused = TRUE, !.generation = @ + 1, !.cancelRound = FALSE]
    /\ loop' = IF smp.cancelRound THEN [loop EXCEPT !.expired = TRUE] ELSE loop
    /\ live' = IF pauseGauges THEN BreakGauges(live)
               ELSE IF smp.cancelRound THEN discontinuePending(live, smp.request) ELSE live

Pause ==
    /\ ch = "run" /\ ~capture /\ count.pauses < MaxPauses
    /\ fence(TRUE)
    /\ capture' = TRUE /\ count' = [count EXCEPT !.pauses = @ + 1]
    /\ UNCHANGED <<slot, out, endVars, now, ch, raw, lost>>

Resume ==
    /\ capture
    /\ smp' = [smp EXCEPT !.paused = FALSE, !.ready = TRUE, !.wake = TRUE]
    /\ capture' = FALSE
    /\ UNCHANGED <<live, loop, slot, out, endVars, now, ch, raw, lost,
                   count>>

Ready ==
    /\ ~smp.ready
    /\ smp' = [smp EXCEPT !.ready = TRUE, !.wake = TRUE]
    /\ UNCHANGED <<live, loop, slot, out, endVars, world, count>>

(* The reaper's final read while the exited VMM still has its /proc entry; *)
(* cmd.Wait follows.                                                       *)
finalFences ==
    /\ ch = "zombie" /\ final.pc = Absent
    /\ fence(FALSE)
    /\ final' = [final EXCEPT !.pc = "number", !.begun = now]
    /\ UNCHANGED <<slot, out, stop, world, count>>

finalEnds == final' = [final EXCEPT !.pc = "done"] /\ ch' = "gone"

finalStarts ==
    /\ final.pc = "number"
    /\ smp' = [smp EXCEPT !.request = @ + 1]
    /\ IF slot[0].busy
       THEN /\ live' = missing(live, 0, smp.request + 1, TRUE)
            /\ finalEnds /\ UNCHANGED slot
       ELSE /\ startSlot(0, smp.request + 1)
            /\ final' = [final EXCEPT !.pc = "wait", !.id = smp.request + 1]
            /\ UNCHANGED <<live, ch>>
    /\ UNCHANGED <<loop, out, stop, now, raw, capture, lost, count>>

finalAccepts(r) ==
    /\ final.pc = "wait" /\ r.id = final.id
    /\ live' = apply(live, r, TRUE) /\ smp' = [smp EXCEPT !.sources = learns(r)]
    /\ out' = out \ {r}
    /\ finalEnds
    /\ UNCHANGED <<loop, slot, stop, now, raw, capture, lost, count>>

finalExpires ==
    /\ final.pc = "wait" /\ now > final.begun
    /\ live' = missing(live, 0, final.id, TRUE)
    /\ out' = {r \in out : r.id # final.id}
    /\ finalEnds
    /\ UNCHANGED <<smp, loop, slot, stop, now, raw, capture, lost, count>>

-----------------------------------------------------------------------------
(* Stop, when the VMM has been reaped. *)
stopBegins ==
    /\ stop.pc = Absent
    /\ ch = "gone"
    /\ fence(FALSE)
    /\ stop' = [stop EXCEPT !.pc = "join", !.begun = now]
    /\ UNCHANGED <<slot, out, final, world, count>>

stopExpires ==
    /\ stop.pc \in {"join", "read"} /\ ~stop.expired /\ now > stop.begun
    /\ stop' = [stop EXCEPT !.expired = TRUE]
    /\ UNCHANGED <<live, smpVars, final, world, count>>

(* The last read of sandbox-ctl itself.  It can not vouch for its own end. *)
sealed(s) == CounterMissing(s, 1, TRUE)

stopJoins ==
    /\ stop.pc = "join" /\ (loop.pc = "ended" \/ stop.expired)
    /\ smp' = [smp EXCEPT !.request = @ + 1]
    /\ IF ~stop.expired /\ ~slot[1].busy
       THEN /\ startSlot(1, smp.request + 1)
            /\ stop' = [stop EXCEPT !.pc = "read", !.id = smp.request + 1] /\ UNCHANGED live
       ELSE /\ live' = sealed(missing(live, 1, smp.request + 1, FALSE))
            /\ stop' = [stop EXCEPT !.pc = "close"] /\ UNCHANGED slot
    /\ UNCHANGED <<loop, out, final, world, count>>

stopReads ==
    /\ stop.pc = "read"
    /\ \/ \E r \in out : /\ r.id = stop.id /\ ~stop.expired
                          /\ live' = sealed(apply(live, r, TRUE))
                          /\ smp' = [smp EXCEPT !.sources = learns(r)]
       \/ stop.expired /\ live' = sealed(missing(live, 1, stop.id, FALSE)) /\ UNCHANGED smp
    /\ out' = {r \in out : r.id # stop.id}
    /\ stop' = [stop EXCEPT !.pc = "close"]
    /\ UNCHANGED <<loop, slot, final, world, count>>

(* Close begins with the seal. *)
closeSeals ==
    /\ stop.pc = "close"
    /\ live' = [live EXCEPT !.closed = TRUE]
    /\ stop' = [stop EXCEPT !.pc = "done"]
    /\ UNCHANGED <<smpVars, final, world, count>>

-----------------------------------------------------------------------------
(* The sampler starts with the VMM of a new sandbox. *)
Init ==
    /\ now = 0 /\ ch = "run" /\ raw = 0 /\ capture = FALSE /\ lost = 0
    /\ live = NoSnapshot
    /\ smp = [paused |-> FALSE, ready |-> FALSE, wake |-> FALSE, generation |-> 0, request |-> 0,
              cancelRound |-> FALSE, sources |-> {}]
    /\ loop = [pc |-> "begin", id |-> 0, generation |-> 0, next |-> 0, pending |-> {},
               begun |-> 0, expired |-> FALSE, tick |-> 0, ticked |-> FALSE]
    /\ slot = [i \in Slots |-> [busy |-> FALSE, id |-> 0, start |-> 0]]
    /\ out = {} /\ final = [pc |-> Absent, id |-> 0, begun |-> 0]
    /\ stop = [pc |-> Absent, id |-> 0, begun |-> 0, expired |-> FALSE]
    /\ count = [pauses |-> 0, faults |-> 0]

Burn ==
    /\ ch = "run" /\ raw < MaxTicks /\ raw' = raw + 1
    /\ UNCHANGED <<live, smpVars, endVars, now, ch, capture, lost, count>>

VMMExits ==
    /\ ch = "run" /\ ch' = "zombie"
    /\ UNCHANGED <<live, smpVars, endVars, now, raw, capture, lost, count>>

Tick ==
    /\ now < MaxTime /\ now' = now + 1
    /\ lost' = IF capture /\ ch = "run" THEN lost + 1 ELSE lost
    /\ UNCHANGED <<live, smpVars, endVars, ch, raw, capture, count>>

Next ==
    \/ VMMExits \/ Tick \/ Burn
    \/ \E i \in Slots : readEnds(i)
    \/ loopTicks \/ loopWakes \/ loopEnds
    \/ roundBegins \/ roundNumbers \/ roundLaunches \/ roundExpires \/ roundGivesUp \/ roundIsDone
    \/ \E r \in out : acceptResult(r) \/ finalAccepts(r)
    \/ Pause \/ Resume \/ Ready
    \/ finalFences \/ finalStarts \/ finalExpires
    \/ stopBegins \/ stopExpires \/ stopJoins \/ stopReads \/ closeSeals

Spec == Init /\ [][Next]_vars

-----------------------------------------------------------------------------
(* Measured time is time in which no capture had paused the VMM, and what  *)
(* was covered by two good reads was measured.                             *)
MeasuredRan ==
    \A i \in Slots : /\ live.gauge[i].covered <= live.gauge[i].span
                     /\ live.gauge[i].span <= now - lost

Consumed(ticks) == (ticks * Second) \div Hertz

(* The VMM's counter never exceeds what it consumed; while complete it is  *)
(* exact for what was read, and when the account is sealed as complete it  *)
(* includes the end of the process.  The counter of sandbox-ctl is never   *)
(* sealed as complete.                                                     *)
CountersHonest ==
    LET c == live.counter[0]
    IN /\ c.total <= Consumed(raw)
       /\ c.complete => c.total = Consumed(c.last)
       /\ live.closed => /\ c.complete => c.last = raw
                         /\ ~live.counter[1].complete

(* What the sampler promises, however its reads, a capture, the reaper and *)
(* Stop interleave: no bill for time that was not measured, and no counter *)
(* that claims more than was seen.                                         *)
SamplesHonest == MeasuredRan /\ CountersHonest
=============================================================================

------------------------------ MODULE UsageStore ------------------------------
(***************************************************************************)
(* The usage file of a sandbox (pkg/usage/persist.go): the manager's live  *)
(* snapshot A, the one asynchronous save of a frozen record F, the         *)
(* append-only file with its saved end S, Close, and the next run of the   *)
(* sandbox, which recovers the file its predecessor left, possibly killed  *)
(* in the middle of a write.                                               *)
(*                                                                         *)
(* What is observed, and when, is left open here: UsageSampler decides it. *)
(***************************************************************************)
EXTENDS UsageAccount, Sequences, SequencesExt

CONSTANTS
    Values,     \* what a gauge may read; 0 stands for a failure
    MaxEvents, MaxTicks, MaxRuns, MaxFaults

VARIABLES
    file, tail, exists,   \* the records, a partial one behind them, and whether it was created
    live,      \* Manager.live with stopping and historyUnknown
    mgr,       \* Manager: [saved, offset, pending, unknown]
    writer,    \* the goroutine of a save: [pc, ok, rolledBack]
    close,     \* Manager.Close: [pc, attempt, before]
    vmm, raw,  \* the VMM process: "none" | "run" | "ended", and its CPU ticks
    past,      \* history: the ticks of earlier VMMs
    count      \* [runs, events, faults]

fileVars == <<file, tail, exists>>
world == <<vmm, raw, past>>
vars == <<fileVars, live, mgr, writer, close, world, count>>

NoManager == [saved |-> <<>>, offset |-> 0, pending |-> <<>>, unknown |-> FALSE]
NoWriter == [pc |-> "idle", ok |-> FALSE, rolledBack |-> FALSE]
NoClose == [pc |-> Absent, attempt |-> 0, before |-> 0]

Init ==
    /\ file = <<>> /\ tail = FALSE /\ exists = FALSE
    /\ live = NoSnapshot /\ mgr = NoManager /\ writer = NoWriter /\ close = NoClose
    /\ vmm = "none" /\ raw = 0 /\ past = 0
    /\ count = [runs |-> 0, events |-> 0, faults |-> 0]

event == count.events < MaxEvents /\ count' = [count EXCEPT !.events = @ + 1]
fault == count.faults < MaxFaults /\ count' = [count EXCEPT !.faults = @ + 1]

(* Recover: the last complete record counts, if there is one, and a        *)
(* partial one behind it is an incomplete append.                          *)
Recover == [record |-> IF file = <<>> THEN <<>> ELSE <<Last(file)>>, end |-> Len(file),
            incomplete |-> tail]

(* Mutant: an existing file vouches for what came before it. *)
OpenTrusting ==
    /\ vmm = "none" /\ count.runs < MaxRuns
    /\ count' = [count EXCEPT !.runs = @ + 1]
    /\ vmm' = "run" /\ exists' = TRUE
    /\ live' = newRun(IF Recover.record = <<>> THEN NoSnapshot ELSE Recover.record[1], FALSE)
    /\ mgr' = [saved |-> Recover.record, offset |-> Recover.end, pending |-> <<>>,
               unknown |-> Recover.incomplete]
    /\ UNCHANGED <<file, tail, writer, close, raw, past>>

(* Open, under the file's lock: an existing file does not vouch for what   *)
(* ran since its last record.                                              *)
Open ==
    /\ vmm = "none" /\ count.runs < MaxRuns
    /\ count' = [count EXCEPT !.runs = @ + 1]
    /\ vmm' = "run" /\ exists' = TRUE
    /\ live' = newRun(IF Recover.record = <<>> THEN NoSnapshot ELSE Recover.record[1], exists)
    /\ mgr' = [saved |-> Recover.record, offset |-> Recover.end, pending |-> <<>>,
               unknown |-> Recover.incomplete]
    /\ UNCHANGED <<file, tail, writer, close, raw, past>>

(* The process ends after Close, or is killed at any point with its VMM. *)
Exit ==
    /\ vmm # "none"
    /\ vmm' = "none" /\ raw' = 0 /\ past' = past + raw
    /\ live' = NoSnapshot /\ mgr' = NoManager /\ writer' = NoWriter /\ close' = NoClose
    /\ UNCHANGED <<fileVars, count>>

Burn ==
    /\ vmm = "run" /\ raw + past < MaxTicks
    /\ raw' = raw + 1
    /\ UNCHANGED <<fileVars, live, mgr, writer, close, vmm, past, count>>

observes(s) ==
    /\ live' = s /\ event
    /\ UNCHANGED <<fileVars, mgr, writer, close, world>>

(* What a sampler may do to the snapshot while the VMM runs. *)
Observe ==
    /\ vmm = "run" /\ close.pc = Absent
    /\ \/ \E v \in Values :
             observes(Gauge(live, 0, [request |-> live.gauge[0].request + 1, source |-> "source",
                                      at |-> live.gauge[0].at + 1, value |-> v, width |-> 0,
                                      ok |-> v > 0]))
       \/ observes(BreakGauges(live))
       \/ observes(Counter(live, 0, count.runs, raw))
       \/ observes(CounterMissing(live, 0, FALSE))

(* The final read of the VMM, or its failure. *)
Final ==
    /\ vmm = "run" /\ close.pc = Absent /\ vmm' = "ended"
    /\ live' \in {Counter(live, 0, count.runs, raw), CounterMissing(live, 0, TRUE)}
    /\ UNCHANGED <<fileVars, mgr, writer, close, raw, past, count>>

-----------------------------------------------------------------------------
(* saveLocked: F is the frozen snapshot, and A starts an empty window. *)
saveLocked ==
    IF writer.pc # "idle" \/ live.stopping
    THEN UNCHANGED <<live, mgr, writer>>
    ELSE /\ IF mgr.pending = <<>>
            THEN /\ mgr' = [mgr EXCEPT !.pending = <<live>>]
                 /\ live' = [live EXCEPT !.gauge =
                                [i \in Slots |-> [@[i] EXCEPT !.window = NoWindow]]]
            ELSE UNCHANGED <<live, mgr>>
         /\ writer' = [pc |-> IF mgr.unknown THEN "truncate" ELSE "write",
                       ok |-> FALSE, rolledBack |-> FALSE]

Save ==
    /\ vmm # "none" /\ event
    /\ saveLocked
    /\ UNCHANGED <<fileVars, close, world>>

(* write: the tail of an earlier failure goes first; what fails is rolled  *)
(* back, if that succeeds.                                                 *)
writeTruncates ==
    /\ writer.pc = "truncate"
    /\ \/ writer' = [writer EXCEPT !.pc = "write"] /\ tail' = FALSE /\ UNCHANGED count
       \/ writer' = [writer EXCEPT !.pc = "rollback"] /\ fault /\ UNCHANGED tail
    /\ UNCHANGED <<file, exists, live, mgr, close, world>>

writeAppends ==
    /\ writer.pc = "write"
    /\ \/ /\ file' = Append(file, mgr.pending[1]) /\ tail' = FALSE
          /\ writer' = [writer EXCEPT !.pc = "finish", !.ok = TRUE] /\ UNCHANGED count
       \/ /\ fault /\ tail' \in BOOLEAN
          /\ writer' = [writer EXCEPT !.pc = "rollback"] /\ UNCHANGED file
    /\ UNCHANGED <<exists, live, mgr, close, world>>

writeRollsBack ==
    /\ writer.pc = "rollback"
    /\ \/ writer' = [writer EXCEPT !.pc = "finish", !.rolledBack = TRUE] /\ tail' = FALSE
       \/ writer' = [writer EXCEPT !.pc = "finish"] /\ UNCHANGED tail
    /\ UNCHANGED <<file, exists, live, mgr, close, world, count>>

unfreeze(s) ==
    [s EXCEPT !.gauge = [i \in Slots |->
        [@[i] EXCEPT !.window = mergeWindow(mgr.pending[1].gauge[i].window, @)]]]

(* Mutant: a failed save goes back into the window although its record     *)
(* stays pending.                                                          *)
writeFinishesMerging ==
    /\ writer.pc = "finish"
    /\ writer' = [writer EXCEPT !.pc = "idle"]
    /\ IF writer.ok
       THEN /\ mgr' = [saved |-> mgr.pending, offset |-> mgr.offset + 1, pending |-> <<>>,
                       unknown |-> FALSE]
            /\ UNCHANGED live
       ELSE /\ mgr' = [mgr EXCEPT !.unknown = ~writer.rolledBack,
                                  !.pending = IF writer.rolledBack THEN <<>> ELSE @]
            /\ live' = unfreeze(live)
    /\ UNCHANGED <<fileVars, close, world, count>>

(* The end of write: S advances to F, or F goes back into A. *)
writeFinishes ==
    /\ writer.pc = "finish"
    /\ writer' = [writer EXCEPT !.pc = "idle"]
    /\ IF writer.ok
       THEN /\ mgr' = [saved |-> mgr.pending, offset |-> mgr.offset + 1, pending |-> <<>>,
                       unknown |-> FALSE]
            /\ UNCHANGED live
       ELSE /\ mgr' = [mgr EXCEPT !.unknown = ~writer.rolledBack,
                                  !.pending = IF writer.rolledBack THEN <<>> ELSE @]
            /\ live' = IF writer.rolledBack THEN unfreeze(live) ELSE live
    /\ UNCHANGED <<fileVars, close, world, count>>

-----------------------------------------------------------------------------
(* Close: the seal, then at most two attempts to save it, for each of      *)
(* which the caller's patience may end.                                    *)
CloseSeals ==
    /\ vmm = "ended" /\ close.pc = Absent
    /\ live' = [live EXCEPT !.closed = TRUE]
    /\ close' = [pc |-> "save", attempt |-> 0, before |-> mgr.offset]
    /\ UNCHANGED <<fileVars, mgr, writer, world, count>>

CloseSaves ==
    /\ close.pc = "save"
    /\ IF close.attempt = 2
       THEN /\ close' = [close EXCEPT !.pc = "done"]
            /\ live' = [live EXCEPT !.stopping = TRUE] /\ UNCHANGED <<mgr, writer>>
       ELSE saveLocked /\ close' = [close EXCEPT !.pc = "wait", !.attempt = @ + 1]
    /\ UNCHANGED <<fileVars, world, count>>

CloseWaits ==
    /\ close.pc = "wait"
    /\ close' = [close EXCEPT !.pc = "save",
                    !.attempt = IF \/ writer.pc # "idle"
                                   \/ mgr.offset # close.before /\ mgr.saved[1].closed
                                THEN 2 ELSE @]
    /\ UNCHANGED <<fileVars, live, mgr, writer, world, count>>

(* Manager.History: the records of the saved prefix behind a cursor. *)
History(cursor, limit) ==
    SubSeq(file, cursor + 1, IF cursor + limit < mgr.offset THEN cursor + limit ELSE mgr.offset)

Next ==
    \/ Open \/ Exit \/ Burn \/ Observe \/ Final \/ Save
    \/ writeTruncates \/ writeAppends \/ writeRollsBack \/ writeFinishes
    \/ CloseSeals \/ CloseSaves \/ CloseWaits

Spec == Init /\ [][Next]_vars

-----------------------------------------------------------------------------
Windows(records, i) ==
    FoldLeft(LAMBDA w, s : mergeWindow(w, s.gauge[i].window), NoWindow, records)

TotalIs(s, i, w) ==
    s.gauge[i].span = w.span /\ s.gauge[i].covered = w.covered /\ s.gauge[i].area = w.area

(* Every total of a record that History returns is the sum of the windows  *)
(* up to it, and every total of the running sandbox the sum of the saved   *)
(* windows, the frozen one and the open one: no interval is lost or        *)
(* counted twice by a failed write, a failed rollback, a crash or a second *)
(* run.  A window's peak bounds what the window integrates.                *)
WindowsAddUp ==
    vmm # "none" => \A i \in Slots :
        /\ \A k \in 1..mgr.offset :
              /\ TotalIs(Last(History(0, k)), i, Windows(History(0, k), i))
              /\ LET w == History(k - 1, 1)[1].gauge[i].window IN w.area <= w.peak * w.covered
        /\ TotalIs(live, i, mergeWindow(Windows(History(0, mgr.offset) \o mgr.pending, i),
                                        live.gauge[i].window))

Consumed(ticks) == (ticks * Second) \div Hertz

(* No counter exceeds what its processes consumed.  A complete one has     *)
(* missed nothing, not even a run that left no record, and in a sealed     *)
(* record it includes the end of its process.                              *)
CounterHonest ==
    LET c == live.counter[0]
    IN /\ c.total <= Consumed(past + raw)
       /\ c.complete => past = 0 /\ c.total = Consumed(c.last)
       /\ live.closed /\ c.complete => c.last = raw

(* The saved record is the one at the file's saved end; a sealed record of *)
(* this run is what the manager ended with.                                *)
SavedIsWritten ==
    /\ mgr.saved # <<>> => mgr.offset > 0 /\ file[mgr.offset] = mgr.saved[1]
    /\ close.pc = "done" /\ mgr.offset # close.before /\ mgr.saved[1].closed =>
          \A i \in Slots : TotalIs(live, i, mgr.saved[1].gauge[i])

(* What pkg/usage promises of a bill, whatever write fails and wherever a  *)
(* run is killed: windows that add up to the totals, counters that claim   *)
(* no more than they know, and a saved record that is in the file.         *)
UsageExact == WindowsAddUp /\ CounterHonest /\ SavedIsWritten
=============================================================================

----------------------------- MODULE UsageAccount -----------------------------
(***************************************************************************)
(* The arithmetic of resource accounting (pkg/usage): gauges, which are    *)
(* integrated over the time they are measured, CPU counters with the       *)
(* remainder of their conversion, and the manager's operations on the      *)
(* accumulated snapshot.  UsageStore and UsageSampler are the two machines *)
(* that use it.                                                            *)
(*                                                                         *)
(* Time is counted in sample intervals.  The gauges of one source (RSS of  *)
(* a process; guest memory and filesystems) are observed together and are  *)
(* one gauge here.  The counters of single vCPU threads, record size       *)
(* limits and 64-bit overflow are left out.                                *)
(***************************************************************************)
EXTENDS Naturals

CONSTANTS
    Slots,      \* the read slots: 0 the VMM process, 1 sandbox-ctl, 2 the guest
    Second,     \* the unit of the counters' totals, in a second
    Hertz       \* the ticks of a raw counter, in a second

Processes == Slots \cap {0, 1}
Absent == "none"

-----------------------------------------------------------------------------
(* accumulate.go *)
NoWindow == [area |-> 0, span |-> 0, covered |-> 0, peak |-> 0]
NoGauge == [area |-> 0, span |-> 0, covered |-> 0, value |-> 0, at |-> 0, request |-> 0,
            source |-> Absent, position |-> FALSE, continuous |-> FALSE, window |-> NoWindow]
NoCounter == [total |-> 0, last |-> 0, remainder |-> 0, source |-> 0, complete |-> FALSE,
              status |-> Absent]

higher(a, b) == IF a > b THEN a ELSE b

mergeWindow(a, b) ==
    [area |-> a.area + b.area, span |-> a.span + b.span, covered |-> a.covered + b.covered,
     peak |-> higher(a.peak, b.peak)]

(* Window.peak of both ends of an interval that closes. *)
Measure(w, dt, covers, value) ==
    [w EXCEPT !.span = @ + dt, !.covered = @ + IF covers THEN dt ELSE 0,
              !.area = @ + IF covers THEN value * dt ELSE 0,
              !.peak = IF covers THEN higher(@, value) ELSE @]

(* Gauge.Observe: o is [request, source, at, value, width, ok]. *)
ObserveGauge(g, o) ==
    IF o.request <= g.request THEN g
    ELSE IF g.position /\ o.at <= g.at
    THEN [g EXCEPT !.request = o.request, !.continuous = FALSE]
    ELSE LET valid == o.ok /\ o.width <= 1
             follows == g.position /\ o.source = g.source
             dt == IF follows THEN o.at - g.at ELSE 0
             covers == follows /\ g.continuous /\ valid /\ dt <= 2
             w == Measure(g.window, dt, covers, g.value)
         IN [g EXCEPT !.request = o.request, !.source = o.source, !.at = o.at,
                      !.position = TRUE, !.continuous = valid,
                      !.span = @ + dt, !.covered = @ + IF covers THEN dt ELSE 0,
                      !.area = @ + IF covers THEN g.value * dt ELSE 0,
                      !.value = IF valid THEN o.value ELSE @,
                      !.window = IF valid THEN [w EXCEPT !.peak = higher(@, o.value)] ELSE w]

Break(g) == [g EXCEPT !.position = FALSE, !.continuous = FALSE]

(* Counter.Observe of a source that the process owner created; source 0 is *)
(* none.                                                                   *)
ObserveCounter(c, src, ticks) ==
    LET same == c.source = src
        delta == IF same THEN ticks - c.last ELSE ticks
        quantity == delta * Second + IF same THEN c.remainder ELSE 0
    IN IF same /\ ticks < c.last THEN [c EXCEPT !.complete = FALSE, !.status = "invalid"]
       ELSE [c EXCEPT !.total = @ + (quantity \div Hertz), !.remainder = quantity % Hertz,
                      !.last = ticks, !.source = src, !.status = "ok",
                      !.complete = IF same THEN @ ELSE c.source = 0 /\ (c.status = Absent \/ @)]

(* Snapshot.newRun.  The manager's own stopping and historyUnknown are kept *)
(* with the snapshot they belong to.                                       *)
newRun(s, unknown) ==
    [gauge |-> [i \in Slots |-> [Break(s.gauge[i]) EXCEPT !.request = 0, !.at = 0,
                                                          !.window = NoWindow]],
     counter |-> [p \in Processes |->
         IF s.counter[p] = NoCounter THEN NoCounter
         ELSE [s.counter[p] EXCEPT !.complete = FALSE, !.status = "missing"]],
     closed |-> FALSE, stopping |-> FALSE, historyUnknown |-> unknown]

NoSnapshot == [gauge |-> [i \in Slots |-> NoGauge], counter |-> [p \in Processes |-> NoCounter],
               closed |-> FALSE, stopping |-> FALSE, historyUnknown |-> FALSE]

-----------------------------------------------------------------------------
(* persist.go: the manager refuses what comes after the seal. *)
accepts(s) == ~s.stopping /\ ~s.closed

Gauge(s, i, o) ==
    IF accepts(s) THEN [s EXCEPT !.gauge[i] = ObserveGauge(@, o)] ELSE s

Counter(s, p, src, ticks) ==
    IF ~accepts(s) THEN s
    ELSE [s EXCEPT !.counter[p] =
              LET c == ObserveCounter(@, src, ticks)
              IN [c EXCEPT !.complete = @ /\ ~s.historyUnknown]]

CounterMissing(s, p, isFinal) ==
    IF ~accepts(s) THEN s
    ELSE [s EXCEPT !.counter[p] =
              IF @ = NoCounter
              THEN [@ EXCEPT !.status = "missing", !.complete = ~isFinal /\ ~s.historyUnknown]
              ELSE [@ EXCEPT !.status = "missing", !.complete = @ /\ ~isFinal]]

BreakGauges(s) ==
    IF accepts(s) THEN [s EXCEPT !.gauge = [i \in Slots |-> Break(@[i])]] ELSE s

discontinue(s) ==
    IF accepts(s) THEN [s EXCEPT !.gauge = [i \in Slots |-> [@[i] EXCEPT !.continuous = FALSE]]]
    ELSE s

discontinuePending(s, request) ==
    IF ~accepts(s) THEN s
    ELSE [s EXCEPT !.gauge = [i \in Slots |->
              IF @[i].request < request THEN [@[i] EXCEPT !.continuous = FALSE] ELSE @[i]]]
=============================================================================

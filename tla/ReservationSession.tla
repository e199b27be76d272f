------------------------- MODULE ReservationSession -------------------------
(* The reservation session of one sandbox with the node's resource controller
   (pkg/resctl/controller.go over pkg/resource/client.go).  sessionMu is held
   for a whole exchange, syncStartMu orders the write of a StateSync with every
   cancellation of the session's lifetime, and Release joins the background
   workers before it returns the reservation.

   The node is external: it is modelled by what the client relies on.  A
   request it has not taken when the client gives the exchange up is never
   taken, a token it does not know is refused, and a node that lost its state
   charges the sandbox's whole capacity until a StateSync arrives. *)
EXTENDS Naturals

CONSTANTS
    Capacity,        \* the sandbox's memory capacity
    InitialBudget,   \* what Admit must be granted exactly
    MaxFaults,       \* bound on exchanges lost to the transport
    MaxRestarts,     \* bound on restarts of the node
    MaxMoves         \* bound on the budget changes of the memory controller

VARIABLES
    h,         \* ControllerHooks: the flags, the baseline and its token
    client,    \* resource.Client: its connection and its token
    node,      \* the node's charge for the sandbox and the token it knows
    ctx,       \* cancellation of opts.Context and of lifetimeCtx
    session,   \* the holder of sessionMu
    syncStart, \* the holder of syncStartMu
    rpc,       \* the one outstanding exchange
    pc,        \* where each goroutine stands
    applied,   \* the budget the memory controller has applied locally
    env,       \* the bounds used up
    known      \* the client was told the token the node knows

vars == <<h, client, node, ctx, session, syncStart, rpc, pc, applied, env, known>>

NoToken == 0
NoRPC == [kind |-> "none"]
Free == "free"

Init ==
    /\ h = [admitted |-> FALSE, settled |-> FALSE, connected |-> FALSE, released |-> FALSE,
            reservation |-> 0, wake |-> FALSE]
    /\ client = [conn |-> "none", token |-> NoToken]
    /\ node = [charge |-> 0, token |-> NoToken, next |-> 1, lost |-> FALSE]
    /\ ctx = [parent |-> FALSE, lifetime |-> FALSE]
    /\ session = Free /\ syncStart = Free
    /\ rpc = NoRPC
    /\ pc = [main |-> "start", hb |-> "off", rc |-> "wait", rel |-> "idle"]
    /\ applied = 0
    /\ env = [faults |-> 0, restarts |-> 0, moves |-> 0]
    /\ known = TRUE

-----------------------------------------------------------------------------
(* One exchange: roundTripContextLocked. *)

Send(who, kind, amount, delta) ==
    rpc' = [who |-> who, kind |-> kind, token |-> client.token, amount |-> amount,
            delta |-> delta, stage |-> "sent", reply |-> [status |-> "none"]]

Waiting(who, kind) == rpc.kind = kind /\ rpc.who = who

Answered(who, kind) == Waiting(who, kind) /\ rpc.stage = "answered"

(* StateSync runs under WithoutCancel and Release under its own deadline; every
   other exchange ends when the lifetime is cancelled. *)
Cancellable(kind) == kind \notin {"sync", "release"}

Cut(who, kind) == Waiting(who, kind) /\ ctx.lifetime /\ Cancellable(kind)

Broken(who, kind) ==
    /\ Waiting(who, kind)
    /\ client.conn = "dead" \/ env.faults < MaxFaults

(* The failed exchange closes the connection.  A reply that carried a new token
   is the only thing that cannot be repeated. *)
Fails(who, kind) ==
    /\ Broken(who, kind) \/ Cut(who, kind)
    /\ env' = IF client.conn # "dead" /\ ~Cut(who, kind) THEN [env EXCEPT !.faults = @ + 1] ELSE env
    /\ known' = (known /\ kind # "admit" /\ (Cut(who, kind) \/ kind \notin {"sync", "release"}))
    /\ rpc' = NoRPC

Gets(who, kind, status) ==
    /\ Answered(who, kind)
    /\ rpc.reply.status = status
    /\ rpc' = NoRPC
    /\ UNCHANGED env

-----------------------------------------------------------------------------
(* The node (external). *)

Answer(reply) == rpc' = [rpc EXCEPT !.stage = "answered", !.reply = reply]

Taken(kind) == rpc.kind = kind /\ rpc.stage = "sent" /\ client.conn = "up"

Charged(amount) == [charge |-> amount, token |-> node.next, next |-> node.next + 1, lost |-> FALSE]

NodeAdmit ==
    /\ Taken("admit")
    /\ \E granted \in {0, InitialBudget - 1, InitialBudget} :
          IF granted = 0
          THEN UNCHANGED node /\ Answer([status |-> "rejected"])
          ELSE /\ node' = Charged(granted)
               /\ Answer([status |-> "ok", token |-> node.next, new |-> granted])

NodeSync ==
    /\ Taken("sync")
    /\ node' = Charged(rpc.amount)
    /\ Answer([status |-> "ok", token |-> node.next, new |-> rpc.amount])

NodeBudget ==
    /\ Taken("budget")
    /\ \/ /\ rpc.token # node.token
          /\ UNCHANGED node /\ Answer([status |-> "refused"])
       \/ /\ rpc.token = node.token
          /\ \E granted \in 0 .. rpc.delta :
                /\ rpc.amount + granted <= Capacity
                /\ node' = [node EXCEPT !.charge = rpc.amount + granted]
                /\ Answer([status |-> "ok", new |-> rpc.amount + granted])

NodeReport ==
    /\ Taken("settled") \/ Taken("heartbeat")
    /\ Answer(IF rpc.token = node.token THEN [status |-> "ok", new |-> node.charge]
                                        ELSE [status |-> "refused"])
    /\ UNCHANGED node

NodeRelease ==
    /\ Taken("release")
    /\ node' = IF rpc.token = node.token THEN [node EXCEPT !.charge = 0, !.token = NoToken] ELSE node
    /\ Answer([status |-> "ok"])

Node ==
    /\ NodeAdmit \/ NodeSync \/ NodeBudget \/ NodeReport \/ NodeRelease
    /\ UNCHANGED <<h, client, ctx, session, syncStart, pc, applied, env, known>>

(* The live lease lets a restarted node find the sandbox again. *)
NodeRestart ==
    /\ env.restarts < MaxRestarts /\ pc.rel # "done" /\ node.charge > 0
    /\ env' = [env EXCEPT !.restarts = @ + 1]
    /\ node' = [node EXCEPT !.charge = Capacity, !.token = NoToken, !.lost = TRUE]
    /\ client' = [client EXCEPT !.conn = IF @ = "up" THEN "dead" ELSE @]
    /\ known' = FALSE
    /\ UNCHANGED <<h, ctx, session, syncStart, rpc, pc, applied>>

(* Once the lease is gone the node drops what it still charges. *)
NodeRecover ==
    /\ pc.rel = "done" /\ node.charge > 0
    /\ node' = [node EXCEPT !.charge = 0, !.token = NoToken]
    /\ UNCHANGED <<h, client, ctx, session, syncStart, rpc, pc, applied, env, known>>

-----------------------------------------------------------------------------
(* Cancellation of the run. *)

ParentCancel ==
    /\ ~ctx.parent
    /\ ctx' = [ctx EXCEPT !.parent = TRUE]
    /\ UNCHANGED <<h, client, node, session, syncStart, rpc, pc, applied, env, known>>

(* The AfterFunc cancels the lifetime under syncStartMu. *)
AfterParent ==
    /\ ctx.parent /\ ~ctx.lifetime /\ syncStart = Free
    /\ ctx' = [ctx EXCEPT !.lifetime = TRUE]
    /\ UNCHANGED <<h, client, node, session, syncStart, rpc, pc, applied, env, known>>

-----------------------------------------------------------------------------
(* Admit holds sessionMu over all its attempts. *)

AdmitReturns(result) ==
    /\ session' = Free
    /\ pc' = [pc EXCEPT !.main = result, !.hb = IF result = "idle" THEN "idle" ELSE "done"]

AdmitAttempt ==
    /\ pc.main = "start" /\ session \in {Free, "main"} /\ rpc = NoRPC
    /\ \/ /\ ctx.parent \/ ctx.lifetime
          /\ AdmitReturns("failed")
          /\ UNCHANGED <<client, rpc>>
       \/ /\ ~ctx.parent /\ ~ctx.lifetime
          /\ session' = "main"
          /\ client' = [client EXCEPT !.conn = IF @ = "none" THEN "up" ELSE @]
          /\ Send("main", "admit", InitialBudget, 0)
          /\ UNCHANGED pc
    /\ UNCHANGED <<h, node, ctx, syncStart, applied, env, known>>

AdmitAnswer ==
    /\ \/ /\ Gets("main", "admit", "rejected")
          /\ client' = [client EXCEPT !.token = NoToken]
          /\ AdmitReturns("failed")
          /\ UNCHANGED <<h, applied, known>>
       \/ /\ Gets("main", "admit", "ok")
          /\ client' = [client EXCEPT !.token = rpc.reply.token]
          /\ known' = (rpc.reply.token = node.token)
          /\ IF rpc.reply.new # InitialBudget
             THEN AdmitReturns("failed") /\ UNCHANGED <<h, applied>>
             ELSE /\ h' = [h EXCEPT !.admitted = TRUE, !.connected = TRUE, !.reservation = InitialBudget]
                  /\ applied' = InitialBudget
                  /\ AdmitReturns("idle")
       \/ /\ Fails("main", "admit")
          /\ client' = [client EXCEPT !.conn = "none"]
          /\ IF Cut("main", "admit") THEN AdmitReturns("failed") ELSE UNCHANGED <<session, pc>>
          /\ UNCHANGED <<h, applied>>
    /\ UNCHANGED <<node, ctx, syncStart>>

-----------------------------------------------------------------------------
(* The exchanges of a running sandbox. *)

markDisconnected(hooks) == [hooks EXCEPT !.connected = FALSE, !.wake = TRUE]

(* Settled records the fact before it takes the session. *)
Settled ==
    /\ pc.main = "idle" /\ pc.rel = "idle" /\ ~h.settled
    /\ h' = [h EXCEPT !.settled = TRUE]
    /\ pc' = [pc EXCEPT !.main = "settling"]
    /\ UNCHANGED <<client, node, ctx, session, syncStart, rpc, applied, env, known>>

SettledSend ==
    /\ pc.main = "settling" /\ session = Free
    /\ IF h.connected
       THEN /\ session' = "main" /\ Send("main", "settled", 0, 0)
            /\ pc' = [pc EXCEPT !.main = "exchange"] /\ UNCHANGED h
       ELSE /\ h' = [h EXCEPT !.wake = TRUE]
            /\ pc' = [pc EXCEPT !.main = "idle"] /\ UNCHANGED <<session, rpc>>
    /\ UNCHANGED <<client, node, ctx, syncStart, applied, env, known>>

(* A grow asks for more than the baseline; a shrink states the budget the
   sandbox has already fallen to and asks for nothing. *)
RequestBudget ==
    /\ pc.main = "idle" /\ pc.rel = "idle" /\ session = Free /\ env.moves < MaxMoves
    /\ env' = [env EXCEPT !.moves = @ + 1]
    /\ IF h.connected
       THEN /\ session' = "main"
            /\ \/ h.reservation < Capacity /\ Send("main", "budget", h.reservation, Capacity - h.reservation)
               \/ applied < h.reservation /\ Send("main", "budget", applied, 0)
            /\ pc' = [pc EXCEPT !.main = "exchange"] /\ UNCHANGED h
       ELSE h' = [h EXCEPT !.wake = TRUE] /\ UNCHANGED <<session, rpc, pc>>
    /\ UNCHANGED <<client, node, ctx, syncStart, applied, known>>

lostBaselineKept(request) == h.reservation

(* What is left of the baseline when the answer of a request is lost: a shrink
   is kept, a grow is not. *)
lostBaseline(request) ==
    IF request.delta = 0 /\ request.amount < h.reservation THEN request.amount ELSE h.reservation

exchangeEnds == session' = Free /\ pc' = [pc EXCEPT !.main = "idle"]

ExchangeAnswer ==
    /\ \E kind \in {"settled", "budget"} :
          \/ /\ Gets("main", kind, "ok")
             /\ h' = IF kind = "budget" THEN [h EXCEPT !.reservation = rpc.reply.new] ELSE h
             /\ UNCHANGED <<client, known>>
          \/ /\ \/ Gets("main", kind, "refused") /\ UNCHANGED known
                \/ Fails("main", kind)
             /\ h' = markDisconnected(IF kind = "budget"
                                      THEN [h EXCEPT !.reservation = lostBaseline(rpc)] ELSE h)
             /\ client' = [client EXCEPT !.conn = "none"]
    /\ exchangeEnds
    /\ UNCHANGED <<node, ctx, syncStart, applied>>

(* The memory controller moves inside what is reserved, between its requests. *)
Apply ==
    /\ pc.main = "idle" /\ pc.rel = "idle" /\ env.moves < MaxMoves
    /\ env' = [env EXCEPT !.moves = @ + 1]
    /\ applied' \in 1 .. h.reservation /\ applied' # applied
    /\ UNCHANGED <<h, client, node, ctx, session, syncStart, rpc, pc, known>>

heartbeatOnce ==
    /\ pc.hb = "idle" /\ session = Free
    /\ ~h.released /\ ~ctx.parent
    /\ IF h.connected
       THEN /\ session' = "hb" /\ Send("hb", "heartbeat", 0, 0)
            /\ pc' = [pc EXCEPT !.hb = "beat"] /\ UNCHANGED h
       ELSE h' = [h EXCEPT !.wake = TRUE] /\ UNCHANGED <<session, rpc, pc>>
    /\ UNCHANGED <<client, node, ctx, syncStart, applied, env, known>>

heartbeatAnswer ==
    /\ \/ /\ Gets("hb", "heartbeat", "ok") /\ rpc.reply.new = h.reservation
          /\ UNCHANGED <<h, client, known>>
       \/ /\ \/ Gets("hb", "heartbeat", "ok") /\ rpc.reply.new # h.reservation /\ UNCHANGED known
             \/ Gets("hb", "heartbeat", "refused") /\ UNCHANGED known
             \/ Fails("hb", "heartbeat")
          /\ h' = markDisconnected(h)
          /\ client' = [client EXCEPT !.conn = "none"]
    /\ session' = Free
    /\ pc' = [pc EXCEPT !.hb = "idle"]
    /\ UNCHANGED <<node, ctx, syncStart, applied>>

heartbeatEnds ==
    /\ pc.hb \in {"off", "idle"} /\ (h.released \/ ctx.parent)
    /\ pc' = [pc EXCEPT !.hb = "done"]
    /\ UNCHANGED <<h, client, node, ctx, session, syncStart, rpc, applied, env, known>>

-----------------------------------------------------------------------------
(* reconnectLoop *)

rcWait ==
    /\ pc.rc = "wait"
    /\ \/ ctx.lifetime /\ pc' = [pc EXCEPT !.rc = "done"] /\ UNCHANGED h
       \/ /\ h.wake
          /\ h' = [h EXCEPT !.wake = FALSE]
          /\ pc' = [pc EXCEPT !.rc = "try"]
    /\ UNCHANGED <<client, node, ctx, session, syncStart, rpc, applied, env, known>>

(* The state is looked at before sessionMu and again under it. *)
rcTry ==
    /\ pc.rc = "try"
    /\ \/ h.released /\ pc' = [pc EXCEPT !.rc = "done"] /\ UNCHANGED <<client, session>>
       \/ /\ ~h.released /\ (~h.admitted \/ h.connected)
          /\ pc' = [pc EXCEPT !.rc = "wait"] /\ UNCHANGED <<client, session>>
       \/ /\ ~h.released /\ h.admitted /\ ~h.connected /\ session = Free
          /\ IF ctx.lifetime
             THEN pc' = [pc EXCEPT !.rc = "retry"] /\ UNCHANGED <<client, session>>
             ELSE /\ session' = "rc"
                  /\ client' = [client EXCEPT !.conn = "up"]
                  /\ pc' = [pc EXCEPT !.rc = "gate"]
    /\ UNCHANGED <<h, node, ctx, syncStart, rpc, applied, env, known>>

(* Nothing may cancel the lifetime between this look and the write. *)
rcGate ==
    /\ pc.rc = "gate" /\ syncStart = Free
    /\ ctx' = [ctx EXCEPT !.lifetime = @ \/ ctx.parent]
    /\ IF ctx'.lifetime
       THEN session' = Free /\ pc' = [pc EXCEPT !.rc = "done"] /\ UNCHANGED syncStart
       ELSE syncStart' = "rc" /\ pc' = [pc EXCEPT !.rc = "write"] /\ UNCHANGED session
    /\ UNCHANGED <<h, client, node, rpc, applied, env, known>>

rcWrite ==
    /\ pc.rc = "write"
    /\ Send("rc", "sync", h.reservation, 0)
    /\ syncStart' = Free
    /\ pc' = [pc EXCEPT !.rc = "sync"]
    /\ UNCHANGED <<h, client, node, ctx, session, applied, env, known>>

rcAnswer ==
    /\ \/ /\ Gets("rc", "sync", "ok")
          /\ h' = [h EXCEPT !.connected = TRUE]
          /\ client' = [client EXCEPT !.token = rpc.reply.token]
          /\ known' = (rpc.reply.token = node.token)
          /\ pc' = [pc EXCEPT !.rc = "wait"]
       \/ /\ Fails("rc", "sync")
          /\ h' = [h EXCEPT !.connected = FALSE]
          /\ client' = [client EXCEPT !.conn = "none"]
          /\ pc' = [pc EXCEPT !.rc = "retry"]
    /\ session' = Free
    /\ UNCHANGED <<node, ctx, syncStart, applied>>

rcRetry ==
    /\ pc.rc = "retry"
    /\ \/ pc' = [pc EXCEPT !.rc = "try"] /\ ~ctx.lifetime
       \/ pc' = [pc EXCEPT !.rc = "done"] /\ (ctx.parent \/ ctx.lifetime)
    /\ UNCHANGED <<h, client, node, ctx, session, syncStart, rpc, applied, env, known>>

-----------------------------------------------------------------------------
(* Release *)

ReleaseStart ==
    /\ pc.rel = "idle" /\ pc.main \in {"idle", "failed"} /\ syncStart = Free
    /\ h' = [h EXCEPT !.released = TRUE]
    /\ ctx' = [ctx EXCEPT !.lifetime = TRUE]
    /\ pc' = [pc EXCEPT !.rel = "join"]
    /\ UNCHANGED <<client, node, session, syncStart, rpc, applied, env, known>>

Joined == pc.hb = "done" /\ pc.rc = "done"

(* Release of the client: a lost reply is tried once more, with the same token. *)
ReleaseSend ==
    /\ pc.rel \in {"join", "again"} /\ Joined /\ session \in {Free, "rel"} /\ rpc = NoRPC
    /\ IF client.token = NoToken
       THEN session' = Free /\ pc' = [pc EXCEPT !.rel = "lease"] /\ UNCHANGED <<client, rpc, env, known>>
       ELSE \/ /\ session' = "rel"
               /\ client' = [client EXCEPT !.conn = IF @ = "none" THEN "up" ELSE @]
               /\ Send("rel", "release", 0, 0)
               /\ pc' = [pc EXCEPT !.rel = IF @ = "join" THEN "first" ELSE "second"]
               /\ UNCHANGED <<env, known>>
            \/ /\ client.conn = "none" /\ env.faults < MaxFaults
               /\ env' = [env EXCEPT !.faults = @ + 1]
               /\ known' = FALSE
               /\ session' = Free /\ pc' = [pc EXCEPT !.rel = "lease"]
               /\ UNCHANGED <<client, rpc>>
    /\ UNCHANGED <<h, node, ctx, syncStart, applied>>

ReleaseAnswer ==
    /\ \/ /\ Gets("rel", "release", "ok")
          /\ client' = [client EXCEPT !.token = NoToken]
          /\ pc' = [pc EXCEPT !.rel = "lease"]
          /\ session' = Free
          /\ UNCHANGED known
       \/ /\ Fails("rel", "release")
          /\ client' = [client EXCEPT !.conn = "none"]
          /\ pc' = [pc EXCEPT !.rel = IF @ = "first" THEN "again" ELSE "lease"]
          /\ session' = IF pc.rel = "first" THEN "rel" ELSE Free
    /\ UNCHANGED <<h, node, ctx, syncStart, applied>>

(* The lease outlives the attempt to give the reservation back. *)
LeaseClose ==
    /\ pc.rel = "lease"
    /\ client' = [client EXCEPT !.conn = "none"]
    /\ pc' = [pc EXCEPT !.rel = "done"]
    /\ UNCHANGED <<h, node, ctx, session, syncStart, rpc, applied, env, known>>

Terminated == pc.rel = "done" /\ node.charge = 0 /\ UNCHANGED vars

Next ==
    \/ Node \/ NodeRestart \/ NodeRecover
    \/ ParentCancel \/ AfterParent
    \/ AdmitAttempt \/ AdmitAnswer
    \/ Settled \/ SettledSend \/ RequestBudget \/ ExchangeAnswer \/ Apply
    \/ heartbeatOnce \/ heartbeatAnswer \/ heartbeatEnds
    \/ rcWait \/ rcTry \/ rcGate \/ rcWrite \/ rcAnswer \/ rcRetry
    \/ ReleaseStart \/ ReleaseSend \/ ReleaseAnswer \/ LeaseClose
    \/ Terminated

Spec == Init /\ [][Next]_vars

-----------------------------------------------------------------------------
(* The memory the sandbox uses is always charged at the node, and a StateSync
   never takes back memory the node may have given to others: it states at
   least what is applied and at most what the node still charges. *)
ReservationCovers ==
    /\ h.admitted /\ ~h.released => applied <= h.reservation /\ applied <= node.charge
    /\ rpc.kind = "sync" => applied <= rpc.amount /\ rpc.amount <= node.charge

(* A Release whose exchanges were not lost leaves nothing charged, whatever was
   in flight when it came, and no StateSync charges the sandbox again: unless
   the last reply with a token was lost, the node charges nothing once the
   release attempt is over. *)
ReleaseReaches ==
    pc.rel \in {"lease", "done"} /\ known => node.charge = 0 /\ rpc = NoRPC
=============================================================================

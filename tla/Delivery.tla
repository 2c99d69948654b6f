------------------------------ MODULE Delivery ------------------------------
(***************************************************************************)
(* What the messaging runtime accepts before it runs: the configuration    *)
(* (normalizeConfig), what the modules contribute (BuildCatalog) and how   *)
(* the two fit (build, freeze); identities and physical names, which are   *)
(* only checked against a pattern or a length, are left out.               *)
(* What becomes of the copies of one message: a broker that redelivers and *)
(* counts, consumers that disappear with their connection, and an executor *)
(* that merges, claims and remembers runs of the handler by message ID.    *)
(* (messaging.go handle, rabbitmq.go consume and handleDelivery,           *)
(*  pkg/execution executor.go and memory.go)                               *)
(***************************************************************************)
EXTENDS Integers, FiniteSets

CONSTANTS
    Setups,    \* what is tried: [config, modules], with the contribution of every module
    Copies     \* copies of the message: a publish that was ambiguous is repeated

All(modules, kind) == UNION {modules[m][kind] : m \in DOMAIN modules}

\* Somebody consumes the message; limits and budgets are whole numbers.
ASSUME SetupsAssumption ==
    \A s \in Setups :
        /\ All(s.modules, "consumers") # {}
        /\ \A b \in All(s.modules, "consumers") : b.delivery.max \in Int
        /\ \A id \in DOMAIN s.config.routes : s.config.routes[id].limit \in Int

-----------------------------------------------------------------------------
(* The configuration; times are in seconds.                                *)

MaxOperation == 600      \* maxOperationTimeout and maxRecoveryBackoff
MaxEntries == 1000       \* maxConfiguredEntries
Importances == {"required", "optional"}

ValidTimes(t) ==
    /\ \A n \in {t.confirm, t.handoff, t.shutdown, t.connect} : 0 < n /\ n <= MaxOperation
    /\ 0 < t.initial /\ t.initial <= t.max /\ t.max <= MaxOperation

\* A heartbeat that is not positive gets the default.
ProviderValid(p) ==
    \/ p.driver = "rabbitmq" /\ p.uri # "" /\ p.heartbeat <= MaxOperation
                             /\ ~p.insecure /\ (p.certificate = "") = (p.key = "")
    \/ p.driver = "fake"

ReliableEnough(r) ==
    r.reliable => r.quorum /\ r.limit > 0 /\ 0 < r.retryMin /\ r.retryMin <= r.retryMax
                           /\ r.deadLetters # "" /\ r.atLeastOnce

RouteValid(c, r) ==
    /\ r.provider \in DOMAIN c.providers /\ r.routingKey # ""
    /\ r.importance \in Importances
    /\ ReliableEnough(r)

NormalizeConfig(c) ==
    /\ ValidTimes(c.times)
    /\ Cardinality(DOMAIN c.providers) <= MaxEntries /\ Cardinality(DOMAIN c.routes) <= MaxEntries
    /\ (DOMAIN c.providers # {}) = c.enabled /\ (DOMAIN c.routes # {}) = c.enabled
    /\ \A name \in DOMAIN c.providers : ProviderValid(c.providers[name])
    /\ \A id \in DOMAIN c.routes : RouteValid(c, c.routes[id])

-----------------------------------------------------------------------------
(* What the modules contribute, and the catalog of it all.                 *)

MaxPayload == 16 * 1048576   \* maxPayloadBytes
MaxBudget == 1000            \* maxDeliveries
MaxParallel == 10000         \* maxConsumerParallel

RefValid(ref) == ref.version > 0

ContractValid(a) ==
    /\ RefValid(a.ref) /\ a.contentType # "" /\ a.fingerprint # ""
    /\ 0 < a.size /\ a.size <= MaxPayload

\* The budget of deliveries and the windows of a consumer.
DeliveryPolicyValid(d) ==
    /\ 0 < d.max /\ d.max <= MaxBudget
    /\ 0 < d.timeout /\ d.timeout < d.lease /\ d.retention > 0
    /\ d.deadLetter = "required"

ConcurrencyValid(c) == 0 < c.slots /\ c.slots <= c.prefetch /\ c.prefetch <= MaxParallel

ProducerValid(b) == RefValid(b.contract) /\ b.confirm = "broker"

ConsumerValid(b) ==
    /\ RefValid(b.contract) /\ b.importance \in Importances
    /\ b.handler # "nil"
    /\ DeliveryPolicyValid(b.delivery) /\ ConcurrencyValid(b.concurrency)

\* Modules may share a contract, if they agree on it, but no binding.
SharedOnlyInOneForm(modules) ==
    \A a, b \in All(modules, "contracts") : a.ref = b.ref => a = b

Unique(modules, kind) ==
    \A m, n \in DOMAIN modules : \A a \in modules[m][kind], b \in modules[n][kind] :
        a.id = b.id => m = n /\ a = b

Used(modules) == {b.contract : b \in All(modules, "producers") \cup All(modules, "consumers")}

\* Every binding names a contract that is defined, and every contract is used.
BuildCatalog(modules) ==
    /\ \A a \in All(modules, "contracts") : ContractValid(a)
    /\ \A b \in All(modules, "producers") : ProducerValid(b)
    /\ \A b \in All(modules, "consumers") : ConsumerValid(b)
    /\ SharedOnlyInOneForm(modules)
    /\ Unique(modules, "producers") /\ Unique(modules, "consumers")
    /\ Used(modules) = {a.ref : a \in All(modules, "contracts")}

-----------------------------------------------------------------------------
(* The configuration and the catalog together.                             *)

\* By the drivers that are linked in.
Capabilities == [rabbitmq |-> {"publisherConfirm", "mandatoryRoute", "manualAck", "delayedRetry", "deadLetter"}]

Build(c) == \A name \in DOMAIN c.providers : c.providers[name].driver \in DOMAIN Capabilities

Resolved(c, b) == b.route \in DOMAIN c.routes /\ c.routes[b.route].provider \in DOMAIN c.providers
CanDo(c, b) == Capabilities[c.providers[c.routes[b.route].provider].driver]

\* Faulty freeze: the limit of the broker is taken for the whole budget.
BudgetIsLimit(route, b) == route.reliable => route.limit <= b.delivery.max

BudgetAgrees(route, b) == route.reliable => route.limit + 1 = b.delivery.max

Produced(c, b) == Resolved(c, b) /\ {"publisherConfirm", "mandatoryRoute"} \subseteq CanDo(c, b)

Bound(c, b) ==
    LET route == c.routes[b.route] IN
    /\ Resolved(c, b)
    /\ route.queue # "" /\ route.importance = b.importance
    /\ BudgetAgrees(route, b)
    /\ {"manualAck", "deadLetter"} \subseteq CanDo(c, b)
    /\ route.reliable => "delayedRetry" \in CanDo(c, b)

Freeze(c, modules) ==
    IF c.enabled
    THEN /\ \A b \in All(modules, "producers") : Produced(c, b)
         /\ \A b \in All(modules, "consumers") : Bound(c, b)
         /\ {b.route : b \in All(modules, "producers") \cup All(modules, "consumers")} = DOMAIN c.routes
    ELSE \A kind \in {"contracts", "producers", "consumers"} : All(modules, kind) = {}

Accepted(s) ==
    /\ NormalizeConfig(s.config) /\ BuildCatalog(s.modules)
    /\ Build(s.config) /\ Freeze(s.config, s.modules)

-----------------------------------------------------------------------------
VARIABLES
    setup,      \* the one in force
    place,      \* per copy: where the broker has it
    count,      \* per copy: x-delivery-count
    at,         \* per copy: where its delivery is, once the broker handed it out
    incoming,   \* per copy: the count it was delivered with
    disposition,\* per copy: what handle decided
    failed,     \* per copy: retryable failures the broker was told of
    permanent,  \* per copy: it failed for good
    store,      \* the key in the execution store: "free", "running", "done"
    flight,     \* copies whose Execute waits for the run in progress (singleflight)
    deliverable \* the session is up and the consumer active

deliveryVars == <<setup, place, count, at, incoming, disposition, failed, permanent, store, flight, deliverable>>

TheConsumer == CHOOSE b \in All(setup.modules, "consumers") : TRUE
TheRoute == setup.config.routes[TheConsumer.route]
MaxDeliveries == TheConsumer.delivery.max

Dispositions == {"none", "ack", "retry", "defer", "dead"}

DeliveryTypeOK ==
    /\ place \in [Copies -> {"none", "queue", "out", "acked", "dead"}]
    /\ at \in [Copies -> {"none", "begin", "claim", "flight", "decided"}]
    /\ \A c \in Copies : count[c] <= MaxDeliveries /\ incoming[c] <= count[c]
    /\ disposition \in [Copies -> Dispositions]
    /\ store \in {"free", "running", "done"} /\ flight \subseteq Copies
    /\ failed \in [Copies -> 0..MaxDeliveries]

Decide(C, d) ==
    /\ disposition' = [c \in Copies |-> IF c \in C THEN d ELSE disposition[c]]
    /\ at' = [c \in Copies |-> IF c \in C THEN "decided" ELSE at[c]]

-----------------------------------------------------------------------------
(* handle and Execute.                                                     *)

Arrive(c) ==
    /\ place[c] = "none"
    /\ place' = [place EXCEPT ![c] = "queue"]
    /\ UNCHANGED <<setup, count, at, incoming, disposition, failed, permanent, store, flight, deliverable>>

\* The broker hands a copy out; decodeDelivery finds the envelope in order.
Deliver(c) ==
    /\ deliverable /\ place[c] = "queue"
    /\ place' = [place EXCEPT ![c] = "out"] /\ at' = [at EXCEPT ![c] = "begin"]
    /\ incoming' = [incoming EXCEPT ![c] = count[c]]
    /\ UNCHANGED <<setup, count, disposition, failed, permanent, store, flight, deliverable>>

\* Execute asks the store whether the message is completed.
Begin(c) ==
    /\ at[c] = "begin"
    /\ IF store = "done"
       THEN Decide({c}, "ack")
       ELSE at' = [at EXCEPT ![c] = "claim"] /\ UNCHANGED disposition
    /\ UNCHANGED <<setup, place, count, incoming, failed, permanent, store, flight, deliverable>>

\* The consumer is not active, or the store cannot be asked.
Unasked(c) ==
    /\ at[c] = "begin"
    /\ Decide({c}, "defer")
    /\ UNCHANGED <<setup, place, count, incoming, failed, permanent, store, flight, deliverable>>

\* The first one claims the key and runs; others join its flight.
Claim(c) ==
    /\ at[c] = "claim"
    /\ CASE flight # {} -> /\ flight' = flight \cup {c} /\ at' = [at EXCEPT ![c] = "flight"]
                           /\ UNCHANGED <<store, disposition>>
         [] flight = {} /\ store = "free" ->
                           /\ store' = "running" /\ flight' = {c} /\ at' = [at EXCEPT ![c] = "flight"]
                           /\ UNCHANGED disposition
         [] OTHER ->       Decide({c}, "defer") /\ UNCHANGED <<store, flight>>
    /\ UNCHANGED <<setup, place, count, incoming, failed, permanent, deliverable>>

\* The handler succeeded; all that share the run are told so.
Succeeds ==
    /\ flight # {}
    /\ store' = "done" /\ Decide(flight, "ack") /\ flight' = {}
    /\ UNCHANGED <<setup, place, count, incoming, failed, permanent, deliverable>>

\* Complete fails, for one because the session's context is canceled: the claim
\* stays, and the handler will succeed once more.
SucceedsUnwritten ==
    /\ flight # {}
    /\ Decide(flight, "defer") /\ flight' = {}
    /\ UNCHANGED <<setup, place, count, incoming, failed, permanent, store, deliverable>>

\* The budget counts the delivery at hand, which the broker does not.
Spent(c) == incoming[c] + 1 >= MaxDeliveries

\* A failure that may pass, or the handler's own timeout.
FailsForNow ==
    /\ flight # {}
    /\ disposition' = [c \in Copies |->
          IF c \in flight THEN IF Spent(c) THEN "dead" ELSE "retry" ELSE disposition[c]]
    /\ at' = [c \in Copies |-> IF c \in flight THEN "decided" ELSE at[c]]
    /\ store' = "free" /\ flight' = {}
    /\ UNCHANGED <<setup, place, count, incoming, failed, permanent, deliverable>>

\* A panic, or an error that is not retryable.
FailsForGood ==
    /\ flight # {}
    /\ Decide(flight, "dead")
    /\ permanent' = [c \in Copies |-> permanent[c] \/ c \in flight]
    /\ store' = "free" /\ flight' = {}
    /\ UNCHANGED <<setup, place, count, incoming, failed, deliverable>>

\* The session's context ends under the handler: Release fails with it.
Interrupted ==
    /\ flight # {} /\ ~deliverable
    /\ Decide(flight, "defer") /\ flight' = {}
    /\ UNCHANGED <<setup, place, count, incoming, failed, permanent, store, deliverable>>

-----------------------------------------------------------------------------
(* handleDelivery, and the broker.                                         *)

\* What a reject with requeue does in a queue with a delivery limit.
Requeued(c) == IF TheRoute.reliable /\ count[c] >= TheRoute.limit THEN "dead" ELSE "queue"

Settle(c) ==
    /\ at[c] = "decided" /\ deliverable /\ place[c] = "out"
    /\ CASE disposition[c] = "ack"   -> place' = [place EXCEPT ![c] = "acked"] /\ UNCHANGED <<count, failed>>
         [] disposition[c] = "defer" -> place' = [place EXCEPT ![c] = "queue"] /\ UNCHANGED <<count, failed>>
         [] disposition[c] = "retry" ->
              /\ place' = [place EXCEPT ![c] = Requeued(c)]
              /\ count' = [count EXCEPT ![c] = @ + 1] /\ failed' = [failed EXCEPT ![c] = @ + 1]
         [] disposition[c] = "dead"  ->
              /\ place' = [place EXCEPT ![c] = "dead"] /\ failed' = [failed EXCEPT ![c] = @ + 1]
              /\ UNCHANGED count
    /\ at' = [at EXCEPT ![c] = "none"] /\ disposition' = [disposition EXCEPT ![c] = "none"]
    /\ UNCHANGED <<setup, incoming, permanent, store, flight, deliverable>>

\* The connection is gone: what was decided does not arrive.
SettleLost(c) ==
    /\ at[c] = "decided" /\ ~deliverable
    /\ at' = [at EXCEPT ![c] = "none"] /\ disposition' = [disposition EXCEPT ![c] = "none"]
    /\ permanent' = [permanent EXCEPT ![c] = FALSE]
    /\ UNCHANGED <<setup, place, count, incoming, failed, store, flight, deliverable>>

Disconnect ==
    /\ deliverable
    /\ deliverable' = FALSE
    /\ UNCHANGED <<setup, place, count, at, incoming, disposition, failed, permanent, store, flight>>

\* A new session consumes once the handlers of the old one are gone; what was
\* handed out and not settled is queued again.
Reconnect ==
    /\ ~deliverable /\ \A c \in Copies : at[c] = "none"
    /\ deliverable' = TRUE
    /\ place' = [c \in Copies |-> IF place[c] = "out" THEN "queue" ELSE place[c]]
    /\ UNCHANGED <<setup, count, at, incoming, disposition, failed, permanent, store, flight>>

\* The lease of a claim whose run is over lapses, or that of the run itself:
\* it is longer than the handler's timeout, so only the former.
ClaimLapses ==
    /\ store = "running" /\ flight = {}
    /\ store' = "free"
    /\ UNCHANGED <<setup, place, count, at, incoming, disposition, failed, permanent, flight, deliverable>>

-----------------------------------------------------------------------------
DeliveryInit ==
    /\ setup \in {s \in Setups : Accepted(s)}
    /\ place = [c \in Copies |-> "none"] /\ count = [c \in Copies |-> 0]
    /\ at = [c \in Copies |-> "none"] /\ incoming = [c \in Copies |-> 0]
    /\ disposition = [c \in Copies |-> "none"]
    /\ failed = [c \in Copies |-> 0] /\ permanent = [c \in Copies |-> FALSE]
    /\ store = "free" /\ flight = {} /\ deliverable = TRUE

Ends == Succeeds \/ FailsForNow \/ FailsForGood
Handles(c) == Begin(c) \/ Claim(c) \/ SettleLost(c)

DeliveryNext ==
    \/ \E c \in Copies : Arrive(c) \/ Deliver(c) \/ Handles(c) \/ Unasked(c) \/ Settle(c)
    \/ Ends \/ SucceedsUnwritten \/ Interrupted \/ Disconnect \/ Reconnect \/ ClaimLapses

DeliverySpec == DeliveryInit /\ [][DeliveryNext]_deliveryVars

-----------------------------------------------------------------------------
(* Properties.                                                             *)

\* A copy is dead-lettered when its handler failed for good, or after exactly
\* MaxDeliveries failures the broker was told of: connections that break,
\* deferrals and a broker that counts redeliveries never take one of them away,
\* whichever accepted setup is in force (handle and freeze, messaging.go:325,605).
DeadLetterIsEarned ==
    \A c \in Copies :
        /\ place[c] = "dead" => permanent[c] \/ failed[c] = MaxDeliveries
        /\ place[c] # "dead" => failed[c] < MaxDeliveries

\* Once the connection holds for good every copy is settled, also one whose twin
\* was handled first, and one that finds a claim left behind by a run whose end
\* could not be written (Execute, executor.go:29-60).
CopySettles ==
    <>[]deliverable => \A c \in Copies : place[c] = "queue" ~> place[c] \in {"acked", "dead"}

\* Both: no copy is dead-lettered too early or tried too often, and none is
\* delivered for ever.
DeliveryIsSound == [](DeliveryTypeOK /\ DeadLetterIsEarned) /\ CopySettles
=============================================================================

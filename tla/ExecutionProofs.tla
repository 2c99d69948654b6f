--------------------------- MODULE ExecutionProofs ---------------------------
(***************************************************************************)
(* Theorems about what is written and kept: the execution capability over  *)
(* its recovering store, for any number of workers, recorders, keys and    *)
(* faults; the transactions of the database, for any number of callers;    *)
(* and the storage, for any number of watches, operations and checks.      *)
(***************************************************************************)
EXTENDS Transactions, Execution, Storage, TLAPS

-----------------------------------------------------------------------------
(* The operators that steps are made of.                                   *)

Ops == Writes \cup {"isCompleted", "claim"}
ActivePcs == {"primary", "degrade", "local", "enqueue", "blocked"}

LEMMA EffectFacts ==
    ASSUME NEW o \in Ops, NEW status \in ClaimStates
    PROVE  /\ Effect(o, status) \in ClaimStates
           /\ status = "completed" => Effect(o, status) = "completed"
           /\ o = "complete" => Effect(o, status) = "completed"
           /\ o = "release" => Effect(o, status) # "running"
           /\ o # "claim" /\ status # "running" => Effect(o, status) # "running"
BY DEF Effect, Ops, Writes, ClaimStates

LEMMA AnswerType ==
    ASSUME NEW o, NEW status
    PROVE  Answer(o, status) \in {"yes", "no"}
BY DEF Answer

LEMMA AppliedFacts ==
    ASSUME NEW store \in [Keys -> ClaimStates], NEW r \in Requests
    PROVE  /\ Applied(store, r) \in [Keys -> ClaimStates]
           /\ \A k \in Keys :
                Applied(store, r)[k] = IF k = r.key THEN Effect(r.op, store[k]) ELSE store[k]
<1>1. r.key \in Keys /\ r.op \in Ops
  BY DEF Requests, Ops
<1>2. Effect(r.op, store[r.key]) \in ClaimStates
  BY <1>1, EffectFacts
<1>3. QED
  BY <1>1, <1>2 DEF Applied

LEMMA CallFacts ==
    ASSUME TypeOK, NEW p \in Callers, NEW o \in Ops, NEW k \in Keys, NEW expired \in BOOLEAN,
           CallWith(p, o, k, expired)
    PROVE  /\ request' \in [Callers -> Requests]
           /\ callPc' \in [Callers -> {"idle", "primary", "degrade", "local", "enqueue",
                                       "blocked", "returned"}]
           /\ result' \in [Callers -> {"none", "yes", "no", "error"}]
           /\ request'[p].op = o /\ request'[p].key = k
           /\ callPc'[p] \in {"primary", "local", "returned"}
           /\ callPc'[p] = "returned" => result'[p] = "error"
           /\ \A q \in Callers : q # p => /\ request'[q] = request[q]
                                          /\ callPc'[q] = callPc[q] /\ result'[q] = result[q]
           /\ UNCHANGED restOfStore
<1>1. [op |-> o, key |-> k] \in Requests
  BY DEF Requests, Ops
<1>2. QED
  BY <1>1 DEF CallWith, Return, TypeOK, StoreTypeOK, restOfStore

\* Where a worker stands after another worker has moved.
Stays(v) == pc'[v] = pc[v] /\ request'[v] = request[v]
SentHome(v) == pc[v] = "joined" /\ pc'[v] = "idle"

LEMMA NoRequestType == NoRequest \in Requests
BY ExecutionAssumption DEF NoRequest, Requests, Writes

LEMMA FinishFacts ==
    ASSUME TypeOK, NEW w \in Workers, Finish(w)
    PROVE  /\ pc' \in [Workers -> {"idle", "checking", "joined"} \cup FlightPcs]
           /\ ended' \in [Callers -> BOOLEAN]
           /\ request' \in [Callers -> Requests]
           /\ pc'[w] = "idle"
           /\ \A v \in Workers \ {w} : Stays(v) \/ SentHome(v)
           /\ \A p \in Callers \ Workers : request'[p] = request[p]
<1> DEFINE back == {w} \cup {v \in Workers : /\ pc[w] \in FlightPcs /\ pc[v] = "joined"
                                             /\ Key(v) = Key(w)}
<1>1. back \subseteq Workers /\ w \in back /\ \A v \in back \ {w} : pc[v] = "joined"
  OBVIOUS
<1>2. /\ pc' = [v \in Workers |-> IF v \in back THEN "idle" ELSE pc[v]]
      /\ ended' = [p \in Callers |-> IF p \in back THEN FALSE ELSE ended[p]]
      /\ request' = [p \in Callers |-> IF p \in back THEN NoRequest ELSE request[p]]
  BY DEF Finish
<1> HIDE DEF back
<1>3. Workers \subseteq Callers
  BY ExecutionAssumption
<1>4. QED
  BY <1>1, <1>2, <1>3, NoRequestType DEF TypeOK, StoreTypeOK, Stays, SentHome

-----------------------------------------------------------------------------
(* What the steps of a worker have in common.                              *)

OthersStay(w) ==
    /\ \A p \in Callers \ {w} : callPc'[p] = callPc[p] /\ result'[p] = result[p]
    /\ \A p \in Callers \ Workers : request'[p] = request[p]
    /\ \A v \in Workers \ {w} : Stays(v) \/ SentHome(v)
    /\ UNCHANGED <<overflow, dropped, primary, buffered, loop, asyncOverflow, recorderPc, stopPc>>

WorkerTypes ==
    /\ pc' \in [Workers -> {"idle", "checking", "joined"} \cup FlightPcs]
    /\ request' \in [Callers -> Requests]
    /\ callPc' \in [Callers -> {"idle", "primary", "degrade", "local", "enqueue",
                                "blocked", "returned"}]
    /\ result' \in [Callers -> {"none", "yes", "no", "error"}]
    /\ ended' \in [Callers -> BOOLEAN]
    /\ UNCHANGED <<restOfStore, asyncOverflow, recorderPc, stopPc>>

LEMMA KeyType ==
    ASSUME TypeOK, NEW w \in Workers
    PROVE  w \in Callers /\ Key(w) \in Keys /\ ended[w] \in BOOLEAN
BY ExecutionAssumption DEF TypeOK, StoreTypeOK, Key, Requests

\* A worker begins a call of the store.
LEMMA BeginsCall ==
    ASSUME TypeOK, NEW w \in Workers, NEW o \in Ops, NEW k \in Keys, NEW expired \in BOOLEAN,
           NEW next \in {"checking", "claiming", "completing", "releasing", "syncing", "detached"},
           CallWith(w, o, k, expired), Advance(w, next),
           ended' \in [Callers -> BOOLEAN], UNCHANGED <<asyncOverflow, recorderPc, stopPc>>
    PROVE  /\ OthersStay(w) /\ WorkerTypes
           /\ pc'[w] = next /\ callPc'[w] # "idle" /\ callPc'[w] \notin {"enqueue", "blocked"}
           /\ request'[w].op = o /\ Key(w)' = k
           /\ callPc'[w] = "returned" => result'[w] = "error"
<1>1. w \in Callers /\ Workers \subseteq Callers
  BY ExecutionAssumption
<1>2. /\ pc' \in [Workers -> {"idle", "checking", "joined"} \cup FlightPcs]
      /\ pc'[w] = next
      /\ \A v \in Workers \ {w} : pc'[v] = pc[v]
  BY DEF Advance, TypeOK, FlightPcs
<1>3. QED
  BY <1>1, <1>2, CallFacts DEF OthersStay, WorkerTypes, Stays, Key, restOfStore

\* A worker moves on without a call, perhaps ending one that has returned.
LEMMA MovesOn ==
    ASSUME TypeOK, NEW w \in Workers,
           NEW next \in {"joined", "recording", "waiting"},
           Advance(w, next), StoreReturned(w) \/ UNCHANGED <<callPc, result>>,
           UNCHANGED <<restOfStore, request, ended, asyncOverflow, recorderPc, stopPc>>
    PROVE  /\ OthersStay(w) /\ WorkerTypes
           /\ pc'[w] = next /\ Key(w)' = Key(w)
<1>1. w \in Callers /\ Workers \subseteq Callers
  BY ExecutionAssumption
<1>2. QED
  BY <1>1 DEF Advance, StoreReturned, OthersStay, WorkerTypes, Stays, Key, restOfStore, TypeOK,
              StoreTypeOK, FlightPcs

\* Execute returns.
LEMMA GoesHome ==
    ASSUME TypeOK, NEW w \in Workers,
           Finish(w), StoreReturned(w) \/ UNCHANGED <<callPc, result>>,
           UNCHANGED <<restOfStore, asyncOverflow, recorderPc, stopPc>>
    PROVE  OthersStay(w) /\ WorkerTypes /\ pc'[w] = "idle"
<1>1. w \in Callers /\ Workers \subseteq Callers
  BY ExecutionAssumption
<1>2. QED
  BY ZenonT(30), <1>1, FinishFacts DEF StoreReturned, OthersStay, WorkerTypes, restOfStore, TypeOK, StoreTypeOK

-----------------------------------------------------------------------------
(* The parts of the invariant after a step of a worker.                    *)

CallPcs == {"checking", "claiming", "completing", "releasing", "syncing", "detached"}

LEMMA CallOfFacts ==
    /\ DOMAIN CallOf = CallPcs
    /\ CallOf["checking"] = "isCompleted" /\ CallOf["claiming"] = "claim"
    /\ CallOf["completing"] = "complete" /\ CallOf["releasing"] = "release"
    /\ CallOf["syncing"] = "record" /\ CallOf["detached"] = "record"
BY DEF CallOf, CallPcs

LEMMA WorkerCalls ==
    ASSUME EffectsInv, NEW w \in Workers, OthersStay(w),
           callPc'[w] # "idle" <=> pc'[w] \in CallPcs,
           pc'[w] \in CallPcs => request'[w].op = CallOf[pc'[w]],
           callPc'[w] \notin {"enqueue", "blocked"}
    PROVE  CallsInv'
<1>0. Workers \subseteq Callers /\ Callers = Workers \cup Recorders /\ Workers \cap Recorders = {}
  BY ExecutionAssumption
<1>1. ASSUME NEW v \in Workers
      PROVE  /\ callPc'[v] # "idle" <=> pc'[v] \in DOMAIN CallOf
             /\ pc'[v] \in DOMAIN CallOf => request'[v].op = CallOf[pc'[v]]
  <2>1. CASE v = w
    BY <2>1, CallOfFacts
  <2>2. CASE v # w
    BY <1>0, <2>2, CallOfFacts DEF OthersStay, Stays, SentHome, EffectsInv, CallsInv, CallPcs
  <2>3. QED
    BY <2>1, <2>2
<1>2. ASSUME NEW r \in Recorders
      PROVE  /\ callPc'[r] # "idle" => recorderPc'[r] = "writing"
             /\ recorderPc'[r] = "writing" => request'[r].op = "record"
  BY <1>0 DEF OthersStay, EffectsInv, CallsInv
<1>3. ASSUME NEW p \in Callers, callPc'[p] \in {"enqueue", "blocked"}
      PROVE  request'[p].op \in Writes
  <2>1. p # w /\ callPc'[p] = callPc[p]
    BY <1>3 DEF OthersStay
  <2>2. p \in Workers => pc[p] \in CallPcs
    BY <1>3, <2>1, CallOfFacts DEF EffectsInv, CallsInv
  <2>3. request'[p] = request[p]
    BY <1>0, <2>1, <2>2 DEF OthersStay, Stays, SentHome, CallPcs
  <2>4. QED
    BY <1>3, <2>1, <2>3 DEF EffectsInv, CallsInv
<1>4. QED
  BY <1>1, <1>2, <1>3 DEF CallsInv

LEMMA WorkerFlights ==
    ASSUME EffectsInv, NEW w \in Workers, OthersStay(w),
           pc'[w] \in FlightPcs => Key(w)' = Key(w) /\ (pc[w] \in FlightPcs \/ ~InFlight(Key(w)))
    PROVE  FlightsInv'
<1>1. \A v \in Workers : v # w /\ pc'[v] \in FlightPcs => pc[v] \in FlightPcs /\ Key(v)' = Key(v)
  BY DEF OthersStay, Stays, SentHome, Key, FlightPcs
<1>2. QED
  BY <1>1 DEF EffectsInv, FlightsInv, InFlight

LEMMA HoldsFrame ==
    ASSUME UNCHANGED <<primary, buffered, loop>>, NEW k
    PROVE  HoldsCompletion(k)' = HoldsCompletion(k) /\ HoldsEnd(k)' = HoldsEnd(k)
BY DEF HoldsCompletion, HoldsEnd, Outstanding

ClaimPcs == {"claiming", "completing", "releasing"}

\* A worker is told of nothing it has not got, or of what was dropped for it.
Loses(w) == losses' = losses \/ (Discarded(w) /\ losses' = [losses EXCEPT ![w] = @ + 1])

LEMMA CountsFacts ==
    ASSUME EffectsInv, NEW w \in Workers
    PROVE  /\ losses \in [Workers -> Nat] /\ losses[w] \in Nat /\ dropped[w] \in Nat
           /\ losses[w] <= dropped[w] /\ (overflow # "discard" => losses[w] = 0)
<1>1. w \in Callers
  BY ExecutionAssumption
<1>2. QED
  BY <1>1 DEF EffectsInv, TypeOK, StoreTypeOK, KeptInv, LossesAreCounted

LEMMA WorkerCounts ==
    ASSUME EffectsInv, NEW w \in Workers, Loses(w), UNCHANGED <<overflow, dropped>>
    PROVE  /\ losses' \in [Workers -> Nat]
           /\ LossesAreCounted'
           /\ \A v \in Workers \ {w} : Discarded(v) => Discarded(v)'
<1>1. CASE losses' = losses
  <2>1. losses' \in [Workers -> Nat]
    BY <1>1, CountsFacts
  <2>2. QED
    BY <1>1, <2>1, CountsFacts DEF LossesAreCounted, Discarded
<1>2. CASE Discarded(w) /\ losses' = [losses EXCEPT ![w] = @ + 1]
  <2>1. losses \in [Workers -> Nat] /\ losses[w] \in Nat /\ dropped[w] \in Nat
    BY CountsFacts
  <2>2. losses' \in [Workers -> Nat]
    BY <1>2, <2>1
  <2>3. losses'[w] <= dropped[w] /\ overflow = "discard"
    BY <1>2, <2>1 DEF Discarded
  <2>4. \A v \in Workers \ {w} : losses'[v] = losses[v]
    BY <1>2, <2>1
  <2>5. ASSUME NEW v \in Workers
        PROVE  losses'[v] <= dropped'[v] /\ (overflow' # "discard" => losses'[v] = 0)
    BY <2>3, <2>4, CountsFacts
  <2>6. QED
    BY <2>2, <2>4, <2>5 DEF LossesAreCounted, Discarded
<1>3. QED
  BY <1>1, <1>2 DEF Loses

LEMMA WorkerKept ==
    ASSUME EffectsInv, NEW w \in Workers, OthersStay(w), Loses(w),
           \A k \in promised' : k \in promised \/ (k = Key(w) /\ HoldsCompletion(k)),
           ~(callPc'[w] = "returned" /\ result'[w] = "yes") \/ pc'[w] \notin {"completing", "releasing"},
           \A k \in Keys : k # Key(w) => flightEnd'[k] = flightEnd[k],
           flightEnd'[Key(w)] = "clean" =>
                \/ HoldsEnd(Key(w))
                \/ /\ flightEnd[Key(w)] = "clean"
                   /\ pc[w] \in ClaimPcs => pc'[w] \in ClaimPcs /\ Key(w)' = Key(w)
    PROVE  KeptInv'
<1>0. Workers \subseteq Callers
  BY ExecutionAssumption
<1>1. UNCHANGED <<primary, buffered, loop>>
  BY DEF OthersStay
<1>2. \A k : HoldsCompletion(k)' = HoldsCompletion(k) /\ HoldsEnd(k)' = HoldsEnd(k)
  BY <1>1, HoldsFrame
<1>3. loop' = "replayed" => buffered' # <<>>
  BY <1>1 DEF EffectsInv, KeptInv
<1>4. \A k \in promised' : HoldsCompletion(k)'
  BY <1>2 DEF EffectsInv, KeptInv
<1>5. ASSUME NEW v \in Workers, Acknowledged(v, {"completing", "releasing"})'
      PROVE  /\ Acknowledged(v, {"completing", "releasing"})
             /\ pc'[v] = "completing" => Acknowledged(v, {"completing"})
             /\ Key(v)' = Key(v)
  <2>1. v # w
    BY <1>5 DEF Acknowledged
  <2>2. Stays(v) /\ callPc'[v] = callPc[v] /\ result'[v] = result[v]
    BY <1>0, <1>5, <2>1 DEF OthersStay, SentHome, Acknowledged
  <2>3. QED
    BY <1>5, <2>2 DEF Acknowledged, Stays, Key
<1>6. \A v \in Workers : v # w /\ Discarded(v) => Discarded(v)'
  BY WorkerCounts DEF OthersStay
<1>7. ASSUME NEW v \in Workers, Acknowledged(v, {"completing", "releasing"})'
      PROVE  /\ pc'[v] = "completing" => HoldsCompletion(Key(v))' \/ Discarded(v)'
             /\ pc'[v] = "releasing" => HoldsEnd(Key(v))' \/ Discarded(v)'
  <2>1. v # w
    BY <1>7 DEF Acknowledged
  <2>2. /\ pc'[v] = "completing" => Acknowledged(v, {"completing"})
        /\ pc'[v] = "releasing" => Acknowledged(v, {"releasing"})
        /\ Key(v)' = Key(v)
    BY <1>0, <1>5, <1>7, <2>1 DEF OthersStay, Stays, SentHome, Acknowledged
  <2>3. /\ pc'[v] = "completing" => HoldsCompletion(Key(v)) \/ Discarded(v)
        /\ pc'[v] = "releasing" => HoldsEnd(Key(v)) \/ Discarded(v)
    BY <2>2 DEF EffectsInv, KeptInv
  <2>4. QED
    BY <1>2, <1>6, <2>1, <2>2, <2>3
<1>8. ASSUME NEW k \in Keys, flightEnd'[k] = "clean", ~Claimed(k)' PROVE HoldsEnd(k)'
  <2>1. \A v \in Workers : v # w /\ pc[v] \in ClaimPcs => pc'[v] \in ClaimPcs /\ Key(v)' = Key(v)
    BY DEF OthersStay, Stays, SentHome, Key, ClaimPcs
  <2>2. CASE k # Key(w)
    <3>1. ~Claimed(k)
      BY <1>8, <2>1, <2>2 DEF Claimed, ClaimPcs
    <3>2. QED
      BY <1>2, <1>8, <2>2, <3>1 DEF EffectsInv, KeptInv
  <2>3. CASE k = Key(w) /\ HoldsEnd(k)
    BY <1>2, <2>3
  <2>4. CASE /\ k = Key(w) /\ flightEnd[k] = "clean"
             /\ pc[w] \in ClaimPcs => pc'[w] \in ClaimPcs /\ Key(w)' = Key(w)
    <3>1. ~Claimed(k)
      BY <1>8, <2>1, <2>4 DEF Claimed, ClaimPcs
    <3>2. QED
      BY <1>2, <1>8, <2>4, <3>1 DEF EffectsInv, KeptInv
  <2>5. QED
    BY <1>8, <2>2, <2>3, <2>4
<1>9. LossesAreCounted'
  BY WorkerCounts DEF OthersStay
<1>10. \A v \in Workers : Acknowledged(v, {"completing"})' =>
            Acknowledged(v, {"completing", "releasing"})' /\ pc'[v] = "completing"
  BY DEF Acknowledged
<1>11. \A v \in Workers : Acknowledged(v, {"releasing"})' =>
            Acknowledged(v, {"completing", "releasing"})' /\ pc'[v] = "releasing"
  BY DEF Acknowledged
<1>12. QED
  BY <1>3, <1>4, <1>7, <1>8, <1>9, <1>10, <1>11 DEF KeptInv

LEMMA WorkerDrained ==
    ASSUME EffectsInv, NEW w \in Workers, OthersStay(w),
           pc'[w] = "waiting" => asyncOverflow = "block",
           queue' = queue \/ stopPc = "serving" \/ asyncOverflow = "block"
    PROVE  DrainedInv'
<1>1. \A v \in Workers : v # w /\ pc'[v] = "waiting" => pc[v] = "waiting"
  BY DEF OthersStay, Stays, SentHome
<1>2. QED
  BY <1>1 DEF EffectsInv, DrainedInv, OthersStay

LEMMA WorkerTypeOK ==
    ASSUME EffectsInv, WorkerTypes,
           executions' \in 0..MaxExecutions,
           queue' = queue \/ (Len(queue) < QueueCapacity /\ \E k \in Keys : queue' = Append(queue, k)),
           promised' \subseteq Keys,
           flightEnd' \in [Keys -> {"none", "clean", "unclean"}],
           losses' \in [Workers -> Nat]
    PROVE  TypeOK'
<1>1. queue' \in Seq(Keys) /\ Len(queue') <= QueueCapacity
  <2>1. queue \in Seq(Keys) /\ Len(queue) <= QueueCapacity /\ Len(queue) \in Nat /\ QueueCapacity \in Nat
    BY ExecutionAssumption DEF EffectsInv, TypeOK
  <2>2. QED
    BY <2>1
<1>2. StoreTypeOK'
  BY DEF EffectsInv, TypeOK, StoreTypeOK, WorkerTypes, restOfStore
<1>3. QED
  BY <1>1, <1>2 DEF EffectsInv, TypeOK, WorkerTypes

-----------------------------------------------------------------------------
(* A worker's steps.                                                       *)

\* A call is begun, in or out of a flight.
LEMMA BeginsCallStep ==
    ASSUME EffectsInv, NEW w \in Workers, NEW k \in Keys, NEW expired \in BOOLEAN,
           NEW next \in CallPcs,
           CallWith(w, CallOf[next], k, expired), Advance(w, next),
           ended' \in [Callers -> BOOLEAN],
           UNCHANGED <<asyncOverflow, recorderPc, stopPc, queue, promised, flightEnd, losses>>,
           executions' \in 0..MaxExecutions,
           next \in FlightPcs => k = Key(w) /\ (pc[w] \in FlightPcs \/ ~InFlight(Key(w))),
           pc[w] \in ClaimPcs => next \in ClaimPcs
    PROVE  EffectsInv'
<1>1. CallOf[next] \in Ops
  BY CallOfFacts DEF CallPcs, Ops, Writes
<1>2. /\ OthersStay(w) /\ WorkerTypes
      /\ pc'[w] = next /\ callPc'[w] # "idle" /\ callPc'[w] \notin {"enqueue", "blocked"}
      /\ request'[w].op = CallOf[next] /\ Key(w)' = k
      /\ callPc'[w] = "returned" => result'[w] = "error"
  BY <1>1, BeginsCall DEF EffectsInv, CallPcs
<1>3. CallsInv'
  BY <1>2, WorkerCalls
<1>4. FlightsInv'
  BY <1>2, WorkerFlights
<1>5. KeptInv'
  <2>1. ClaimPcs \subseteq FlightPcs
    BY DEF ClaimPcs, FlightPcs
  <2>2. Loses(w)
    BY DEF Loses
  <2>3. QED
    BY <1>2, <2>1, <2>2, WorkerKept
<1>6. DrainedInv'
  BY <1>2, WorkerDrained DEF CallPcs
<1>7. TypeOK'
  BY <1>2, WorkerTypeOK DEF EffectsInv, TypeOK
<1>8. QED
  BY <1>3, <1>4, <1>5, <1>6, <1>7 DEF EffectsInv

\* A worker moves on, or Execute returns.
LEMMA EndsCallStep ==
    ASSUME EffectsInv, NEW w \in Workers, OthersStay(w), WorkerTypes, Loses(w),
           pc'[w] \in {"idle", "joined", "recording", "waiting"},
           callPc'[w] = "idle",
           pc'[w] \in FlightPcs => Key(w)' = Key(w) /\ pc[w] \in FlightPcs,
           pc'[w] = "waiting" => asyncOverflow = "block",
           \/ queue' = queue
           \/ /\ stopPc = "serving" \/ asyncOverflow = "block"
              /\ Len(queue) < QueueCapacity /\ queue' = Append(queue, Key(w)),
           executions' = executions,
           promised' = promised \/
             (promised' = promised \cup {Key(w)} /\ HoldsCompletion(Key(w))),
           flightEnd' \in [Keys -> {"none", "clean", "unclean"}],
           \A k \in Keys : k # Key(w) => flightEnd'[k] = flightEnd[k],
           flightEnd'[Key(w)] = "clean" =>
                \/ HoldsEnd(Key(w))
                \/ flightEnd[Key(w)] = "clean" /\ pc[w] \notin ClaimPcs
    PROVE  EffectsInv'
<1>0. Key(w) \in Keys
  BY KeyType DEF EffectsInv
<1>3. CallsInv'
  BY WorkerCalls DEF CallPcs
<1>4. FlightsInv'
  BY WorkerFlights
<1>5. KeptInv'
  BY WorkerKept
<1>6. DrainedInv'
  BY WorkerDrained
<1>7. TypeOK'
  BY <1>0, WorkerTypeOK, WorkerCounts DEF EffectsInv, TypeOK, OthersStay
<1>8. QED
  BY <1>3, <1>4, <1>5, <1>6, <1>7 DEF EffectsInv

LEMMA WorkerPreserves ==
    ASSUME EffectsInv, NEW w \in Workers,
           WorkerStep(w) \/ \E k \in Keys : Execute(w, k)
    PROVE  EffectsInv'
<1>0. /\ w \in Callers /\ Key(w) \in Keys /\ ended[w] \in BOOLEAN
      /\ TypeOK /\ flightEnd \in [Keys -> {"none", "clean", "unclean"}]
      /\ executions \in 0..MaxExecutions
      /\ callPc[w] # "idle" <=> pc[w] \in CallPcs
      /\ ended \in [Callers -> BOOLEAN]
  BY KeyType, CallOfFacts DEF EffectsInv, TypeOK, StoreTypeOK, CallsInv
<1>0a. losses' = losses => Loses(w)
  BY DEF Loses
<1>1. ASSUME NEW k \in Keys, Execute(w, k) PROVE EffectsInv'
  <2>1. CallWith(w, CallOf["checking"], k, ended[w]) /\ Advance(w, "checking")
    BY <1>1, CallOfFacts DEF Execute, Call
  <2>2. executions' \in 0..MaxExecutions
    BY <1>0, <1>1, ExecutionAssumption DEF Execute
  <2>3. QED
    BY <1>0, <1>1, <2>1, <2>2, BeginsCallStep DEF Execute, CallPcs, FlightPcs, ClaimPcs
<1>2. CASE Lead(w)
  <2>1. CallWith(w, CallOf["claiming"], Key(w), ended[w]) /\ Advance(w, "claiming")
    BY <1>2, CallOfFacts DEF Lead, Call
  <2>2. QED
    BY <1>0, <1>2, <2>1, BeginsCallStep DEF Lead, CallPcs, FlightPcs, ClaimPcs
<1>3. CASE OperationSucceeds(w)
  <2>1. CallWith(w, CallOf["completing"], Key(w), ended[w]) /\ Advance(w, "completing")
    BY <1>3, CallOfFacts DEF OperationSucceeds, Call
  <2>2. QED
    BY <1>0, <1>3, <2>1, BeginsCallStep DEF OperationSucceeds, CallPcs, FlightPcs, ClaimPcs
<1>4. CASE OperationFails(w)
  <2>1. CallWith(w, CallOf["releasing"], Key(w), ended[w]) /\ Advance(w, "releasing")
    BY <1>4, CallOfFacts DEF OperationFails, Call
  <2>2. QED
    BY <1>0, <1>4, <2>1, BeginsCallStep DEF OperationFails, CallPcs, FlightPcs, ClaimPcs
<1>5. CASE RecordSynchronously(w)
  <2>1. CallWith(w, CallOf["syncing"], Key(w), ended[w]) /\ Advance(w, "syncing")
    BY <1>5, CallOfFacts DEF RecordSynchronously, Call
  <2>2. QED
    BY <1>0, <1>5, <2>1, BeginsCallStep DEF RecordSynchronously, CallPcs, FlightPcs, ClaimPcs
<1>6. CASE RecordDetached(w)
  <2>1. CallWith(w, CallOf["detached"], Key(w), FALSE) /\ Advance(w, "detached")
    BY <1>6, CallOfFacts DEF RecordDetached
  <2>2. ended' \in [Callers -> BOOLEAN]
    BY <1>0, <1>6 DEF RecordDetached
  <2>3. QED
    BY <1>0, <1>6, <2>1, <2>2, BeginsCallStep DEF RecordDetached, CallPcs, FlightPcs, ClaimPcs
<1>7. CASE Join(w)
  <2>1. OthersStay(w) /\ WorkerTypes /\ pc'[w] = "joined" /\ Key(w)' = Key(w)
    BY <1>0, <1>7, MovesOn DEF Join
  <2>2. QED
    BY <1>0, <1>7, <2>1, <1>0a, EndsCallStep DEF Join, FlightPcs, StoreReturned, ClaimPcs, TypeOK, StoreTypeOK
<1>8. CASE QueueBlocks(w)
  <2>1. OthersStay(w) /\ WorkerTypes /\ pc'[w] = "waiting" /\ Key(w)' = Key(w)
    BY <1>0, <1>8, MovesOn DEF QueueBlocks, storeVars, restOfStore
  <2>2. QED
    BY <1>0, <1>8, <2>1, <1>0a, EndsCallStep DEF QueueBlocks, FlightPcs, CallPcs, storeVars, ClaimPcs
<1>9. CASE ReleaseReturns(w)
  <2>1. OthersStay(w) /\ WorkerTypes /\ pc'[w] = "recording" /\ Key(w)' = Key(w)
    BY <1>0, <1>9, MovesOn DEF ReleaseReturns
  <2>2. /\ flightEnd' \in [Keys -> {"none", "clean", "unclean"}]
        /\ \A k \in Keys : k # Key(w) => flightEnd'[k] = flightEnd[k]
        /\ flightEnd'[Key(w)] = "clean" => HoldsEnd(Key(w))
    BY <1>0, <1>9 DEF ReleaseReturns, FlightEnds
  <2>3. callPc'[w] = "idle"
    BY <1>0, <1>9 DEF ReleaseReturns, StoreReturned, TypeOK, StoreTypeOK
  <2>4. Loses(w)
    <3>1. result[w] = "yes" /\ ~HoldsEnd(Key(w)) => Discarded(w)
      BY <1>9 DEF ReleaseReturns, Acknowledged, EffectsInv, KeptInv
    <3>2. losses \in [Workers -> Nat] /\ losses' = [losses EXCEPT ![w] =
                IF result[w] = "yes" /\ ~HoldsEnd(Key(w)) THEN @ + 1 ELSE @]
      BY <1>9, CountsFacts DEF ReleaseReturns, FlightEnds
    <3>3. QED
      BY <3>1, <3>2 DEF Loses
  <2>5. QED
    BY <1>0, <1>9, <2>1, <2>2, <2>3, <2>4, EndsCallStep DEF ReleaseReturns, FlightPcs
<1>10. CASE CheckEnds(w)
  <2>1. OthersStay(w) /\ WorkerTypes /\ pc'[w] = "idle"
    BY <1>0, <1>10, GoesHome DEF CheckEnds
  <2>2. callPc'[w] = "idle"
    BY <1>0, <1>10 DEF CheckEnds, StoreReturned, TypeOK, StoreTypeOK
  <2>3. QED
    BY <1>0, <1>10, <2>1, <2>2, <1>0a, EndsCallStep DEF CheckEnds, FlightPcs, ClaimPcs
<1>11. CASE NotClaimed(w)
  <2>1. OthersStay(w) /\ WorkerTypes /\ pc'[w] = "idle"
    BY <1>0, <1>11, GoesHome DEF NotClaimed
  <2>2. callPc'[w] = "idle"
    BY <1>0, <1>11 DEF NotClaimed, StoreReturned, TypeOK, StoreTypeOK
  <2>3. /\ flightEnd' \in [Keys -> {"none", "clean", "unclean"}]
        /\ \A k \in Keys : k # Key(w) => flightEnd'[k] = flightEnd[k]
        /\ flightEnd'[Key(w)] # "clean"
    BY <1>0, <1>11 DEF NotClaimed
  <2>4. QED
    BY <1>0, <1>11, <2>1, <2>2, <2>3, <1>0a, EndsCallStep DEF NotClaimed, FlightPcs
<1>12. CASE CompleteReturns(w)
  <2>1. OthersStay(w) /\ WorkerTypes /\ pc'[w] = "idle"
    BY <1>0, <1>12, GoesHome DEF CompleteReturns
  <2>2. callPc'[w] = "idle"
    BY <1>0, <1>12 DEF CompleteReturns, StoreReturned, TypeOK, StoreTypeOK
  <2>3. /\ flightEnd' \in [Keys -> {"none", "clean", "unclean"}]
        /\ \A k \in Keys : k # Key(w) => flightEnd'[k] = flightEnd[k]
        /\ flightEnd'[Key(w)] = "clean" => HoldsEnd(Key(w))
    BY <1>0, <1>12 DEF CompleteReturns, FlightEnds
  <2>4. promised' = promised \/
          (promised' = promised \cup {Key(w)} /\ HoldsCompletion(Key(w)))
    BY <1>12 DEF CompleteReturns
  <2>5. Loses(w)
    <3>1. result[w] = "yes" /\ ~HoldsCompletion(Key(w)) => Discarded(w)
      BY <1>12 DEF CompleteReturns, Acknowledged, EffectsInv, KeptInv
    <3>2. losses \in [Workers -> Nat] /\ losses' = [losses EXCEPT ![w] =
                IF result[w] = "yes" /\ ~HoldsCompletion(Key(w)) THEN @ + 1 ELSE @]
      BY <1>12, CountsFacts DEF CompleteReturns, FlightEnds
    <3>3. QED
      BY <3>1, <3>2 DEF Loses
  <2>6. QED
    BY <1>0, <1>12, <2>1, <2>2, <2>3, <2>4, <2>5, EndsCallStep DEF CompleteReturns, FlightPcs
<1>13. CASE Queue(w) \/ NotQueued(w) \/ QueuedLate(w) \/ QueueGivenUp(w)
  <2>1. OthersStay(w) /\ WorkerTypes /\ pc'[w] = "idle"
    BY <1>0, <1>13, GoesHome DEF Queue, NotQueued, QueuedLate, QueueGivenUp
  <2>2. callPc'[w] = "idle" /\ pc[w] \in {"recording", "waiting"}
    BY <1>0, <1>13 DEF Queue, NotQueued, QueuedLate, QueueGivenUp, CallPcs
  <2>3. pc[w] = "waiting" => asyncOverflow = "block"
    BY DEF EffectsInv, DrainedInv
  <2>4. \/ queue' = queue
        \/ /\ stopPc = "serving" \/ asyncOverflow = "block"
           /\ Len(queue) < QueueCapacity /\ queue' = Append(queue, Key(w))
    BY <1>13, <2>3 DEF Queue, NotQueued, QueuedLate, QueueGivenUp
  <2>5. UNCHANGED <<executions, promised, flightEnd, losses>>
    BY <1>13 DEF Queue, NotQueued, QueuedLate, QueueGivenUp
  <2>6. QED
    BY <1>0, <2>1, <2>2, <2>4, <2>5, <1>0a, EndsCallStep DEF FlightPcs, ClaimPcs
<1>14. CASE RecordReturns(w)
  <2>1. OthersStay(w) /\ WorkerTypes /\ pc'[w] = "idle"
    BY <1>0, <1>14, GoesHome DEF RecordReturns
  <2>2. callPc'[w] = "idle"
    BY <1>0, <1>14 DEF RecordReturns, StoreReturned, TypeOK, StoreTypeOK
  <2>3. QED
    BY <1>0, <1>14, <2>1, <2>2, <1>0a, EndsCallStep DEF RecordReturns, FlightPcs, ClaimPcs
<1>15. QED
  BY <1>1, <1>2, <1>3, <1>4, <1>5, <1>6, <1>7, <1>8, <1>9, <1>10, <1>11, <1>12, <1>13, <1>14
     DEF WorkerStep

-----------------------------------------------------------------------------
(* The steps of a call in the store.                                       *)

\* A write to the primary keeps completions, and begins no claim but its own.
LEMMA PrimaryKeeps ==
    ASSUME TypeOK, NEW r \in Requests, primary' \in {primary, Applied(primary, r)},
           UNCHANGED <<buffered, loop>>, NEW k \in Keys
    PROVE  /\ HoldsCompletion(k) => HoldsCompletion(k)'
           /\ HoldsEnd(k) /\ ~(r.op = "claim" /\ r.key = k) => HoldsEnd(k)'
<1>1. Outstanding(k, {"complete"})' = Outstanding(k, {"complete"})
      /\ Outstanding(k, {"complete", "release"})' = Outstanding(k, {"complete", "release"})
  BY DEF Outstanding
<1>2. primary \in [Keys -> ClaimStates] /\ r.op \in Ops
  BY DEF TypeOK, StoreTypeOK, Requests, Ops
<1>3. /\ primary[k] = "completed" => primary'[k] = "completed"
      /\ primary[k] # "running" /\ ~(r.op = "claim" /\ r.key = k) => primary'[k] # "running"
  BY <1>2, AppliedFacts, EffectFacts
<1>4. QED
  BY <1>1, <1>3 DEF HoldsCompletion, HoldsEnd

\* What is outstanding stays so when the buffer grows.
LEMMA AppendKeeps ==
    ASSUME TypeOK, NEW item \in Items, buffered' = Append(buffered, item), UNCHANGED <<primary, loop>>,
           loop = "replayed" => buffered # <<>>, NEW k, NEW ops
    PROVE  /\ HoldsCompletion(k) => HoldsCompletion(k)'
           /\ HoldsEnd(k) => HoldsEnd(k)'
           /\ item.op \in ops /\ item.key = k => Outstanding(k, ops)'
<1>1. buffered \in Seq(Items)
  BY DEF TypeOK, StoreTypeOK
<1>2. /\ Len(buffered') = Len(buffered) + 1
      /\ \A i \in 1..Len(buffered) : buffered'[i] = buffered[i]
      /\ buffered'[Len(buffered) + 1] = item
      /\ Len(buffered) \in Nat
  BY <1>1
<1>3. 1..Len(buffered) \subseteq 1..Len(buffered') /\ Len(buffered) + 1 \in 1..Len(buffered')
  BY <1>2
<1>4. ASSUME NEW s, Outstanding(k, s) PROVE Outstanding(k, s)'
  BY <1>2, <1>3, <1>4 DEF Outstanding
<1>5. ASSUME item.op \in ops, item.key = k PROVE Outstanding(k, ops)'
  <2>1. Len(buffered) + 1 = 1 => loop' # "replayed"
    BY <1>1, <1>2
  <2>2. QED
    BY <1>2, <1>3, <1>5, <2>1 DEF Outstanding
<1>6. QED
  BY <1>4, <1>5 DEF HoldsCompletion, HoldsEnd

LEMMA StoreStepTypes ==
    ASSUME EffectsInv, NEW p \in Callers, StoreStep(p)
    PROVE  StoreTypeOK'
<1> USE DEF EffectsInv, TypeOK, StoreTypeOK
<1>1. request[p] \in Requests
  OBVIOUS
<1>2. CASE PrimaryAnswers(p)
  <2>1. Answer(request[p].op, primary[request[p].key]) \in {"yes", "no"}
    BY AnswerType
  <2>2. Applied(primary, request[p]) \in [Keys -> ClaimStates]
    BY <1>1, AppliedFacts
  <2>3. QED
    BY <1>2, <2>1, <2>2 DEF PrimaryAnswers, Return
<1>3. CASE PrimaryFails(p)
  <2>1. Applied(primary, request[p]) \in [Keys -> ClaimStates]
    BY <1>1, AppliedFacts
  <2>2. faults' \in 0..MaxFaults
    BY <1>3, BufferAssumption DEF PrimaryFails
  <2>3. primary' \in [Keys -> ClaimStates]
    BY <1>3, <2>1 DEF PrimaryFails
  <2>4. QED
    BY <1>3, <2>2, <2>3 DEF PrimaryFails
<1>4. CASE LocalAnswers(p)
  <2>1. Answer(request[p].op, local[request[p].key]) \in {"yes", "no"}
    BY AnswerType
  <2>2. Applied(local, request[p]) \in [Keys -> ClaimStates]
    BY <1>1, AppliedFacts
  <2>3. /\ callPc' \in [Callers -> {"idle", "primary", "degrade", "local", "enqueue",
                                    "blocked", "returned"}]
        /\ result' \in [Callers -> {"none", "yes", "no", "error"}]
    BY <1>4, <2>1 DEF LocalAnswers, Return
  <2>4. QED
    BY <1>4, <2>2, <2>3 DEF LocalAnswers
<1>5. CASE Enqueue(p)
  <2>1. request[p] \in Items
    BY <1>1, <1>5 DEF Enqueue, CallsInv, Requests, Items
  <2>2. buffered' \in Seq(Items) /\ Len(buffered') <= BufferCapacity
    BY <1>5, <2>1, BufferAssumption DEF Enqueue
  <2>3. QED
    BY <1>5, <2>2 DEF Enqueue, Return
<1>6. CASE Degrade(p)
  BY <1>6 DEF Degrade
<1>7. CASE LocalRefuses(p) \/ BlockedGivesUp(p)
  BY <1>7 DEF LocalRefuses, BlockedGivesUp, Return
<1>8. CASE EnqueueOverflows(p)
  <2>1. dropped' \in [Callers -> Nat]
    <3>1. dropped' = dropped \/ dropped' = [dropped EXCEPT ![p] = @ + 1]
      BY <1>8 DEF EnqueueOverflows
    <3>2. dropped[p] + 1 \in Nat
      OBVIOUS
    <3>3. QED
      BY <3>1, <3>2
  <2>2. QED
    BY <1>8, <2>1 DEF EnqueueOverflows, Return
<1>9. QED
  BY <1>2, <1>3, <1>4, <1>5, <1>6, <1>7, <1>8 DEF StoreStep

\* What a step of a call may change besides the call itself.
LEMMA StoreStepCalls ==
    ASSUME EffectsInv, NEW p \in Callers, StoreStep(p)
    PROVE  /\ callPc[p] \in ActivePcs /\ callPc'[p] # "idle"
           /\ callPc'[p] \in {"enqueue", "blocked"} => request[p].op \in Writes
           /\ \A q \in Callers : q # p => callPc'[q] = callPc[q] /\ result'[q] = result[q]
           /\ UNCHANGED request
<1> USE DEF EffectsInv, TypeOK, StoreTypeOK, CallsInv, Return, ActivePcs
<1>1. CASE PrimaryAnswers(p) \/ PrimaryFails(p) \/ Degrade(p)
  BY <1>1 DEF PrimaryAnswers, PrimaryFails, Degrade
<1>2. CASE LocalAnswers(p)
  BY <1>2 DEF LocalAnswers
<1>3. CASE LocalRefuses(p) \/ Enqueue(p) \/ BlockedGivesUp(p)
  BY <1>3 DEF LocalRefuses, Enqueue, BlockedGivesUp
<1>4. CASE EnqueueOverflows(p)
  BY <1>4 DEF EnqueueOverflows
<1>5. QED
  BY <1>1, <1>2, <1>3, <1>4 DEF StoreStep

\* A call may drop what it writes.
Drops(p) == overflow = "discard" /\ dropped' = [dropped EXCEPT ![p] = @ + 1]

LEMMA StoreStepCounts ==
    ASSUME EffectsInv, NEW p \in Callers, StoreStep(p), UNCHANGED losses
    PROVE  /\ LossesAreCounted'
           /\ \A w \in Workers : Discarded(w) => Discarded(w)'
           /\ p \in Workers /\ Drops(p) => Discarded(p)'
<1>1. dropped \in [Callers -> Nat] /\ Workers \subseteq Callers
  BY ExecutionAssumption DEF EffectsInv, TypeOK, StoreTypeOK
<1>2. overflow' = overflow /\ (dropped' = dropped \/ dropped' = [dropped EXCEPT ![p] = @ + 1])
  BY DEF StoreStep, PrimaryAnswers, PrimaryFails, Degrade, LocalAnswers, LocalRefuses,
         Enqueue, EnqueueOverflows, BlockedGivesUp
<1>3. \A w \in Workers : dropped'[w] \in Nat /\ dropped'[w] >= dropped[w]
  BY <1>1, <1>2
<1>4. Drops(p) => dropped'[p] = dropped[p] + 1
  BY <1>1 DEF Drops
<1>5. ASSUME NEW w \in Workers
      PROVE  /\ losses[w] <= dropped'[w] /\ (overflow # "discard" => losses[w] = 0)
             /\ losses[w] < dropped[w] => losses[w] < dropped'[w]
             /\ w = p /\ Drops(p) => losses[w] < dropped'[w]
  BY <1>3, <1>4, CountsFacts
<1>6. QED
  BY <1>2, <1>5 DEF LossesAreCounted, Discarded, Drops

\* A call that comes back with yes has had its effect, has left it in the buffer
\* or has dropped it.
LEMMA StoreStepAcknowledges ==
    ASSUME EffectsInv, NEW p \in Callers, StoreStep(p), callPc'[p] = "returned", result'[p] = "yes",
           ~Drops(p)
    PROVE  /\ request[p].op = "complete" => HoldsCompletion(request[p].key)'
           /\ request[p].op \in {"complete", "release"} => HoldsEnd(request[p].key)'
<1>0. TypeOK /\ request[p] \in Requests /\ request[p].key \in Keys /\ request[p].op \in Ops
      /\ primary \in [Keys -> ClaimStates]
  BY DEF EffectsInv, TypeOK, StoreTypeOK, Requests, Ops
<1>1. CASE PrimaryAnswers(p)
  <2>1. primary' = Applied(primary, request[p]) /\ request' = request
    BY <1>1 DEF PrimaryAnswers
  <2>2. primary'[request[p].key] = Effect(request[p].op, primary[request[p].key])
    BY <1>0, <2>1, AppliedFacts
  <2>3. QED
    BY <1>0, <2>1, <2>2, EffectFacts DEF HoldsCompletion, HoldsEnd
<1>2. CASE Enqueue(p)
  <2>1. request[p] \in Items
    BY <1>0, <1>2 DEF Enqueue, EffectsInv, CallsInv, Requests, Items
  <2>2. /\ request[p].op \in {"complete"} => Outstanding(request[p].key, {"complete"})'
        /\ request[p].op \in {"complete", "release"} =>
                Outstanding(request[p].key, {"complete", "release"})'
    BY <1>0, <1>2, <2>1, AppendKeeps DEF Enqueue, EffectsInv, KeptInv
  <2>3. QED
    BY <2>2 DEF HoldsCompletion, HoldsEnd
<1>3. CASE LocalAnswers(p)
  BY <1>3 DEF LocalAnswers, Writes, EffectsInv, TypeOK, StoreTypeOK
<1>4. CASE ~(PrimaryAnswers(p) \/ Enqueue(p) \/ LocalAnswers(p))
  BY <1>4 DEF StoreStep, PrimaryFails, Degrade, LocalRefuses, EnqueueOverflows, BlockedGivesUp, Drops,
              Return, EffectsInv, TypeOK, StoreTypeOK
<1>5. QED
  BY <1>1, <1>2, <1>3, <1>4

LEMMA StoreStepKeeps ==
    ASSUME EffectsInv, NEW p \in Callers, StoreStep(p), NEW k \in Keys
    PROVE  /\ HoldsCompletion(k) => HoldsCompletion(k)'
           /\ HoldsEnd(k) /\ ~(request[p].op = "claim" /\ request[p].key = k) => HoldsEnd(k)'
<1>0. TypeOK /\ request[p] \in Requests
  BY DEF EffectsInv, TypeOK, StoreTypeOK
<1>1. CASE PrimaryAnswers(p) \/ PrimaryFails(p)
  <2>1. primary' \in {primary, Applied(primary, request[p])} /\ UNCHANGED <<buffered, loop>>
    BY <1>1 DEF PrimaryAnswers, PrimaryFails
  <2>2. QED
    BY <1>0, <2>1, PrimaryKeeps
<1>2. CASE Enqueue(p)
  <2>1. request[p] \in Items
    BY <1>0, <1>2 DEF Enqueue, EffectsInv, CallsInv, Requests, Items
  <2>2. QED
    BY <1>0, <1>2, <2>1, AppendKeeps DEF Enqueue, EffectsInv, KeptInv
<1>3. CASE ~(PrimaryAnswers(p) \/ PrimaryFails(p) \/ Enqueue(p))
  <2>1. UNCHANGED <<primary, buffered, loop>>
    BY <1>3 DEF StoreStep, Degrade, LocalAnswers, LocalRefuses, EnqueueOverflows, BlockedGivesUp
  <2>2. QED
    BY <2>1, HoldsFrame
<1>4. QED
  BY <1>1, <1>2, <1>3

LEMMA InStorePreserves ==
    ASSUME EffectsInv, NEW p \in Callers, InStore(p)
    PROVE  EffectsInv'
<1> USE DEF InStore
<1>0. /\ UNCHANGED <<pc, executions, asyncOverflow, queue, recorderPc, stopPc, promised, flightEnd,
                    losses>>
      /\ UNCHANGED request
      /\ Workers \subseteq Callers /\ Callers = Workers \cup Recorders /\ Workers \cap Recorders = {}
  BY StoreStepCalls, ExecutionAssumption DEF executionVars
<1>1. TypeOK'
  BY <1>0, StoreStepTypes DEF EffectsInv, TypeOK
<1>2. CallsInv'
  BY <1>0, StoreStepCalls DEF EffectsInv, CallsInv, ActivePcs
<1>3. FlightsInv'
  BY <1>0 DEF EffectsInv, FlightsInv, Key
<1>4. DrainedInv'
  BY <1>0 DEF EffectsInv, DrainedInv
<1>5. \A w \in Workers : Key(w)' = Key(w) /\ Key(w) \in Keys
  BY <1>0, KeyType DEF Key, EffectsInv
<1>6. request[p].op = "claim" => p \in Workers /\ pc[p] = "claiming" /\ request[p].key = Key(p)
  BY <1>0, StoreStepCalls, CallOfFacts DEF EffectsInv, CallsInv, ActivePcs, Key, CallPcs
<1>7. ASSUME NEW w \in Workers, Acknowledged(w, {"completing", "releasing"})'
      PROVE  \/ Discarded(w)'
             \/ /\ HoldsEnd(Key(w))'
                /\ pc[w] = "completing" => HoldsCompletion(Key(w))'
  <2>0. CASE w = p /\ Drops(p)
    BY <1>0, <2>0, StoreStepCounts
  <2>1. CASE w = p /\ ~Drops(p)
    <3>1. /\ pc[w] = "completing" => request[p].op = "complete"
          /\ pc[w] \in {"completing", "releasing"} => request[p].op \in {"complete", "release"}
      BY <2>1, CallOfFacts DEF EffectsInv, CallsInv, CallPcs
    <3>2. pc[w] \in {"completing", "releasing"} /\ callPc'[p] = "returned" /\ result'[p] = "yes"
      BY <1>0, <1>7, <2>1 DEF Acknowledged
    <3>3. /\ request[p].op = "complete" => HoldsCompletion(request[p].key)'
          /\ request[p].op \in {"complete", "release"} => HoldsEnd(request[p].key)'
      BY <2>1, <3>2, StoreStepAcknowledges
    <3>4. request[p].key = Key(w)
      BY <2>1 DEF Key
    <3>5. HoldsCompletion(request[p].key)' <=> HoldsCompletion(Key(w))'
      BY <1>0, <1>5, <3>4 DEF HoldsCompletion, Outstanding, Key
    <3>6. HoldsEnd(request[p].key)' <=> HoldsEnd(Key(w))'
      BY <1>0, <1>5, <3>4 DEF HoldsEnd, Outstanding, Key
    <3>7. QED
      BY <3>1, <3>2, <3>3, <3>5, <3>6
  <2>2. CASE w # p
    <3>1. /\ Acknowledged(w, {"completing", "releasing"})
          /\ pc[w] = "completing" => Acknowledged(w, {"completing"})
          /\ pc[w] # "completing" => Acknowledged(w, {"releasing"})
      BY <1>0, <1>7, <2>2, StoreStepCalls DEF Acknowledged
    <3>2. \/ Discarded(w)
          \/ /\ HoldsEnd(Key(w))
             /\ pc[w] = "completing" => HoldsCompletion(Key(w))
      <4>1. HoldsCompletion(Key(w)) => HoldsEnd(Key(w))
        BY DEF HoldsCompletion, HoldsEnd, Outstanding
      <4>2. QED
        BY <3>1, <4>1 DEF EffectsInv, KeptInv
    <3>3. ~(request[p].op = "claim" /\ request[p].key = Key(w))
      BY <1>6, <2>2, <3>1 DEF EffectsInv, FlightsInv, Acknowledged, FlightPcs
    <3>4. Key(w) \in Keys
      BY <1>5
    <3>5. QED
      BY <1>0, <1>5, <3>2, <3>3, <3>4, StoreStepKeeps, StoreStepCounts
  <2>3. QED
    BY <2>0, <2>1, <2>2
<1>8. KeptInv'
  <2>1. loop' = "replayed" => buffered' # <<>>
    <3>1. loop' = loop /\ (buffered' = buffered \/ \E x \in Requests : buffered' = Append(buffered, x))
      BY DEF StoreStep, PrimaryAnswers, PrimaryFails, Degrade, LocalAnswers, LocalRefuses,
             Enqueue, EnqueueOverflows, BlockedGivesUp, EffectsInv, TypeOK, StoreTypeOK
    <3>2. buffered \in Seq(Items)
      BY DEF EffectsInv, TypeOK, StoreTypeOK
    <3>3. ASSUME NEW x \in Requests PROVE Append(buffered, x) # <<>>
      <4>1. buffered \in Seq(Items \cup Requests)
        BY <3>2
      <4>2. Len(Append(buffered, x)) = Len(buffered) + 1 /\ Len(buffered) \in Nat
        BY <4>1
      <4>3. QED
        BY <4>2
    <3>4. QED
      BY <3>1, <3>3 DEF EffectsInv, KeptInv
  <2>2. \A k \in promised' : HoldsCompletion(k)'
    BY <1>0, StoreStepKeeps DEF EffectsInv, KeptInv, TypeOK
  <2>3. ASSUME NEW k \in Keys, flightEnd'[k] = "clean", ~Claimed(k)' PROVE HoldsEnd(k)'
    <3>1. ~Claimed(k) /\ flightEnd[k] = "clean"
      BY <1>0, <1>5, <2>3 DEF Claimed
    <3>2. ~(request[p].op = "claim" /\ request[p].key = k)
      BY <1>6, <3>1 DEF Claimed
    <3>3. QED
      BY <3>1, <3>2, StoreStepKeeps DEF EffectsInv, KeptInv
  <2>4. \A w \in Workers : Acknowledged(w, {"completing"})' =>
            HoldsCompletion(Key(w))' \/ Discarded(w)'
    BY <1>0, <1>7 DEF Acknowledged
  <2>5. \A w \in Workers : Acknowledged(w, {"releasing"})' => HoldsEnd(Key(w))' \/ Discarded(w)'
    BY <1>0, <1>7 DEF Acknowledged
  <2>6. LossesAreCounted'
    BY <1>0, StoreStepCounts
  <2>7. QED
    BY <2>1, <2>2, <2>3, <2>4, <2>5, <2>6 DEF KeptInv
<1>9. QED
  BY <1>1, <1>2, <1>3, <1>4, <1>8 DEF EffectsInv

-----------------------------------------------------------------------------
(* The recovery loop, the recorders, lapsing windows and the stop.         *)

\* Steps of which the workers notice nothing.
LEMMA Unnoticed ==
    ASSUME EffectsInv, TypeOK', CallsInv', DrainedInv',
           UNCHANGED <<overflow, dropped, losses, pc, flightEnd>>,
           \A w \in Workers : request'[w] = request[w] /\ result'[w] = result[w],
           \A w \in Workers : callPc'[w] = "returned" => callPc[w] = "returned",
           loop' = "replayed" => buffered' # <<>>,
           promised' \subseteq promised,
           \A k \in Keys : HoldsEnd(k) => HoldsEnd(k)',
           \A k \in promised' : HoldsCompletion(k) => HoldsCompletion(k)',
           \A w \in Workers : Acknowledged(w, {"completing"}) /\ HoldsCompletion(Key(w)) =>
                HoldsCompletion(Key(w))'
    PROVE  EffectsInv'
<1>1. \A w \in Workers : Key(w)' = Key(w) /\ Key(w) \in Keys
  BY KeyType DEF Key, EffectsInv
<1>2. FlightsInv'
  BY <1>1 DEF EffectsInv, FlightsInv
<1>3. \A w \in Workers : \A pcs : Acknowledged(w, pcs)' => Acknowledged(w, pcs)
  BY DEF Acknowledged
<1>4. ASSUME NEW w \in Workers, Acknowledged(w, {"releasing"})'
      PROVE  HoldsEnd(Key(w))' \/ Discarded(w)'
  <2>1. (HoldsEnd(Key(w)) \/ Discarded(w)) /\ Key(w) \in Keys
    BY <1>1, <1>3, <1>4 DEF EffectsInv, KeptInv
  <2>2. QED
    BY <1>1, <2>1 DEF Discarded
<1>5. \A w \in Workers : Acknowledged(w, {"completing"})' =>
            HoldsCompletion(Key(w))' \/ Discarded(w)'
  BY <1>3 DEF EffectsInv, KeptInv, Discarded
<1>6. \A k \in Keys : Claimed(k)' <=> Claimed(k)
  BY <1>1 DEF Claimed
<1>7. \A k \in Keys : flightEnd'[k] = "clean" /\ ~Claimed(k)' => HoldsEnd(k)'
  BY <1>6 DEF EffectsInv, KeptInv
<1>8. \A k \in promised' : HoldsCompletion(k)'
  BY DEF EffectsInv, KeptInv
<1>9. LossesAreCounted'
  BY DEF LossesAreCounted, EffectsInv, KeptInv
<1>10. KeptInv'
  BY <1>4, <1>5, <1>7, <1>8, <1>9 DEF KeptInv
<1>11. QED
  BY <1>2, <1>10 DEF EffectsInv

\* The item at the head leaves the buffer after the primary has had it.
LEMMA TailKeeps ==
    ASSUME TypeOK, buffered # <<>>, buffered' = Tail(buffered), UNCHANGED primary,
           loop = "replayed", loop' # "replayed", NEW k
    PROVE  (HoldsCompletion(k) => HoldsCompletion(k)') /\ (HoldsEnd(k) => HoldsEnd(k)')
<1>1. buffered \in Seq(Items)
  BY DEF TypeOK, StoreTypeOK
<1>2. /\ Len(buffered') = Len(buffered) - 1 /\ Len(buffered) \in Nat
      /\ \A i \in 1..Len(buffered') : buffered'[i] = buffered[i + 1]
  BY <1>1
<1>3. ASSUME NEW ops, Outstanding(k, ops) PROVE Outstanding(k, ops)'
  <2>1. PICK i \in 1..Len(buffered) : buffered[i].op \in ops /\ buffered[i].key = k /\ i # 1
    BY <1>3 DEF Outstanding
  <2>2. i - 1 \in 1..Len(buffered') /\ buffered'[i - 1] = buffered[i]
    BY <1>2, <2>1
  <2>3. QED
    BY <2>1, <2>2 DEF Outstanding
<1>4. QED
  BY <1>3 DEF HoldsCompletion, HoldsEnd

LEMMA HeadType ==
    ASSUME TypeOK, buffered # <<>>
    PROVE  Head(buffered) \in Requests
<1>1. buffered \in Seq(Items)
  BY DEF TypeOK, StoreTypeOK
<1>2. Head(buffered) \in Items
  BY <1>1
<1>3. QED
  BY <1>2 DEF Items, Requests

\* A replay brings to the primary what the head of the buffer holds.
LEMMA ReplayKeeps ==
    ASSUME TypeOK, buffered # <<>>, primary' = Applied(primary, Head(buffered)), UNCHANGED buffered,
           NEW k \in Keys
    PROVE  (HoldsCompletion(k) => HoldsCompletion(k)') /\ (HoldsEnd(k) => HoldsEnd(k)')
<1>1. buffered \in Seq(Items) /\ primary \in [Keys -> ClaimStates]
  BY DEF TypeOK, StoreTypeOK
<1>2. Head(buffered) = buffered[1] /\ buffered[1] \in Items /\ Len(buffered) \in Nat
  BY <1>1
<1>3. buffered[1].op \in {"complete", "release", "record"} /\ buffered[1].op \in Ops
      /\ buffered[1] \in Requests
  BY <1>2 DEF Items, Writes, Ops, Requests
<1>4. primary'[k] = IF k = buffered[1].key THEN Effect(buffered[1].op, primary[k]) ELSE primary[k]
  BY <1>1, <1>2, <1>3, AppliedFacts
<1>5. primary[k] \in ClaimStates
  BY <1>1
<1>6. /\ primary[k] = "completed" => primary'[k] = "completed"
      /\ primary[k] # "running" => primary'[k] # "running"
      /\ k = buffered[1].key /\ buffered[1].op = "complete" => primary'[k] = "completed"
      /\ k = buffered[1].key /\ buffered[1].op = "release" => primary'[k] # "running"
  BY <1>3, <1>4, <1>5, EffectFacts
<1>7. ASSUME NEW ops, Outstanding(k, ops)
      PROVE  Outstanding(k, ops)' \/ (buffered[1].op \in ops /\ buffered[1].key = k)
  BY <1>7 DEF Outstanding
<1>8. QED
  BY <1>6, <1>7 DEF HoldsCompletion, HoldsEnd

\* A replay that fails may have had its effect.
LEMMA LoopPreserves ==
    ASSUME EffectsInv, Loop
    PROVE  EffectsInv'
<1> USE DEF Loop
<1>0. /\ UNCHANGED <<pc, executions, asyncOverflow, queue, recorderPc, stopPc, promised, flightEnd,
                    losses>>
      /\ UNCHANGED <<overflow, dropped, request, result>>
      /\ Workers \subseteq Callers /\ TypeOK /\ promised \subseteq Keys
      /\ \A p \in Callers : callPc[p] \in {"idle", "primary", "degrade", "local", "enqueue",
                                           "blocked", "returned"}
  BY ExecutionAssumption
     DEF executionVars, EffectsInv, TypeOK, StoreTypeOK, LoopStep, Probe, VerifyFails, VerifySucceeds,
         ReplayOne, ReplayFails, Replayed, Recovered, LoopExits
<1>1. \A p \in Callers : callPc'[p] = callPc[p] \/ (callPc[p] = "blocked" /\ callPc'[p] = "enqueue")
  BY <1>0 DEF LoopStep, Probe, VerifyFails, VerifySucceeds,
              ReplayOne, ReplayFails, Replayed, Recovered, LoopExits
<1>2. CallsInv'
  <2>1. \A p \in Callers : callPc'[p] # "idle" <=> callPc[p] # "idle"
    BY <1>1
  <2>2. \A p \in Callers : callPc'[p] \in {"enqueue", "blocked"} => callPc[p] \in {"enqueue", "blocked"}
    BY <1>1
  <2>3. Recorders \subseteq Callers
    BY ExecutionAssumption
  <2>4. QED
    BY <1>0, <2>1, <2>2, <2>3 DEF EffectsInv, CallsInv
<1>3. DrainedInv'
  BY <1>0 DEF EffectsInv, DrainedInv
<1>4. ASSUME StoreTypeOK', loop' = "replayed" => buffered' # <<>>,
             \A k \in Keys : (HoldsEnd(k) => HoldsEnd(k)') /\ (HoldsCompletion(k) => HoldsCompletion(k)')
      PROVE  EffectsInv'
  <2>1. TypeOK'
    BY <1>0, <1>4 DEF EffectsInv, TypeOK
  <2>2. \A w \in Workers : Key(w)' = Key(w) /\ Key(w) \in Keys
    BY <1>0, KeyType DEF Key
  <2>3. \A w \in Workers : HoldsCompletion(Key(w)) => HoldsCompletion(Key(w))'
    <3>1. ASSUME NEW w \in Workers, HoldsCompletion(Key(w)) PROVE HoldsCompletion(Key(w))'
      BY <1>4, <2>2, <3>1
    <3>2. QED
      BY <3>1
  <2>4. \A w \in Workers : callPc'[w] = "returned" => callPc[w] = "returned"
    BY <1>0, <1>1
  <2>5. QED
    BY <1>0, <1>2, <1>3, <1>4, <2>1, <2>3, <2>4, Unnoticed
<1>5. CASE Probe \/ VerifyFails \/ VerifySucceeds \/ Recovered \/ LoopExits
  <2>1. UNCHANGED <<primary, buffered>> /\ loop' # "replayed"
    BY <1>5 DEF Probe, VerifyFails, VerifySucceeds, Recovered, LoopExits
  <2>2. StoreTypeOK'
    BY <1>0, <1>5 DEF Probe, VerifyFails, VerifySucceeds, Recovered, LoopExits, TypeOK, StoreTypeOK
  <2>3. \A k, ops : Outstanding(k, ops) => Outstanding(k, ops)'
    BY <2>1 DEF Outstanding
  <2>4. QED
    BY <1>4, <2>1, <2>2, <2>3 DEF HoldsCompletion, HoldsEnd
<1>6. CASE ReplayOne
  <2>1. buffered # <<>> /\ primary' = Applied(primary, Head(buffered)) /\ UNCHANGED buffered
    BY <1>6 DEF ReplayOne
  <2>2. Head(buffered) \in Requests /\ primary \in [Keys -> ClaimStates]
    BY <1>0, <2>1, HeadType DEF TypeOK, StoreTypeOK
  <2>3. StoreTypeOK'
    <3>1. primary' \in [Keys -> ClaimStates]
      BY <2>1, <2>2, AppliedFacts
    <3>2. loop' = "replayed" /\ UNCHANGED <<overflow, dropped, state, buffered, stopCh, local, faults,
                                           callPc, request, result, ended>>
      BY <1>6 DEF ReplayOne
    <3>3. StoreTypeOK
      BY <1>0 DEF TypeOK
    <3>4. QED
      BY <3>1, <3>2, <3>3 DEF StoreTypeOK
  <2>4. QED
    BY <1>0, <1>4, <2>1, <2>3, ReplayKeeps
<1>7. CASE ReplayFails
  <2>1. /\ buffered # <<>> /\ UNCHANGED buffered /\ loop' = "waiting"
        /\ primary' \in {primary, Applied(primary, Head(buffered))}
    BY <1>7 DEF ReplayFails
  <2>2. Head(buffered) \in Requests /\ primary \in [Keys -> ClaimStates]
    BY <1>0, <2>1, HeadType DEF TypeOK, StoreTypeOK
  <2>3. StoreTypeOK'
    <3>1. primary' \in [Keys -> ClaimStates]
      BY <2>1, <2>2, AppliedFacts
    <3>2. faults' \in 0..MaxFaults
      BY <1>0, <1>7, BufferAssumption DEF ReplayFails, TypeOK, StoreTypeOK
    <3>3. /\ loop' = "waiting" /\ state' = "degraded"
          /\ UNCHANGED <<overflow, dropped, buffered, stopCh, local, callPc, request, result, ended>>
      BY <1>7 DEF ReplayFails
    <3>4. StoreTypeOK
      BY <1>0 DEF TypeOK
    <3>5. QED
      BY <3>1, <3>2, <3>3, <3>4 DEF StoreTypeOK
  <2>4. CASE primary' = primary
    <3>1. \A k, ops : Outstanding(k, ops) => Outstanding(k, ops)'
      BY <2>1 DEF Outstanding
    <3>2. QED
      BY <1>4, <2>1, <2>3, <2>4, <3>1 DEF HoldsCompletion, HoldsEnd
  <2>5. CASE primary' = Applied(primary, Head(buffered))
    BY <1>0, <1>4, <2>1, <2>3, <2>5, ReplayKeeps
  <2>6. QED
    BY <2>1, <2>4, <2>5
<1>8. CASE Replayed
  <2>1. /\ loop = "replayed" /\ loop' = "replaying" /\ buffered' = Tail(buffered)
        /\ UNCHANGED primary /\ buffered # <<>>
    BY <1>8 DEF Replayed, EffectsInv, KeptInv
  <2>2. buffered' \in Seq(Items) /\ Len(buffered') <= BufferCapacity
    BY <1>0, <2>1, BufferAssumption DEF TypeOK, StoreTypeOK
  <2>3. StoreTypeOK'
    BY <1>0, <1>8, <2>2 DEF Replayed, TypeOK, StoreTypeOK
  <2>4. QED
    BY <1>0, <1>4, <2>1, <2>3, TailKeeps
<1>9. QED
  BY <1>5, <1>6, <1>7, <1>8 DEF LoopStep

\* Steps that leave the stores and the buffer alone as well.
LEMMA Quiet ==
    ASSUME EffectsInv, TypeOK', CallsInv', DrainedInv',
           UNCHANGED <<overflow, dropped, losses, pc, flightEnd, promised, primary, buffered, loop>>,
           \A w \in Workers : request'[w] = request[w] /\ result'[w] = result[w],
           \A w \in Workers : callPc'[w] = "returned" => callPc[w] = "returned"
    PROVE  EffectsInv'
<1>1. \A k : HoldsCompletion(k)' = HoldsCompletion(k) /\ HoldsEnd(k)' = HoldsEnd(k)
  BY HoldsFrame
<1>2. \A w \in Workers : Key(w)' = Key(w)
  BY DEF Key
<1>3. \A w \in Workers : HoldsCompletion(Key(w)) => HoldsCompletion(Key(w))'
  <2>1. ASSUME NEW w \in Workers, HoldsCompletion(Key(w)) PROVE HoldsCompletion(Key(w))'
    BY <1>1, <1>2, <2>1
  <2>2. QED
    BY <2>1
<1>4. loop' = "replayed" => buffered' # <<>>
  BY DEF EffectsInv, KeptInv
<1>5. QED
  BY <1>1, <1>3, <1>4, Unnoticed

LEMMA RecorderPreserves ==
    ASSUME EffectsInv, NEW r \in Recorders, RecorderStep(r)
    PROVE  EffectsInv'
<1>0. /\ r \in Callers /\ r \notin Workers /\ Workers \subseteq Callers /\ Recorders \subseteq Callers
      /\ TypeOK /\ "record" \in Ops
  BY ExecutionAssumption DEF EffectsInv, Ops, Writes
<1>1. CASE Take(r)
  <2>1. queue \in Seq(Keys) /\ queue # <<>> /\ Len(queue) <= QueueCapacity /\ QueueCapacity \in Nat
    BY <1>0, <1>1, ExecutionAssumption DEF Take, TypeOK
  <2>2. Head(queue) \in Keys /\ Tail(queue) \in Seq(Keys) /\ Len(Tail(queue)) <= QueueCapacity
    BY <2>1
  <2>3. CallWith(r, "record", Head(queue), ended[r]) /\ ended[r] \in BOOLEAN
    BY <1>0, <1>1 DEF Take, Call, TypeOK, StoreTypeOK
  <2>4. /\ request' \in [Callers -> Requests]
        /\ callPc' \in [Callers -> {"idle", "primary", "degrade", "local", "enqueue",
                                    "blocked", "returned"}]
        /\ result' \in [Callers -> {"none", "yes", "no", "error"}]
        /\ request'[r].op = "record"
        /\ callPc'[r] \in {"primary", "local", "returned"}
        /\ \A q \in Callers : q # r => /\ request'[q] = request[q]
                                       /\ callPc'[q] = callPc[q] /\ result'[q] = result[q]
        /\ UNCHANGED restOfStore
    BY <1>0, <2>2, <2>3, CallFacts
  <2>5. /\ recorderPc' \in [Recorders -> {"taking", "writing", "exited"}]
        /\ recorderPc'[r] = "writing"
        /\ \A q \in Recorders : q # r => recorderPc'[q] = recorderPc[q]
    BY <1>0, <1>1 DEF Take, TypeOK
  <2>6. TypeOK'
    <3>1. StoreTypeOK'
      BY <1>0, <1>1, <2>4 DEF Take, TypeOK, StoreTypeOK, restOfStore
    <3>2. QED
      BY <1>0, <1>1, <2>2, <2>5, <3>1 DEF Take, TypeOK
  <2>7. CallsInv'
    BY <1>0, <1>1, <2>4, <2>5 DEF Take, EffectsInv, CallsInv
  <2>8. DrainedInv'
    BY <1>1, <2>1, <2>5 DEF Take, EffectsInv, DrainedInv
  <2>9. /\ UNCHANGED <<overflow, dropped, losses, pc, flightEnd, promised, primary, buffered, loop>>
        /\ \A w \in Workers : request'[w] = request[w] /\ result'[w] = result[w]
        /\ \A w \in Workers : callPc'[w] = callPc[w]
    BY <1>0, <1>1, <2>4 DEF Take, restOfStore
  <2>10. QED
    BY <2>6, <2>7, <2>8, <2>9, Quiet
<1>2. CASE Written(r)
  <2>1. /\ recorderPc' = [recorderPc EXCEPT ![r] = "taking"]
        /\ callPc' = [callPc EXCEPT ![r] = "idle"] /\ result' = [result EXCEPT ![r] = "none"]
        /\ request' = [request EXCEPT ![r] = NoRequest]
    BY <1>2 DEF Written, StoreReturned
  <2>2. TypeOK'
    <3>1. StoreTypeOK'
      BY <1>0, <1>2, <2>1, NoRequestType DEF Written, TypeOK, StoreTypeOK, restOfStore
    <3>2. QED
      BY <1>0, <1>2, <2>1, <3>1 DEF Written, TypeOK
  <2>3. /\ \A q \in Callers : q # r => /\ request'[q] = request[q]
                                       /\ callPc'[q] = callPc[q] /\ result'[q] = result[q]
        /\ callPc'[r] = "idle" /\ recorderPc'[r] = "taking"
        /\ \A q \in Recorders : q # r => recorderPc'[q] = recorderPc[q]
    BY <1>0, <2>1 DEF TypeOK, StoreTypeOK
  <2>4. CallsInv'
    BY <1>0, <1>2, <2>3 DEF Written, EffectsInv, CallsInv
  <2>5. DrainedInv'
    BY <1>2, <2>3 DEF Written, EffectsInv, DrainedInv
  <2>6. /\ UNCHANGED <<overflow, dropped, losses, pc, flightEnd, promised, primary, buffered, loop>>
        /\ \A w \in Workers : request'[w] = request[w] /\ result'[w] = result[w]
        /\ \A w \in Workers : callPc'[w] = callPc[w]
    BY <1>0, <1>2, <2>3 DEF Written, restOfStore
  <2>7. QED
    BY <2>2, <2>4, <2>5, <2>6, Quiet
<1>3. CASE RecorderExits(r)
  <2>1. recorderPc' = [recorderPc EXCEPT ![r] = "exited"] /\ UNCHANGED storeVars
    BY <1>3 DEF RecorderExits
  <2>2. TypeOK'
    BY <1>0, <1>3, <2>1 DEF RecorderExits, TypeOK, StoreTypeOK, storeVars
  <2>3. /\ recorderPc[r] = "taking" /\ recorderPc'[r] = "exited"
        /\ \A q \in Recorders : q # r => recorderPc'[q] = recorderPc[q]
    BY <1>0, <1>3, <2>1 DEF RecorderExits, TypeOK
  <2>4. CallsInv'
    BY <1>0, <1>3, <2>1, <2>3 DEF RecorderExits, EffectsInv, CallsInv, storeVars
  <2>5. DrainedInv'
    BY <1>3, <2>3 DEF RecorderExits, EffectsInv, DrainedInv
  <2>6. QED
    BY <1>3, <2>1, <2>2, <2>4, <2>5, Quiet DEF RecorderExits, storeVars
<1>4. QED
  BY <1>1, <1>2, <1>3 DEF RecorderStep

LEMMA ContextPreserves ==
    ASSUME EffectsInv, NEW w \in Workers, ContextEnds(w)
    PROVE  EffectsInv'
<1>1. /\ ended' = [ended EXCEPT ![w] = TRUE]
      /\ UNCHANGED <<restOfStore, request, callPc, result, executionVars>>
  BY DEF ContextEnds
<1>2. TypeOK'
  BY <1>1 DEF EffectsInv, TypeOK, StoreTypeOK, restOfStore, executionVars
<1>3. CallsInv' /\ DrainedInv'
  BY <1>1 DEF EffectsInv, CallsInv, DrainedInv, executionVars
<1>4. QED
  BY <1>1, <1>2, <1>3, Quiet DEF restOfStore, executionVars

LEMMA LapsePreserves ==
    ASSUME EffectsInv, NEW k \in Keys, Lapse(k)
    PROVE  EffectsInv'
<1>0. /\ UNCHANGED <<pc, executions, asyncOverflow, queue, recorderPc, stopPc, flightEnd, losses>>
      /\ UNCHANGED <<overflow, dropped, buffered, loop, callPc, request, result>>
      /\ promised' \subseteq promised
  BY DEF Lapse, PrimaryLapses, LocalLapses
<1>1. TypeOK'
  BY ZenonT(30), <1>0 DEF Lapse, PrimaryLapses, LocalLapses, EffectsInv, TypeOK, StoreTypeOK, ClaimStates
<1>2. CallsInv' /\ DrainedInv'
  BY <1>0 DEF EffectsInv, CallsInv, DrainedInv
<1>3. \/ primary' = primary
      \/ /\ primary' = [primary EXCEPT ![k] = "free"]
         /\ promised' = IF primary[k] = "completed" THEN promised \ {k} ELSE promised
  BY DEF Lapse, PrimaryLapses, LocalLapses
<1>4. primary \in [Keys -> ClaimStates]
  BY DEF EffectsInv, TypeOK, StoreTypeOK
<1>5. \A j \in Keys : /\ primary'[j] = primary[j] \/ primary'[j] = "free"
                      /\ j # k => primary'[j] = primary[j]
  BY <1>3, <1>4
<1>6. \A j, ops : Outstanding(j, ops)' <=> Outstanding(j, ops)
  BY <1>0 DEF Outstanding
<1>7. \A j \in Keys : HoldsEnd(j) => HoldsEnd(j)'
  BY <1>5, <1>6 DEF HoldsEnd
<1>8. \A j \in promised' : HoldsCompletion(j) => HoldsCompletion(j)'
  <2>1. promised \subseteq Keys
    BY DEF EffectsInv, TypeOK
  <2>2. ASSUME NEW j \in promised', primary[j] = "completed" PROVE primary'[j] = "completed"
    BY <1>0, <1>3, <1>5, <2>1, <2>2
  <2>3. QED
    BY <1>6, <2>2 DEF HoldsCompletion
<1>9. ASSUME NEW w \in Workers, Acknowledged(w, {"completing"}), HoldsCompletion(Key(w))
      PROVE  HoldsCompletion(Key(w))'
  <2>1. Key(w)' = Key(w) /\ Key(w) \in Keys
    BY <1>0, KeyType DEF Key, EffectsInv
  <2>2. primary[Key(w)] = "completed" => primary'[Key(w)] = "completed"
    BY <1>3, <1>5, <1>9, <2>1 DEF Lapse, Acknowledged, LocalLapses
  <2>3. Outstanding(Key(w), {"complete"}) => Outstanding(Key(w), {"complete"})'
    BY <1>6, <2>1
  <2>4. QED
    BY <1>9, <2>1, <2>2, <2>3 DEF HoldsCompletion
<1>10. loop' = "replayed" => buffered' # <<>>
  BY <1>0 DEF EffectsInv, KeptInv
<1>11. QED
  BY <1>0, <1>1, <1>2, <1>7, <1>8, <1>9, <1>10, Unnoticed

LEMMA StopPreserves ==
    ASSUME EffectsInv, BeginShutdown \/ ShutdownReturns \/ StopReturns
    PROVE  EffectsInv'
<1>1. /\ UNCHANGED <<pc, executions, asyncOverflow, queue, recorderPc, promised, flightEnd, losses>>
      /\ UNCHANGED restOfStore \/ CloseStopCh
      /\ UNCHANGED <<overflow, dropped, primary, buffered, loop, request, callPc, result>>
  BY DEF BeginShutdown, ShutdownReturns, StopReturns, storeVars, CloseStopCh, restOfStore
<1>2. TypeOK'
  BY DEF BeginShutdown, ShutdownReturns, StopReturns, CloseStopCh, storeVars,
         EffectsInv, TypeOK, StoreTypeOK
<1>3. CallsInv'
  BY <1>1 DEF EffectsInv, CallsInv
<1>4. DrainedInv'
  BY <1>1 DEF BeginShutdown, ShutdownReturns, StopReturns, EffectsInv, DrainedInv
<1>5. QED
  BY <1>1, <1>2, <1>3, <1>4, Quiet

LEMMA StutterPreserves ==
    ASSUME EffectsInv, UNCHANGED vars
    PROVE  EffectsInv'
<1>1. UNCHANGED storeVars /\ UNCHANGED executionVars
  BY DEF vars
<1>2. TypeOK'
  BY <1>1 DEF EffectsInv, TypeOK, StoreTypeOK, storeVars, executionVars
<1>3. CallsInv' /\ DrainedInv'
  BY <1>1 DEF EffectsInv, CallsInv, DrainedInv, storeVars, executionVars
<1>4. QED
  BY <1>1, <1>2, <1>3, Quiet DEF storeVars, executionVars

-----------------------------------------------------------------------------
(* The invariant, and what it says of a run.                               *)

LEMMA InitEstablishes ==
    ASSUME Init
    PROVE  EffectsInv
<1>1. StoreTypeOK
  <2>1. buffered \in Seq(Items) /\ Len(buffered) <= BufferCapacity
    BY BufferAssumption DEF Init, StoreInit
  <2>2. faults \in 0..MaxFaults
    BY BufferAssumption DEF Init, StoreInit
  <2>3. request \in [Callers -> Requests]
    BY NoRequestType DEF Init, StoreInit
  <2>4. QED
    BY <2>1, <2>2, <2>3 DEF Init, StoreInit, StoreTypeOK, ClaimStates
<1>2. asyncOverflow \in OverflowPolicies
  BY ExecutionAssumption DEF Init
<1>3. TypeOK
  BY <1>1, <1>2, ExecutionAssumption DEF Init, TypeOK
<1>4. /\ \A p \in Callers : callPc[p] = "idle"
      /\ \A w \in Workers : pc[w] = "idle"
      /\ \A r \in Recorders : recorderPc[r] = "taking"
      /\ Workers \subseteq Callers /\ Recorders \subseteq Callers
      /\ promised = {} /\ loop = "waiting" /\ stopPc = "serving"
      /\ \A k \in Keys : flightEnd[k] = "none"
      /\ \A w \in Workers : losses[w] = 0 /\ dropped[w] = 0
  BY ExecutionAssumption DEF Init, StoreInit
<1>5. CallsInv
  BY <1>4, CallOfFacts DEF CallsInv, CallPcs
<1>6. FlightsInv /\ KeptInv /\ DrainedInv
  BY <1>4 DEF FlightsInv, FlightPcs, KeptInv, Acknowledged, DrainedInv, LossesAreCounted
<1>7. QED
  BY <1>3, <1>5, <1>6 DEF EffectsInv

LEMMA NextPreserves ==
    ASSUME EffectsInv, [Next]_vars
    PROVE  EffectsInv'
BY WorkerPreserves, ContextPreserves, RecorderPreserves, InStorePreserves, LoopPreserves,
   LapsePreserves, StopPreserves, StutterPreserves DEF Next

LEMMA InvImpliesEffects ==
    ASSUME EffectsInv
    PROVE  EffectsAreKept
<1>1. CompletionIsKept
  <2>1. ASSUME NEW k \in promised, Outstanding(k, {"complete"})
        PROVE  \E i \in 1..Len(buffered) : buffered[i] = [op |-> "complete", key |-> k]
    <3>1. PICK i \in 1..Len(buffered) : buffered[i].op = "complete" /\ buffered[i].key = k
      BY <2>1 DEF Outstanding
    <3>2. buffered[i] \in Items
      BY <3>1 DEF EffectsInv, TypeOK, StoreTypeOK
    <3>3. QED
      BY <3>1, <3>2 DEF Items
  <2>2. QED
    BY <2>1 DEF EffectsInv, KeptInv, HoldsCompletion, CompletionIsKept
<1>2. ClaimsAreReleased
  <2>1. ASSUME NEW k \in Keys, flightEnd[k] = "clean", ~InFlight(k), primary[k] = "running"
        PROVE  \E i \in 1..Len(buffered) :
                  buffered[i].op \in {"complete", "release"} /\ buffered[i].key = k
    <3>1. ~Claimed(k)
      BY <2>1 DEF InFlight, Claimed, FlightPcs
    <3>2. Outstanding(k, {"complete", "release"})
      BY <2>1, <3>1 DEF EffectsInv, KeptInv, HoldsEnd
    <3>3. QED
      BY <3>2 DEF Outstanding
  <2>2. QED
    BY <2>1 DEF ClaimsAreReleased
<1>3. QueueIsDrained
  BY ExecutionAssumption DEF EffectsInv, DrainedInv, QueueIsDrained
<1>4. QED
  BY <1>1, <1>2, <1>3 DEF EffectsInv, EffectsAreKept, KeptInv

\* Whatever fails, is replayed and lapses, and however many callers there are:
\* a completion a writer was told of stays in the primary or in the buffer and a
\* flight that ended well leaves no claim behind, except for what the discarding
\* policy has dropped, which is counted; and a stop that has come back has left
\* nothing in the queue unless writers may wait for room in it.
THEOREM EffectsAreKeptHolds == Spec => []EffectsAreKept
<1>1. Spec => []EffectsInv
  <2>1. Init => EffectsInv
    BY InitEstablishes
  <2>2. EffectsInv /\ [Next]_vars => EffectsInv'
    BY NextPreserves
  <2>3. QED
    BY <2>1, <2>2, PTL DEF Spec
<1>2. EffectsInv => EffectsAreKept
  BY InvImpliesEffects
<1>3. QED
  BY <1>1, <1>2, PTL

-----------------------------------------------------------------------------
(* Transactions over versioned rows.                                       *)

\* What the fold of the community modules gives for two rows, in whichever
\* order it takes them.
LEMMA SumOfTwo ==
    ASSUME NEW a, NEW b, a # b, NEW f \in [{a, b} -> Int]
    PROVE  Sum(f) = f[a] + f[b]
<1> DEFINE S == {a, b}
           pick(s) == CHOOSE x \in s : TRUE
           Def(g) == g = [s \in SUBSET S |-> IF s = {} THEN 0 ELSE f[pick(s)] + g[s \ {pick(s)}]]
           iter == CHOOSE g : Def(g)
           total == [s \in SUBSET S |-> (IF a \in s THEN f[a] ELSE 0) + (IF b \in s THEN f[b] ELSE 0)]
<1>1. Sum(f) = iter[S]
  <2>1. DOMAIN f = S
    OBVIOUS
  <2>2. QED
    BY <2>1 DEF Sum, FoldFunction, FoldFunctionOnSet, MapThenFoldSet
<1>2. \A s \in SUBSET S : s # {} => pick(s) \in s
  OBVIOUS
<1>3. f[a] \in Int /\ f[b] \in Int
  OBVIOUS
<1>4. Def(total)
  <2>1. ASSUME NEW s \in SUBSET S
        PROVE  total[s] = IF s = {} THEN 0 ELSE f[pick(s)] + total[s \ {pick(s)}]
    <3>1. CASE s = {}
      BY <3>1
    <3>2. CASE s # {}
      <4> DEFINE x == pick(s)
      <4>1. x \in s /\ (x = a \/ x = b)
        BY <1>2, <3>2
      <4> HIDE DEF x, pick
      <4>2. s \ {x} \in SUBSET S
        OBVIOUS
      <4>3. total[s] = f[x] + total[s \ {x}]
        BY <1>3, <4>1, <4>2
      <4>4. QED
        BY <3>2, <4>3 DEF x
    <3>3. QED
      BY <3>1, <3>2
  <2>2. total = [s \in SUBSET S |-> total[s]]
    OBVIOUS
  <2> HIDE DEF pick, total, S
  <2>3. QED
    BY <2>1, <2>2
<1>5. Def(iter)
  <2> HIDE DEF Def
  <2>1. \E g : Def(g)
    BY <1>4
  <2>2. QED
    BY <2>1
<1>6. iter[S] = f[a] + f[b]
  <2> HIDE DEF iter
  <2>1. \A s \in SUBSET S : iter[s] = IF s = {} THEN 0 ELSE f[pick(s)] + iter[s \ {pick(s)}]
    BY <1>5
  <2> HIDE DEF pick
  <2>2. iter[{}] = 0
    BY <2>1
  <2>3. \A x \in S : iter[{x}] = f[x]
    <3>1. \A x \in S : pick({x}) = x /\ {x} \ {x} = {} /\ {x} # {} /\ {x} \in SUBSET S
      BY <1>2
    <3>2. \A x \in S : iter[{x}] = f[x] + iter[{}]
      BY <2>1, <3>1
    <3>3. TAKE x \in S
    <3>4. f[x] \in Int
      OBVIOUS
    <3>5. iter[{x}] = f[x] + 0
      BY <2>2, <3>2
    <3>6. QED
      BY <3>4, <3>5
  <2>4. pick(S) = a \/ pick(S) = b
    BY <1>2
  <2>5. S \ {a} = {b} /\ S \ {b} = {a} /\ S # {} /\ S \in SUBSET S
    OBVIOUS
  <2>6. iter[S] = f[pick(S)] + iter[S \ {pick(S)}]
    BY <2>1, <2>5
  <2>7. iter[{a}] = f[a] /\ iter[{b}] = f[b]
    BY <2>3
  <2>8. CASE pick(S) = a
    BY <1>3, <2>5, <2>6, <2>7, <2>8
  <2>9. CASE pick(S) = b
    <3>1. iter[S] = f[b] + f[a]
      BY <2>5, <2>6, <2>7, <2>9
    <3>2. QED
      BY <1>3, <3>1
  <2>10. QED
    BY <2>4, <2>8, <2>9
<1>7. QED
  BY <1>1, <1>6

Places == {"idle", "applied", "failed", "unknown", "work", "error", "panic", "commit"}
Seen == [value : Int, version : Nat]
RowRecords == [value : Int, version : Nat, deleted : BOOLEAN]
Calls == [at : Places, seen : [Rows -> Seen], wrote : SUBSET Rows, takes : Rows]

Inside(c) == tx[c].at \in {"work", "error", "panic", "commit"}

ShapesInv ==
    /\ row \in [Rows -> RowRecords]
    /\ lock \in [Rows -> Borrowers \cup {Free}]
    /\ tx \in [Borrowers -> Calls]
    /\ borrowed = {c \in Borrowers : Inside(c)}
    /\ pool \in {"open", "closed"} /\ budget \in 0 .. Budget
    /\ ledger \in [Rows -> Int]

\* A transaction holds the locks of the rows it has written, and no others.
LocksInv == \A k \in Rows, c \in Borrowers : lock[k] = c <=> Inside(c) /\ k \in tx[c].wrote

\* What a transaction has read may be out of date, but not if the version is
\* still the same.
ReadOK(seen, k) ==
    /\ 1 \leq seen.version /\ seen.version \leq row[k].version
    /\ seen.version = row[k].version => seen.value = row[k].value

ReadsInv == \A c \in Borrowers, k \in Rows :
    Inside(c) => tx[c].seen[k] = Unread \/ ReadOK(tx[c].seen[k], k)

\* What it has written nobody has changed since it was read.
WroteOK(c, k) ==
    /\ tx[c].seen[k] # Unread /\ tx[c].seen[k].version = row[k].version /\ ~row[k].deleted

WritesInv ==
    /\ \A c \in Borrowers, k \in Rows : Inside(c) /\ k \in tx[c].wrote => WroteOK(c, k)
    /\ \A c \in Borrowers : tx[c].at = "commit" => tx[c].wrote = Rows

RowsInv ==
    /\ \A k \in Rows : row[k].version \geq 1 /\ row[k].value = ledger[k]
    /\ Sum([k \in Rows |-> row[k].value]) = Total

DbInv == ShapesInv /\ LocksInv /\ ReadsInv /\ WritesInv /\ RowsInv

LEMMA InsideFacts ==
    ASSUME DbInv, NEW c \in Borrowers
    PROVE  /\ tx[c] \in Calls
           /\ tx[c].at \in Outside <=> ~Inside(c)
           /\ c # Free
BY DatabaseAssumption DEF DbInv, ShapesInv, Calls, Places, Outside, Inside

\* Only what one caller does changes.
Others(c) == tx' \in [Borrowers -> Calls] /\ \A o \in Borrowers : o # c => tx'[o] = tx[o]

\* A step that touches no row, no lock and no client, of a caller that stays
\* inside its transaction, with the same locks.
LEMMA StaysInside ==
    ASSUME DbInv, NEW c \in Borrowers, Others(c), Inside(c), Inside(c)',
           UNCHANGED <<row, lock, borrowed, pool, ledger, budget>>,
           tx'[c].wrote = tx[c].wrote,
           \A k \in Rows : tx'[c].seen[k] = tx[c].seen[k]
                           \/ (k \notin tx[c].wrote /\ ReadOK(tx'[c].seen[k], k)),
           tx'[c].at = "commit" => tx[c].wrote = Rows
    PROVE  DbInv'
<1>1. \A o \in Borrowers : Inside(o)' <=> Inside(o)
  BY DEF Others, Inside
<1>2. ShapesInv'
  BY <1>1 DEF DbInv, ShapesInv, Others
<1>3. LocksInv'
  BY <1>1 DEF DbInv, LocksInv, Others
<1>4. ReadsInv'
  <2>1. ASSUME NEW o \in Borrowers, NEW k \in Rows, Inside(o)
        PROVE  tx'[o].seen[k] = Unread \/ ReadOK(tx'[o].seen[k], k)
    <3>1. CASE o = c
      BY <2>1, <3>1 DEF DbInv, ReadsInv
    <3>2. CASE o # c
      BY <2>1, <3>2 DEF DbInv, ReadsInv, Others
    <3>3. QED
      BY <3>1, <3>2
  <2>2. QED
    BY <1>1, <2>1 DEF ReadsInv, ReadOK, Unread
<1>5. WritesInv'
  <2>1. ASSUME NEW o \in Borrowers, NEW k \in Rows, Inside(o), k \in tx'[o].wrote
        PROVE  tx'[o].seen[k] = tx[o].seen[k] /\ WroteOK(o, k)
    <3>1. CASE o = c
      BY <2>1, <3>1 DEF DbInv, WritesInv
    <3>2. CASE o # c
      BY <2>1, <3>2 DEF DbInv, WritesInv, Others
    <3>3. QED
      BY <3>1, <3>2
  <2>2. ASSUME NEW o \in Borrowers, tx'[o].at = "commit" PROVE tx'[o].wrote = Rows
    BY <2>2 DEF DbInv, WritesInv, Others
  <2>3. QED
    BY <1>1, <2>1, <2>2 DEF WritesInv, WroteOK, Unread
<1>6. RowsInv'
  BY DEF DbInv, RowsInv
<1>7. QED
  BY <1>2, <1>3, <1>4, <1>5, <1>6 DEF DbInv

LEMMA BeginKeeps == ASSUME DbInv, NEW c \in Borrowers, Begin(c) PROVE DbInv'
<1>0. /\ ~Inside(c) /\ tx[c] \in Calls /\ c \notin borrowed /\ budget' \in 0..Budget
      /\ UNCHANGED <<row, lock, pool, ledger>> /\ c # Free
  BY InsideFacts, DatabaseAssumption DEF Begin, DbInv, ShapesInv
<1>1. \A k \in Rows : lock[k] # c
  BY <1>0 DEF DbInv, LocksInv
<1>2. CASE pool = "closed"
  <2>1. tx' = [tx EXCEPT ![c].at = "failed"] /\ borrowed' = borrowed
    BY <1>2 DEF Begin
  <2>2. /\ tx'[c] \in Calls /\ tx'[c].at = "failed"
    BY <1>0, <2>1 DEF DbInv, ShapesInv, Calls, Places
  <2>3. Others(c)
    BY <2>1, <2>2 DEF Others, DbInv, ShapesInv
  <2>4. \A o \in Borrowers : Inside(o)' <=> Inside(o)
    BY <1>0, <2>2, <2>3 DEF Others, Inside
  <2>5. \A o \in Borrowers : Inside(o) => tx'[o] = tx[o]
    BY <1>0, <2>3 DEF Others
  <2>6. ShapesInv'
    BY <1>0, <2>1, <2>3, <2>4 DEF DbInv, ShapesInv, Others
  <2>7. LocksInv'
    BY <1>0, <2>4, <2>5 DEF DbInv, LocksInv
  <2>8. ReadsInv' /\ RowsInv'
    BY <1>0, <2>4, <2>5 DEF DbInv, ReadsInv, ReadOK, RowsInv, Unread
  <2>9. WritesInv'
    BY <1>0, <2>2, <2>3, <2>4, <2>5 DEF DbInv, WritesInv, WroteOK, Unread, Others
  <2>10. QED
    BY <2>6, <2>7, <2>8, <2>9 DEF DbInv
<1>3. CASE pool # "closed"
  <2>1. PICK from \in Rows :
          /\ tx' = [tx EXCEPT ![c] = [NotCalled EXCEPT !.at = "work", !.takes = from]]
          /\ borrowed' = borrowed \cup {c}
    BY <1>3 DEF Begin
  <2>2. NotCalled \in Calls /\ NotCalled.wrote = {} /\ \A k \in Rows : NotCalled.seen[k] = Unread
    <3> DEFINE none == [k \in Rows |-> Unread]  first == CHOOSE k \in Rows : TRUE
    <3>1. NotCalled = [at |-> "idle", seen |-> none, wrote |-> {}, takes |-> first]
      BY DEF NotCalled
    <3>2. first \in Rows
      BY <2>1
    <3>3. none \in [Rows -> Seen] /\ "idle" \in Places /\ {} \in SUBSET Rows
      BY DEF Unread, Seen, Places
    <3>4. \A k \in Rows : none[k] = Unread
      OBVIOUS
    <3> HIDE DEF none, first
    <3>5. NotCalled \in Calls
      BY <3>1, <3>2, <3>3 DEF Calls
    <3>6. NotCalled.wrote = {} /\ NotCalled.seen = none
      BY <3>1
    <3>7. QED
      BY <3>4, <3>5, <3>6
  <2>3. tx'[c] = [NotCalled EXCEPT !.at = "work", !.takes = from]
    BY <2>1 DEF DbInv, ShapesInv
  <2>4. /\ tx'[c] \in Calls /\ tx'[c].at = "work" /\ tx'[c].wrote = {}
        /\ \A k \in Rows : tx'[c].seen[k] = Unread
    BY <2>2, <2>3 DEF Calls, Places
  <2>5. Others(c)
    BY <2>1, <2>4 DEF Others, DbInv, ShapesInv
  <2>6. \A o \in Borrowers : Inside(o)' <=> Inside(o) \/ o = c
    BY <2>4, <2>5 DEF Others, Inside
  <2>7. ShapesInv'
    BY <1>0, <2>1, <2>5, <2>6 DEF DbInv, ShapesInv, Others
  <2>8. LocksInv'
    BY <1>0, <1>1, <2>4, <2>5, <2>6 DEF DbInv, LocksInv, Others
  <2>9. ReadsInv' /\ RowsInv'
    BY <1>0, <2>4, <2>5, <2>6 DEF DbInv, ReadsInv, ReadOK, RowsInv, Unread, Others
  <2>10. WritesInv'
    BY <1>0, <2>4, <2>5, <2>6 DEF DbInv, WritesInv, WroteOK, Unread, Others
  <2>11. QED
    BY <2>7, <2>8, <2>9, <2>10 DEF DbInv
<1>4. QED
  BY <1>2, <1>3

LEMMA ReadKeeps == ASSUME DbInv, NEW c \in Borrowers, NEW k \in Rows, Read(c, k) PROVE DbInv'
<1>0. /\ tx[c].at = "work" /\ tx[c].seen[k] = Unread /\ Inside(c) /\ tx[c] \in Calls
      /\ UNCHANGED <<row, lock, borrowed, pool, ledger, budget>>
  BY InsideFacts DEF Read, Inside
<1>1. k \notin tx[c].wrote
  BY <1>0 DEF DbInv, WritesInv, WroteOK
<1>2. row[k] \in RowRecords
  BY DEF DbInv, ShapesInv
<1>3. CASE Visible(k)
  <2>1. PICK seen : seen = [value |-> row[k].value, version |-> row[k].version]
    OBVIOUS
  <2>2. tx' = [tx EXCEPT ![c].seen[k] = seen]
    BY <1>3, <2>1 DEF Read
  <2>3. seen \in Seen /\ ReadOK(seen, k)
    BY <1>2, <2>1 DEF RowRecords, Seen, ReadOK, DbInv, RowsInv
  <2>4. /\ tx'[c] \in Calls /\ tx'[c].at = "work" /\ tx'[c].wrote = tx[c].wrote
        /\ tx'[c].seen[k] = seen /\ \A o \in Rows : o # k => tx'[c].seen[o] = tx[c].seen[o]
    <3>1. tx'[c] = [tx[c] EXCEPT !.seen = [tx[c].seen EXCEPT ![k] = seen]]
      BY <2>2 DEF DbInv, ShapesInv
    <3>2. [tx[c].seen EXCEPT ![k] = seen] \in [Rows -> Seen] /\ tx[c].seen \in [Rows -> Seen]
      BY <1>0, <2>3 DEF Calls
    <3>3. tx'[c] \in Calls /\ tx'[c].seen = [tx[c].seen EXCEPT ![k] = seen]
          /\ tx'[c].at = "work" /\ tx'[c].wrote = tx[c].wrote
      BY <1>0, <3>1, <3>2 DEF Calls
    <3>4. QED
      BY <3>2, <3>3
  <2>5. Others(c)
    BY <2>2, <2>4 DEF Others, DbInv, ShapesInv
  <2>6. Inside(c)'
    BY <2>4 DEF Inside
  <2>7. QED
    BY <1>0, <1>1, <2>3, <2>4, <2>5, <2>6, StaysInside
<1>4. CASE ~Visible(k)
  <2>1. tx' = [tx EXCEPT ![c].at = "error"]
    BY <1>4 DEF Read
  <2>2. tx'[c] \in Calls /\ tx'[c].at = "error" /\ tx'[c].wrote = tx[c].wrote /\ tx'[c].seen = tx[c].seen
    BY <1>0, <2>1 DEF DbInv, ShapesInv, Calls, Places
  <2>3. Others(c) /\ Inside(c)'
    BY <2>1, <2>2 DEF Others, DbInv, ShapesInv, Inside
  <2>4. QED
    BY <1>0, <2>2, <2>3, StaysInside
<1>5. QED
  BY <1>3, <1>4

\* The callback ends: with an error, a panic, or all its rows written.
LEMMA EndKeeps ==
    ASSUME DbInv, NEW c \in Borrowers, Break(c) \/ CallbackReturns(c) PROVE DbInv'
<1>0. /\ Inside(c) /\ tx[c] \in Calls
      /\ UNCHANGED <<row, lock, borrowed, pool, ledger, budget>>
  BY InsideFacts DEF Break, CallbackReturns, Inside
<1>1. PICK end \in {"error", "panic", "commit"} :
        tx' = [tx EXCEPT ![c].at = end] /\ (end = "commit" => tx[c].wrote = Rows)
  BY DEF Break, CallbackReturns
<1>2. tx'[c] \in Calls /\ tx'[c].at = end /\ tx'[c].wrote = tx[c].wrote /\ tx'[c].seen = tx[c].seen
  BY <1>0, <1>1 DEF DbInv, ShapesInv, Calls, Places
<1>3. Others(c) /\ Inside(c)'
  BY <1>1, <1>2 DEF Others, DbInv, ShapesInv, Inside
<1>4. QED
  BY <1>0, <1>1, <1>2, <1>3, StaysInside

LEMMA UpdateKeeps == ASSUME DbInv, NEW c \in Borrowers, NEW k \in Rows, Update(c, k) PROVE DbInv'
<1>0. /\ tx[c].at = "work" /\ Inside(c) /\ tx[c] \in Calls /\ lock[k] = Free /\ c # Free
      /\ k \notin tx[c].wrote /\ tx[c].seen[k] # Unread
      /\ UNCHANGED <<row, borrowed, pool, ledger, budget>>
  BY InsideFacts DEF Update, Inside
<1>1. CASE ~Filter(c, k)
  <2>1. tx' = [tx EXCEPT ![c].at = "error"] /\ lock' = lock
    BY <1>1 DEF Update
  <2>2. tx'[c] \in Calls /\ tx'[c].at = "error" /\ tx'[c].wrote = tx[c].wrote /\ tx'[c].seen = tx[c].seen
    BY <1>0, <2>1 DEF DbInv, ShapesInv, Calls, Places
  <2>3. Others(c) /\ Inside(c)'
    BY <2>1, <2>2 DEF Others, DbInv, ShapesInv, Inside
  <2>4. QED
    BY <1>0, <2>1, <2>2, <2>3, StaysInside
<1>2. CASE Filter(c, k)
  <2>1. lock' = [lock EXCEPT ![k] = c] /\ tx' = [tx EXCEPT ![c].wrote = @ \cup {k}]
    BY <1>2 DEF Update
  <2>2. /\ tx'[c] \in Calls /\ tx'[c].at = "work" /\ tx'[c].wrote = tx[c].wrote \cup {k}
        /\ tx'[c].seen = tx[c].seen
    <3>1. tx'[c] = [tx[c] EXCEPT !.wrote = tx[c].wrote \cup {k}]
      BY <2>1 DEF DbInv, ShapesInv
    <3>2. tx[c].wrote \cup {k} \in SUBSET Rows
      BY <1>0 DEF Calls
    <3>3. QED
      BY <1>0, <3>1, <3>2 DEF Calls
  <2>3. Others(c) /\ Inside(c)'
    BY <2>1, <2>2 DEF Others, DbInv, ShapesInv, Inside
  <2>4. \A o \in Borrowers : Inside(o)' <=> Inside(o)
    BY <1>0, <2>3 DEF Others, Inside
  <2>5. /\ lock' \in [Rows -> Borrowers \cup {Free}] /\ lock'[k] = c
        /\ \A o \in Rows : o # k => lock'[o] = lock[o]
    BY <2>1 DEF DbInv, ShapesInv
  <2>6. ShapesInv'
    BY <1>0, <2>3, <2>4, <2>5 DEF DbInv, ShapesInv, Others
  <2>7. LocksInv'
    <3>1. ASSUME NEW i \in Rows, NEW o \in Borrowers
          PROVE  lock'[i] = o <=> Inside(o) /\ i \in tx'[o].wrote
      <4>1. o # Free /\ (lock[i] = o <=> Inside(o) /\ i \in tx[o].wrote)
        BY InsideFacts DEF DbInv, LocksInv
      <4>2. CASE i = k
        BY <1>0, <2>2, <2>3, <2>5, <4>1, <4>2 DEF Others
      <4>3. CASE i # k
        BY <2>2, <2>3, <2>5, <4>1, <4>3 DEF Others
      <4>4. QED
        BY <4>2, <4>3
    <3>2. QED
      BY <2>4, <3>1 DEF LocksInv
  <2>8. \A o \in Borrowers : tx'[o].seen = tx[o].seen
    BY <2>2, <2>3 DEF Others
  <2>9. ReadsInv' /\ RowsInv'
    BY <1>0, <2>4, <2>8 DEF DbInv, ReadsInv, ReadOK, RowsInv, Unread
  <2>10. WroteOK(c, k)
    BY <1>0, <1>2 DEF WroteOK, Filter, Visible
  <2>11. WritesInv'
    <3>1. ASSUME NEW o \in Borrowers, NEW i \in Rows, Inside(o), i \in tx'[o].wrote
          PROVE  WroteOK(o, i)
      <4>1. i \in tx[o].wrote \/ (o = c /\ i = k)
        BY <2>2, <2>3, <3>1 DEF Others
      <4>2. QED
        BY <2>10, <3>1, <4>1 DEF DbInv, WritesInv
    <3>2. ASSUME NEW o \in Borrowers, tx'[o].at = "commit" PROVE tx'[o].wrote = Rows
      BY <2>2, <2>3, <3>2 DEF DbInv, WritesInv, Others
    <3>3. QED
      BY <1>0, <2>4, <2>8, <3>1, <3>2 DEF WritesInv, WroteOK, Unread
  <2>12. QED
    BY <2>6, <2>7, <2>9, <2>11 DEF DbInv
<1>3. QED
  BY <1>1, <1>2

\* The transaction of c ends: it gives its locks and its client back.
Ends(c) ==
    /\ Others(c) /\ tx'[c].at \in {"applied", "failed", "unknown"}
    /\ lock' = Released(c) /\ borrowed' = borrowed \ {c}
    /\ UNCHANGED <<pool, budget>>

\* What the rows may have become for those that are still inside.
RowsMove(c) ==
    /\ row' \in [Rows -> RowRecords] /\ ledger' \in [Rows -> Int]
    /\ \A k \in Rows :
          \/ row'[k] = row[k]
          \/ row'[k].version > row[k].version /\ \A o \in Borrowers : o # c => lock[k] # o

LEMMA EndFacts ==
    ASSUME DbInv, NEW c \in Borrowers, Ends(c), RowsMove(c), RowsInv'
    PROVE  DbInv'
<1>1. /\ ~Inside(c)' /\ \A o \in Borrowers : o # c => (Inside(o)' <=> Inside(o))
  BY DEF Ends, Others, Inside
<1>2. /\ lock' \in [Rows -> Borrowers \cup {Free}]
      /\ \A k \in Rows : lock'[k] = IF lock[k] = c THEN Free ELSE lock[k]
  BY DEF Ends, Released, DbInv, ShapesInv
<1>3. ShapesInv'
  BY <1>1, <1>2 DEF DbInv, ShapesInv, Ends, Others, RowsMove
<1>4. LocksInv'
  <2>1. ASSUME NEW k \in Rows, NEW o \in Borrowers
        PROVE  lock'[k] = o <=> Inside(o)' /\ k \in tx'[o].wrote
    <3>1. o # Free /\ (lock[k] = o <=> Inside(o) /\ k \in tx[o].wrote)
      BY InsideFacts DEF DbInv, LocksInv
    <3>2. CASE o = c
      BY <1>1, <1>2, <3>1, <3>2
    <3>3. CASE o # c
      BY <1>1, <1>2, <3>1, <3>3 DEF Ends, Others
    <3>4. QED
      BY <3>2, <3>3
  <2>2. QED
    BY <2>1 DEF LocksInv, Inside
<1>5. ReadsInv'
  <2>1. ASSUME NEW o \in Borrowers, NEW k \in Rows, o # c, Inside(o), tx[o].seen[k] # Unread
        PROVE  LET seen == tx[o].seen[k] IN
               /\ 1 \leq seen.version /\ seen.version \leq row'[k].version
               /\ seen.version = row'[k].version => seen.value = row'[k].value
    <3>1. ReadOK(tx[o].seen[k], k)
      BY <2>1 DEF DbInv, ReadsInv
    <3>2. row[k] \in RowRecords /\ row'[k] \in RowRecords /\ tx[o] \in Calls
      BY DEF DbInv, ShapesInv, RowsMove
    <3>3. tx[o].seen[k].version \in Nat /\ row[k].version \in Nat /\ row'[k].version \in Nat
      BY <3>2 DEF Calls, Seen, RowRecords
    <3>4. CASE row'[k] = row[k]
      BY <3>1, <3>4 DEF ReadOK
    <3>5. CASE row'[k].version > row[k].version
      BY <3>1, <3>3, <3>5 DEF ReadOK
    <3>6. QED
      BY <3>4, <3>5 DEF RowsMove
  <2>2. ASSUME NEW o \in Borrowers, NEW k \in Rows, Inside(o)'
        PROVE  tx'[o].seen[k] = Unread \/ ReadOK(tx[o].seen[k], k)'
    <3>1. o # c /\ tx'[o] = tx[o] /\ Inside(o)
      BY <1>1, <2>2 DEF Ends, Others
    <3>2. QED
      BY <2>1, <3>1 DEF ReadOK
  <2>3. QED
    BY <2>2 DEF ReadsInv, Inside, Unread, ReadOK
<1>6. WritesInv'
  <2>1. ASSUME NEW o \in Borrowers, NEW k \in Rows, Inside(o)', k \in tx'[o].wrote
        PROVE  WroteOK(o, k)'
    <3>1. o # c /\ tx'[o] = tx[o] /\ Inside(o)
      BY <1>1, <2>1 DEF Ends, Others
    <3>2. WroteOK(o, k) /\ lock[k] = o
      BY <2>1, <3>1 DEF DbInv, WritesInv, LocksInv
    <3>3. row'[k] = row[k]
      BY <3>1, <3>2 DEF RowsMove
    <3>4. QED
      BY <3>1, <3>2, <3>3 DEF WroteOK, Unread
  <2>2. ASSUME NEW o \in Borrowers, tx'[o].at = "commit" PROVE tx'[o].wrote = Rows
    <3>1. o # c
      BY <2>2 DEF Ends
    <3>2. QED
      BY <2>2, <3>1 DEF DbInv, WritesInv, Ends, Others
  <2>3. QED
    BY <2>1, <2>2 DEF WritesInv, Inside
<1>7. QED
  BY <1>3, <1>4, <1>5, <1>6 DEF DbInv

\* What a transfer stores: one less in one row, one more in the other.
LEMMA StoredFacts ==
    ASSUME DbInv, NEW c \in Borrowers, tx[c].at = "commit", NEW k \in Rows
    PROVE  /\ Stored(c, k).version = row[k].version + 1
           /\ Stored(c, k).value = row[k].value + (IF k = tx[c].takes THEN -1 ELSE 1)
           /\ Stored(c, k) \in RowRecords
           /\ Credited(c, k) = Stored(c, k).value
           /\ ~row[k].deleted /\ lock[k] = c
<1>1. k \in tx[c].wrote /\ Inside(c)
  BY DEF DbInv, WritesInv, Inside
<1>2. WroteOK(c, k) /\ lock[k] = c
  BY <1>1 DEF DbInv, WritesInv, LocksInv
<1>3. tx[c].seen[k].value = row[k].value
  BY <1>1, <1>2 DEF DbInv, ReadsInv, ReadOK, WroteOK
<1>4. row[k] \in RowRecords /\ row[k].value \in Int /\ row[k].version \in Nat /\ ledger[k] = row[k].value
  BY DEF DbInv, ShapesInv, RowsInv, RowRecords
<1>5. PICK change \in Int : change = IF k = tx[c].takes THEN -1 ELSE 1
  OBVIOUS
<1>6. Stored(c, k) = [row[k] EXCEPT !.version = @ + 1, !.value = row[k].value + change]
  BY <1>1, <1>3, <1>5 DEF Stored
<1>7. Stored(c, k).version = row[k].version + 1 /\ Stored(c, k).value = row[k].value + change
      /\ Stored(c, k) \in RowRecords
  <2>1. row[k].version + 1 \in Nat /\ row[k].value + change \in Int
    BY <1>4, <1>5
  <2>2. Stored(c, k).version = row[k].version + 1 /\ Stored(c, k).value = row[k].value + change
    BY <1>4, <1>6 DEF RowRecords
  <2>3. Stored(c, k) \in RowRecords
    BY <1>4, <1>6, <2>1 DEF RowRecords
  <2>4. QED
    BY <2>2, <2>3
<1>8. Credited(c, k) = row[k].value + change
  BY <1>1, <1>4, <1>5 DEF Credited
<1>9. QED
  BY <1>2, <1>5, <1>7, <1>8 DEF WroteOK

LEMMA CommitKeeps == ASSUME DbInv, NEW c \in Borrowers, Commit(c) PROVE DbInv'
<1>0. tx[c].at = "commit" /\ tx[c] \in Calls
  BY InsideFacts DEF Commit
<1>1. PICK outcome \in {"applied", "failed", "unknown"}, stored \in BOOLEAN :
        /\ row' = IF stored THEN [k \in Rows |-> Stored(c, k)] ELSE row
        /\ ledger' = IF stored THEN [k \in Rows |-> Credited(c, k)] ELSE ledger
        /\ tx' = [tx EXCEPT ![c].at = outcome]
  BY DEF Commit
<1>2. tx'[c] \in Calls /\ tx'[c].at = outcome
  BY <1>0, <1>1 DEF DbInv, ShapesInv, Calls, Places
<1>3. Ends(c)
  BY <1>1, <1>2 DEF Ends, Others, Commit, DbInv, ShapesInv
<1>4. CASE ~stored
  <2>1. RowsMove(c) /\ RowsInv'
    BY <1>1, <1>4 DEF RowsMove, RowsInv, DbInv, ShapesInv
  <2>2. QED
    BY <1>3, <2>1, EndFacts
<1>5. CASE stored
  <2>1. \A k \in Rows : row'[k] = Stored(c, k) /\ ledger'[k] = Credited(c, k)
    BY <1>1, <1>5
  <2>2. \A k \in Rows : /\ row'[k] \in RowRecords /\ ledger'[k] = row'[k].value
                        /\ row'[k].version = row[k].version + 1 /\ lock[k] = c
                        /\ row'[k].value = row[k].value + (IF k = tx[c].takes THEN -1 ELSE 1)
    BY <1>0, <2>1, StoredFacts
  <2>3. \A k \in Rows : row[k].version \in Nat /\ row[k].value \in Int /\ row'[k].value \in Int
    BY <2>2 DEF DbInv, ShapesInv, RowRecords
  <2>4. RowsMove(c)
    <3>1. row' \in [Rows -> RowRecords] /\ ledger' \in [Rows -> Int]
      <4>1. row' = [k \in Rows |-> Stored(c, k)] /\ ledger' = [k \in Rows |-> Credited(c, k)]
        BY <1>1, <1>5
      <4>2. \A k \in Rows : Stored(c, k) \in RowRecords /\ Credited(c, k) \in Int
        BY <2>1, <2>2, <2>3
      <4>3. QED
        BY <4>1, <4>2
    <3>2. \A k \in Rows : row'[k].version > row[k].version
      BY <2>2, <2>3
    <3>3. QED
      BY <2>2, <3>1, <3>2 DEF RowsMove
  <2>5. Sum([k \in Rows |-> row'[k].value]) = Total
    <3>1. PICK a \in Rows, b \in Rows : a # b /\ Rows = {a, b}
      BY DatabaseAssumption
    <3> DEFINE before == [k \in Rows |-> row[k].value]  after == [k \in Rows |-> row'[k].value]
    <3>2. before \in [{a, b} -> Int] /\ after \in [{a, b} -> Int]
      BY <2>3, <3>1
    <3>3. Sum(before) = before[a] + before[b] /\ Sum(after) = after[a] + after[b]
      <4> HIDE DEF before, after
      <4>1. QED
        BY <3>1, <3>2, SumOfTwo
    <3>4. /\ before[a] = row[a].value /\ before[b] = row[b].value
          /\ after[a] = row'[a].value /\ after[b] = row'[b].value
      BY <3>1
    <3>5. tx[c].takes = a \/ tx[c].takes = b
      BY <1>0, <3>1 DEF Calls
    <3>6. row'[a].value + row'[b].value = row[a].value + row[b].value
      BY <2>2, <2>3, <3>1, <3>5
    <3>7. Sum(before) = Total
      BY DEF DbInv, RowsInv
    <3> HIDE DEF before
    <3>8. QED
      BY <3>3, <3>4, <3>6, <3>7
  <2>6. RowsInv'
    <3>1. \A k \in Rows : row'[k].version \geq 1
      BY <2>2, <2>3 DEF DbInv, RowsInv
    <3>2. QED
      BY <2>2, <2>5, <3>1 DEF RowsInv
  <2>7. QED
    BY <1>3, <2>4, <2>6, EndFacts
<1>6. QED
  BY <1>4, <1>5

LEMMA RollbackKeeps == ASSUME DbInv, NEW c \in Borrowers, Rollback(c) PROVE DbInv'
<1>0. tx[c] \in Calls /\ UNCHANGED <<row, ledger>> /\ tx' = [tx EXCEPT ![c].at = "failed"]
  BY InsideFacts DEF Rollback, Undone
<1>1. tx'[c] \in Calls /\ tx'[c].at = "failed"
  BY <1>0 DEF DbInv, ShapesInv, Calls, Places
<1>2. Ends(c)
  BY <1>0, <1>1 DEF Ends, Others, Rollback, DbInv, ShapesInv
<1>3. RowsMove(c) /\ RowsInv'
  BY <1>0 DEF RowsMove, RowsInv, DbInv, ShapesInv
<1>4. QED
  BY <1>2, <1>3, EndFacts

LEMMA DeleteKeeps == ASSUME DbInv, NEW c \in Borrowers, NEW k \in Rows, Delete(c, k) PROVE DbInv'
<1>0. /\ lock[k] = Free /\ budget' \in 0..Budget /\ UNCHANGED <<lock, tx, borrowed, pool, ledger>>
      /\ row[k] \in RowRecords
  BY DatabaseAssumption DEF Delete, DbInv, ShapesInv
<1>1. row' = [row EXCEPT ![k].deleted = TRUE, ![k].version = @ + 1]
  BY DEF Delete
<1>2. /\ row'[k].version = row[k].version + 1 /\ row'[k].value = row[k].value /\ row'[k] \in RowRecords
      /\ \A i \in Rows : i # k => row'[i] = row[i]
  BY <1>0, <1>1 DEF DbInv, ShapesInv, RowRecords
<1>3. row' \in [Rows -> RowRecords]
  BY <1>1, <1>2 DEF DbInv, ShapesInv
<1>4. \A o \in Borrowers : lock[k] # o
  BY <1>0, InsideFacts
<1>5. ShapesInv'
  BY <1>0, <1>3 DEF DbInv, ShapesInv, Inside
<1>6. LocksInv'
  BY <1>0 DEF DbInv, LocksInv, Inside
<1>7. ASSUME NEW o \in Borrowers, NEW i \in Rows, Inside(o), tx[o].seen[i] # Unread
      PROVE  /\ 1 \leq tx[o].seen[i].version /\ tx[o].seen[i].version \leq row'[i].version
             /\ tx[o].seen[i].version = row'[i].version => tx[o].seen[i].value = row'[i].value
  <2>1. ReadOK(tx[o].seen[i], i)
    BY <1>7 DEF DbInv, ReadsInv
  <2>2. tx[o].seen[i].version \in Nat /\ row[i].version \in Nat
    BY DEF DbInv, ShapesInv, Calls, Seen, RowRecords
  <2>3. CASE i = k
    BY <1>2, <2>1, <2>2, <2>3 DEF ReadOK
  <2>4. CASE i # k
    BY <1>2, <2>1, <2>4 DEF ReadOK
  <2>5. QED
    BY <2>3, <2>4
<1>8. ReadsInv'
  BY <1>0, <1>7 DEF ReadsInv, ReadOK, Inside, Unread
<1>9. WritesInv'
  <2>1. ASSUME NEW o \in Borrowers, NEW i \in Rows, Inside(o), i \in tx[o].wrote
        PROVE  row'[i] = row[i] /\ WroteOK(o, i)
    BY <1>2, <1>4, <2>1 DEF DbInv, LocksInv, WritesInv
  <2>2. QED
    BY <1>0, <2>1 DEF DbInv, WritesInv, WroteOK, Inside, Unread
<1>10. RowsInv'
  <2>1. \A i \in Rows : row'[i].value = row[i].value /\ row[i].version \in Nat /\ row'[i].version \geq row[i].version
    BY <1>0, <1>2 DEF DbInv, ShapesInv, RowRecords
  <2>2. [i \in Rows |-> row'[i].value] = [i \in Rows |-> row[i].value]
    BY <2>1
  <2>3. \A i \in Rows : row'[i].version \geq 1
    BY <1>2, <2>1 DEF DbInv, RowsInv, RowRecords
  <2>4. QED
    BY <1>0, <2>1, <2>2, <2>3 DEF DbInv, RowsInv
<1>11. QED
  BY <1>5, <1>6, <1>8, <1>9, <1>10 DEF DbInv

LEMMA DbStep == ASSUME DbInv, [DbNext]_dbVars PROVE DbInv'
<1>1. CASE ClosePool
  BY <1>1 DEF ClosePool, DbInv, ShapesInv, LocksInv, ReadsInv, ReadOK, WritesInv, WroteOK, RowsInv, Inside, Unread
<1>2. CASE UNCHANGED dbVars
  BY <1>2 DEF dbVars, DbInv, ShapesInv, LocksInv, ReadsInv, ReadOK, WritesInv, WroteOK, RowsInv, Inside, Unread
<1>3. ASSUME NEW c \in Borrowers, Begin(c) \/ Break(c) \/ CallbackReturns(c) \/ Commit(c) \/ Rollback(c)
      PROVE  DbInv'
  BY <1>3, BeginKeeps, EndKeeps, CommitKeeps, RollbackKeeps
<1>4. ASSUME NEW c \in Borrowers, NEW k \in Rows, Read(c, k) \/ Update(c, k) \/ Delete(c, k)
      PROVE  DbInv'
  BY <1>4, ReadKeeps, UpdateKeeps, DeleteKeeps
<1>5. QED
  BY <1>1, <1>2, <1>3, <1>4 DEF DbNext

LEMMA DbInitially == ASSUME DbInit PROVE DbInv
<1>1. /\ row \in [Rows -> RowRecords] /\ \A k \in Rows : row[k].version = 1 /\ row[k].value \in Int
  <2>1. \A r \in {[value |-> v, version |-> 1, deleted |-> FALSE] : v \in 0 .. Total} :
           r \in RowRecords /\ r.version = 1 /\ r.value \in Int
    <3>1. TAKE r \in {[value |-> v, version |-> 1, deleted |-> FALSE] : v \in 0 .. Total}
    <3>2. PICK v \in 0 .. Total : r = [value |-> v, version |-> 1, deleted |-> FALSE]
      OBVIOUS
    <3>3. v \in Int /\ 1 \in Nat
      BY DatabaseAssumption
    <3>4. QED
      BY <3>2, <3>3 DEF RowRecords
  <2> DEFINE Fresh == {[value |-> v, version |-> 1, deleted |-> FALSE] : v \in 0 .. Total}
  <2>2. row \in [Rows -> Fresh]
    BY DEF DbInit
  <2> HIDE DEF Fresh
  <2>3. QED
    BY <2>1, <2>2 DEF Fresh
<1>2. NotCalled \in Calls /\ NotCalled.at = "idle"
  <2> DEFINE none == [k \in Rows |-> Unread]  first == CHOOSE k \in Rows : TRUE
  <2>1. NotCalled = [at |-> "idle", seen |-> none, wrote |-> {}, takes |-> first]
    BY DEF NotCalled
  <2>2. first \in Rows
    BY DatabaseAssumption
  <2>3. none \in [Rows -> Seen] /\ "idle" \in Places /\ {} \in SUBSET Rows
    BY DEF Unread, Seen, Places
  <2> HIDE DEF none, first
  <2>4. QED
    BY <2>1, <2>2, <2>3 DEF Calls
<1>3. tx \in [Borrowers -> Calls] /\ \A c \in Borrowers : tx[c].at = "idle"
  BY <1>2 DEF DbInit
<1>4. \A c \in Borrowers : ~Inside(c) /\ c # Free
  BY <1>3, DatabaseAssumption DEF Inside
<1>5. ShapesInv
  BY <1>1, <1>3, <1>4, DatabaseAssumption DEF DbInit, ShapesInv
<1>6. LocksInv /\ ReadsInv /\ WritesInv
  BY <1>3, <1>4 DEF DbInit, LocksInv, ReadsInv, WritesInv
<1>7. RowsInv
  BY <1>1 DEF DbInit, RowsInv
<1>8. QED
  BY <1>5, <1>6, <1>7 DEF DbInv

\* What is deleted softly is never changed again: an update has the lock of a row
\* that it saw alive, and a delete asks that the row is visible.
LEMMA DeletedKept ==
    ASSUME DbInv, [DbNext]_dbVars, NEW k \in Rows, row[k].deleted
    PROVE  row'[k] = row[k]
<1>1. ASSUME NEW c \in Borrowers, Commit(c) PROVE row'[k] = row[k]
  <2>1. tx[c].at = "commit"
    BY <1>1 DEF Commit
  <2>2. FALSE
    BY <2>1, StoredFacts
  <2>3. QED
    BY <2>2
<1>2. ASSUME NEW c \in Borrowers, NEW i \in Rows, Delete(c, i) PROVE row'[k] = row[k]
  <2>1. i # k /\ row' = [row EXCEPT ![i].deleted = TRUE, ![i].version = @ + 1]
    BY <1>2 DEF Delete, Visible
  <2>2. QED
    BY <2>1 DEF DbInv, ShapesInv
<1>3. ASSUME NEW c \in Borrowers, Begin(c) \/ Break(c) \/ CallbackReturns(c) \/ Rollback(c)
      PROVE  row'[k] = row[k]
  BY <1>3 DEF Begin, Break, CallbackReturns, Rollback, Undone
<1>4. ASSUME NEW c \in Borrowers, NEW i \in Rows, Read(c, i) \/ Update(c, i) PROVE row'[k] = row[k]
  BY <1>4 DEF Read, Update
<1>5. CASE ClosePool \/ UNCHANGED dbVars
  BY <1>5 DEF ClosePool, dbVars
<1>6. QED
  BY <1>1, <1>2, <1>3, <1>4, <1>5 DEF DbNext

LEMMA DbInvImplies == ASSUME DbInv PROVE DbTypeOK /\ TransactionsAreWhole /\ UpdatesAreNotLost
<1>1. DbTypeOK
  BY DEF DbInv, ShapesInv, DbTypeOK, RowRecords, Calls, Seen, Places, Outside
<1>2. TransactionsAreWhole
  <2>1. ASSUME NEW k \in Rows, lock[k] # Free PROVE lock[k] \in borrowed
    BY <2>1 DEF DbInv, ShapesInv, LocksInv
  <2>2. QED
    BY <2>1 DEF DbInv, RowsInv, TransactionsAreWhole
<1>3. UpdatesAreNotLost
  BY DEF DbInv, RowsInv, UpdatesAreNotLost
<1>4. QED
  BY <1>1, <1>2, <1>3

\* For any number of callers and calls: what the rows add up to never changes,
\* no update is lost, locks are held by open transactions only, and what was
\* deleted softly stays as it is (WithinTx, Update and SoftDelete of pkg/database).
THEOREM TransactionsAreSoundHolds == DbSpec => TransactionsAreSound
<1>1. DbInit => DbInv
  BY DbInitially
<1>2. DbInv /\ [DbNext]_dbVars => DbInv'
  BY DbStep
<1>3. DbInv => DbTypeOK /\ TransactionsAreWhole /\ UpdatesAreNotLost
  BY DbInvImplies
<1>4. DbInv /\ [DbNext]_dbVars => [\A k \in Rows : row[k].deleted => row'[k] = row[k]]_dbVars
  BY DeletedKept
<1>5. QED
  BY <1>1, <1>2, <1>3, <1>4, PTL DEF DbSpec, TransactionsAreSound, DeletedStays

-----------------------------------------------------------------------------
(* The watches of files.                                                   *)

\* The map holds the watches that were begun and not canceled.
WatchedInv == \A e \in Entries : e \in watches <=> (entry[e].at # "unused" /\ ~entry[e].canceled)

\* A path has one watch in the map, and none is left in that of a closed service.
AloneInv ==
    /\ \A e, o \in watches : entry[e].path = entry[o].path => e = o
    /\ service = "closed" => watches = {}

\* Whoever has been told that a watch is stopped was told so by its end.
QuietInv == \A e \in stopped : entry[e].at = "done"

FilesInv == FileTypeOK /\ WatchedInv /\ AloneInv /\ QuietInv

LEMMA FilesInitially == ASSUME FileInit PROVE FilesInv
<1>1. (CHOOSE p \in Paths : TRUE) \in Paths
  BY PathsAssumption
<1>2. QED
  BY <1>1 DEF FileInit, NoCall, FilesInv, FileTypeOK, WatchedInv, AloneInv, QuietInv

LEMMA FilesStep == ASSUME FilesInv, [FileNext]_fileVars PROVE FilesInv'
<1> USE DEF FilesInv
<1>1. ASSUME NEW e \in Entries, NEW p \in Paths, Watch(e, p) PROVE FilesInv'
  BY <1>1 DEF Watch, WatchOf, FileTypeOK, WatchedInv, AloneInv, QuietInv
<1>2. ASSUME NEW e \in Entries, HandleEvent(e) \/ HandlerReturns(e) \/ ConsumerEnds(e) PROVE FilesInv'
  <2>1. /\ UNCHANGED <<watches, stopper, stopped, service>>
        /\ entry[e].at \in {"select", "handler"} /\ entry'[e].at \in {"select", "handler", "done"}
        /\ entry' \in [Entries -> [path : Paths, canceled : BOOLEAN, at : {"unused", "select", "handler", "done"}]]
        /\ \A x \in Entries : /\ entry'[x].path = entry[x].path /\ entry'[x].canceled = entry[x].canceled
                              /\ x # e => entry'[x].at = entry[x].at
    BY <1>2 DEF HandleEvent, HandlerReturns, ConsumerEnds, FileTypeOK
  <2>2. QED
    BY <2>1 DEF FileTypeOK, WatchedInv, AloneInv, QuietInv
<1>3. ASSUME NEW set \in SUBSET Entries, Cancel(set)
      PROVE  /\ entry' \in [Entries -> [path : Paths, canceled : BOOLEAN, at : {"unused", "select", "handler", "done"}]]
             /\ \A e \in Entries : /\ entry'[e].path = entry[e].path /\ entry'[e].at = entry[e].at
                                   /\ entry'[e].canceled <=> (entry[e].canceled \/ e \in set)
  BY <1>3 DEF Cancel, FileTypeOK
<1>4. ASSUME NEW s \in Stoppers, NEW e \in Entries, StopWatch(s, e) PROVE FilesInv'
  BY <1>3, <1>4 DEF StopWatch, FileTypeOK, WatchedInv, AloneInv, QuietInv
<1>5. ASSUME NEW s \in Stoppers, StopAllWatch(s) PROVE FilesInv'
  BY <1>3, <1>5 DEF StopAllWatch, FileTypeOK, WatchedInv, AloneInv, QuietInv
<1>6. CASE CloseService
  BY <1>3, <1>6 DEF CloseService, FileTypeOK, WatchedInv, AloneInv, QuietInv
<1>7. ASSUME NEW s \in Stoppers, StopWatchReturns(s) PROVE FilesInv'
  BY <1>7 DEF StopWatchReturns, Awaited, NoCall, FileTypeOK, WatchedInv, AloneInv, QuietInv
<1>8. CASE UNCHANGED fileVars
  BY <1>8 DEF fileVars, FileTypeOK, WatchedInv, AloneInv, QuietInv
<1>9. QED
  BY <1>1, <1>2, <1>4, <1>5, <1>6, <1>7, <1>8 DEF FileNext

LEMMA FilesAreQuiet == ASSUME FilesInv PROVE StoppedWatchesAreQuiet
BY DEF FilesInv, FileTypeOK, WatchedInv, AloneInv, QuietInv, StoppedWatchesAreQuiet

-----------------------------------------------------------------------------
(* The borrowed clients and the checks of candidates.                      *)

FileContents == {"none", "empty", "ok"} \cup Contents
Askings ==
    [does : {"none", "put", "get", "delete", "exists"},
     at : {"none", "asked", "refused", "begun", "writing", "stat", "ok", "failed"},
     puts : {"none"} \cup Contents, found : FileContents, asked : {"none", "inside", "returned"}]
Verifications ==
    [at : {"put", "write", "get", "exists", "delete", "head", "done"},
     failed : BOOLEAN, hurt : BOOLEAN, mess : BOOLEAN]

StoreShapes ==
    /\ manager \in [driver : Drivers, closed : BOOLEAN]
    /\ borrow \in [client : {"none", "local", "object"}, at : {"none", "refused", "inside", "returned"}]
    /\ operation \in [Operations -> Askings]
    /\ check \in [Checks -> Verifications]
    /\ files \in [{TheKey} \cup Checks -> FileContents]
    /\ object \in {"none"} \cup Contents

\* Without a client nothing is asked for, and what was asked for too late is not begun.
BorrowsInv ==
    /\ borrow.at \in {"none", "refused"} =>
          borrow.client = "none" /\ \A o \in Operations : operation[o].at = "none"
    /\ \A o \in Operations :
          /\ operation[o].at = "none" => operation[o].asked = "none"
          /\ operation[o].asked = "returned" =>
                borrow.at = "returned" /\ operation[o].at \in {"asked", "refused"}

\* What an operation that is on its way does, and over which client.
OperationsInv ==
    \A o \in Operations :
       /\ operation[o].does # "put" => operation[o].puts = "none"
       /\ operation[o].at = "writing" => operation[o].does = "put" /\ borrow.client = "local"
       /\ operation[o].at = "stat" => operation[o].does = "get" /\ borrow.client = "local"

\* What the file of a check is at each step of it: nobody else touches it.
VerifiesInv ==
    \A h \in Checks :
       /\ check[h].failed <=> check[h].hurt
       /\ check[h].at = "put" => files[h] = "none"
       /\ check[h].at = "write" => files[h] = "empty"
       /\ check[h].at \in {"get", "exists"} => files[h] = "ok"
       /\ check[h].at \in {"head", "done"} => (files[h] = "none" \/ check[h].mess)

StoreInv == StoreShapes /\ BorrowsInv /\ OperationsInv /\ SuccessIsStored /\ VerifiesInv

LEMMA ObjectsInitially == ASSUME ObjectInit PROVE StoreInv
<1>1. NotAsked \in Askings /\ NotAsked.at = "none" /\ NotAsked.puts = "none" /\ NotAsked.asked = "none"
  BY DEF NotAsked, Askings, FileContents
<1>2. \A h \in Checks : check[h].at \in {"put", "head", "done"}
  BY DEF ObjectInit, FirstOf
<1>3. check \in [Checks -> Verifications]
  BY <1>2 DEF ObjectInit, Verifications, FirstOf
<1>4. StoreShapes
  BY <1>1, <1>3 DEF ObjectInit, StoreShapes, FileContents
<1>5. BorrowsInv /\ OperationsInv
  BY <1>1 DEF ObjectInit, BorrowsInv, OperationsInv
<1>6. SuccessIsStored
  BY <1>1 DEF ObjectInit, SuccessIsStored
<1>7. VerifiesInv
  BY <1>2 DEF ObjectInit, VerifiesInv
<1>8. QED
  BY <1>4, <1>5, <1>6, <1>7 DEF StoreInv

\* The other file is another one.
LEMMA KeysApart == \A h \in Checks : CheckKey(h) = h /\ h # TheKey
BY KeysAssumption DEF CheckKey

LEMMA ClientsKnown == ASSUME NEW d \in Drivers PROVE Clients(d) \subseteq {"local", "object"}
BY DEF Drivers, Clients

LEMMA BorrowKeeps ==
    ASSUME StoreInv, (\E route \in {"primary", "local", "object"} : Borrow(route)) \/ EndBorrow \/ CloseManager
    PROVE  StoreInv'
<1>1. ASSUME NEW route \in {"primary", "local", "object"}, Borrow(route) PROVE StoreInv'
  <2>1. Clients(manager.driver) \subseteq {"local", "object"}
    BY ClientsKnown DEF StoreInv, StoreShapes
  <2>2. /\ borrow.at = "none" /\ borrow'.at \in {"inside", "refused"}
        /\ borrow'.client \in {"none", "local", "object"} /\ (borrow'.at = "refused" => borrow'.client = "none")
        /\ borrow' \in [client : {"none", "local", "object"}, at : {"none", "refused", "inside", "returned"}]
        /\ UNCHANGED <<manager, operation, check, files, object>>
    BY <1>1, <2>1 DEF Borrow
  <2>3. borrow.client = "none" /\ \A o \in Operations : operation[o].at = "none"
    BY <2>2 DEF StoreInv, BorrowsInv
  <2>4. StoreShapes' /\ BorrowsInv' /\ OperationsInv' /\ VerifiesInv'
    BY <2>2, <2>3 DEF StoreInv, StoreShapes, BorrowsInv, OperationsInv, VerifiesInv
  <2>5. SuccessIsStored'
    BY <2>2, <2>3 DEF StoreInv, SuccessIsStored
  <2>6. QED
    BY <2>4, <2>5 DEF StoreInv
<1>2. CASE EndBorrow
  BY <1>2 DEF EndBorrow, StoreInv, StoreShapes, BorrowsInv, OperationsInv, VerifiesInv,
              SuccessIsStored, Changing, TheObject
<1>3. CASE CloseManager
  <2>1. /\ UNCHANGED <<borrow, operation, check, files, object>>
        /\ manager' \in [driver : Drivers, closed : BOOLEAN]
    BY <1>3 DEF CloseManager, StoreInv, StoreShapes
  <2>2. QED
    BY <2>1 DEF StoreInv, StoreShapes, BorrowsInv, OperationsInv, VerifiesInv, SuccessIsStored, Changing, TheObject
<1>4. QED
  BY <1>1, <1>2, <1>3

\* An operation that is asked for, begun or refused touches nothing.
LEMMA AskKeeps ==
    ASSUME StoreInv, NEW o \in Operations,
           OperationContext(o) \/ FileFails(o) \/ RequestFails(o) \/ Stat(o) \/ Exists(o) \/ ReadFile(o)
    PROVE  StoreInv'
<1>1. /\ UNCHANGED <<manager, borrow, check, files, object>>
      /\ operation' \in [Operations -> Askings]
      /\ \A p \in Operations : p # o => operation'[p] = operation[p]
      /\ operation'[o].does = operation[o].does /\ operation'[o].puts = operation[o].puts
      /\ operation'[o].asked = operation[o].asked
  BY DEF OperationContext, FileFails, RequestFails, Stat, Exists, ReadFile, Moves, KeepsUse,
         StoreInv, StoreShapes, Askings, FileContents
<1>2. /\ operation[o].at \notin {"none", "refused"}
      /\ operation'[o].at \in {"begun", "refused", "stat", "ok", "failed"}
      /\ operation[o].at = "asked" => operation'[o].at = IF borrow.at = "inside" THEN "begun" ELSE "refused"
      /\ operation'[o].at = "begun" => borrow.at = "inside" /\ operation[o].at = "asked"
      /\ operation'[o].at = "refused" => operation[o].at = "asked"
      /\ operation'[o].at = "stat" => operation[o].does = "get" /\ borrow.client = "local"
      /\ operation'[o].at = "ok" => operation[o].does \in {"get", "exists"}
  BY DEF OperationContext, FileFails, RequestFails, Stat, Exists, ReadFile, Begun, Moves, Usable,
         StoreInv, StoreShapes, OperationsInv, Askings
<1>3. StoreShapes' /\ OperationsInv' /\ VerifiesInv'
  BY <1>1, <1>2 DEF StoreInv, StoreShapes, OperationsInv, VerifiesInv
<1>4. BorrowsInv'
  BY <1>1, <1>2 DEF StoreInv, StoreShapes, BorrowsInv
<1>5. SuccessIsStored'
  <2>1. ASSUME NEW p \in Operations, Changing' = {p}, operation'[p].at = "ok"
        PROVE  TheObject' = operation'[p].puts
    <3>1. p # o /\ o \notin Changing'
      BY <1>2, <1>1, <2>1 DEF Changing
    <3>2. o \notin Changing
      BY <3>1, <1>1, <1>2 DEF Changing
    <3>3. Changing = {p}
      BY <3>1, <3>2, <2>1, <1>1 DEF Changing
    <3>4. QED
      BY <3>1, <3>3, <2>1, <1>1 DEF StoreInv, SuccessIsStored, TheObject
  <2>2. QED
    BY <2>1, <1>1 DEF StoreInv, SuccessIsStored
<1>6. QED
  BY <1>3, <1>4, <1>5 DEF StoreInv

\* What a step that writes to the store leaves: the object that its operation put.
LEMMA WriteKeeps ==
    ASSUME StoreInv, NEW o \in Operations, NEW at \in {"writing", "ok", "failed"},
           UNCHANGED <<manager, borrow, check>>,
           operation[o].at \in {"begun", "writing"}, operation[o].does \in {"put", "delete"},
           operation' \in [Operations -> Askings],
           \A p \in Operations : p # o => operation'[p] = operation[p],
           operation'[o].does = operation[o].does, operation'[o].puts = operation[o].puts,
           operation'[o].asked = operation[o].asked, operation'[o].at = at,
           at = "writing" => operation[o].does = "put" /\ borrow.client = "local",
           files' \in [{TheKey} \cup Checks -> FileContents], \A h \in Checks : files'[h] = files[h],
           object' \in {"none"} \cup Contents,
           borrow.client # "local" => files' = files, borrow.client # "object" => object' = object,
           at = "ok" => TheObject' = operation[o].puts
    PROVE  StoreInv'
<1>1. StoreShapes'
  BY DEF StoreInv, StoreShapes
<1>2. BorrowsInv' /\ OperationsInv'
  BY DEF StoreInv, StoreShapes, BorrowsInv, OperationsInv
<1>3. VerifiesInv'
  BY DEF StoreInv, VerifiesInv
<1>4. SuccessIsStored'
  <2>1. o \in Changing'
    BY DEF Changing
  <2>2. ASSUME NEW p \in Operations, Changing' = {p}, operation'[p].at = "ok"
        PROVE  TheObject' = operation'[p].puts
    BY <2>1, <2>2
  <2>3. borrow'.client # "local" => files'[TheKey] = "none"
    BY KeysAssumption DEF StoreInv, SuccessIsStored
  <2>4. borrow'.client # "object" => object' = "none"
    BY DEF StoreInv, SuccessIsStored
  <2>5. QED
    BY <2>2, <2>3, <2>4 DEF SuccessIsStored
<1>5. QED
  BY <1>1, <1>2, <1>3, <1>4 DEF StoreInv

LEMMA ChangeKeeps ==
    ASSUME StoreInv, NEW o \in Operations, Truncate(o) \/ WriteFile(o) \/ Remove(o) \/ Request(o)
    PROVE  StoreInv'
<1>0. \A h \in Checks : h # TheKey
  BY KeysAssumption
<1>1. ASSUME Truncate(o) \/ WriteFile(o) \/ Remove(o) PROVE StoreInv'
  <2>1. PICK at \in {"writing", "ok"}, contents \in FileContents :
           /\ UNCHANGED <<manager, borrow, check, object>>
           /\ operation' = [operation EXCEPT ![o].at = at] /\ files' = [files EXCEPT ![TheKey] = contents]
           /\ operation[o].at \in {"begun", "writing"} /\ operation[o].does \in {"put", "delete"}
           /\ borrow.client = "local" /\ (at = "writing" => operation[o].does = "put")
           /\ at = "ok" => contents = operation[o].puts
    <3>1. CASE Truncate(o)
      <4>1. "empty" \in FileContents /\ "writing" \in {"writing", "ok"}
        BY DEF FileContents
      <4>2. QED
        BY <3>1, <4>1 DEF Truncate, Begun, Moves, KeepsUse
    <3>2. CASE WriteFile(o)
      <4>1. operation[o].puts \in FileContents /\ operation[o].does = "put" /\ borrow.client = "local"
        BY <3>2 DEF WriteFile, StoreInv, StoreShapes, OperationsInv, Askings, FileContents
      <4>2. QED
        BY <3>2, <4>1 DEF WriteFile, Moves, KeepsUse
    <3>3. CASE Remove(o)
      <4>1. "none" \in FileContents /\ operation[o].puts = "none"
        BY <3>3 DEF Remove, Begun, FileContents, StoreInv, OperationsInv
      <4>2. QED
        BY <3>3, <4>1 DEF Remove, Begun, Moves, KeepsUse
    <3>4. QED
      BY <1>1, <3>1, <3>2, <3>3
  <2>2. /\ operation' \in [Operations -> Askings]
        /\ \A p \in Operations : p # o => operation'[p] = operation[p]
        /\ operation'[o].does = operation[o].does /\ operation'[o].puts = operation[o].puts
        /\ operation'[o].asked = operation[o].asked /\ operation'[o].at = at
    BY <2>1 DEF StoreInv, StoreShapes, Askings
  <2>3. /\ files' \in [{TheKey} \cup Checks -> FileContents] /\ files'[TheKey] = contents
        /\ \A h \in Checks : files'[h] = files[h]
    BY <2>1, <1>0 DEF StoreInv, StoreShapes
  <2>4. at = "ok" => TheObject' = operation[o].puts
    BY <2>1, <2>3 DEF TheObject
  <2>5. object' \in {"none"} \cup Contents /\ at \in {"writing", "ok", "failed"}
    BY <2>1 DEF StoreInv, StoreShapes
  <2>6. QED
    BY <2>1, <2>2, <2>3, <2>4, <2>5, WriteKeeps
<1>2. ASSUME Request(o) PROVE StoreInv'
  <2>1. PICK at \in {"ok", "failed"} : operation' = [operation EXCEPT ![o].at = at, ![o].found = object]
    BY <1>2 DEF Request
  <2>2. /\ UNCHANGED <<manager, borrow, check, files>>
        /\ operation[o].at = "begun" /\ borrow.client = "object"
        /\ object' = CASE operation[o].does = "put" -> operation[o].puts
                       [] operation[o].does = "delete" -> "none"
                       [] OTHER -> object
    BY <1>2 DEF Request, Begun, KeepsUse
  <2>3. /\ operation' \in [Operations -> Askings]
        /\ \A p \in Operations : p # o => operation'[p] = operation[p]
        /\ operation'[o].does = operation[o].does /\ operation'[o].puts = operation[o].puts
        /\ operation'[o].asked = operation[o].asked /\ operation'[o].at = at
    <3>1. object \in FileContents
      BY DEF StoreInv, StoreShapes, FileContents
    <3>2. QED
      BY <2>1, <3>1 DEF StoreInv, StoreShapes, Askings
  <2>4. operation[o].does # "put" => operation[o].puts = "none"
    BY DEF StoreInv, OperationsInv
  <2>5. CASE operation[o].does \in {"put", "delete"}
    <3>1. object' = operation[o].puts
      BY <2>2, <2>4, <2>5
    <3>2. object' \in {"none"} \cup Contents
      BY <3>1 DEF StoreInv, StoreShapes, Askings
    <3>3. TheObject' = operation[o].puts
      BY <2>2, <3>1 DEF TheObject
    <3>4. files' \in [{TheKey} \cup Checks -> FileContents] /\ at \in {"writing", "ok", "failed"}
      BY <2>2 DEF StoreInv, StoreShapes
    <3>5. QED
      BY <2>2, <2>3, <2>5, <3>2, <3>3, <3>4, WriteKeeps
  <2>6. CASE operation[o].does \notin {"put", "delete"}
    <3>1. object' = object
      BY <2>2, <2>6
    <3>2. StoreShapes' /\ BorrowsInv' /\ OperationsInv' /\ VerifiesInv'
      BY <2>2, <2>3, <3>1 DEF StoreInv, StoreShapes, BorrowsInv, OperationsInv, VerifiesInv
    <3>3. Changing' = Changing /\ o \notin Changing
      BY <2>3, <2>6 DEF Changing
    <3>4. SuccessIsStored'
      BY <2>2, <2>3, <3>1, <3>3 DEF StoreInv, SuccessIsStored, TheObject
    <3>5. QED
      BY <3>2, <3>4 DEF StoreInv
  <2>7. QED
    BY <2>5, <2>6
<1>3. QED
  BY <1>1, <1>2

LEMMA AskedKeeps ==
    ASSUME StoreInv, NEW o \in Operations, NEW does \in {"put", "get", "delete", "exists"},
           NEW contents \in {"none"} \cup Contents, does # "put" => contents = "none",
           AskFor(o, does, contents)
    PROVE  StoreInv'
<1>1. /\ UNCHANGED <<manager, borrow, check, files, object>>
      /\ operation[o].at = "none" /\ borrow.at \in {"inside", "returned"}
      /\ operation' = [operation EXCEPT ![o] =
            [does |-> does, at |-> "asked", puts |-> contents, found |-> "none", asked |-> borrow.at]]
  BY DEF AskFor, KeepsUse
<1>2. [does |-> does, at |-> "asked", puts |-> contents, found |-> "none", asked |-> borrow.at] \in Askings
  BY <1>1 DEF Askings, FileContents
<1>3. /\ operation' \in [Operations -> Askings]
      /\ \A p \in Operations : p # o => operation'[p] = operation[p]
      /\ operation'[o].does = does /\ operation'[o].puts = contents
      /\ operation'[o].asked = borrow.at /\ operation'[o].at = "asked"
  BY <1>1, <1>2 DEF StoreInv, StoreShapes
<1>4. StoreShapes' /\ BorrowsInv' /\ OperationsInv' /\ VerifiesInv'
  BY <1>1, <1>3 DEF StoreInv, StoreShapes, BorrowsInv, OperationsInv, VerifiesInv
<1>5. Changing' = Changing /\ o \notin Changing
  BY <1>1, <1>3 DEF Changing
<1>6. SuccessIsStored'
  BY <1>1, <1>3, <1>5 DEF StoreInv, SuccessIsStored, TheObject
<1>7. QED
  BY <1>4, <1>6 DEF StoreInv

\* A step of a check touches its own file and no other.
LEMMA VerifyKeeps == ASSUME StoreInv, NEW h \in Checks, Verify(h) PROVE StoreInv'
<1>0. UNCHANGED <<manager, borrow, operation, object>>
  BY DEF Verify, CheckTruncates, CheckWrites, CheckReads, CheckDeletes, CheckFails, HeadBucket, KeepsCalls
<1>1. AfterLocal(Clients(manager.driver)) \in {"head", "done"}
  BY DEF AfterLocal
<1>2. /\ check \in [Checks -> Verifications] /\ files \in [{TheKey} \cup Checks -> FileContents]
      /\ check[h] \in Verifications
  BY DEF StoreInv, StoreShapes
<1>3. /\ check' \in [Checks -> Verifications]
      /\ \A x \in Checks : x # h => check'[x] = check[x]
  <2>1. ASSUME NEW next \in {"write", "get", "exists", "delete"}, NEW fine \in BOOLEAN, Checked(h, fine, next)
        PROVE  check' \in [Checks -> Verifications] /\ \A x \in Checks : x # h => check'[x] = check[x]
    <3>1. (check[h].failed \/ ~fine) \in BOOLEAN /\ (IF fine THEN next ELSE "delete") \in {"write", "get", "exists", "delete"}
      OBVIOUS
    <3>2. check' = [check EXCEPT ![h].at = IF fine THEN next ELSE "delete", ![h].failed = check[h].failed \/ ~fine]
      BY <2>1 DEF Checked
    <3>3. QED
      BY <1>2, <3>1, <3>2 DEF Verifications
  <2>2. CASE CheckTruncates(h) \/ CheckWrites(h) \/ CheckReads(h)
    BY <2>1, <2>2 DEF CheckTruncates, CheckWrites, CheckReads
  <2>3. CASE CheckDeletes(h) \/ CheckFails(h) \/ HeadBucket(h)
    <3>1. CASE CheckDeletes(h)
      BY <1>1, <1>2, <3>1 DEF CheckDeletes, Verifications
    <3>2. CASE CheckFails(h)
      BY <1>1, <1>2, <3>2 DEF CheckFails, Verifications
    <3>3. CASE HeadBucket(h)
      <4>1. PICK hurt \in BOOLEAN : check' = [check EXCEPT ![h].at = "done", ![h].failed = @ \/ hurt, ![h].hurt = @ \/ hurt]
        BY <3>3 DEF HeadBucket
      <4>2. QED
        BY <1>2, <4>1 DEF Verifications
    <3>4. QED
      BY <2>3, <3>1, <3>2, <3>3
  <2>4. QED
    BY <2>2, <2>3 DEF Verify
<1>4. /\ files' \in [{TheKey} \cup Checks -> FileContents]
      /\ \A x \in {TheKey} \cup Checks : x # h => files'[x] = files[x]
  BY <1>2 DEF Verify, CheckTruncates, CheckWrites, CheckReads, CheckDeletes, CheckFails, HeadBucket, CheckKey, FileContents
<1>5. files'[TheKey] = files[TheKey]
  BY <1>4, KeysAssumption
<1>6. /\ check'[h].failed <=> check'[h].hurt
      /\ check'[h].at = "write" => files'[h] = "empty"
      /\ check'[h].at \in {"get", "exists"} => files'[h] = "ok"
      /\ check'[h].at \in {"head", "done"} => (files'[h] = "none" \/ check'[h].mess)
      /\ check'[h].at # "put"
  <2>0. /\ check[h].failed <=> check[h].hurt
        /\ check[h].at = "put" => files[h] = "none"
        /\ check[h].at = "write" => files[h] = "empty"
        /\ check[h].at \in {"get", "exists"} => files[h] = "ok"
        /\ check[h].at \in {"head", "done"} => (files[h] = "none" \/ check[h].mess)
    BY DEF StoreInv, VerifiesInv
  <2>1. CASE CheckTruncates(h)
    BY <1>2, <2>0, <2>1 DEF CheckTruncates, Checked, CheckKey, Verifications
  <2>2. CASE CheckWrites(h)
    BY <1>2, <2>0, <2>2 DEF CheckWrites, Checked, CheckKey, Verifications
  <2>3. CASE CheckReads(h)
    BY <1>2, <2>0, <2>3 DEF CheckReads, Checked, CheckKey, Verifications
  <2>4. CASE CheckDeletes(h)
    BY <1>1, <1>2, <2>0, <2>4 DEF CheckDeletes, CheckKey, Verifications
  <2>5. CASE CheckFails(h)
    BY <1>1, <1>2, <2>0, <2>5 DEF CheckFails, Verifications
  <2>6. CASE HeadBucket(h)
    BY <1>2, <2>0, <2>6 DEF HeadBucket, Verifications
  <2>7. QED
    BY <2>1, <2>2, <2>3, <2>4, <2>5, <2>6 DEF Verify
<1>7. StoreShapes' /\ BorrowsInv' /\ OperationsInv'
  BY <1>0, <1>3, <1>4 DEF StoreInv, StoreShapes, BorrowsInv, OperationsInv
<1>8. VerifiesInv'
  BY <1>3, <1>4, <1>6 DEF StoreInv, VerifiesInv
<1>9. SuccessIsStored'
  BY <1>0, <1>5 DEF StoreInv, SuccessIsStored, Changing, TheObject
<1>10. QED
  BY <1>7, <1>8, <1>9 DEF StoreInv

LEMMA ObjectsStep == ASSUME StoreInv, [ObjectNext]_objectVars PROVE StoreInv'
<1>1. ASSUME NEW o \in Operations, Operate(o) PROVE StoreInv'
  <2>1. ASSUME NEW d \in {"get", "delete", "exists"}, AskFor(o, d, "none") PROVE StoreInv'
    BY <2>1, AskedKeeps
  <2>2. ASSUME NEW c \in Contents, AskFor(o, "put", c) PROVE StoreInv'
    BY <2>2, AskedKeeps
  <2>3. QED
    BY <1>1, <2>1, <2>2, AskKeeps, ChangeKeeps DEF Operate
<1>2. CASE UNCHANGED objectVars
  BY <1>2 DEF objectVars, StoreInv, StoreShapes, BorrowsInv, OperationsInv, VerifiesInv,
              SuccessIsStored, Changing, TheObject
<1>3. QED
  BY <1>1, <1>2, BorrowKeeps, VerifyKeeps DEF ObjectNext

LEMMA StoreIsSound == ASSUME StoreInv PROVE ObjectsAreSound
<1>1. ObjectTypeOK
  BY DEF StoreInv, StoreShapes, ObjectTypeOK, Askings, Verifications, FileContents
<1>2. EscapedIsRefused /\ ChecksAreIndependent
  BY DEF StoreInv, BorrowsInv, VerifiesInv, EscapedIsRefused, ChecksAreIndependent
<1>3. QED
  BY <1>1, <1>2 DEF StoreInv, ObjectsAreSound

\* For any number of watches, stoppers, operations and checks: a watch that was
\* stopped is quiet, a client that was given back is of no use, what the store
\* reports is what it holds, and a check finds its own object (StopWatch, Close,
\* borrowState, HealthCheck).
THEOREM StorageIsSoundHolds == StorageSpec => []StorageIsSound
<1> DEFINE Inv == FilesInv /\ StoreInv
           Step == (FileNext /\ UNCHANGED objectVars) \/ (ObjectNext /\ UNCHANGED fileVars)
<1>1. FileInit /\ ObjectInit => Inv
  BY FilesInitially, ObjectsInitially
<1>2. Inv /\ [Step]_<<fileVars, objectVars>> => Inv'
  BY FilesStep, ObjectsStep
<1>3. Inv => StorageIsSound
  BY FilesAreQuiet, StoreIsSound DEF StorageIsSound
<1>4. QED
  BY <1>1, <1>2, <1>3, PTL DEF StorageSpec
=============================================================================

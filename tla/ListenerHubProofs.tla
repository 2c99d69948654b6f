-------------------------- MODULE ListenerHubProofs --------------------------
(***************************************************************************)
(* Theorems about the two queues between goroutines: the listener hub, for *)
(* any number of routes, addresses and connections and any capacity of a   *)
(* route's queue, and the span pipeline, for any number of spans and any   *)
(* size of its queue and of a batch; and about the plan of components, for *)
(* any plans and declarations.                                             *)
(***************************************************************************)
EXTENDS ListenerHub, SpanPipeline, Plan, FiniteSetTheorems, TLAPS

-----------------------------------------------------------------------------
(* Routes, queues and the operations of a generationListener.              *)

LEMMA RouteFacts ==
    /\ None = 0 /\ None \notin Routes /\ None \in OrNone /\ Routes \subseteq Nat
    /\ Routes \subseteq OrNone /\ \A r \in OrNone : r # None => r \in Routes
    /\ N \in Nat /\ Capacity \in Nat
BY HubAssumption DEF None, Routes, OrNone

LEMMA QueueFacts ==
    ASSUME TypeOK, NEW r \in Routes
    PROVE  /\ queue[r] \subseteq Connections /\ IsFiniteSet(queue[r])
           /\ Cardinality(queue[r]) \in Nat
           /\ Cardinality(queue[r]) = 0 <=> queue[r] = {}
           /\ pending[r] \in Nat
<1>1. queue[r] \subseteq Connections
  BY DEF TypeOK
<1>2. IsFiniteSet(queue[r])
  BY <1>1, HubAssumption, FS_Subset
<1>3. Cardinality(Connections) \in Nat
  BY HubAssumption, FS_CardinalityType
<1>4. pending[r] \in Nat
  BY <1>3 DEF TypeOK
<1>5. QED
  BY <1>1, <1>2, <1>4, FS_CardinalityType, FS_EmptySet

\* pending counts no more connections than there are.
LEMMA PendingBound ==
    ASSUME TypeOK, ConnectionsInv, NEW r \in Routes, NEW e \in Routes,
           acceptor[e] = "routing" \/ target[e] = r
    PROVE  Cardinality(queue[r]) + 1 \in 0..Cardinality(Connections)
<1>1. AcceptorOK(e) /\ RouteOK(r)
  BY DEF ConnectionsInv
<1>2. PICK c \in held[e] : TRUE
  BY <1>1, RouteFacts DEF AcceptorOK
<1>3. c \in Connections /\ c \notin queue[r]
  BY <1>1, <1>2 DEF AcceptorOK, RouteOK, TypeOK
<1>4. Cardinality(queue[r] \cup {c}) = Cardinality(queue[r]) + 1
  BY <1>3, QueueFacts, FS_AddElement
<1>5. Cardinality(queue[r] \cup {c}) <= Cardinality(Connections)
  BY <1>3, QueueFacts, HubAssumption, FS_Subset
<1>6. Cardinality(Connections) \in Nat
  BY HubAssumption, FS_CardinalityType
<1>7. QED
  BY <1>4, <1>5, <1>6, QueueFacts

LEMMA CompletePendingFacts ==
    ASSUME TypeOK, NEW r \in Routes, CompletePending(r)
    PROVE  /\ pending' \in [Routes -> 0..Cardinality(Connections)]
           /\ drained' \in [Routes -> BOOLEAN]
           /\ pending'[r] = IF pending[r] > 0 THEN pending[r] - 1 ELSE 0
           /\ drained'[r] = (drained[r] \/ (retired[r] /\ pending'[r] = 0))
           /\ \A q \in Routes : q # r => pending'[q] = pending[q] /\ drained'[q] = drained[q]
<1>1. Cardinality(Connections) \in Nat /\ pending[r] \in Nat
  BY HubAssumption, FS_CardinalityType, QueueFacts
<1>2. (drained[r] \/ (retired[r] /\ pending'[r] = 0)) \in BOOLEAN
  BY DEF TypeOK
<1>3. QED
  BY <1>1, <1>2 DEF CompletePending, TypeOK

LEMMA RetireFacts ==
    ASSUME TypeOK, NEW r \in Routes, Retire(r)
    PROVE  /\ retired' \in [Routes -> BOOLEAN] /\ drained' \in [Routes -> BOOLEAN]
           /\ retired'[r] /\ drained'[r] = (drained[r] \/ pending[r] = 0)
           /\ \A q \in Routes : q # r => retired'[q] = retired[q] /\ drained'[q] = drained[q]
           /\ UNCHANGED <<pending, queue, closed>>
<1>1. (drained[r] \/ pending[r] = 0) \in BOOLEAN
  BY DEF TypeOK
<1>2. QED
  BY <1>1 DEF Retire, TypeOK

\* The owner terminates a route.
LEMMA TaskFacts ==
    ASSUME TypeOK, OwnerInv, ownerPc \in Stopping \cup {"unbinding"}
    PROVE  task \in Routes /\ entryOf[task] \in Routes
<1>1. task # None
  BY DEF TypeOK, OwnerInv, StageOK, StopOK, Stopping, Terminating
<1>2. task \in Routes /\ entryOf[task] # None
  BY <1>1, RouteFacts DEF TypeOK, OwnerInv
<1>3. QED
  BY <1>2, RouteFacts DEF TypeOK

-----------------------------------------------------------------------------
(* Steps of which the entries and the owner notice nothing.                *)

Unmoved == UNCHANGED <<hubVars, newest, ownerVars, retired, closed>>

LEMMA EntriesFrame ==
    ASSUME EntriesInv, Unmoved,
           \A e \in Routes :
             /\ acceptor[e] = "none" <=> acceptor'[e] = "none"
             /\ acceptor'[e] = "done" => acceptor[e] = "done" \/ physical[e] = "closed"
             /\ acceptor'[e] \in {"accepting", "routing", "dispatching"} =>
                  \/ acceptor[e] \in {"accepting", "routing", "dispatching"}
                  \/ physical[e] \in {"accepting", "closed"}
    PROVE  EntriesInv'
<1>1. UNCHANGED <<hubVars, newest, ownerVars, retired, closed>>
  BY DEF Unmoved
<1>2. \A e : AddressOK(e)' <=> AddressOK(e)
  BY <1>1 DEF AddressOK, Open, hubVars
<1>3. ASSUME NEW e \in Routes, EntryOK(e) PROVE EntryOK(e)'
  BY <1>1, <1>3 DEF EntryOK, Open, Live, Leaving, hubVars, ownerVars
<1>4. QED
  BY <1>1, <1>2, <1>3 DEF EntriesInv, hubVars

LEMMA OwnerFrame ==
    ASSUME TypeOK, OwnerInv, Unmoved, \A r \in Routes : drained[r] => drained'[r]
    PROVE  OwnerInv'
<1>1. UNCHANGED <<hubVars, newest, ownerVars, retired, closed>>
  BY DEF Unmoved
<1>2. StageOK'
  BY <1>1 DEF OwnerInv, StageOK, StopOK, hubVars, ownerVars
<1>3. CandidateOK' /\ MovingOK' /\ BoundOK'
  BY <1>1 DEF OwnerInv, CandidateOK, MovingOK, BoundOK, Open, hubVars, ownerVars
<1>4. TerminatingOK'
  <2>1. ownerPc \in {"shutting", "closing"} => task \in Routes
    BY TaskFacts DEF Terminating, Stopping
  <2>2. QED
    BY <1>1, <2>1 DEF OwnerInv, TerminatingOK, hubVars, ownerVars
<1>5. QED
  BY <1>1, <1>2, <1>3, <1>4 DEF OwnerInv, hubVars, ownerVars

-----------------------------------------------------------------------------
(* The goroutine of an entry.                                              *)

\* A step of one goroutine leaves the others' connections alone.
LEMMA OtherAcceptors ==
    ASSUME TypeOK, ConnectionsInv, NEW e \in Routes,
           UNCHANGED entryOf,
           \A f \in Routes : f # e =>
              acceptor'[f] = acceptor[f] /\ held'[f] = held[f] /\ target'[f] = target[f],
           held'[e] # {} => AcceptorOK(e)',
           held'[e] = {} => acceptor'[e] \notin {"routing", "dispatching"} /\ target'[e] = None,
           \A f \in Routes : f # e => \A c \in held[f] :
              connection'[c] = connection[c] /\ acceptedAfter'[c] = acceptedAfter[c],
           \A f \in Routes : f # e => held'[e] \cap held[f] = {}
    PROVE  \A f \in Routes : AcceptorOK(f)'
<1>1. AcceptorOK(e)'
  BY DEF AcceptorOK
<1>2. ASSUME NEW f \in Routes, f # e PROVE AcceptorOK(f)'
  <2>1. AcceptorOK(f)
    BY DEF ConnectionsInv
  <2>2. QED
    BY <1>2, <2>1 DEF AcceptorOK
<1>3. QED
  BY <1>1, <1>2

LEMMA ActivatedPreserves ==
    ASSUME HandoverInv, NEW e \in Routes, Activated(e) \/ AcceptFails(e)
    PROVE  HandoverInv'
<1> USE DEF HandoverInv
<1>0. /\ UNCHANGED <<hubVars, server, newest, ownerVars, held, target, routeVars, connectionVars>>
      /\ acceptor'[e] \in {"accepting", "failed", "done"}
      /\ acceptor[e] \in {"waiting", "accepting"}
      /\ acceptor'[e] = "accepting" => physical[e] = "accepting"
      /\ acceptor'[e] = "done" => physical[e] = "closed"
      /\ \A f \in Routes : f # e => acceptor'[f] = acceptor[f]
      /\ acceptor' \in [Routes -> {"none", "waiting", "accepting", "routing", "dispatching", "failed", "done"}]
  BY DEF Activated, AcceptFails, acceptorRest, TypeOK
<1>1. Unmoved
  BY <1>0 DEF Unmoved, routeVars
<1>2. TypeOK'
  BY <1>0 DEF TypeOK, hubVars, ownerVars, routeVars, connectionVars
<1>3. EntriesInv'
  BY <1>0, <1>1, EntriesFrame
<1>4. OwnerInv'
  BY <1>0, <1>1, OwnerFrame DEF routeVars
<1>5. ConnectionsInv'
  <2>1. \A f \in Routes : AcceptorOK(f)'
    BY <1>0 DEF ConnectionsInv, AcceptorOK, connectionVars, hubVars
  <2>2. \A r \in Routes : RouteOK(r)'
    BY <1>0 DEF ConnectionsInv, RouteOK, OnTheWay, connectionVars, hubVars, routeVars, ownerVars
  <2>3. QED
    BY <1>0, <2>1, <2>2 DEF ConnectionsInv, ConnectionOK, connectionVars, hubVars, routeVars, ownerVars
<1>6. QED
  BY <1>2, <1>3, <1>4, <1>5

LEMMA AcceptPreserves ==
    ASSUME HandoverInv, NEW e \in Routes, NEW c \in Connections, Accept(e, c)
    PROVE  HandoverInv'
<1> USE DEF HandoverInv
<1>0. /\ UNCHANGED <<hubVars, server, newest, ownerVars, target, routeVars, carrier>>
      /\ acceptor[e] = "accepting" /\ physical[e] = "accepting" /\ connection[c] = "new"
      /\ connection' = [connection EXCEPT ![c] = "held"]
      /\ acceptedAfter' = [acceptedAfter EXCEPT ![c] = newest]
      /\ held' = [held EXCEPT ![e] = {c}]
      /\ acceptor' = [acceptor EXCEPT ![e] = "routing"]
  BY DEF Accept, acceptorRest
<1>1. Unmoved
  BY <1>0 DEF Unmoved, routeVars
<1>2. TypeOK'
  BY <1>0 DEF TypeOK, hubVars, ownerVars, routeVars
<1>3. acceptor'[e] = "routing" /\ \A f \in Routes : f # e => acceptor'[f] = acceptor[f] /\ held'[f] = held[f]
  BY <1>0 DEF TypeOK
<1>4. EntriesInv'
  BY <1>0, <1>1, <1>3, EntriesFrame
<1>5. OwnerInv'
  BY <1>0, <1>1, OwnerFrame DEF routeVars
<1>6. ConnectionsInv'
  <2>1. /\ \A f \in Routes : \A d \in held[f] : d # c
        /\ \A r \in Routes : \A d \in queue[r] : d # c
        /\ target[e] = None
    BY <1>0 DEF ConnectionsInv, AcceptorOK, RouteOK
  <2>2. /\ connection'[c] = "held" /\ held'[e] = {c}
        /\ \A d \in Connections : d # c => connection'[d] = connection[d] /\ acceptedAfter'[d] = acceptedAfter[d]
    BY <1>0 DEF TypeOK
  <2>3. \A f \in Routes : held[f] \subseteq Connections /\ queue[f] \subseteq Connections
    BY DEF TypeOK
  <2>4. AcceptorOK(e)'
    BY <1>0, <1>3, <2>1, <2>2 DEF AcceptorOK
  <2>5. \A f \in Routes : AcceptorOK(f)'
    BY <1>0, <1>3, <2>1, <2>2, <2>3, <2>4, OtherAcceptors DEF hubVars
  <2>6. \A r \in Routes : RouteOK(r)'
    BY <1>0, <2>1, <2>2, <2>3 DEF ConnectionsInv, RouteOK, OnTheWay, hubVars, routeVars, ownerVars
  <2>7. \A d \in Connections : ConnectionOK(d)'
    <3>1. carrier[c] = None
      BY <1>0 DEF ConnectionsInv, ConnectionOK
    <3>2. newest <= newest
      BY RouteFacts DEF TypeOK
    <3>3. QED
      BY <1>0, <2>2, <3>1, <3>2 DEF ConnectionsInv, ConnectionOK, TypeOK
  <2>8. QED
    BY <1>0, <2>5, <2>6, <2>7 DEF ConnectionsInv, routeVars, ownerVars
<1>7. QED
  BY <1>2, <1>4, <1>5, <1>6

\* The route that the goroutine picks: the current one, or one it is leaving.
LEMMA TargetFacts ==
    ASSUME HandoverInv, NEW e \in Routes, CanReserve(Target(e))
    PROVE  /\ Target(e) \in Routes /\ entryOf[Target(e)] = e
           /\ Target(e) = newest
           /\ Target(e) # candidate
<1> USE DEF HandoverInv
<1>1. Target(e) \in Routes
  BY RouteFacts DEF CanReserve, Target, TypeOK
<1>2. EntryOK(e) /\ newest \in Nat
  BY RouteFacts DEF EntriesInv, TypeOK, OrNone
<1>3. entryOf[Target(e)] = e
  BY <1>1, <1>2, RouteFacts DEF Target, EntryOK
<1>4. Target(e) = newest
  <2>1. CASE active[e] # None
    BY <1>2, <2>1 DEF Target, EntryOK, OwnerInv
  <2>2. CASE active[e] = None
    <3>1. Target(e) = retiring[e] /\ retiring[e] # None /\ ~retired[retiring[e]]
      BY <1>1, <2>2, RouteFacts DEF Target, CanReserve
    <3>2. CASE ownerPc = "moving" /\ retiring[e] = current
      BY <3>1, <3>2 DEF OwnerInv
    <3>3. CASE ownerPc = "superseding" /\ retiring[e] = task
      <4>1. mode # "retire"
        BY <1>3, <2>2, <3>1, <3>3, RouteFacts DEF OwnerInv, BoundOK, StageOK, TerminatingOK, Terminating
      <4>2. mode \in {"stop", "force"}
        BY <3>3, <4>1 DEF OwnerInv, StageOK, TypeOK
      <4>3. task = current
        BY <3>1, <3>3, <4>2 DEF OwnerInv, StageOK, StopOK
      <4>4. QED
        BY <3>1, <3>3, <4>3 DEF OwnerInv
    <3>4. QED
      BY <1>2, <3>1, <3>2, <3>3 DEF EntryOK, Leaving
  <2>3. QED
    BY <2>1, <2>2
<1>5. QED
  BY <1>1, <1>2, <1>3, <1>4, RouteFacts DEF OwnerInv, CandidateOK

LEMMA ReservePreserves ==
    ASSUME HandoverInv, NEW e \in Routes, Reserve(e)
    PROVE  HandoverInv'
<1> USE DEF HandoverInv
<1>a. PICK t \in Routes : t = Target(e) /\ CanReserve(t)
  BY TargetFacts DEF Reserve
<1>0. /\ UNCHANGED <<hubVars, server, newest, ownerVars, held, queue, retired, closed, drained, connectionVars>>
      /\ acceptor[e] = "routing"
      /\ pending' = [pending EXCEPT ![t] = @ + 1]
      /\ target' = [target EXCEPT ![e] = t]
      /\ acceptor' = [acceptor EXCEPT ![e] = "dispatching"]
  BY <1>a DEF Reserve, acceptorRest
<1>1. t \in Routes /\ entryOf[t] = e /\ t = newest /\ t # candidate /\ ~closed[t] /\ ~retired[t] /\ t # None
  BY <1>a, TargetFacts, RouteFacts DEF CanReserve
<1>2. Unmoved
  BY <1>0 DEF Unmoved
<1>3. /\ acceptor'[e] = "dispatching" /\ target'[e] = t
      /\ \A f \in Routes : f # e => acceptor'[f] = acceptor[f] /\ target'[f] = target[f]
      /\ pending'[t] = pending[t] + 1
      /\ \A r \in Routes : r # t => pending'[r] = pending[r]
  BY <1>0, <1>1 DEF TypeOK
<1>4. pending[t] = Cardinality(queue[t]) /\ target[e] = None
  BY <1>0, <1>1, QueueFacts, RouteFacts DEF ConnectionsInv, RouteOK, OnTheWay, AcceptorOK
<1>5. TypeOK'
  <2>1. pending'[t] \in 0..Cardinality(Connections)
    BY <1>0, <1>1, <1>3, <1>4, PendingBound
  <2>2. pending' \in [Routes -> 0..Cardinality(Connections)]
    BY <1>0, <1>1, <1>3, <2>1 DEF TypeOK
  <2>3. target' \in [Routes -> OrNone]
    BY <1>0, <1>1, RouteFacts DEF TypeOK
  <2>4. QED
    BY <1>0, <2>2, <2>3 DEF TypeOK, hubVars, ownerVars, connectionVars
<1>6. EntriesInv'
  BY <1>0, <1>2, <1>3, EntriesFrame
<1>7. OwnerInv'
  BY <1>0, <1>2, OwnerFrame
<1>8. ConnectionsInv'
  <2>1. AcceptorOK(e)'
    <3>1. AcceptorOK(e) /\ held[e] \subseteq Connections
      BY DEF ConnectionsInv, TypeOK
    <3>2. \A c \in held[e] : t >= acceptedAfter[c]
      BY <1>1, <3>1 DEF ConnectionsInv, ConnectionOK
    <3>3. QED
      BY <1>0, <1>1, <1>3, <3>1, <3>2 DEF AcceptorOK, connectionVars, hubVars
  <2>2. \A f \in Routes : AcceptorOK(f)'
    <3>1. ASSUME NEW f \in Routes, f # e PROVE AcceptorOK(f)'
      BY <1>0, <1>3, <3>1 DEF ConnectionsInv, AcceptorOK, connectionVars, hubVars
    <3>2. QED
      BY <2>1, <3>1
  <2>3. RouteOK(t)'
    <3>1. OnTheWay(t)' = 1
      BY <1>0, <1>1, <1>3, RouteFacts DEF OnTheWay, hubVars
    <3>2. pending'[t] = Cardinality(queue'[t]) + OnTheWay(t)'
      BY <1>0, <1>3, <1>4, <3>1
    <3>3. ~drained[t] /\ RouteOK(t)
      BY <1>1 DEF ConnectionsInv, RouteOK
    <3>4. QED
      BY <1>0, <1>1, <3>2, <3>3 DEF RouteOK, connectionVars, hubVars, ownerVars
  <2>4. ASSUME NEW r \in Routes, r # t PROVE RouteOK(r)'
    <3>1. RouteOK(r)
      BY DEF ConnectionsInv
    <3>2. OnTheWay(r)' = OnTheWay(r)
      <4>1. CASE entryOf[r] = e
        BY <1>0, <1>3, <1>4, <2>4, <4>1, RouteFacts DEF OnTheWay, hubVars
      <4>2. CASE entryOf[r] # e /\ entryOf[r] # None
        <5>1. entryOf[r] \in Routes
          BY <4>2, RouteFacts DEF TypeOK
        <5>2. QED
          BY <1>0, <1>3, <4>2, <5>1 DEF OnTheWay, hubVars
      <4>3. CASE entryOf[r] = None
        BY <1>0, <4>3 DEF OnTheWay, hubVars
      <4>4. QED
        BY <4>1, <4>2, <4>3
    <3>3. QED
      BY <1>0, <1>3, <2>4, <3>1, <3>2 DEF RouteOK, connectionVars, hubVars, ownerVars
  <2>5. candidate # None => pending'[candidate] = 0
    <3>1. candidate # None => candidate \in Routes
      BY RouteFacts DEF TypeOK
    <3>2. QED
      BY <1>1, <1>3, <3>1 DEF ConnectionsInv
  <2>6. QED
    BY <1>0, <2>2, <2>3, <2>4, <2>5 DEF ConnectionsInv, ConnectionOK, connectionVars, ownerVars
<1>9. QED
  BY <1>5, <1>6, <1>7, <1>8

\* The connection that the goroutine holds leaves its hands.
LEMMA SettleFacts ==
    ASSUME HandoverInv, NEW e \in Routes, NEW outcome \in {"queued", "refused"}, NEW route \in OrNone,
           Settle(e, outcome, route), UNCHANGED entryOf,
           acceptor[e] \in {"routing", "dispatching"}
    PROVE  /\ \A f \in Routes : AcceptorOK(f)'
           /\ \A c \in Connections : IF c \in held[e]
                THEN connection'[c] = outcome /\ carrier'[c] = route
                ELSE connection'[c] = connection[c] /\ carrier'[c] = carrier[c]
           /\ connection' \in [Connections -> {"new", "held", "queued", "serving", "ended", "refused"}]
           /\ carrier' \in [Connections -> OrNone]
           /\ held' \in [Routes -> SUBSET Connections] /\ target' \in [Routes -> OrNone]
           /\ acceptor' \in [Routes -> {"none", "waiting", "accepting", "routing",
                                        "dispatching", "failed", "done"}]
           /\ acceptor'[e] = "accepting" /\ \A f \in Routes : f # e => acceptor'[f] = acceptor[f]
           /\ target'[e] = None /\ \A f \in Routes : f # e => target'[f] = target[f]
           /\ UNCHANGED acceptedAfter
           /\ \A r \in Routes : OnTheWay(r)' = IF r = target[e] THEN 0 ELSE OnTheWay(r)
<1> USE DEF HandoverInv
<1>1. /\ connection' = [c \in Connections |-> IF c \in held[e] THEN outcome ELSE connection[c]]
      /\ carrier' = [c \in Connections |-> IF c \in held[e] THEN route ELSE carrier[c]]
      /\ held' = [held EXCEPT ![e] = {}]
      /\ target' = [target EXCEPT ![e] = None]
      /\ acceptor' = [acceptor EXCEPT ![e] = "accepting"]
      /\ UNCHANGED acceptedAfter
  BY DEF Settle
<1>2. /\ connection' \in [Connections -> {"new", "held", "queued", "serving", "ended", "refused"}]
      /\ carrier' \in [Connections -> OrNone]
      /\ held' \in [Routes -> SUBSET Connections] /\ target' \in [Routes -> OrNone]
      /\ acceptor' \in [Routes -> {"none", "waiting", "accepting", "routing",
                                   "dispatching", "failed", "done"}]
  BY <1>1, RouteFacts DEF TypeOK
<1>3. /\ \A c \in Connections : IF c \in held[e]
           THEN connection'[c] = outcome /\ carrier'[c] = route
           ELSE connection'[c] = connection[c] /\ carrier'[c] = carrier[c]
      /\ acceptor'[e] = "accepting" /\ held'[e] = {} /\ target'[e] = None
      /\ \A f \in Routes : f # e => acceptor'[f] = acceptor[f] /\ target'[f] = target[f] /\ held'[f] = held[f]
  BY <1>1 DEF TypeOK
<1>4. \A f \in Routes : f # e => held[e] \cap held[f] = {} /\ held[f] \subseteq Connections
  BY DEF ConnectionsInv, AcceptorOK, TypeOK
<1>5. \A f \in Routes : AcceptorOK(f)'
  BY <1>1, <1>3, <1>4, OtherAcceptors
<1>6. ASSUME NEW r \in Routes
      PROVE  OnTheWay(r)' = IF r = target[e] THEN 0 ELSE OnTheWay(r)
  <2>1. CASE entryOf[r] = e
    BY <1>3, <2>1, RouteFacts DEF OnTheWay
  <2>2. CASE entryOf[r] \in Routes \ {e}
    <3>1. target[e] # r
      BY <2>2, RouteFacts DEF ConnectionsInv, AcceptorOK
    <3>2. QED
      BY <1>3, <2>2, <3>1 DEF OnTheWay
  <2>3. CASE entryOf[r] = None
    BY <2>3 DEF OnTheWay
  <2>4. entryOf[r] = None \/ entryOf[r] \in Routes
    BY RouteFacts DEF TypeOK
  <2>5. QED
    BY <2>1, <2>2, <2>3, <2>4
<1>7. QED
  BY <1>1, <1>2, <1>3, <1>5, <1>6

LEMMA NotReservedPreserves ==
    ASSUME HandoverInv, NEW e \in Routes, NotReserved(e)
    PROVE  HandoverInv'
<1> USE DEF HandoverInv
<1>0. /\ UNCHANGED <<hubVars, server, newest, ownerVars, routeVars>>
      /\ acceptor[e] = "routing" /\ Settle(e, "refused", None)
  BY DEF NotReserved, acceptorRest
<1>1. Unmoved
  BY <1>0 DEF Unmoved, routeVars
<1>2. /\ \A f \in Routes : AcceptorOK(f)'
      /\ \A c \in Connections : IF c \in held[e]
           THEN connection'[c] = "refused" /\ carrier'[c] = None
           ELSE connection'[c] = connection[c] /\ carrier'[c] = carrier[c]
      /\ connection' \in [Connections -> {"new", "held", "queued", "serving", "ended", "refused"}]
      /\ carrier' \in [Connections -> OrNone]
      /\ held' \in [Routes -> SUBSET Connections] /\ target' \in [Routes -> OrNone]
      /\ acceptor' \in [Routes -> {"none", "waiting", "accepting", "routing",
                                   "dispatching", "failed", "done"}]
      /\ acceptor'[e] = "accepting" /\ \A f \in Routes : f # e => acceptor'[f] = acceptor[f]
      /\ UNCHANGED acceptedAfter
      /\ \A r \in Routes : OnTheWay(r)' = IF r = target[e] THEN 0 ELSE OnTheWay(r)
  BY <1>0, RouteFacts, SettleFacts DEF hubVars
<1>3. TypeOK'
  BY <1>0, <1>2 DEF TypeOK, hubVars, ownerVars, routeVars
<1>4. EntriesInv'
  BY <1>0, <1>1, <1>2, EntriesFrame
<1>5. OwnerInv'
  BY <1>0, <1>1, OwnerFrame DEF routeVars
<1>6. ConnectionsInv'
  <2>1. target[e] = None /\ \A c \in held[e] : connection[c] = "held"
    BY <1>0 DEF ConnectionsInv, AcceptorOK
  <2>2. ASSUME NEW r \in Routes PROVE RouteOK(r)'
    <3>1. RouteOK(r) /\ queue[r] \subseteq Connections /\ r # None
      BY RouteFacts DEF ConnectionsInv, TypeOK
    <3>2. OnTheWay(r)' = OnTheWay(r)
      BY <1>2, <2>1, <3>1
    <3>3. QED
      BY <1>0, <1>2, <2>1, <3>1, <3>2 DEF RouteOK, hubVars, routeVars, ownerVars
  <2>3. \A c \in Connections : ConnectionOK(c)'
    BY <1>0, <1>2 DEF ConnectionsInv, ConnectionOK
  <2>4. QED
    BY <1>0, <1>2, <2>2, <2>3 DEF ConnectionsInv, routeVars, ownerVars
<1>7. QED
  BY <1>3, <1>4, <1>5, <1>6

LEMMA DispatchPreserves ==
    ASSUME HandoverInv, NEW e \in Routes, Dispatch(e) \/ DispatchClosed(e)
    PROVE  HandoverInv'
<1> USE DEF HandoverInv
<1>a. PICK t \in Routes : t = target[e] /\ entryOf[t] = e
  BY RouteFacts DEF Dispatch, DispatchClosed, ConnectionsInv, AcceptorOK, TypeOK
<1>b. acceptor[e] = "dispatching"
  BY DEF Dispatch, DispatchClosed
<1>c. PICK c \in Connections : held[e] = {c}
  <2>1. held[e] # {} /\ held[e] \subseteq Connections /\ \A x, y \in held[e] : x = y
    BY <1>b DEF ConnectionsInv, AcceptorOK, TypeOK
  <2>2. QED
    BY <2>1
<1>d. /\ connection[c] = "held" /\ t >= acceptedAfter[c] /\ acceptedAfter[c] <= newest
      /\ \A r \in Routes : c \notin queue[r] /\ queue[r] \subseteq Connections
      /\ pending[t] = Cardinality(queue[t]) + 1
      /\ \A r \in Routes : RouteOK(r)
      /\ t # candidate
  <2>1. OnTheWay(t) = 1
    BY <1>a, RouteFacts DEF OnTheWay
  <2>2. pending[t] = Cardinality(queue[t]) + 1
    BY <2>1 DEF ConnectionsInv, RouteOK
  <2>3. t # candidate
    <3>1. Cardinality(queue[t]) \in Nat
      BY <1>a, QueueFacts
    <3>2. pending[t] # 0
      BY <2>2, <3>1
    <3>3. candidate = t => pending[t] = 0
      BY <1>a, RouteFacts DEF ConnectionsInv
    <3>4. QED
      BY <3>2, <3>3
  <2>4. QED
    BY <1>a, <1>c, <2>2, <2>3, RouteFacts DEF ConnectionsInv, ConnectionOK, AcceptorOK, RouteOK, TypeOK
<1>e. Cardinality(queue[t]) \in Nat /\ IsFiniteSet(queue[t])
  BY QueueFacts
<1>1. CASE Dispatch(e)
  <2>0. /\ UNCHANGED <<hubVars, server, newest, ownerVars, pending, retired, closed, drained>>
        /\ queue' = [queue EXCEPT ![t] = @ \cup {c}]
        /\ Cardinality(queue[t]) < Capacity
        /\ Settle(e, "queued", t)
    BY <1>1, <1>a, <1>c DEF Dispatch, acceptorRest
  <2>1. Unmoved
    BY <2>0 DEF Unmoved
  <2>2. /\ \A f \in Routes : AcceptorOK(f)'
        /\ connection'[c] = "queued" /\ carrier'[c] = t
        /\ \A d \in Connections : d # c => connection'[d] = connection[d] /\ carrier'[d] = carrier[d]
        /\ connection' \in [Connections -> {"new", "held", "queued", "serving", "ended", "refused"}]
        /\ carrier' \in [Connections -> OrNone]
        /\ held' \in [Routes -> SUBSET Connections] /\ target' \in [Routes -> OrNone]
        /\ acceptor' \in [Routes -> {"none", "waiting", "accepting", "routing",
                                     "dispatching", "failed", "done"}]
        /\ acceptor'[e] = "accepting" /\ \A f \in Routes : f # e => acceptor'[f] = acceptor[f]
        /\ UNCHANGED acceptedAfter
        /\ \A r \in Routes : OnTheWay(r)' = IF r = t THEN 0 ELSE OnTheWay(r)
    BY <1>a, <1>b, <1>c, <2>0, RouteFacts, SettleFacts DEF hubVars
  <2>3. /\ queue'[t] = queue[t] \cup {c}
        /\ \A r \in Routes : r # t => queue'[r] = queue[r]
        /\ Cardinality(queue'[t]) = Cardinality(queue[t]) + 1
    <3>1. queue'[t] = queue[t] \cup {c} /\ \A r \in Routes : r # t => queue'[r] = queue[r]
      BY <2>0 DEF TypeOK
    <3>2. c \notin queue[t]
      BY <1>d
    <3>3. Cardinality(queue[t] \cup {c}) = Cardinality(queue[t]) + 1
      BY <1>e, <3>2, FS_AddElement
    <3>4. QED
      BY <3>1, <3>3
  <2>4. TypeOK'
    <3>1. queue' \in [Routes -> SUBSET Connections] /\ \A r \in Routes : Cardinality(queue'[r]) <= Capacity
      BY SMTT(20), <1>e, <2>0, <2>3, RouteFacts DEF TypeOK
    <3>2. QED
      BY <2>0, <2>2, <3>1 DEF TypeOK, hubVars, ownerVars
  <2>5. EntriesInv'
    BY <1>b, <2>0, <2>1, <2>2, EntriesFrame
  <2>6. OwnerInv'
    BY <2>0, <2>1, OwnerFrame
  <2>7. RouteOK(t)'
    <3>1. pending'[t] = Cardinality(queue'[t]) + OnTheWay(t)'
      BY <1>d, <1>e, <2>0, <2>2, <2>3
    <3>2. RouteOK(t) /\ entryOf'[t] # None /\ \A d \in queue[t] : d # c /\ d \in Connections
      BY <1>a, <1>d, <2>0, RouteFacts DEF hubVars
    <3>3. \A d \in queue'[t] : connection'[d] = "queued" /\ carrier'[d] = t
      BY <2>2, <2>3, <3>2 DEF RouteOK
    <3>4. QED
      BY <2>0, <3>1, <3>2, <3>3 DEF RouteOK, ownerVars
  <2>8. \A r \in Routes : r # t => RouteOK(r)'
    BY <1>d, <2>0, <2>2, <2>3 DEF RouteOK, hubVars, ownerVars
  <2>9. \A d \in Connections : ConnectionOK(d)'
    BY <1>d, <2>0, <2>2 DEF ConnectionsInv, ConnectionOK
  <2>10. QED
    BY <2>0, <2>2, <2>4, <2>5, <2>6, <2>7, <2>8, <2>9 DEF ConnectionsInv, ownerVars
<1>2. CASE DispatchClosed(e)
  <2>0. /\ UNCHANGED <<hubVars, server, newest, ownerVars, queue, retired, closed>>
        /\ CompletePending(t) /\ closed[t]
        /\ Settle(e, "refused", None)
    BY <1>2, <1>a DEF DispatchClosed, acceptorRest
  <2>1. Unmoved
    BY <2>0 DEF Unmoved
  <2>2. /\ \A f \in Routes : AcceptorOK(f)'
        /\ connection'[c] = "refused" /\ carrier'[c] = None
        /\ \A d \in Connections : d # c => connection'[d] = connection[d] /\ carrier'[d] = carrier[d]
        /\ connection' \in [Connections -> {"new", "held", "queued", "serving", "ended", "refused"}]
        /\ carrier' \in [Connections -> OrNone]
        /\ held' \in [Routes -> SUBSET Connections] /\ target' \in [Routes -> OrNone]
        /\ acceptor' \in [Routes -> {"none", "waiting", "accepting", "routing",
                                     "dispatching", "failed", "done"}]
        /\ acceptor'[e] = "accepting" /\ \A f \in Routes : f # e => acceptor'[f] = acceptor[f]
        /\ UNCHANGED acceptedAfter
        /\ \A r \in Routes : OnTheWay(r)' = IF r = t THEN 0 ELSE OnTheWay(r)
    BY <1>a, <1>b, <1>c, <2>0, RouteFacts, SettleFacts DEF hubVars
  <2>3. /\ pending' \in [Routes -> 0..Cardinality(Connections)]
        /\ drained' \in [Routes -> BOOLEAN]
        /\ pending'[t] = Cardinality(queue[t])
        /\ drained'[t] = (drained[t] \/ (retired[t] /\ pending'[t] = 0))
        /\ \A r \in Routes : r # t => pending'[r] = pending[r] /\ drained'[r] = drained[r]
    BY <1>d, <1>e, <2>0, CompletePendingFacts
  <2>4. TypeOK'
    BY <2>0, <2>2, <2>3 DEF TypeOK, hubVars, ownerVars
  <2>5. EntriesInv'
    BY <1>b, <2>0, <2>1, <2>2, EntriesFrame
  <2>6. OwnerInv'
    BY <2>0, <2>1, <2>3, OwnerFrame
  <2>7. RouteOK(t)'
    <3>1. pending'[t] = Cardinality(queue'[t]) + OnTheWay(t)'
      BY <1>e, <2>0, <2>2, <2>3
    <3>2. ~drained[t] /\ mode = "force"
      BY <1>d, <1>e, <2>0 DEF RouteOK
    <3>3. RouteOK(t) /\ entryOf'[t] # None /\ \A d \in queue[t] : d # c /\ d \in Connections
      BY <1>a, <1>d, <2>0, RouteFacts DEF hubVars
    <3>4. \A d \in queue'[t] : connection'[d] = "queued" /\ carrier'[d] = t
      BY <2>0, <2>2, <3>3 DEF RouteOK
    <3>5. QED
      BY <2>0, <2>3, <3>1, <3>2, <3>3, <3>4 DEF RouteOK, ownerVars
  <2>8. \A r \in Routes : r # t => RouteOK(r)'
    BY <1>d, <2>0, <2>2, <2>3 DEF RouteOK, hubVars, ownerVars
  <2>9. \A d \in Connections : ConnectionOK(d)'
    BY <1>d, <2>0, <2>2 DEF ConnectionsInv, ConnectionOK
  <2>10. candidate # None => pending'[candidate] = 0
    BY <1>d, <2>3, RouteFacts DEF ConnectionsInv, TypeOK
  <2>11. QED
    BY <2>0, <2>2, <2>4, <2>5, <2>6, <2>7, <2>8, <2>9, <2>10 DEF ConnectionsInv, ownerVars
<1>3. QED
  BY <1>1, <1>2

LEMMA AcceptorPreserves ==
    ASSUME HandoverInv, NEW e \in Routes, AcceptorStep(e) \/ \E c \in Connections : Accept(e, c)
    PROVE  HandoverInv'
BY ActivatedPreserves, AcceptPreserves, ReservePreserves, NotReservedPreserves, DispatchPreserves
   DEF AcceptorStep

-----------------------------------------------------------------------------
(* The server of a route, and the connections it serves.                   *)

\* A connection is taken from the queue of a route.
LEMMA TakenFacts ==
    ASSUME HandoverInv, NEW r \in Routes, NEW c \in queue[r], NEW outcome \in {"serving", "refused"},
           queue' = [queue EXCEPT ![r] = @ \ {c}],
           connection' = [connection EXCEPT ![c] = outcome],
           CompletePending(r),
           UNCHANGED <<hubVars, acceptorVars, retired, closed, carrier, acceptedAfter, newest, ownerVars>>,
           server' \in [Routes -> {"none", "accepting", "looked", "blocked", "exited"}],
           \A q \in Routes : server'[q] = "exited" => server[q] = "exited"
    PROVE  HandoverInv'
<1> USE DEF HandoverInv
<1>1. Unmoved
  BY DEF Unmoved
<1>2. c \in Connections /\ connection[c] = "queued" /\ carrier[c] = r /\ RouteOK(r)
  BY DEF ConnectionsInv, RouteOK, TypeOK
<1>3. /\ queue'[r] = queue[r] \ {c}
      /\ \A q \in Routes : q # r => queue'[q] = queue[q]
      /\ connection'[c] = outcome
      /\ \A d \in Connections : d # c => connection'[d] = connection[d]
  BY <1>2 DEF TypeOK
<1>4. Cardinality(queue[r] \ {c}) = Cardinality(queue[r]) - 1 /\ Cardinality(queue[r]) \in Nat
  BY QueueFacts, FS_RemoveElement
<1>5. OnTheWay(r) \in {0, 1} /\ \A q : OnTheWay(q)' = OnTheWay(q)
  BY DEF OnTheWay, hubVars, acceptorVars
<1>6. Cardinality(queue[r]) # 0
  BY QueueFacts
<1>7. pending[r] > 0 /\ pending[r] \in Nat /\ pending[r] = Cardinality(queue[r]) + OnTheWay(r)
  BY <1>2, <1>4, <1>5, <1>6 DEF RouteOK
<1>8. /\ pending' \in [Routes -> 0..Cardinality(Connections)]
      /\ drained' \in [Routes -> BOOLEAN]
      /\ pending'[r] = pending[r] - 1
      /\ drained'[r] = (drained[r] \/ (retired[r] /\ pending'[r] = 0))
      /\ \A q \in Routes : q # r => pending'[q] = pending[q] /\ drained'[q] = drained[q]
  BY <1>7, CompletePendingFacts
<1>9. TypeOK'
  <2>1. \A q \in Routes : Cardinality(queue'[q]) <= Capacity
    BY <1>3, <1>4, RouteFacts DEF TypeOK
  <2>2. queue' \in [Routes -> SUBSET Connections]
    BY DEF TypeOK
  <2>3. connection' \in [Connections -> {"new", "held", "queued", "serving", "ended", "refused"}]
    BY DEF TypeOK
  <2>4. QED
    BY <1>8, <2>1, <2>2, <2>3 DEF TypeOK, hubVars, acceptorVars, ownerVars
<1>10. EntriesInv'
  BY <1>1, EntriesFrame DEF acceptorVars
<1>11. OwnerInv'
  BY <1>1, <1>8, OwnerFrame
<1>12. ConnectionsInv'
  <2>1. \A e \in Routes : c \notin held[e] /\ held[e] \subseteq Connections
    BY <1>2 DEF ConnectionsInv, AcceptorOK, TypeOK
  <2>2. ASSUME NEW e \in Routes PROVE AcceptorOK(e)'
    BY <1>3, <2>1 DEF ConnectionsInv, AcceptorOK, acceptorVars, hubVars
  <2>3. RouteOK(r)'
    <3>1. pending'[r] = Cardinality(queue'[r]) + OnTheWay(r)'
      <4>1. Cardinality(queue'[r]) = Cardinality(queue[r]) - 1
        BY <1>3, <1>4
      <4>2. OnTheWay(r)' = OnTheWay(r)
        BY <1>5
      <4>3. QED
        BY <1>4, <1>5, <1>7, <1>8, <4>1, <4>2
    <3>2. ~drained[r] /\ (closed[r] => mode = "force")
      BY <1>2, <1>7 DEF RouteOK
    <3>3. queue[r] \subseteq Connections
      BY DEF TypeOK
    <3>4. QED
      BY <1>2, <1>3, <1>8, <3>1, <3>2, <3>3 DEF RouteOK, hubVars, ownerVars
  <2>4. ASSUME NEW q \in Routes, q # r PROVE RouteOK(q)'
    <3>1. RouteOK(q) /\ queue[q] \subseteq Connections /\ c \notin queue[q]
      BY <1>2, <2>4 DEF ConnectionsInv, RouteOK, TypeOK
    <3>2. QED
      BY <1>3, <1>5, <1>8, <2>4, <3>1 DEF RouteOK, hubVars, ownerVars
  <2>5. \A d \in Connections : ConnectionOK(d)'
    BY <1>3 DEF ConnectionsInv, ConnectionOK
  <2>6. candidate # None => pending'[candidate] = 0
    BY <1>7, <1>8, RouteFacts DEF ConnectionsInv, TypeOK
  <2>7. QED
    BY <2>2, <2>3, <2>4, <2>5, <2>6 DEF ConnectionsInv, ownerVars
<1>13. QED
  BY <1>9, <1>10, <1>11, <1>12

LEMMA ServerPreserves ==
    ASSUME HandoverInv, NEW r \in Routes, ServerTakes(r) \/ ServerWaits(r)
    PROVE  HandoverInv'
<1> USE DEF HandoverInv
<1>1. CASE ServerTakes(r)
  <2>1. PICK c \in queue[r] : /\ queue' = [queue EXCEPT ![r] = @ \ {c}]
                              /\ connection' = [connection EXCEPT ![c] = "serving"]
    BY <1>1 DEF ServerTakes
  <2>2. /\ CompletePending(r) /\ server' = [server EXCEPT ![r] = "accepting"]
        /\ UNCHANGED <<hubVars, acceptorVars, retired, closed, carrier, acceptedAfter, newest, ownerVars>>
    BY <1>1 DEF ServerTakes, serverRest
  <2>3. /\ server' \in [Routes -> {"none", "accepting", "looked", "blocked", "exited"}]
        /\ \A q \in Routes : server'[q] = "exited" => server[q] = "exited"
    BY <2>2 DEF TypeOK
  <2>4. QED
    BY <2>1, <2>2, <2>3, TakenFacts
<1>2. CASE ServerWaits(r)
  <2>1. /\ UNCHANGED <<hubVars, acceptorVars, newest, ownerVars, routeVars, connectionVars>>
        /\ server' \in [Routes -> {"none", "accepting", "looked", "blocked", "exited"}]
        /\ \A q \in Routes : server'[q] = "exited" => server[q] = "exited" \/ closed[q]
    BY ZenonT(30), <1>2 DEF ServerWaits, serverRest, TypeOK
  <2>2. Unmoved
    BY <2>1 DEF Unmoved, routeVars
  <2>3. TypeOK'
    BY <2>1 DEF TypeOK, hubVars, acceptorVars, ownerVars, routeVars, connectionVars
  <2>4. EntriesInv' /\ OwnerInv'
    BY <2>1, <2>2, EntriesFrame, OwnerFrame DEF acceptorVars, routeVars
  <2>5. ConnectionsInv'
    <3>1. \A e \in Routes : AcceptorOK(e)'
      BY <2>1 DEF ConnectionsInv, AcceptorOK, acceptorVars, hubVars, connectionVars
    <3>2. \A q \in Routes : RouteOK(q)'
      BY <2>1 DEF ConnectionsInv, RouteOK, OnTheWay, acceptorVars, hubVars, routeVars, ownerVars, connectionVars
    <3>3. QED
      BY <2>1, <3>1, <3>2 DEF ConnectionsInv, ConnectionOK, connectionVars, ownerVars, routeVars
  <2>6. QED
    BY <2>3, <2>4, <2>5
<1>3. QED
  BY <1>1, <1>2

\* Connections of a server end: by themselves, or all of them in a forced stop.
LEMMA EndedPreserves ==
    ASSUME HandoverInv, (\E c \in Connections : ConnectionEnds(c)) \/ CloseConnections
    PROVE  HandoverInv'
<1> USE DEF HandoverInv
<1>1. /\ UNCHANGED <<hubVars, acceptorVars, routeVars, server, carrier, acceptedAfter, newest, ownerVars>>
      /\ \A d \in Connections : connection'[d] = connection[d] \/ (connection[d] = "serving" /\ connection'[d] = "ended")
      /\ connection' \in [Connections -> {"new", "held", "queued", "serving", "ended", "refused"}]
  <2>1. CASE \E c \in Connections : ConnectionEnds(c)
    BY <2>1 DEF ConnectionEnds, TypeOK
  <2>2. CASE CloseConnections
    BY <2>2 DEF CloseConnections, Serving, TypeOK
  <2>3. QED
    BY <2>1, <2>2
<1>2. Unmoved
  BY <1>1 DEF Unmoved, routeVars
<1>3. TypeOK'
  BY <1>1 DEF TypeOK, hubVars, acceptorVars, ownerVars, routeVars
<1>4. EntriesInv' /\ OwnerInv'
  BY <1>1, <1>2, EntriesFrame, OwnerFrame DEF acceptorVars, routeVars
<1>5. \A e \in Routes : held[e] \subseteq Connections /\ queue[e] \subseteq Connections
  BY DEF TypeOK
<1>6. ConnectionsInv'
  <2>1. \A e \in Routes : AcceptorOK(e)'
    BY <1>1, <1>5 DEF ConnectionsInv, AcceptorOK, acceptorVars, hubVars
  <2>2. \A q \in Routes : RouteOK(q)'
    BY <1>1, <1>5 DEF ConnectionsInv, RouteOK, OnTheWay, acceptorVars, hubVars, routeVars, ownerVars
  <2>3. QED
    BY <1>1, <2>1, <2>2 DEF ConnectionsInv, ConnectionOK, ownerVars, routeVars
<1>7. QED
  BY <1>3, <1>4, <1>6

-----------------------------------------------------------------------------
(* The owner: what its steps leave alone.                                  *)

\* What a step of the owner may do to a route without losing a connection.
RouteKept(r) ==
    /\ drained'[r] => retired'[r] /\ pending[r] = 0
    /\ closed'[r] /\ mode' # "force" => pending[r] = 0
    /\ retired'[r] \/ closed'[r] => entryOf'[r] # None
    /\ server'[r] = "exited" => closed'[r]
    /\ entryOf[r] # None => entryOf'[r] = entryOf[r]

LEMMA ConnectionsFrame ==
    ASSUME TypeOK, TypeOK', ConnectionsInv,
           UNCHANGED <<held, target, connectionVars, pending, queue>>,
           \A e \in Routes : acceptor'[e] = acceptor[e] \/ {acceptor[e], acceptor'[e]} = {"none", "waiting"},
           \A r \in Routes : RouteKept(r),
           newest' >= newest,
           candidate' # None => pending[candidate'] = 0
    PROVE  ConnectionsInv'
<1>1. ASSUME NEW e \in Routes PROVE AcceptorOK(e)'
  <2>1. AcceptorOK(e) /\ (target[e] # None => RouteKept(target[e])) /\ None \notin Routes
    BY RouteFacts DEF ConnectionsInv, TypeOK
  <2>2. acceptor'[e] = acceptor[e] \/ {acceptor[e], acceptor'[e]} = {"none", "waiting"}
    OBVIOUS
  <2>3. acceptor'[e] = acceptor[e] \/ (acceptor[e] \in {"none", "waiting"} /\ acceptor'[e] \in {"none", "waiting"})
    BY <2>2
  <2>4. /\ held'[e] # {} <=> acceptor'[e] \in {"routing", "dispatching"}
        /\ target'[e] # None <=> acceptor'[e] = "dispatching"
    BY <2>1, <2>3 DEF AcceptorOK
  <2>5. target[e] # None => entryOf'[target[e]] = e
    BY <2>1 DEF RouteKept, AcceptorOK
  <2>6. QED
    BY <2>1, <2>4, <2>5 DEF AcceptorOK, connectionVars
<1>2. ASSUME NEW r \in Routes PROVE RouteOK(r)'
  <2>1. RouteOK(r) /\ RouteKept(r) /\ r # None
    BY RouteFacts DEF ConnectionsInv
  <2>2. OnTheWay(r)' = OnTheWay(r)
    <3>1. CASE entryOf[r] # None
      BY <2>1, <3>1 DEF OnTheWay, RouteKept
    <3>2. CASE entryOf[r] = None
      <4>1. \A e \in Routes : target[e] # r
        BY <2>1, <3>2, RouteFacts DEF ConnectionsInv, AcceptorOK
      <4>2. entryOf'[r] # None => entryOf'[r] \in Routes
        BY ZenonT(30), RouteFacts DEF TypeOK
      <4>3. QED
        BY <3>2, <4>1, <4>2 DEF OnTheWay
    <3>3. QED
      BY <3>1, <3>2
  <2>3. pending'[r] = Cardinality(queue'[r]) + OnTheWay(r)'
    BY <2>1, <2>2 DEF RouteOK
  <2>4. QED
    BY <2>1, <2>3 DEF RouteOK, RouteKept, connectionVars
<1>3. ASSUME NEW c \in Connections PROVE ConnectionOK(c)'
  <2>1. ConnectionOK(c) /\ acceptedAfter[c] \in Nat /\ newest \in Nat /\ newest' \in Nat
    <3>1. acceptedAfter[c] \in OrNone /\ newest \in OrNone /\ newest' \in OrNone
      BY DEF TypeOK
    <3>2. OrNone \subseteq Nat
      BY RouteFacts DEF OrNone
    <3>3. QED
      BY <3>1, <3>2 DEF ConnectionsInv
  <2>2. acceptedAfter'[c] <= newest'
    BY <2>1 DEF ConnectionOK, connectionVars
  <2>3. QED
    BY <2>1, <2>2 DEF ConnectionOK, connectionVars
<1>4. QED
  BY <1>1, <1>2, <1>3 DEF ConnectionsInv

\* A step that only moves the owner on leaves the entries alone.
LEMMA EntriesKept ==
    ASSUME TypeOK, EntriesInv, UNCHANGED <<hubVars, acceptor, current>>,
           current # None => retired'[current] = retired[current] \/ \A e \in Routes : active[e] # current,
           current # None => closed'[current] = closed[current] \/ \A e \in Routes : active[e] # current,
           \A e \in Routes : retiring[e] # None => retiring[e] \in Live' /\ Leaving(retiring[e])'
    PROVE  EntriesInv'
<1>1. \A e : AddressOK(e)' <=> AddressOK(e)
  BY DEF AddressOK, Open, hubVars
<1>2. ASSUME NEW e \in Routes PROVE EntryOK(e)'
  <2>1. EntryOK(e) /\ (retiring'[e] # None => retiring'[e] \in Live' /\ Leaving(retiring[e])')
    BY DEF EntriesInv, hubVars
  <2>2. active[e] # None => ~retired'[current] /\ ~closed'[current]
    BY <2>1 DEF EntryOK
  <2>3. QED
    BY <2>1, <2>2 DEF EntryOK, Open, hubVars, Leaving
<1>3. QED
  BY <1>1, <1>2 DEF EntriesInv, hubVars

LEMMA StageFacts ==
    ASSUME TypeOK, OwnerInv
    PROVE  /\ ownerPc \in {"idle", "prepared", "moving", "switching"} <=> mode = "none"
           /\ ownerPc = "unbinding" => mode = "abort"
           /\ ownerPc \in {"retiring", "next", "hubStopping", "stopped"} => mode \in {"stop", "force"}
           /\ ownerPc \in {"superseding", "draining"} => mode \in {"retire", "stop", "force"}
           /\ mode \in {"none", "abort", "retire", "stop", "force"}
           /\ mode = "none" => task = None /\ (ownerPc # "idle" => candidate # None /\ debt = None)
           /\ mode = "abort" => task = candidate /\ candidate # None /\ debt = None
           /\ mode \in {"retire", "stop", "force"} => candidate = None
           /\ mode \in {"stop", "force"} => StopOK
<1>1. mode \in {"none", "abort", "retire", "stop", "force"} /\ StageOK
  BY DEF TypeOK, OwnerInv
<1>2. CASE mode = "none"
  BY <1>2, <1>1 DEF StageOK
<1>3. CASE mode = "abort"
  BY <1>3, <1>1 DEF StageOK
<1>4. CASE mode = "retire"
  BY <1>4, <1>1 DEF StageOK, Terminating
<1>5. CASE mode \in {"stop", "force"}
  BY <1>5, <1>1 DEF StageOK, StopOK, Stopping, Terminating
<1>6. QED
  BY <1>1, <1>2, <1>3, <1>4, <1>5

-----------------------------------------------------------------------------
(* The owner: a candidate is aborted, a route retired and its server stopped. *)

LEMMA AbortPreserves ==
    ASSUME HandoverInv, Abort
    PROVE  HandoverInv'
<1> USE DEF HandoverInv
<1>1. /\ ownerPc = "prepared" /\ task' = candidate /\ mode' = "abort" /\ ownerPc' = "shutting"
      /\ UNCHANGED <<acceptorVars, connectionVars, hubVars, routeVars, server, newest, current,
                     candidate, toStop, debt, gracefulTried, failed>>
      /\ mode = "none" /\ task = None /\ candidate # None /\ debt = None
  BY StageFacts DEF Abort, Goto, ownerRest
<1>2. TypeOK'
  BY <1>1 DEF TypeOK, hubVars, acceptorVars, routeVars, connectionVars
<1>3. ConnectionsInv'
  <2>1. \A r \in Routes : RouteKept(r)
    BY <1>1 DEF ConnectionsInv, RouteOK, RouteKept, routeVars, hubVars
  <2>2. newest' >= newest
    BY <1>1, RouteFacts DEF TypeOK, OrNone
  <2>3. QED
    BY <1>1, <1>2, <2>1, <2>2, ConnectionsFrame DEF ConnectionsInv, acceptorVars, routeVars
<1>4. EntriesInv'
  <2>1. \A e \in Routes : retiring[e] # None => retiring[e] \in Live' /\ Leaving(retiring[e])'
    BY <1>1 DEF EntriesInv, EntryOK, Live, Leaving, hubVars, routeVars
  <2>2. QED
    BY <1>1, <2>1, EntriesKept DEF acceptorVars, routeVars
<1>5. OwnerInv'
  <2>1. StageOK' /\ TerminatingOK'
    BY <1>1 DEF StageOK, TerminatingOK
  <2>2. CandidateOK' /\ MovingOK' /\ BoundOK'
    BY <1>1 DEF OwnerInv, CandidateOK, MovingOK, BoundOK, Open, hubVars, routeVars
  <2>3. QED
    BY <1>1, <2>1, <2>2 DEF OwnerInv, hubVars, routeVars
<1>6. QED
  BY <1>2, <1>3, <1>4, <1>5

LEMMA RetireMovedPreserves ==
    ASSUME HandoverInv, RetireMoved
    PROVE  HandoverInv'
<1> USE DEF HandoverInv
<1>1. /\ ownerPc = "moving" /\ ownerPc' = "switching" /\ Retire(current)
      /\ UNCHANGED <<acceptorVars, connectionVars, hubVars, server, newest, current, candidate,
                     task, toStop, mode, debt, gracefulTried, failed>>
      /\ mode = "none" /\ task = None /\ candidate # None /\ debt = None
  BY StageFacts DEF RetireMoved, Goto, ownerRest
<1>2. /\ current \in Routes /\ current # None /\ entryOf[current] # None /\ entryOf[current] \in Routes
      /\ active[entryOf[current]] = None
      /\ candidate # current
  BY <1>1, RouteFacts DEF OwnerInv, MovingOK, TypeOK
<1>3. /\ retired' \in [Routes -> BOOLEAN] /\ drained' \in [Routes -> BOOLEAN]
      /\ retired'[current] /\ drained'[current] = (drained[current] \/ pending[current] = 0)
      /\ \A q \in Routes : q # current => retired'[q] = retired[q] /\ drained'[q] = drained[q]
      /\ UNCHANGED <<pending, queue, closed>>
  BY <1>1, <1>2, RetireFacts
<1>4. TypeOK'
  BY <1>1, <1>3 DEF TypeOK, hubVars, acceptorVars, connectionVars
<1>5. \A r \in Routes : retired[r] => retired'[r]
  BY <1>3
<1>6. ConnectionsInv'
  <2>1. ASSUME NEW r \in Routes PROVE RouteKept(r)
    <3>1. RouteOK(r)
      BY DEF ConnectionsInv
    <3>2. CASE r = current
      BY <1>1, <1>2, <1>3, <3>1, <3>2 DEF RouteOK, RouteKept, hubVars
    <3>3. CASE r # current
      BY <1>1, <1>3, <3>1, <3>3 DEF RouteOK, RouteKept, hubVars
    <3>4. QED
      BY <3>2, <3>3
  <2>2. newest' >= newest
    BY <1>1, RouteFacts DEF TypeOK, OrNone
  <2>3. QED
    BY <1>1, <1>3, <1>4, <2>1, <2>2, ConnectionsFrame DEF ConnectionsInv, acceptorVars
<1>7. EntriesInv'
  <2>1. \A e \in Routes : retiring[e] # None => retiring[e] \in Live' /\ Leaving(retiring[e])'
    BY <1>1, <1>3, RouteFacts DEF EntriesInv, EntryOK, Live, Leaving, hubVars, TypeOK
  <2>2. \A e \in Routes : active[e] # current
    BY <1>2 DEF EntriesInv, EntryOK
  <2>3. QED
    BY <1>1, <1>3, <2>1, <2>2, EntriesKept DEF acceptorVars
<1>8. OwnerInv'
  <2>1. StageOK' /\ TerminatingOK'
    BY <1>1 DEF StageOK, TerminatingOK, Terminating
  <2>2. candidate \in Routes
    BY <1>1, RouteFacts DEF TypeOK
  <2>3. CandidateOK'
    BY <1>1, <1>2, <1>3, <2>2 DEF OwnerInv, CandidateOK, Open, hubVars
  <2>4. MovingOK' /\ BoundOK'
    BY <1>1, <1>3 DEF OwnerInv, MovingOK, BoundOK, hubVars
  <2>5. QED
    BY <1>1, <2>1, <2>3, <2>4 DEF OwnerInv, hubVars
<1>9. QED
  BY <1>4, <1>6, <1>7, <1>8

LEMMA RetireTaskPreserves ==
    ASSUME HandoverInv, RetireTask
    PROVE  HandoverInv'
<1> USE DEF HandoverInv
<1>1. /\ ownerPc = "superseding" /\ ownerPc' = (IF mode = "force" THEN "shutting" ELSE "draining")
      /\ Retire(task)
      /\ UNCHANGED <<acceptorVars, connectionVars, hubVars, server, newest, current, candidate,
                     task, toStop, mode, debt, gracefulTried, failed>>
      /\ mode \in {"retire", "stop", "force"} /\ candidate = None
  BY StageFacts DEF RetireTask, Goto, ownerRest
<1>2. /\ task \in Routes /\ entryOf[task] # None
      /\ \A e \in Routes : active[e] # task
  BY <1>1, TaskFacts, RouteFacts DEF OwnerInv, TerminatingOK, Terminating, Stopping
<1>3. /\ retired' \in [Routes -> BOOLEAN] /\ drained' \in [Routes -> BOOLEAN]
      /\ retired'[task] /\ drained'[task] = (drained[task] \/ pending[task] = 0)
      /\ \A q \in Routes : q # task => retired'[q] = retired[q] /\ drained'[q] = drained[q]
      /\ UNCHANGED <<pending, queue, closed>>
  BY <1>1, <1>2, RetireFacts
<1>4. TypeOK'
  BY <1>1, <1>3 DEF TypeOK, hubVars, acceptorVars, connectionVars
<1>5. \A r \in Routes : retired[r] => retired'[r]
  BY <1>3
<1>6. ConnectionsInv'
  <2>1. ASSUME NEW r \in Routes PROVE RouteKept(r)
    <3>1. RouteOK(r)
      BY DEF ConnectionsInv
    <3>2. CASE r = task
      BY <1>1, <1>2, <1>3, <3>1, <3>2 DEF RouteOK, RouteKept, hubVars
    <3>3. CASE r # task
      BY <1>1, <1>3, <3>1, <3>3 DEF RouteOK, RouteKept, hubVars
    <3>4. QED
      BY <3>2, <3>3
  <2>2. newest' >= newest
    <3>1. newest \in Nat
      BY RouteFacts DEF TypeOK, OrNone
    <3>2. newest' = newest
      BY <1>1 DEF ownerRest, routeVars
    <3>3. QED
      BY <3>1, <3>2
  <2>3. QED
    BY <1>1, <1>3, <1>4, <2>1, <2>2, ConnectionsFrame DEF ConnectionsInv, acceptorVars
<1>7. EntriesInv'
  <2>1. \A e \in Routes : retiring[e] # None => retiring[e] \in Live' /\ Leaving(retiring[e])'
    <3>1. ASSUME NEW e \in Routes, retiring[e] # None
          PROVE  retiring[e] \in Live' /\ Leaving(retiring[e])'
      <4>1. EntryOK(e)
        BY DEF EntriesInv
      <4>2. retiring[e] \in Live /\ Leaving(retiring[e])
        BY <3>1, <4>1 DEF EntryOK
      <4>3. retiring[e] \in Routes
        BY <3>1, RouteFacts DEF TypeOK
      <4>4. retiring[e] \in Live'
        BY <1>1, <4>2 DEF Live
      <4>5. retired'[retiring[e]] \/ (ownerPc = "moving" /\ retiring[e] = current)
        BY <1>3, <4>2, <4>3 DEF Leaving
      <4>6. QED
        BY <1>1, <4>4, <4>5 DEF Leaving, hubVars
    <3>2. QED
      BY <3>1
  <2>2. current # None => retired'[current] = retired[current] \/ \A e \in Routes : active[e] # current
    BY <1>2, <1>3, RouteFacts DEF TypeOK
  <2>3. QED
    BY <1>1, <1>3, <2>1, <2>2, EntriesKept DEF acceptorVars
<1>8. OwnerInv'
  <2>1. StageOK'
    BY <1>1 DEF OwnerInv, StageOK, StopOK, Terminating, Stopping
  <2>2. TerminatingOK'
    BY <1>1, <1>2, <1>3 DEF TerminatingOK, Terminating, hubVars
  <2>3. debt # None => debt \in Routes
    BY RouteFacts DEF TypeOK
  <2>4. CandidateOK' /\ MovingOK' /\ BoundOK'
    BY <1>1 DEF OwnerInv, CandidateOK, MovingOK, BoundOK, hubVars
  <2>5. QED
    BY <1>1, <1>5, <2>1, <2>2, <2>3, <2>4 DEF OwnerInv, hubVars
<1>9. QED
  BY <1>4, <1>6, <1>7, <1>8

\* Steps of which only the owner's own record changes.
LEMMA RecordFrame ==
    ASSUME HandoverInv, TypeOK',
           UNCHANGED <<acceptorVars, connectionVars, hubVars, routeVars, server, newest, current, candidate>>,
           mode = "force" => mode' = "force",
           \A r \in Routes : r \in Live /\ Leaving(r) => r \in Live' /\ Leaving(r)'
    PROVE  ConnectionsInv' /\ EntriesInv'
<1> USE DEF HandoverInv
<1>1. ConnectionsInv'
  <2>1. \A r \in Routes : RouteKept(r)
    BY DEF ConnectionsInv, RouteOK, RouteKept, routeVars, hubVars
  <2>2. newest' >= newest
    BY RouteFacts DEF TypeOK, OrNone
  <2>3. QED
    BY <2>1, <2>2, ConnectionsFrame DEF ConnectionsInv, acceptorVars, routeVars
<1>2. EntriesInv'
  <2>1. ASSUME NEW e \in Routes, retiring[e] # None PROVE retiring[e] \in Live' /\ Leaving(retiring[e])'
    <3>0. retiring[e] \in OrNone /\ EntryOK(e)
      BY DEF EntriesInv, TypeOK
    <3>1. retiring[e] \in Routes /\ retiring[e] \in Live /\ Leaving(retiring[e]) /\ UNCHANGED retiring
      BY <2>1, <3>0, RouteFacts DEF EntryOK, hubVars
    <3>2. PICK r \in Routes : r = retiring[e]
      BY <3>1
    <3>3. r \in Live' /\ Leaving(r)'
      BY <3>1, <3>2
    <3>4. QED
      BY <3>1, <3>2, <3>3 DEF Leaving
  <2>2. QED
    BY <2>1, EntriesKept DEF acceptorVars, routeVars
<1>3. QED
  BY <1>1, <1>2

LEMMA WaitDrainedPreserves ==
    ASSUME HandoverInv, WaitDrained
    PROVE  HandoverInv'
<1> USE DEF HandoverInv
<1>1. /\ ownerPc = "draining" /\ ownerPc' = "shutting" /\ drained[task]
      /\ UNCHANGED <<acceptorVars, connectionVars, hubVars, routeVars, server, newest, current, candidate,
                     task, toStop, mode, debt, gracefulTried, failed>>
      /\ mode \in {"retire", "stop", "force"} /\ candidate = None
  BY StageFacts DEF WaitDrained, Goto, ownerRest
<1>2. TypeOK'
  BY <1>1 DEF TypeOK, hubVars, acceptorVars, connectionVars, routeVars
<1>3. ConnectionsInv' /\ EntriesInv'
  BY <1>1, <1>2, RecordFrame DEF Live, Leaving, routeVars
<1>4. OwnerInv'
  <2>1. StageOK'
    BY <1>1 DEF OwnerInv, StageOK, StopOK, Terminating, Stopping
  <2>2. TerminatingOK'
    BY <1>1 DEF OwnerInv, TerminatingOK, Terminating, hubVars, routeVars
  <2>3. CandidateOK' /\ MovingOK' /\ BoundOK'
    BY <1>1 DEF OwnerInv, CandidateOK, MovingOK, BoundOK, hubVars
  <2>4. QED
    BY <1>1, <2>1, <2>2, <2>3 DEF OwnerInv, hubVars, routeVars
<1>5. QED
  BY <1>2, <1>3, <1>4

LEMMA CloseRoutePreserves ==
    ASSUME HandoverInv, CloseRoute
    PROVE  HandoverInv'
<1> USE DEF HandoverInv
<1>0. task \in Routes /\ entryOf[task] # None /\ ownerPc = "shutting"
  BY TaskFacts, RouteFacts DEF CloseRoute, Stopping, Terminating
<1>1. /\ ownerPc' \in {"releasing", "closing"}
      /\ closed'[task] /\ \A r \in Routes : r # task => closed'[r] = closed[r]
      /\ closed' \in [Routes -> BOOLEAN]
      /\ UNCHANGED <<acceptorVars, connectionVars, hubVars, pending, queue, retired, drained, server, newest,
                     current, candidate, task, toStop, mode, debt, failed>>
  BY <1>0 DEF CloseRoute, Goto, ownerRest, TypeOK
<1>2. gracefulTried' \in [Routes -> BOOLEAN]
  <2>1. \A b \in BOOLEAN : (mode # "force" \/ b) \in BOOLEAN
    OBVIOUS
  <2>2. QED
    BY <2>1 DEF CloseRoute, TypeOK
<1>3. TypeOK'
  BY <1>1, <1>2 DEF TypeOK, hubVars, acceptorVars, connectionVars
<1>4. \A e \in Routes : active[e] # task
  <2>1. CASE mode = "abort"
    <3>1. task = candidate /\ candidate # current
      BY <2>1, <1>0, StageFacts, RouteFacts DEF OwnerInv, CandidateOK
    <3>2. QED
      BY <1>0, <3>1, RouteFacts DEF EntriesInv, EntryOK
  <2>2. CASE mode # "abort"
    BY <2>2, <1>0 DEF OwnerInv, TerminatingOK, Terminating
  <2>3. QED
    BY <2>1, <2>2
<1>5. mode # "force" => pending[task] = 0
  <2>1. CASE mode = "abort"
    BY <2>1, <1>0, StageFacts DEF ConnectionsInv
  <2>2. CASE mode # "abort" /\ mode # "force"
    BY <2>2, <1>0 DEF OwnerInv, TerminatingOK, Terminating, ConnectionsInv, RouteOK
  <2>3. QED
    BY <2>1, <2>2
<1>6. ConnectionsInv'
  <2>1. ASSUME NEW r \in Routes PROVE RouteKept(r)
    <3>1. RouteOK(r)
      BY DEF ConnectionsInv
    <3>2. CASE r = task
      BY <1>0, <1>1, <1>5, <3>1, <3>2 DEF RouteOK, RouteKept, hubVars
    <3>3. CASE r # task
      BY <1>1, <3>1, <3>3 DEF RouteOK, RouteKept, hubVars
    <3>4. QED
      BY <3>2, <3>3
  <2>2. newest' >= newest
    BY <1>1, RouteFacts DEF TypeOK, OrNone
  <2>3. QED
    BY <1>1, <1>3, <2>1, <2>2, ConnectionsFrame DEF ConnectionsInv, acceptorVars
<1>7. EntriesInv'
  <2>1. \A e \in Routes : retiring[e] # None => retiring[e] \in Live' /\ Leaving(retiring[e])'
    BY <1>0, <1>1 DEF EntriesInv, EntryOK, Live, Leaving, hubVars
  <2>2. current # None => closed'[current] = closed[current] \/ \A e \in Routes : active[e] # current
    BY <1>4, <1>1, RouteFacts DEF TypeOK
  <2>3. QED
    BY <1>1, <2>1, <2>2, EntriesKept DEF acceptorVars
<1>8. OwnerInv'
  <2>1. StageOK'
    <3>1. CASE mode \in {"stop", "force"}
      BY <1>0, <1>1, <3>1 DEF OwnerInv, StageOK, StopOK, Terminating, Stopping
    <3>2. CASE mode \notin {"stop", "force"}
      BY <1>0, <1>1, <3>2 DEF OwnerInv, StageOK, Terminating
    <3>3. QED
      BY <3>1, <3>2
  <2>2. TerminatingOK'
    BY <1>0, <1>1 DEF OwnerInv, TerminatingOK, Terminating, hubVars
  <2>3. CandidateOK'
    BY <1>0, <1>1, StageFacts DEF OwnerInv, CandidateOK, Open, hubVars
  <2>4. MovingOK' /\ BoundOK'
    BY <1>0, <1>1 DEF OwnerInv, MovingOK, BoundOK, hubVars
  <2>5. QED
    BY <1>1, <2>1, <2>2, <2>3, <2>4 DEF OwnerInv, hubVars
<1>9. QED
  BY <1>3, <1>6, <1>7, <1>8

LEMMA CloseTakesPreserves ==
    ASSUME HandoverInv, CloseTakes
    PROVE  HandoverInv'
<1>1. task \in Routes
  BY TaskFacts DEF HandoverInv, CloseTakes, Stopping, Terminating
<1>2. PICK c \in queue[task] : /\ queue' = [queue EXCEPT ![task] = @ \ {c}]
                               /\ connection' = [connection EXCEPT ![c] = "refused"]
  BY DEF CloseTakes
<1>3. /\ CompletePending(task)
      /\ UNCHANGED <<hubVars, acceptorVars, retired, closed, carrier, acceptedAfter, newest, ownerVars>>
      /\ server' \in [Routes -> {"none", "accepting", "looked", "blocked", "exited"}]
      /\ \A q \in Routes : server'[q] = "exited" => server[q] = "exited"
  BY DEF CloseTakes, HandoverInv, TypeOK
<1>4. QED
  BY <1>1, <1>2, <1>3, TakenFacts

LEMMA CloseReturnsPreserves ==
    ASSUME HandoverInv, CloseReturns
    PROVE  HandoverInv'
<1> USE DEF HandoverInv
<1>1. /\ ownerPc = "closing" /\ ownerPc' = "releasing"
      /\ UNCHANGED <<acceptorVars, connectionVars, hubVars, pending, queue, retired, closed, server, newest,
                     current, candidate, task, toStop, mode, debt, gracefulTried, failed>>
      /\ drained' = [drained EXCEPT ![task] = @ \/ (retired[task] /\ pending[task] = 0)]
  BY DEF CloseReturns, Goto, ownerRest
<1>2. task \in Routes
  BY <1>1, TaskFacts DEF Stopping, Terminating
<1>3. \A b \in BOOLEAN : (b \/ (retired[task] /\ pending[task] = 0)) \in BOOLEAN
  OBVIOUS
<1>4. /\ drained' \in [Routes -> BOOLEAN]
      /\ \A r \in Routes : drained'[r] => drained[r] \/ (retired[r] /\ pending[r] = 0)
  BY <1>1, <1>2, <1>3 DEF TypeOK
<1>5. TypeOK'
  BY <1>1, <1>4 DEF TypeOK, hubVars, acceptorVars, connectionVars
<1>6. ConnectionsInv'
  <2>1. \A r \in Routes : RouteKept(r)
    BY <1>1, <1>4 DEF ConnectionsInv, RouteOK, RouteKept, hubVars
  <2>2. newest' >= newest
    BY <1>1, RouteFacts DEF TypeOK, OrNone
  <2>3. QED
    BY <1>1, <1>5, <2>1, <2>2, ConnectionsFrame DEF ConnectionsInv, acceptorVars
<1>7. EntriesInv'
  <2>1. \A e \in Routes : retiring[e] # None => retiring[e] \in Live' /\ Leaving(retiring[e])'
    BY <1>1 DEF EntriesInv, EntryOK, Live, Leaving, hubVars
  <2>2. QED
    BY <1>1, <2>1, EntriesKept DEF acceptorVars
<1>8. OwnerInv'
  <2>1. StageOK'
    <3>1. CASE mode \in {"stop", "force"}
      BY <1>1, <3>1 DEF OwnerInv, StageOK, StopOK, Terminating, Stopping
    <3>2. CASE mode \notin {"stop", "force"}
      BY <1>1, <3>2 DEF OwnerInv, StageOK, Terminating
    <3>3. QED
      BY <3>1, <3>2
  <2>2. TerminatingOK'
    BY <1>1 DEF OwnerInv, TerminatingOK, Terminating, hubVars
  <2>3. CandidateOK' /\ MovingOK' /\ BoundOK'
    BY <1>1 DEF OwnerInv, CandidateOK, Open, MovingOK, BoundOK, hubVars
  <2>4. QED
    BY <1>1, <2>1, <2>2, <2>3 DEF OwnerInv, hubVars
<1>9. QED
  BY <1>5, <1>6, <1>7, <1>8

LEMMA AbortServerDownPreserves ==
    ASSUME HandoverInv, AbortServerDown
    PROVE  HandoverInv'
<1> USE DEF HandoverInv
<1>1. /\ ownerPc = "releasing" /\ ownerPc' = "unbinding" /\ mode = "abort"
      /\ UNCHANGED <<acceptorVars, connectionVars, hubVars, routeVars, server, newest, current, candidate,
                     task, toStop, mode, debt, gracefulTried, failed>>
  BY DEF AbortServerDown, Goto, ownerRest
<1>2. TypeOK'
  BY <1>1 DEF TypeOK, hubVars, acceptorVars, connectionVars, routeVars
<1>3. ConnectionsInv' /\ EntriesInv'
  BY <1>1, <1>2, RecordFrame DEF Live, Leaving, routeVars
<1>4. OwnerInv'
  <2>1. StageOK' /\ TerminatingOK'
    BY <1>1 DEF OwnerInv, StageOK, TerminatingOK
  <2>2. CandidateOK' /\ MovingOK' /\ BoundOK'
    BY <1>1 DEF OwnerInv, CandidateOK, Open, MovingOK, BoundOK, hubVars, routeVars
  <2>3. QED
    BY <1>1, <2>1, <2>2 DEF OwnerInv, hubVars, routeVars
<1>5. QED
  BY <1>2, <1>3, <1>4

-----------------------------------------------------------------------------
(* The owner: a termination fails, Stop and ForceStop.                     *)

LEMMA TerminationFailsPreserves ==
    ASSUME HandoverInv, TerminationFails
    PROVE  HandoverInv'
<1> USE DEF HandoverInv
<1>1. /\ ownerPc \in {"draining", "shutting", "releasing"}
      /\ debt' = (IF mode = "retire" THEN task ELSE debt)
      /\ failed' = (mode = "stop" \/ failed)
      /\ task' = None
      /\ mode' = (IF mode = "retire" THEN "none" ELSE mode)
      /\ ownerPc' = (IF mode = "retire" THEN "idle" ELSE "next")
      /\ UNCHANGED <<acceptorVars, connectionVars, hubVars, routeVars, server, newest, current, candidate,
                     toStop, gracefulTried>>
  BY DEF TerminationFails, Goto, ownerRest
<1>2. mode \in {"retire", "stop", "force"}
  BY StageFacts DEF TerminationFails, Terminating
<1>3. /\ task \in Routes /\ task # None /\ entryOf[task] # None /\ retired[task] /\ candidate = None
      /\ \A e \in Routes : active[e] # task
  BY <1>1, <1>2, TaskFacts, StageFacts, RouteFacts DEF OwnerInv, TerminatingOK, Terminating, Stopping
<1>4. mode \in {"stop", "force"} => StopOK
  BY StageFacts
<1>5. mode = "retire" => task # current /\ current # None /\ debt = None
  BY DEF OwnerInv, StageOK
<1>6. TypeOK'
  <2>1. (mode = "stop" \/ failed) \in BOOLEAN
    OBVIOUS
  <2>2. debt' \in OrNone /\ task' \in OrNone
    BY <1>1, <1>3, RouteFacts DEF TypeOK
  <2>3. mode' \in {"none", "abort", "retire", "stop", "force"} /\ ownerPc' \in {"idle", "next"}
    BY <1>1, <1>2
  <2>4. QED
    BY <1>1, <2>1, <2>2, <2>3 DEF TypeOK, hubVars, acceptorVars, connectionVars, routeVars
<1>7. ConnectionsInv' /\ EntriesInv'
  <2>1. ASSUME NEW r \in Routes, r \in Live, Leaving(r) PROVE r \in Live' /\ Leaving(r)'
    <3>1. retired'[r]
      BY <1>1, <2>1 DEF Leaving, routeVars
    <3>2. r \in Live'
      BY <1>1, <1>2, <1>3, <1>4, <1>5, <2>1, RouteFacts DEF Live, StopOK
    <3>3. QED
      BY <3>1, <3>2 DEF Leaving
  <2>2. mode = "force" => mode' = "force"
    BY <1>1
  <2>3. QED
    BY <1>1, <1>6, <2>1, <2>2, RecordFrame
<1>8. OwnerInv'
  <2>1. StageOK'
    <3>1. CASE mode = "retire"
      BY <1>1, <1>3, <3>1 DEF StageOK
    <3>2. CASE mode \in {"stop", "force"}
      <4>1. mode = "stop" => failed'
        BY <1>1
      <4>2. StopOK'
        BY <1>1, <1>3, <1>4, <3>2, <4>1 DEF StopOK, Stopping, Terminating
      <4>3. QED
        BY <1>1, <3>2, <4>2 DEF StageOK
    <3>3. QED
      BY <1>2, <3>1, <3>2
  <2>2. CandidateOK' /\ MovingOK' /\ TerminatingOK'
    BY <1>1, <1>3 DEF CandidateOK, MovingOK, TerminatingOK, Terminating
  <2>3. BoundOK'
    <3>1. CASE mode = "retire"
      <4>1. debt' = task /\ mode' = "none" /\ ownerPc' = "idle" /\ task' = None
        BY <1>1, <3>1
      <4>2. current # None => active[entryOf[current]] = current
        BY <1>1, <3>1 DEF OwnerInv, BoundOK
      <4>3. \A a \in Addresses : entries[a] # None =>
              \E r \in {current, candidate, task, debt} \ {None} : entries[a] = entryOf[r]
        BY <3>1 DEF OwnerInv, BoundOK
      <4>4. QED
        BY <1>1, <1>5, <3>1, <4>1, <4>2, <4>3 DEF BoundOK, hubVars
    <3>2. CASE mode \in {"stop", "force"}
      BY <1>1, <3>2 DEF BoundOK
    <3>3. QED
      BY <1>2, <3>1, <3>2
  <2>4. debt' # None => debt' # current' /\ retired'[debt']
    BY <1>1, <1>2, <1>3, <1>5 DEF OwnerInv, routeVars
  <2>5. \A r \in {newest, current, candidate, task, debt}' \ {None} : entryOf'[r] # None
    BY <1>1, <1>3 DEF OwnerInv, hubVars
  <2>6. current' # None => current' = newest'
    BY <1>1 DEF OwnerInv
  <2>7. QED
    BY <2>1, <2>2, <2>3, <2>4, <2>5, <2>6 DEF OwnerInv
<1>9. QED
  BY <1>6, <1>7, <1>8

\* What Stop and ForceStop still have to terminate.
LEMMA RemainingFacts ==
    ASSUME TypeOK, OwnerInv
    PROVE  /\ Remaining \in Seq(Routes)
           /\ \A i \in 1..Len(Remaining) : Remaining[i] \in {current, debt} \ {None}
           /\ \A i, j \in 1..Len(Remaining) : Remaining[i] = Remaining[j] => i = j
           /\ \A r \in {current, debt} \ {None} : \E i \in 1..Len(Remaining) : Remaining[i] = r
<1>1. /\ current # None => current \in Routes
      /\ debt # None => debt \in Routes /\ debt # current
  BY RouteFacts DEF TypeOK, OwnerInv
<1>2. CASE current = None /\ debt = None
  BY <1>2 DEF Remaining, Only
<1>3. CASE current = None /\ debt # None
  <2>1. Remaining = <<debt>>
    BY <1>3 DEF Remaining, Only
  <2>2. QED
    BY <1>1, <1>3, <2>1
<1>4. CASE current # None /\ debt = None
  <2>1. Remaining = <<current>>
    BY <1>4 DEF Remaining, Only
  <2>2. QED
    BY <1>1, <1>4, <2>1
<1>5. CASE current # None /\ debt # None
  <2>1. Remaining = <<current>> \o <<debt>>
    BY <1>5 DEF Remaining, Only
  <2>2. <<current>> \in Seq(Routes) /\ <<debt>> \in Seq(Routes)
    BY <1>1, <1>5
  <2>3. /\ Remaining \in Seq(Routes) /\ Len(Remaining) = 2
        /\ Remaining[1] = current /\ Remaining[2] = debt
    BY <2>1, <2>2
  <2>4. QED
    BY <1>1, <1>5, <2>3
<1>6. QED
  BY <1>2, <1>3, <1>4, <1>5

LEMMA BeginStopPreserves ==
    ASSUME HandoverInv, BeginStop \/ BeginForceStop
    PROVE  HandoverInv'
<1> USE DEF HandoverInv
<1>1. /\ ownerPc \in {"idle", "next"} /\ ownerPc' = "next"
      /\ toStop' = Remaining /\ mode' \in {"stop", "force"}
      /\ mode = "force" => mode' = "force"
      /\ UNCHANGED <<acceptorVars, connectionVars, hubVars, routeVars, server, newest, current, candidate, task,
                     debt, gracefulTried, failed>>
  BY StageFacts DEF BeginStop, BeginForceStop, Goto, ownerRest
<1>2. task = None /\ candidate = None
  <2>1. CASE ownerPc = "idle"
    BY <2>1, StageFacts DEF OwnerInv, StageOK
  <2>2. CASE ownerPc = "next"
    BY <2>2, StageFacts DEF StopOK, Stopping, Terminating
  <2>3. QED
    BY <1>1, <2>1, <2>2
<1>3. TypeOK'
  BY <1>1, RemainingFacts DEF TypeOK, hubVars, acceptorVars, connectionVars, routeVars
<1>4. ConnectionsInv' /\ EntriesInv'
  <2>1. \A r \in Routes : r \in Live /\ Leaving(r) => r \in Live' /\ Leaving(r)'
    BY <1>1, <1>2, RouteFacts DEF Live, Leaving, routeVars
  <2>2. QED
    BY <1>1, <1>3, <2>1, RecordFrame
<1>5. OwnerInv'
  <2>1. StageOK'
    <3>1. StopOK'
      <4>1. /\ \A i \in 1..Len(toStop') : toStop'[i] \in {current, debt} \ {None}
            /\ \A i, j \in 1..Len(toStop') : toStop'[i] = toStop'[j] => i = j
            /\ \A r \in {current, debt} \ {None} : \E i \in 1..Len(toStop') : toStop'[i] = r
        BY <1>1, RemainingFacts
      <4>2. QED
        BY <1>1, <1>2, <4>1 DEF StopOK, Stopping, Terminating
    <3>2. QED
      BY <1>1, <3>1 DEF StageOK
  <2>2. CandidateOK' /\ MovingOK' /\ TerminatingOK' /\ BoundOK'
    BY <1>1, <1>2 DEF CandidateOK, MovingOK, TerminatingOK, Terminating, BoundOK
  <2>3. QED
    BY <1>1, <2>1, <2>2 DEF OwnerInv, hubVars, routeVars
<1>6. QED
  BY <1>3, <1>4, <1>5

LEMMA NextToStopPreserves ==
    ASSUME HandoverInv, NextToStop
    PROVE  HandoverInv'
<1> USE DEF HandoverInv
<1>1. /\ ownerPc = "next" /\ toStop # <<>> /\ toStop \in Seq(Routes)
      /\ task' = Head(toStop) /\ toStop' = Tail(toStop)
      /\ ownerPc' = (IF mode = "force" \/ Head(toStop) = current THEN "retiring" ELSE "draining")
      /\ UNCHANGED <<acceptorVars, connectionVars, hubVars, routeVars, server, newest, current, candidate, mode,
                     debt, gracefulTried, failed>>
  BY DEF NextToStop, Goto, ownerRest, TypeOK
<1>2. mode \in {"stop", "force"} /\ StopOK /\ task = None /\ candidate = None
  BY <1>1, StageFacts DEF StopOK, Stopping, Terminating
<1>3. /\ Len(toStop) \in Nat \ {0} /\ Head(toStop) = toStop[1] /\ Head(toStop) \in Routes
      /\ Tail(toStop) \in Seq(Routes) /\ Len(Tail(toStop)) = Len(toStop) - 1
      /\ \A i \in 1..Len(toStop) - 1 : Tail(toStop)[i] = toStop[i + 1]
  BY <1>1
<1>4. task' \in {current, debt} \ {None} /\ task' \in Routes
  BY <1>1, <1>2, <1>3 DEF StopOK
<1>5. TypeOK'
  BY <1>1, <1>3, RouteFacts DEF TypeOK, hubVars, acceptorVars, connectionVars, routeVars
<1>6. ConnectionsInv' /\ EntriesInv'
  <2>1. \A r \in Routes : r \in Live /\ Leaving(r) => r \in Live' /\ Leaving(r)'
    BY <1>1, <1>2, RouteFacts DEF Live, Leaving, routeVars
  <2>2. QED
    BY <1>1, <1>5, <2>1, RecordFrame
<1>7. OwnerInv'
  <2>1. StopOK'
    <3>1. \A i \in 1..Len(toStop') : toStop'[i] \in {current, debt} \ {None, task'}
      <4>1. ASSUME NEW i \in 1..Len(toStop') PROVE toStop'[i] \in {current, debt} \ {None, task'}
        <5>1. i \in 1..Len(toStop) - 1 /\ i + 1 \in 1..Len(toStop) /\ 1 \in 1..Len(toStop) /\ i + 1 # 1
          BY <1>1, <1>3
        <5>2. toStop'[i] = toStop[i + 1] /\ toStop[i + 1] # toStop[1]
          BY <1>1, <1>2, <1>3, <5>1 DEF StopOK
        <5>3. QED
          BY <1>1, <1>2, <1>3, <5>1, <5>2 DEF StopOK
      <4>2. QED
        BY <4>1
    <3>2. ASSUME NEW i \in 1..Len(toStop'), NEW j \in 1..Len(toStop'), toStop'[i] = toStop'[j]
          PROVE  i = j
      <4>1. i \in 1..Len(toStop) - 1 /\ j \in 1..Len(toStop) - 1
        BY <1>1, <1>3
      <4>2. toStop[i + 1] = toStop[j + 1] /\ i + 1 \in 1..Len(toStop) /\ j + 1 \in 1..Len(toStop)
        BY <1>1, <1>3, <3>2, <4>1
      <4>3. i + 1 = j + 1
        BY <1>2, <4>2 DEF StopOK
      <4>4. QED
        BY <4>1, <4>3
    <3>3. ASSUME mode = "stop", ~failed, NEW r \in {current, debt} \ {None, task'}
          PROVE  \E i \in 1..Len(toStop') : toStop'[i] = r
      <4>1. PICK i \in 1..Len(toStop) : toStop[i] = r
        BY <1>2, <3>3 DEF StopOK
      <4>2. i # 1 /\ i - 1 \in 1..Len(toStop) - 1
        BY <1>1, <1>3, <3>3, <4>1
      <4>3. toStop'[i - 1] = r /\ i - 1 \in 1..Len(toStop')
        BY <1>1, <1>3, <4>1, <4>2
      <4>4. QED
        BY <4>3
    <3>4. /\ ownerPc' \in {"retiring", "draining"} /\ task' # None /\ task' \in {current, debt, None}
          /\ candidate' = None
      BY <1>1, <1>2, <1>4
    <3>5. UNCHANGED <<mode, failed, current, debt>>
      BY <1>1
    <3>6. QED
      BY <3>1, <3>2, <3>3, <3>4, <3>5 DEF StopOK, Stopping, Terminating
  <2>2. StageOK'
    BY <1>1, <1>2, <2>1 DEF StageOK
  <2>3. TerminatingOK'
    <3>1. CASE ownerPc' = "retiring"
      BY <3>1 DEF TerminatingOK, Terminating
    <3>2. CASE ownerPc' = "draining"
      <4>1. task' = debt /\ debt # None /\ task' # current
        BY <1>1, <1>4, <3>2
      <4>2. \A e \in Routes : active[e] # debt
        BY <4>1 DEF EntriesInv, EntryOK
      <4>3. retired[debt]
        BY <4>1 DEF OwnerInv
      <4>4. QED
        BY <1>1, <3>2, <4>1, <4>2, <4>3 DEF TerminatingOK, hubVars, routeVars
    <3>3. QED
      BY <1>1, <3>1, <3>2
  <2>4. CandidateOK' /\ MovingOK' /\ BoundOK'
    BY <1>1, <1>2 DEF CandidateOK, MovingOK, BoundOK
  <2>5. QED
    BY <1>1, <1>4, <2>1, <2>2, <2>3, <2>4 DEF OwnerInv, hubVars, routeVars
<1>8. QED
  BY <1>5, <1>6, <1>7

LEMMA HubStopReturnsPreserves ==
    ASSUME HandoverInv, HubStopReturns
    PROVE  HandoverInv'
<1> USE DEF HandoverInv
<1>1. /\ ownerPc = "hubStopping" /\ ownerPc' = "stopped"
      /\ UNCHANGED <<acceptorVars, connectionVars, hubVars, routeVars, server, newest, current, candidate, task,
                     toStop, mode, debt, gracefulTried, failed>>
      /\ mode \in {"stop", "force"} /\ candidate = None /\ StopOK
  BY StageFacts DEF HubStopReturns, Goto, ownerRest
<1>2. TypeOK'
  BY <1>1 DEF TypeOK, hubVars, acceptorVars, connectionVars, routeVars
<1>3. ConnectionsInv' /\ EntriesInv'
  BY <1>1, <1>2, RecordFrame DEF Live, Leaving, routeVars
<1>4. OwnerInv'
  <2>1. StageOK'
    BY <1>1 DEF StageOK, StopOK, Terminating, Stopping
  <2>2. CandidateOK' /\ MovingOK' /\ TerminatingOK' /\ BoundOK'
    BY <1>1 DEF OwnerInv, CandidateOK, MovingOK, TerminatingOK, Terminating, BoundOK, hubVars
  <2>3. QED
    BY <1>1, <2>1, <2>2 DEF OwnerInv, hubVars, routeVars
<1>5. QED
  BY <1>2, <1>3, <1>4

-----------------------------------------------------------------------------
(* The owner: the entries change.                                          *)

LEMMA EntriesMove ==
    ASSUME HandoverInv, TypeOK',
           UNCHANGED <<acceptorVars, connectionVars, routeVars, server, entryOf>>,
           mode = "force" => mode' = "force",
           newest' >= newest, candidate' \in {candidate, None}
    PROVE  ConnectionsInv'
<1>1. \A r \in Routes : RouteKept(r)
  BY DEF HandoverInv, ConnectionsInv, RouteOK, RouteKept, routeVars
<1>2. candidate' # None => pending[candidate'] = 0
  BY DEF HandoverInv, ConnectionsInv
<1>3. QED
  BY <1>1, <1>2, ConnectionsFrame DEF HandoverInv, acceptorVars, routeVars

LEMMA RetireRoutePreserves ==
    ASSUME HandoverInv, RetireRoute
    PROVE  HandoverInv'
<1> USE DEF HandoverInv
<1>1. /\ ownerPc = "retiring" /\ ownerPc' = "superseding"
      /\ UNCHANGED <<acceptorVars, connectionVars, hubClosed, entries, entryOf, routeVars, server, newest,
                     current, candidate, task, toStop, mode, debt, gracefulTried, failed>>
      /\ mode \in {"stop", "force"} /\ candidate = None /\ StopOK
  BY StageFacts DEF RetireRoute, Goto, ownerRest
<1>2. PICK e \in Routes : e = entryOf[task]
  BY <1>1, TaskFacts DEF Stopping
<1>3. task \in Routes /\ task # None /\ EntryOK(e) /\ task \in {current, debt}
  BY <1>1, TaskFacts, RouteFacts DEF Stopping, EntriesInv, StopOK
<1>4. \A f \in Routes : active[f] = task => f = e
  BY <1>2, <1>3 DEF EntriesInv, EntryOK
<1>5. /\ active'[e] # task /\ \A f \in Routes : f # e => active'[f] = active[f] /\ retiring'[f] = retiring[f] /\ physical'[f] = physical[f]
      /\ active' \in [Routes -> OrNone] /\ retiring' \in [Routes -> OrNone]
      /\ physical' \in [Routes -> {"unbound", "bound", "accepting", "closed"}]
      /\ \/ active'[e] = None /\ retiring'[e] = task /\ physical'[e] = "closed"
         \/ active'[e] = active[e] /\ retiring'[e] = retiring[e] /\ physical'[e] = physical[e]
  <2>1. CASE active[e] = task
    <3>1. /\ active' = [active EXCEPT ![e] = None]
          /\ retiring' = [retiring EXCEPT ![e] = task]
          /\ physical' = [physical EXCEPT ![e] = "closed"]
      BY <1>2, <2>1 DEF RetireRoute, ClosePhysical
    <3>2. QED
      BY <1>3, <3>1, RouteFacts DEF TypeOK
  <2>2. CASE active[e] # task
    BY <1>2, <2>2 DEF RetireRoute, TypeOK
  <2>3. QED
    BY <2>1, <2>2
<1>6. TypeOK'
  BY <1>1, <1>5 DEF TypeOK, acceptorVars, connectionVars, routeVars
<1>7. ConnectionsInv'
  <2>1. newest' >= newest
    BY <1>1, RouteFacts DEF TypeOK, OrNone
  <2>2. QED
    BY <1>1, <1>6, <2>1, EntriesMove
<1>8. EntriesInv'
  <2>1. ASSUME NEW f \in Routes PROVE EntryOK(f)'
    <3>1. EntryOK(f)
      BY DEF EntriesInv
    <3>2. CASE active'[f] = active[f] /\ retiring'[f] = retiring[f] /\ physical'[f] = physical[f]
      BY <1>1, <3>1, <3>2 DEF EntryOK, Open, Live, Leaving, acceptorVars, routeVars
    <3>3. CASE f = e /\ active'[e] = None /\ retiring'[e] = task /\ physical'[e] = "closed"
      <4>1. entryOf[e] = e
        BY <1>2, <1>3, RouteFacts DEF EntriesInv
      <4>2. QED
        BY <1>1, <1>2, <1>3, <3>1, <3>3, <4>1 DEF EntryOK, Open, Live, Leaving, acceptorVars, routeVars
    <3>4. QED
      BY <1>5, <3>2, <3>3
  <2>2. ASSUME NEW f, AddressOK(f), f \in Routes PROVE AddressOK(f)'
    BY <1>3, <1>5, <2>2 DEF AddressOK, Open
  <2>3. \A a \in Addresses : entries[a] # None => entries[a] \in Routes
    BY RouteFacts DEF TypeOK
  <2>4. QED
    BY <1>1, <2>1, <2>2, <2>3 DEF EntriesInv
<1>9. OwnerInv'
  <2>1. StageOK'
    <3>1. StopOK'
      BY <1>1 DEF StopOK, Stopping, Terminating
    <3>2. QED
      BY <1>1, <3>1 DEF StageOK
  <2>2. TerminatingOK'
    BY <1>1, <1>4, <1>5 DEF TerminatingOK
  <2>3. CandidateOK' /\ MovingOK' /\ BoundOK'
    BY <1>1 DEF CandidateOK, MovingOK, BoundOK
  <2>4. QED
    BY <1>1, <2>1, <2>2, <2>3 DEF OwnerInv, routeVars
<1>10. QED
  BY <1>6, <1>7, <1>8, <1>9

\* An entry is forgotten and its listener closed, or both are left as they are.
Dropped(e, drop) ==
    /\ \A f \in Routes : f # e => physical'[f] = physical[f]
    /\ physical'[e] = IF drop THEN "closed" ELSE physical[e]
    /\ \A a \in Addresses : entries'[a] = IF drop /\ entries[a] = e THEN None ELSE entries[a]
    /\ entries' \in [Addresses -> OrNone]
    /\ physical' \in [Routes -> {"unbound", "bound", "accepting", "closed"}]

LEMMA DroppedFacts ==
    ASSUME TypeOK, NEW e \in Routes, NEW drop,
           IF drop THEN Forget(e) /\ ClosePhysical(e) ELSE UNCHANGED <<entries, physical>>
    PROVE  Dropped(e, drop)
<1>1. CASE drop
  BY SMTT(20), <1>1, RouteFacts DEF Dropped, Forget, ClosePhysical, TypeOK
<1>2. CASE ~drop
  BY <1>2 DEF Dropped, TypeOK
<1>3. QED
  BY <1>1, <1>2

LEMMA AbortRoutePreserves ==
    ASSUME HandoverInv, AbortRoute
    PROVE  HandoverInv'
<1> USE DEF HandoverInv
<1>1. /\ ownerPc = "unbinding" /\ ownerPc' = "idle" /\ task' = None /\ candidate' = None /\ mode' = "none"
      /\ UNCHANGED <<acceptorVars, connectionVars, hubClosed, entryOf, active, retiring, routeVars, server,
                     newest, current, toStop, debt, gracefulTried, failed>>
      /\ mode = "abort" /\ task = candidate /\ candidate # None /\ debt = None
  BY StageFacts DEF AbortRoute, Goto, ownerRest
<1>2. PICK e \in Routes : e = entryOf[task]
  BY <1>1, TaskFacts
<1>3. PICK drop \in BOOLEAN : drop <=> active[e] = None /\ retiring[e] = None
  OBVIOUS
<1>4. Dropped(e, drop)
  BY <1>2, <1>3, DroppedFacts DEF AbortRoute
<1>5. TypeOK'
  BY <1>1, <1>4, RouteFacts DEF TypeOK, Dropped, acceptorVars, connectionVars, routeVars
<1>6. ConnectionsInv'
  <2>1. newest' >= newest
    BY <1>1, RouteFacts DEF TypeOK, OrNone
  <2>2. QED
    BY <1>1, <1>5, <2>1, EntriesMove
<1>7. EntriesInv'
  <2>1. entryOf[e] = e
    BY <1>1, <1>2, RouteFacts DEF EntriesInv, TypeOK
  <2>2. ASSUME NEW f \in Routes PROVE EntryOK(f)'
    <3>1. EntryOK(f)
      BY DEF EntriesInv
    <3>2. Open(f)' => Open(f) /\ \E a \in Addresses : entries'[a] = f
      BY <1>4, <3>1 DEF EntryOK, Open, Dropped
    <3>3. retiring[f] # None => retiring[f] \in {current, debt} /\ retired[retiring[f]]
      BY <1>1, <3>1 DEF EntryOK, Live, Leaving
    <3>4. physical'[f] = physical[f] \/ (f = e /\ physical'[f] = "closed" /\ active[f] = None)
      BY <1>3, <1>4 DEF Dropped
    <3>5. QED
      BY <1>1, <2>1, <3>1, <3>2, <3>3, <3>4 DEF EntryOK, Live, Leaving, acceptorVars, routeVars
  <2>3. ASSUME NEW a \in Addresses, entries'[a] # None PROVE AddressOK(entries[a])'
    <3>1. entries'[a] = entries[a] /\ entries[a] \in Routes /\ AddressOK(entries[a])
      BY <1>4, <2>3, RouteFacts DEF EntriesInv, Dropped, TypeOK
    <3>2. physical'[entries[a]] = physical[entries[a]]
      BY <1>4, <2>3, <3>1 DEF Dropped
    <3>3. QED
      BY <1>1, <3>1, <3>2 DEF AddressOK, Open
  <2>4. QED
    BY <1>1, <2>2, <2>3 DEF EntriesInv
<1>8. OwnerInv'
  <2>1. StageOK' /\ CandidateOK' /\ MovingOK' /\ TerminatingOK'
    BY <1>1 DEF StageOK, CandidateOK, MovingOK, TerminatingOK, Terminating
  <2>2. BoundOK'
    <3>1. current # None => active[entryOf[current]] = current
      BY <1>1 DEF OwnerInv, BoundOK
    <3>2. ASSUME NEW a \in Addresses, entries'[a] # None
          PROVE  current # None /\ entries'[a] = entryOf[current]
      <4>1. entries'[a] = entries[a] /\ (drop => entries[a] # e)
        BY <1>4, <3>2 DEF Dropped
      <4>2. PICK r \in {current, candidate, task, debt} \ {None} : entries[a] = entryOf[r]
        BY <1>1, <3>2, <4>1 DEF OwnerInv, BoundOK
      <4>3. CASE r = current
        BY <4>1, <4>2, <4>3
      <4>4. CASE r = task
        <5>1. ~drop
          BY <1>2, <4>1, <4>2, <4>4
        <5>2. current # None /\ entryOf[candidate] = entryOf[current]
          BY <1>1, <1>2, <1>3, <5>1 DEF OwnerInv, CandidateOK
        <5>3. QED
          BY <1>1, <4>1, <4>2, <4>4, <5>2
      <4>5. QED
        BY <1>1, <4>2, <4>3, <4>4
    <3>3. QED
      BY <1>1, <3>1, <3>2 DEF BoundOK
  <2>3. QED
    BY <1>1, <2>1, <2>2 DEF OwnerInv, routeVars
<1>9. QED
  BY <1>5, <1>6, <1>7, <1>8

LEMMA ReleasePreserves ==
    ASSUME HandoverInv, Release
    PROVE  HandoverInv'
<1> USE DEF HandoverInv
<1>1. /\ ownerPc = "releasing" /\ mode # "abort"
      /\ current' = (IF mode # "retire" /\ current = task THEN None ELSE current)
      /\ debt' = (IF mode # "retire" /\ debt = task THEN None ELSE debt)
      /\ task' = None
      /\ mode' = (IF mode = "retire" THEN "none" ELSE mode)
      /\ ownerPc' = (IF mode = "retire" THEN "idle" ELSE "next")
      /\ UNCHANGED <<acceptorVars, connectionVars, hubClosed, entryOf, active, routeVars, server, newest,
                     candidate, toStop, gracefulTried, failed>>
  BY DEF Release, Terminated, Goto, ownerRest
<1>2. mode \in {"retire", "stop", "force"} /\ candidate = None /\ (mode \in {"stop", "force"} => StopOK)
  BY <1>1, StageFacts
<1>3. PICK e \in Routes : e = entryOf[task]
  BY <1>1, TaskFacts DEF Stopping, Terminating
<1>4. /\ task \in Routes /\ task # None /\ retired[task]
      /\ \A f \in Routes : active[f] # task
  BY <1>1, TaskFacts, RouteFacts DEF OwnerInv, TerminatingOK, Terminating, Stopping
<1>5. mode = "retire" => task # current /\ current # None /\ debt = None
  BY DEF OwnerInv, StageOK
<1>6. PICK drop \in BOOLEAN : drop <=> active[e] = None /\ retiring[e] \in {None, task}
  OBVIOUS
<1>7. Dropped(e, drop)
  BY <1>3, <1>6, DroppedFacts DEF Release
<1>8. /\ retiring' \in [Routes -> OrNone]
      /\ \A f \in Routes : retiring'[f] = IF f = e /\ retiring[f] = task THEN None ELSE retiring[f]
  BY <1>3, RouteFacts DEF Release, TypeOK
<1>9. TypeOK'
  <2>1. current' \in OrNone /\ debt' \in OrNone /\ task' \in OrNone
    BY <1>1, RouteFacts DEF TypeOK
  <2>2. mode' \in {"none", "abort", "retire", "stop", "force"} /\ ownerPc' \in {"idle", "next"}
    BY <1>1, <1>2
  <2>3. QED
    BY <1>1, <1>7, <1>8, <2>1, <2>2 DEF TypeOK, Dropped, acceptorVars, connectionVars, routeVars
<1>10. ConnectionsInv'
  <2>1. newest' >= newest
    BY <1>1, RouteFacts DEF TypeOK, OrNone
  <2>2. mode = "force" => mode' = "force"
    BY <1>1
  <2>3. QED
    BY <1>1, <1>9, <2>1, <2>2, EntriesMove
<1>11. EntriesInv'
  <2>1. entryOf[e] = e
    BY <1>3, <1>4, RouteFacts DEF EntriesInv
  <2>2. ASSUME NEW f \in Routes PROVE EntryOK(f)'
    <3>1. EntryOK(f)
      BY DEF EntriesInv
    <3>2. Open(f)' => Open(f) /\ \E a \in Addresses : entries'[a] = f
      BY <1>7, <3>1 DEF EntryOK, Open, Dropped
    <3>3. retiring'[f] # None =>
            /\ retiring'[f] = retiring[f] /\ retiring[f] # task /\ entryOf[retiring[f]] = f
            /\ retiring[f] \in {current, debt} /\ retired[retiring[f]]
      BY <1>1, <1>3, <1>8, <3>1, RouteFacts DEF EntryOK, Live, Leaving
    <3>4. retiring'[f] # None => retiring'[f] \in {current', debt'}
      BY <1>1, <3>3
    <3>5. physical'[f] = physical[f] \/ (f = e /\ physical'[f] = "closed" /\ active[f] = None)
      BY <1>6, <1>7 DEF Dropped
    <3>6. active[f] # None => active[f] = current' /\ current' = current
      BY <1>1, <1>4, <3>1 DEF EntryOK
    <3>7. UNCHANGED <<acceptor, active, entryOf, retired, closed>>
      BY <1>1 DEF acceptorVars, routeVars
    <3>8. active'[f] # None => /\ active'[f] = current' /\ entryOf'[current'] = f
                               /\ ~retired'[current'] /\ ~closed'[current']
      BY <3>1, <3>6, <3>7 DEF EntryOK
    <3>9. retiring'[f] # None => /\ entryOf'[retiring'[f]] = f
                                 /\ retiring'[f] \in Live' /\ Leaving(retiring[f])'
      BY <3>3, <3>4, <3>7 DEF Live, Leaving
    <3>10. /\ physical'[f] # "unbound" <=> entryOf'[f] = f
           /\ acceptor'[f] # "none" <=> entryOf'[f] = f
           /\ acceptor'[f] = "done" => physical'[f] = "closed"
      BY <2>1, <3>1, <3>5, <3>7 DEF EntryOK
    <3>11. /\ acceptor'[f] \in {"accepting", "routing", "dispatching"} => physical'[f] \in {"accepting", "closed"}
           /\ physical'[f] = "accepting" <=> active'[f] # None
      BY <3>1, <3>5, <3>7 DEF EntryOK
    <3>12. QED
      BY <3>2, <3>8, <3>9, <3>10, <3>11 DEF EntryOK
  <2>3. ASSUME NEW a \in Addresses, entries'[a] # None PROVE AddressOK(entries[a])'
    <3>1. entries'[a] = entries[a] /\ entries[a] \in Routes /\ AddressOK(entries[a]) /\ EntryOK(entries[a])
      BY <1>7, <2>3, RouteFacts DEF EntriesInv, Dropped, TypeOK
    <3>2. physical'[entries[a]] = physical[entries[a]] /\ ~(drop /\ entries[a] = e)
      BY <1>7, <2>3, <3>1 DEF Dropped
    <3>3. active[entries[a]] # None => physical[entries[a]] = "accepting"
      BY <3>1 DEF EntryOK
    <3>4. UNCHANGED active
      BY <1>1
    <3>5. QED
      BY <1>6, <1>8, <3>1, <3>2, <3>3, <3>4 DEF AddressOK, Open
  <2>4. QED
    BY <1>1, <2>2, <2>3 DEF EntriesInv
<1>12. OwnerInv'
  <2>1. StageOK'
    <3>1. CASE mode = "retire"
      BY <1>1, <1>2, <3>1 DEF StageOK
    <3>2. CASE mode \in {"stop", "force"}
      <4>1. {current, debt} \ {None, task} = {current', debt'} \ {None}
        BY <1>1, <1>4, <3>2
      <4>2. /\ ownerPc' = "next" /\ task' = None /\ candidate' = None
            /\ UNCHANGED <<toStop, mode, failed>>
        BY <1>1, <1>2, <3>2
      <4>3. /\ \A i \in 1..Len(toStop) : toStop[i] \in {current', debt'} \ {None}
            /\ \A i, j \in 1..Len(toStop) : toStop[i] = toStop[j] => i = j
            /\ mode = "stop" /\ ~failed =>
                 \A r \in {current', debt'} \ {None} : \E i \in 1..Len(toStop) : toStop[i] = r
        BY <1>2, <3>2, <4>1 DEF StopOK
      <4>4. StopOK'
        BY <4>2, <4>3 DEF StopOK, Stopping, Terminating
      <4>5. QED
        BY <1>1, <3>2, <4>4 DEF StageOK
    <3>3. QED
      BY <1>2, <3>1, <3>2
  <2>2. CandidateOK' /\ MovingOK' /\ TerminatingOK'
    BY <1>1, <1>2 DEF CandidateOK, MovingOK, TerminatingOK, Terminating
  <2>3. BoundOK'
    <3>1. CASE mode = "retire"
      <4>1. current' = current /\ mode' = "none" /\ ownerPc' = "idle" /\ UNCHANGED <<active, entryOf>>
        BY <1>1, <3>1
      <4>2. active[entryOf[current]] = current
        BY <1>1, <1>5, <3>1 DEF OwnerInv, BoundOK
      <4>3. ASSUME NEW a \in Addresses, entries'[a] # None
            PROVE  entries'[a] = entryOf[current]
        <5>1. entries'[a] = entries[a] /\ ~(drop /\ entries[a] = e)
          BY <1>7, <4>3 DEF Dropped
        <5>2. PICK r \in {current, candidate, task, debt} \ {None} : entries[a] = entryOf[r]
          BY <3>1, <4>3, <5>1 DEF OwnerInv, BoundOK
        <5>3. CASE r = current
          BY <5>1, <5>2, <5>3
        <5>4. CASE r = task
          <6>1. ~drop /\ EntryOK(e)
            BY <1>3, <5>1, <5>2, <5>4 DEF EntriesInv
          <6>2. CASE active[e] # None
            BY <1>3, <5>1, <5>2, <5>4, <6>1, <6>2 DEF EntryOK
          <6>3. CASE active[e] = None
            <7>1. retiring[e] # None /\ retiring[e] # task
              BY <1>6, <6>1, <6>3
            <7>2. retiring[e] = current /\ entryOf[retiring[e]] = e
              BY <1>5, <3>1, <6>1, <7>1 DEF EntryOK, Live
            <7>3. QED
              BY <1>3, <5>1, <5>2, <5>4, <7>2
          <6>4. QED
            BY <6>2, <6>3
        <5>5. QED
          BY <1>2, <1>5, <3>1, <5>2, <5>3, <5>4
      <4>4. QED
        BY <1>5, <3>1, <4>1, <4>2, <4>3 DEF BoundOK
    <3>2. CASE mode \in {"stop", "force"}
      BY <1>1, <3>2 DEF BoundOK
    <3>3. QED
      BY <1>2, <3>1, <3>2
  <2>4. debt' # None => debt' # current' /\ retired'[debt']
    BY <1>1 DEF OwnerInv, routeVars
  <2>5. \A r \in {newest, current, candidate, task, debt}' \ {None} : entryOf'[r] # None
    BY <1>1 DEF OwnerInv
  <2>6. current' # None => current' = newest'
    BY <1>1 DEF OwnerInv
  <2>7. QED
    BY <2>1, <2>2, <2>3, <2>4, <2>5, <2>6 DEF OwnerInv
<1>13. QED
  BY <1>9, <1>10, <1>11, <1>12

-----------------------------------------------------------------------------
(* The owner: Commit.                                                      *)

LEMMA CommitElsewherePreserves ==
    ASSUME HandoverInv, CommitElsewhere
    PROVE  HandoverInv'
<1> USE DEF HandoverInv
<1>1. /\ ownerPc = "prepared" /\ ownerPc' = "moving" /\ current # None
      /\ UNCHANGED <<acceptorVars, connectionVars, hubClosed, entries, entryOf, routeVars, server, newest,
                     current, candidate, task, toStop, mode, debt, gracefulTried, failed>>
      /\ mode = "none" /\ task = None /\ candidate # None /\ debt = None
  BY StageFacts DEF CommitElsewhere, Goto, ownerRest
<1>2. current \in Routes /\ candidate \in Routes /\ entryOf[current] \in Routes /\ entryOf[candidate] \in Routes
  BY <1>1, RouteFacts DEF TypeOK, OwnerInv
<1>3. PICK e \in Routes : e = entryOf[current]
  BY <1>2
<1>4. e # entryOf[candidate] /\ active[e] = current
  BY <1>1, <1>3 DEF CommitElsewhere, OwnerInv, BoundOK
<1>5. /\ active' = [active EXCEPT ![e] = None]
      /\ retiring' = [retiring EXCEPT ![e] = current]
      /\ physical' = [physical EXCEPT ![e] = "closed"]
  BY <1>3 DEF CommitElsewhere, ClosePhysical
<1>6. /\ active'[e] = None /\ retiring'[e] = current /\ physical'[e] = "closed"
      /\ \A f \in Routes : f # e => active'[f] = active[f] /\ retiring'[f] = retiring[f] /\ physical'[f] = physical[f]
      /\ active' \in [Routes -> OrNone] /\ retiring' \in [Routes -> OrNone]
      /\ physical' \in [Routes -> {"unbound", "bound", "accepting", "closed"}]
  BY <1>2, <1>5, RouteFacts DEF TypeOK
<1>7. TypeOK'
  BY <1>1, <1>6 DEF TypeOK, acceptorVars, connectionVars, routeVars
<1>8. ConnectionsInv'
  <2>1. newest' >= newest
    BY <1>1, RouteFacts DEF TypeOK, OrNone
  <2>2. QED
    BY <1>1, <1>7, <2>1, EntriesMove
<1>9. EntriesInv'
  <2>1. ASSUME NEW f \in Routes PROVE EntryOK(f)'
    <3>1. EntryOK(f)
      BY DEF EntriesInv
    <3>2. CASE f # e
      BY <1>1, <1>6, <3>1, <3>2 DEF EntryOK, Open, Live, Leaving, acceptorVars, routeVars
    <3>3. CASE f = e
      <4>1. entryOf[e] = e
        BY <1>2, <1>3, RouteFacts DEF EntriesInv
      <4>2. QED
        BY <1>1, <1>3, <1>6, <3>1, <3>3, <4>1 DEF EntryOK, Open, Live, Leaving, acceptorVars, routeVars
    <3>4. QED
      BY <3>2, <3>3
  <2>2. ASSUME NEW f, AddressOK(f), f \in Routes PROVE AddressOK(f)'
    BY <1>1, <1>6, <2>2 DEF AddressOK, Open
  <2>3. \A a \in Addresses : entries[a] # None => entries[a] \in Routes
    BY RouteFacts DEF TypeOK
  <2>4. QED
    BY <1>1, <2>1, <2>2, <2>3 DEF EntriesInv
<1>10. OwnerInv'
  <2>1. StageOK' /\ TerminatingOK'
    BY <1>1 DEF StageOK, TerminatingOK, Terminating
  <2>2. CandidateOK'
    <3>1. /\ Open(entryOf[candidate]) /\ candidate > newest /\ ~retired[candidate] /\ ~closed[candidate]
          /\ active[entryOf[candidate]] = None /\ retiring[entryOf[candidate]] = None
      BY <1>1, <1>3, <1>4 DEF OwnerInv, CandidateOK
    <3>2. QED
      BY <1>1, <1>2, <1>4, <1>6, <3>1 DEF CandidateOK, Open, routeVars
  <2>3. MovingOK' /\ BoundOK'
    BY <1>1, <1>3, <1>4, <1>6 DEF OwnerInv, MovingOK, BoundOK
  <2>4. QED
    BY <1>1, <2>1, <2>2, <2>3 DEF OwnerInv, routeVars
<1>11. QED
  BY <1>7, <1>8, <1>9, <1>10

LEMMA CommitPreserves ==
    ASSUME HandoverInv, Commit
    PROVE  HandoverInv'
<1> USE DEF HandoverInv
<1>1. /\ ownerPc \in {"switching", "prepared"}
      /\ newest' = candidate /\ task' = current /\ current' = candidate /\ candidate' = None
      /\ mode' = (IF current # None THEN "retire" ELSE "none")
      /\ UNCHANGED <<acceptorVars, connectionVars, hubClosed, entries, entryOf, routeVars, server,
                     toStop, debt, gracefulTried, failed>>
      /\ mode = "none" /\ task = None /\ candidate # None /\ debt = None
  BY StageFacts DEF Commit, Goto, ownerRest
<1>2. candidate \in Routes /\ entryOf[candidate] \in Routes /\ (current # None => current \in Routes)
  BY <1>1, RouteFacts DEF TypeOK, OwnerInv
<1>3. PICK e \in Routes : e = entryOf[candidate]
  BY <1>2
<1>4. /\ active' = [active EXCEPT ![e] = candidate]
      /\ retiring' = [retiring EXCEPT ![e] = active[e]]
      /\ physical' = [physical EXCEPT ![e] = IF @ = "bound" THEN "accepting" ELSE @]
      /\ ownerPc' = (IF active[e] # None THEN "superseding" ELSE IF current # None THEN "draining" ELSE "idle")
  BY <1>3 DEF Commit, Goto
<1>5. /\ candidate > newest /\ ~retired[candidate] /\ ~closed[candidate] /\ Open(e)
      /\ entryOf[e] = e /\ EntryOK(e)
      /\ current # None => current = newest /\ entryOf[current] # None
  BY <1>1, <1>2, <1>3, RouteFacts DEF OwnerInv, CandidateOK, EntriesInv
<1>6. /\ active'[e] = candidate /\ retiring'[e] = active[e] /\ physical'[e] = "accepting"
      /\ \A f \in Routes : f # e => active'[f] = active[f] /\ retiring'[f] = retiring[f] /\ physical'[f] = physical[f]
      /\ active' \in [Routes -> OrNone] /\ retiring' \in [Routes -> OrNone]
      /\ physical' \in [Routes -> {"unbound", "bound", "accepting", "closed"}]
  BY <1>2, <1>4, <1>5, RouteFacts DEF Open, TypeOK
\* Nothing else is active: what was is replaced here, or was moved away from.
<1>7. /\ \A f \in Routes : f # e => active[f] = None
      /\ active[e] # None => active[e] = current /\ current # None /\ entryOf[current] = e
      /\ active[e] = None /\ current # None => ownerPc = "switching"
  <2>1. CASE ownerPc = "switching"
    <3>1. current # None /\ entryOf[candidate] # entryOf[current] /\ active[entryOf[current]] = None
      BY <2>1 DEF OwnerInv, MovingOK
    <3>2. \A f \in Routes : active[f] = None
      BY <3>1 DEF EntriesInv, EntryOK
    <3>3. QED
      BY <2>1, <3>2
  <2>2. CASE ownerPc # "switching"
    <3>1. active[e] = current
      BY <2>2, <1>3 DEF Commit
    <3>2. QED
      BY <3>1, RouteFacts DEF EntriesInv, EntryOK
  <2>3. QED
    BY <2>1, <2>2
<1>8. TypeOK'
  BY <1>1, <1>2, <1>4, <1>6, RouteFacts DEF TypeOK, acceptorVars, connectionVars, routeVars
<1>9. ConnectionsInv'
  <2>1. newest' >= newest
    <3>1. newest \in OrNone /\ OrNone \subseteq Nat /\ candidate \in Nat
      BY <1>2, RouteFacts DEF TypeOK, OrNone
    <3>2. QED
      BY <1>1, <1>5, <3>1
  <2>2. mode = "force" => mode' = "force"
    BY <1>1
  <2>3. QED
    BY <1>1, <1>8, <2>1, <2>2, EntriesMove
<1>10. ownerPc = "switching" => retired[current]
  BY DEF OwnerInv, MovingOK
<1>11. EntriesInv'
  <2>1. EntryOK(e)'
    <3>1. retiring'[e] # None => /\ entryOf'[retiring'[e]] = e
                                 /\ retiring'[e] \in Live' /\ Leaving(retiring[e])'
      BY <1>1, <1>4, <1>6, <1>7 DEF Live, Leaving
    <3>2. active'[e] # None => /\ active'[e] = current' /\ entryOf'[current'] = e
                               /\ ~retired'[current'] /\ ~closed'[current']
      BY <1>1, <1>3, <1>5, <1>6 DEF routeVars
    <3>3. /\ physical'[e] # "unbound" <=> entryOf'[e] = e
          /\ acceptor'[e] # "none" <=> entryOf'[e] = e
          /\ acceptor'[e] = "done" => physical'[e] = "closed"
          /\ acceptor'[e] \in {"accepting", "routing", "dispatching"} => physical'[e] \in {"accepting", "closed"}
          /\ Open(e)' => \E a \in Addresses : entries'[a] = e
          /\ physical'[e] = "accepting" <=> active'[e] # None
      <4>1. physical[e] \in {"bound", "accepting"} /\ UNCHANGED <<acceptor, entryOf, entries>>
        BY <1>1, <1>5 DEF Open, acceptorVars
      <4>2. active'[e] # None
        BY <1>1, <1>6
      <4>3. QED
        BY <1>5, <1>6, <4>1, <4>2 DEF EntryOK, Open
    <3>4. QED
      BY <3>1, <3>2, <3>3 DEF EntryOK
  <2>2. ASSUME NEW f \in Routes, f # e PROVE EntryOK(f)'
    <3>1. EntryOK(f) /\ active[f] = None
      BY <1>7, <2>2 DEF EntriesInv
    <3>2. retiring[f] # None => /\ retiring[f] = current /\ retired[current] /\ entryOf[retiring[f]] = f
      <4>1. ASSUME retiring[f] # None
            PROVE  retiring[f] = current /\ entryOf[current] = f /\ (retired[current] \/ ownerPc = "moving" \/ ownerPc = "superseding")
        BY <1>1, <3>1, <4>1 DEF EntryOK, Live, Leaving
      <4>2. QED
        BY <1>1, <4>1
    <3>3. retiring'[f] # None => retiring'[f] \in Live' /\ Leaving(retiring[f])'
      BY <1>1, <1>6, <2>2, <3>2 DEF Live, Leaving, routeVars
    <3>4. QED
      BY <1>1, <1>6, <2>2, <3>1, <3>2, <3>3 DEF EntryOK, Open, acceptorVars
  <2>3. ASSUME NEW f, AddressOK(f), f \in Routes PROVE AddressOK(f)'
    BY <1>1, <1>6, <2>3 DEF AddressOK, Open
  <2>4. \A a \in Addresses : entries[a] # None => entries[a] \in Routes
    BY RouteFacts DEF TypeOK
  <2>5. QED
    BY <1>1, <2>1, <2>2, <2>3, <2>4 DEF EntriesInv
<1>12. OwnerInv'
  <2>0. current # None => candidate # current
    BY <1>5, <1>2, RouteFacts
  <2>1. StageOK'
    <3>1. CASE current = None
      BY <1>1, <1>4, <1>7, <3>1 DEF StageOK
    <3>2. CASE current # None
      BY <1>1, <1>4, <2>0, <3>2 DEF StageOK, Terminating
    <3>3. QED
      BY <3>1, <3>2
  <2>2. TerminatingOK'
    <3>1. CASE current = None
      BY <1>1, <1>4, <1>7, <3>1 DEF TerminatingOK, Terminating
    <3>2. CASE current # None
      <4>1. \A f \in Routes : active'[f] # current
        BY <1>6, <1>7, <2>0, <3>2
      <4>2. ownerPc' = "superseding" => entryOf[current] = e
        BY <1>4, <1>7
      <4>3. ownerPc' # "superseding" => retired[current] /\ ownerPc' = "draining"
        BY <1>4, <1>7, <1>10, <3>2
      <4>4. QED
        BY <1>1, <1>3, <4>1, <4>2, <4>3 DEF TerminatingOK, routeVars
    <3>3. QED
      BY <3>1, <3>2
  <2>3. CandidateOK' /\ MovingOK'
    BY <1>1, <1>4 DEF CandidateOK, MovingOK
  <2>4. BoundOK'
    <3>1. \A a \in Addresses : entries[a] # None =>
              \E r \in {current, candidate, task, debt} \ {None} : entries[a] = entryOf[r]
      BY <1>1 DEF OwnerInv, BoundOK
    <3>2. active'[entryOf'[current']] = current'
      BY <1>1, <1>3, <1>6
    <3>3. {current', candidate', task', debt'} \ {None} = {current, candidate, task, debt} \ {None}
      BY <1>1
    <3>4. UNCHANGED <<entries, entryOf>> /\ ownerPc' \notin {"hubStopping", "stopped"}
      BY <1>1, <1>4
    <3>5. QED
      BY <3>1, <3>2, <3>3, <3>4 DEF BoundOK
  <2>5. \A r \in {newest, current, candidate, task, debt}' \ {None} : entryOf'[r] # None
    BY <1>1, <1>2, <1>5, RouteFacts
  <2>6. QED
    BY <1>1, <2>1, <2>2, <2>3, <2>4, <2>5 DEF OwnerInv
<1>13. QED
  BY <1>8, <1>9, <1>11, <1>12

-----------------------------------------------------------------------------
(* The owner: Prepare.                                                     *)

\* Routes are numbered without gaps, in the order in which they are prepared.
LEMMA NextRouteFacts ==
    ASSUME TypeOK, EntriesInv
    PROVE  /\ NextRoute \in Nat \ {0}
           /\ \A r \in Routes : entryOf[r] # None <=> r < NextRoute
<1> DEFINE S == {r \in Routes : entryOf[r] # None}
<1>1. IsFiniteSet(Routes) /\ IsFiniteSet(S)
  <2>1. IsFiniteSet(Routes)
    BY RouteFacts, FS_Interval DEF Routes
  <2>2. S \subseteq Routes
    OBVIOUS
  <2>3. QED
    BY <2>1, <2>2, FS_Subset
<1>2. Cardinality(S) \in Nat /\ NextRoute = Cardinality(S) + 1
  BY <1>1, FS_CardinalityType DEF NextRoute
<1>3. ASSUME NEW r \in S PROVE r <= Cardinality(S)
  <2>1. r \in Nat \ {0} /\ r \in Routes
    BY <1>3 DEF Routes
  <2>2. 1..r \subseteq S
    BY <2>1, <1>3, RouteFacts DEF EntriesInv, Routes
  <2>3. IsFiniteSet(1..r) /\ Cardinality(1..r) = r
    BY <2>1, FS_Interval
  <2>4. Cardinality(1..r) <= Cardinality(S)
    BY <1>1, <2>2, FS_Subset
  <2>5. QED
    BY <2>3, <2>4
<1>4. S = 1..Cardinality(S)
  <2>1. S \subseteq 1..Cardinality(S)
    BY <1>2, <1>3 DEF Routes
  <2>2. IsFiniteSet(1..Cardinality(S)) /\ Cardinality(1..Cardinality(S)) = Cardinality(S)
    BY <1>2, FS_Interval
  <2>3. QED
    BY <2>1, <2>2, FS_Subset
<1>5. ASSUME NEW r \in Routes PROVE entryOf[r] # None <=> r < NextRoute
  <2>1. r \in Nat \ {0}
    BY DEF Routes
  <2>2. r \in S <=> r \in 1..Cardinality(S)
    BY <1>4
  <2>3. r \in S <=> entryOf[r] # None
    OBVIOUS
  <2>4. QED
    BY <1>2, <2>1, <2>2, <2>3
<1>6. QED
  BY <1>2, <1>5

LEMMA PreparePreserves ==
    ASSUME HandoverInv, NEW a \in Addresses, Prepare(a)
    PROVE  HandoverInv'
<1> USE DEF HandoverInv
<1>1. PICK r \in Routes : r = NextRoute
  BY DEF Prepare
<1>2. /\ entryOf[r] = None /\ r # None
      /\ \A q \in Routes : q < r => entryOf[q] # None
      /\ \A q \in Routes : entryOf[q] # None => q < r
  <2>1. ~(r < r)
    BY RouteFacts
  <2>2. QED
    BY <1>1, <2>1, NextRouteFacts, RouteFacts
<1>3. /\ ownerPc = "idle" /\ ownerPc' = "prepared" /\ debt = None /\ (current # None \/ r = 1)
      /\ candidate' = r
      /\ server' = [server EXCEPT ![r] = "accepting"]
      /\ UNCHANGED <<hubClosed, active, retiring, held, target, routeVars, connectionVars,
                     newest, current, task, toStop, mode, debt, gracefulTried, failed>>
      /\ mode = "none" /\ task = None
  BY <1>1, StageFacts DEF Prepare, Goto
<1>4. candidate = None
  BY <1>3 DEF OwnerInv, StageOK
\* The entry that the candidate is prepared at, new or that of the current route.
<1>5. PICK e \in Routes :
        /\ entryOf' = [entryOf EXCEPT ![r] = e]
        /\ \/ /\ e = r /\ entries[a] = None
              /\ entries' = [entries EXCEPT ![a] = r]
              /\ physical' = [physical EXCEPT ![r] = "bound"]
              /\ acceptor' = [acceptor EXCEPT ![r] = "waiting"]
           \/ /\ e # r /\ e = entries[a] /\ ~(active[e] = None /\ retiring[e] # None)
              /\ UNCHANGED <<entries, physical, acceptor>>
  <2>1. CASE entries[a] = None
    BY <1>1, <2>1 DEF Prepare
  <2>2. CASE entries[a] # None
    <3>1. PICK e \in Routes : e = entries[a]
      BY <2>2, RouteFacts DEF TypeOK
    <3>2. entryOf[e] = e
      BY <2>2, <3>1 DEF EntriesInv, AddressOK, EntryOK
    <3>3. e # r
      BY <1>2, <3>2
    <3>4. QED
      BY <1>1, <2>2, <3>1, <3>3 DEF Prepare
  <2>3. QED
    BY <2>1, <2>2
<1>6. /\ entryOf'[r] = e /\ \A q \in Routes : q # r => entryOf'[q] = entryOf[q]
      /\ entryOf' \in [Routes -> OrNone]
      /\ server' \in [Routes -> {"none", "accepting", "looked", "blocked", "exited"}]
      /\ server'[r] = "accepting" /\ \A q \in Routes : q # r => server'[q] = server[q]
  BY <1>3, <1>5, RouteFacts DEF TypeOK
\* Nothing was known of the new route.
<1>7. /\ queue[r] = {} /\ pending[r] = 0 /\ ~retired[r] /\ ~closed[r]
      /\ physical[r] = "unbound" /\ acceptor[r] = "none" /\ active[r] = None /\ retiring[r] = None
      /\ \A b \in Addresses : entries[b] # r
      /\ \A q \in Routes : entryOf[q] # r
  <2>1. RouteOK(r) /\ EntryOK(r)
    BY DEF ConnectionsInv, EntriesInv
  <2>2. queue[r] = {} /\ ~retired[r] /\ ~closed[r]
    BY <1>2, <2>1 DEF RouteOK
  <2>3. pending[r] = 0
    <3>1. Cardinality(queue[r]) = 0 /\ OnTheWay(r) = 0
      BY <1>2, <2>2, FS_EmptySet DEF OnTheWay
    <3>2. QED
      BY <2>1, <3>1 DEF RouteOK
  <2>4. \A q \in Routes : entryOf[q] # r
    BY <1>2 DEF EntriesInv
  <2>5. physical[r] = "unbound" /\ acceptor[r] = "none" /\ active[r] = None /\ retiring[r] = None
    BY <1>2, <2>1, <2>4, RouteFacts DEF EntryOK, TypeOK
  <2>6. \A b \in Addresses : entries[b] # r
    BY <1>2, <2>5 DEF EntriesInv, AddressOK
  <2>7. QED
    BY <2>2, <2>3, <2>4, <2>5, <2>6
<1>8. /\ entries' \in [Addresses -> OrNone]
      /\ physical' \in [Routes -> {"unbound", "bound", "accepting", "closed"}]
      /\ acceptor' \in [Routes -> {"none", "waiting", "accepting", "routing",
                                   "dispatching", "failed", "done"}]
      /\ \A f \in Routes : f # r => physical'[f] = physical[f] /\ acceptor'[f] = acceptor[f]
      /\ \A b \in Addresses : b # a => entries'[b] = entries[b]
      /\ entries'[a] = e
      /\ IF e = r THEN physical'[r] = "bound" /\ acceptor'[r] = "waiting" /\ entries[a] = None
                  ELSE physical'[r] = physical[r] /\ acceptor'[r] = acceptor[r] /\ entries[a] = e
  <2>1. CASE e = r
    <3>1. /\ entries[a] = None
          /\ entries' = [entries EXCEPT ![a] = r]
          /\ physical' = [physical EXCEPT ![r] = "bound"]
          /\ acceptor' = [acceptor EXCEPT ![r] = "waiting"]
      BY <1>5, <2>1
    <3>2. entries' \in [Addresses -> OrNone]
      BY <3>1, RouteFacts DEF TypeOK
    <3>3. QED
      BY <2>1, <3>1, <3>2 DEF TypeOK
  <2>2. CASE e # r
    BY <1>5, <2>2, RouteFacts DEF TypeOK
  <2>3. QED
    BY <2>1, <2>2
<1>9. TypeOK'
  BY <1>3, <1>6, <1>8, RouteFacts DEF TypeOK, routeVars, connectionVars
<1>10. ConnectionsInv'
  <2>1. ASSUME NEW q \in Routes PROVE RouteKept(q)
    <3>1. RouteOK(q)
      BY DEF ConnectionsInv
    <3>2. CASE q = r
      BY <1>2, <1>3, <1>6, <1>7, <3>1, <3>2 DEF RouteOK, RouteKept, routeVars
    <3>3. CASE q # r
      BY <1>3, <1>6, <3>1, <3>3 DEF RouteOK, RouteKept, routeVars
    <3>4. QED
      BY <3>2, <3>3
  <2>2. ASSUME NEW f \in Routes
        PROVE  acceptor'[f] = acceptor[f] \/ {acceptor[f], acceptor'[f]} = {"none", "waiting"}
    BY <1>7, <1>8
  <2>3. newest' >= newest
    <3>1. newest \in Nat
      BY RouteFacts DEF TypeOK, OrNone
    <3>2. newest' = newest
      BY <1>3 DEF ownerRest, routeVars
    <3>3. QED
      BY <3>1, <3>2
  <2>4. candidate' # None => pending[candidate'] = 0
    BY <1>3, <1>7
  <2>5. QED
    BY <1>3, <1>9, <2>1, <2>2, <2>3, <2>4, ConnectionsFrame DEF routeVars
<1>11. e # r => Open(e) /\ entryOf[e] = e /\ current # None /\ e = entryOf[current]
  <2>1. ASSUME e # r PROVE Open(e) /\ entryOf[e] = e
    <3>1. e = entries[a] /\ AddressOK(e) /\ EntryOK(e) /\ ~(active[e] = None /\ retiring[e] # None)
      BY <1>5, <2>1, RouteFacts DEF EntriesInv
    <3>2. QED
      BY <3>1 DEF AddressOK, EntryOK
  <2>2. ASSUME e # r PROVE current # None /\ e = entryOf[current]
    <3>1. entries[a] = e /\ e # None
      BY <1>8, <2>2, RouteFacts
    <3>2. \E q \in {current, candidate, task, debt} \ {None} : entries[a] = entryOf[q]
      BY <1>3, <3>1 DEF OwnerInv, BoundOK
    <3>3. QED
      BY <1>3, <1>4, <3>1, <3>2
  <2>3. QED
    BY <2>1, <2>2
<1>12. EntriesInv'
  <2>1. ASSUME NEW p \in Routes, NEW q \in Routes, entryOf'[p] # None, q <= p PROVE entryOf'[q] # None
    <3>1. p <= r
      BY <1>2, <1>6, <2>1, RouteFacts
    <3>2. q = r \/ q < r
      BY <2>1, <3>1, RouteFacts
    <3>3. QED
      BY <1>2, <1>6, <3>2, RouteFacts
  <2>2. ASSUME NEW q \in Routes, entryOf'[q] # None PROVE entryOf'[entryOf'[q]] = entryOf'[q]
    <3>1. CASE q = r /\ e = r
      BY <1>6, <3>1
    <3>2. CASE q = r /\ e # r
      BY <1>6, <1>11, <3>2
    <3>3. CASE q # r
      <4>1. entryOf[q] \in Routes /\ entryOf[q] # r /\ entryOf[entryOf[q]] = entryOf[q]
        BY <1>6, <1>7, <2>2, <3>3, RouteFacts DEF EntriesInv, TypeOK
      <4>2. QED
        BY <1>6, <3>3, <4>1
    <3>4. QED
      BY <3>1, <3>2, <3>3
  <2>3. ASSUME NEW f \in Routes PROVE EntryOK(f)'
    <3>1. EntryOK(f) /\ UNCHANGED <<active, retiring, retired, closed, current, task, debt, mode>>
      BY <1>3 DEF EntriesInv, routeVars
    <3>2. CASE f = r
      BY <1>6, <1>7, <1>8, <3>1, <3>2 DEF EntryOK, Open
    <3>3. CASE f # r
      <4>1. Open(f)' => \E b \in Addresses : entries'[b] = f
        <5>1. ASSUME NEW b \in Addresses, entries[b] = f PROVE entries'[b] = f
          BY <1>8, <5>1, RouteFacts
        <5>2. QED
          BY <1>8, <3>1, <3>3, <5>1 DEF EntryOK, Open
      <4>2. active[f] # None => current # r /\ current \in Routes
        BY <1>2, <3>1, RouteFacts DEF EntryOK, TypeOK
      <4>3. retiring[f] # None => retiring[f] # r /\ retiring[f] \in Routes
        BY <1>2, <3>1, RouteFacts DEF EntryOK, TypeOK
      <4>4. active'[f] # None => /\ active'[f] = current' /\ entryOf'[current'] = f
                                 /\ ~retired'[current'] /\ ~closed'[current']
        BY <1>6, <3>1, <4>2 DEF EntryOK
      <4>5. retiring'[f] # None => /\ entryOf'[retiring'[f]] = f
                                   /\ retiring'[f] \in Live' /\ Leaving(retiring[f])'
        BY <1>3, <1>6, <3>1, <4>3 DEF EntryOK, Live, Leaving
      <4>6. QED
        BY <1>6, <1>8, <3>1, <3>3, <4>1, <4>4, <4>5 DEF EntryOK
    <3>4. QED
      BY <3>2, <3>3
  <2>4. ASSUME NEW b \in Addresses, entries'[b] # None PROVE AddressOK(entries[b])'
    <3>1. CASE entries'[b] = r
      BY <1>7, <1>8, <3>1 DEF AddressOK, Open
    <3>2. CASE entries'[b] # r
      <4>1. entries'[b] = entries[b] /\ entries[b] \in Routes /\ AddressOK(entries[b])
        BY <1>8, <2>4, <3>2, RouteFacts DEF EntriesInv, TypeOK
      <4>2. QED
        BY <1>3, <1>8, <3>2, <4>1 DEF AddressOK, Open
    <3>3. QED
      BY <3>1, <3>2
  <2>5. QED
    BY <2>1, <2>2, <2>3, <2>4 DEF EntriesInv
<1>13. OwnerInv'
  <2>1. StageOK' /\ MovingOK' /\ TerminatingOK'
    BY <1>2, <1>3 DEF StageOK, MovingOK, TerminatingOK, Terminating
  <2>2. current # None => current \in Routes /\ current # r /\ entryOf[current] # None
    BY <1>2, RouteFacts DEF TypeOK, OwnerInv
  <2>3. \A q \in {newest, current, candidate, task, debt}' \ {None} : entryOf'[q] # None
    <3>1. newest # None => newest \in Routes /\ entryOf[newest] # None /\ newest # r
      BY <1>2, RouteFacts DEF TypeOK, OwnerInv
    <3>2. {newest, current, candidate, task, debt}' = {newest, current, r, None}
      BY <1>3
    <3>3. entryOf'[r] # None
      BY <1>6, RouteFacts
    <3>4. QED
      BY <1>6, <2>2, <3>1, <3>2, <3>3
  <2>4. CandidateOK'
    <3>1. r > newest
      <4>1. newest \in OrNone /\ (newest # None => newest < r)
        BY <1>2, RouteFacts DEF TypeOK, OwnerInv
      <4>2. r \in Nat \ {0}
        BY DEF Routes
      <4>3. newest = None => newest = 0
        BY RouteFacts
      <4>4. newest # None => newest \in Nat
        BY <4>1, RouteFacts
      <4>5. QED
        BY <4>1, <4>2, <4>3, <4>4
    <3>2. Open(e)'
      BY <1>8, <1>11 DEF Open
    <3>3. \/ current # None /\ e = entryOf'[current]
          \/ active[e] = None /\ retiring[e] = None
      BY <1>6, <1>7, <1>11, <2>2
    <3>4. QED
      BY <1>3, <1>6, <1>7, <3>1, <3>2, <3>3 DEF CandidateOK, Open, routeVars
  <2>5. BoundOK'
    <3>1. current # None => active[entryOf[current]] = current
      BY <1>3 DEF OwnerInv, BoundOK
    <3>2. ASSUME NEW b \in Addresses, entries'[b] # None
          PROVE  \E q \in {current, candidate, task, debt}' \ {None} : entries'[b] = entryOf'[q]
      <4>1. CASE b = a
        BY <1>2, <1>3, <1>6, <1>8, <4>1
      <4>2. CASE b # a
        <5>1. entries'[b] = entries[b]
          BY <1>8, <4>2
        <5>2. current # None /\ entries[b] = entryOf[current]
          BY <1>3, <1>4, <3>2, <5>1 DEF OwnerInv, BoundOK
        <5>3. QED
          BY <1>3, <1>6, <2>2, <5>1, <5>2
      <4>3. QED
        BY <4>1, <4>2
    <3>3. QED
      BY <1>3, <1>6, <2>2, <3>1, <3>2 DEF BoundOK
  <2>6. QED
    BY <1>3, <2>1, <2>3, <2>4, <2>5 DEF OwnerInv
<1>14. QED
  BY <1>9, <1>10, <1>12, <1>13

-----------------------------------------------------------------------------
(* The owner: Stop of the hub.                                             *)

LEMMA HubStopPreserves ==
    ASSUME HandoverInv, HubStop
    PROVE  HandoverInv'
<1> USE DEF HandoverInv
<1> DEFINE bound == {e \in Routes : AddressOf(e) # {}}
           left == {active[e] : e \in bound} \cup {retiring[e] : e \in bound}
<1>1. /\ ownerPc = "next" /\ ownerPc' = "hubStopping" /\ (mode = "force" \/ ~failed) /\ toStop = <<>>
      /\ hubClosed' = TRUE
      /\ entries' = [a \in Addresses |-> None]
      /\ active' = [e \in Routes |-> IF e \in bound THEN None ELSE active[e]]
      /\ retiring' = [e \in Routes |-> IF e \in bound THEN None ELSE retiring[e]]
      /\ physical' = [e \in Routes |-> IF e \in bound THEN "closed" ELSE physical[e]]
      /\ closed' = [r \in Routes |-> closed[r] \/ r \in left]
      /\ queue' = [r \in Routes |-> IF r \in left THEN {} ELSE queue[r]]
      /\ pending' = [r \in Routes |-> IF r \in left THEN pending[r] - Cardinality(queue[r])
                                      ELSE pending[r]]
      /\ drained' = [r \in Routes |-> drained[r] \/ (r \in left /\ retired[r] /\ pending'[r] = 0)]
      /\ connection' = [c \in Connections |->
                          IF \E r \in left \ {None} : c \in queue[r] THEN "refused"
                          ELSE connection[c]]
      /\ UNCHANGED <<acceptorVars, entryOf, retired, server, carrier, acceptedAfter, newest,
                     current, candidate, task, toStop, mode, debt, gracefulTried, failed>>
  BY DEF HubStop, Goto
<1>2. mode \in {"stop", "force"} /\ StopOK /\ candidate = None /\ task = None
  BY <1>1, StageFacts DEF StopOK, Stopping, Terminating
<1>3. \A e \in Routes : e \in bound <=> \E a \in Addresses : entries[a] = e
  BY DEF AddressOf
<1>4. \A r \in left : r # None => r \in Routes /\ entryOf[r] # None /\ r \in {current, debt}
  <2>1. ASSUME NEW e \in bound, active[e] # None
        PROVE  active[e] \in Routes /\ entryOf[active[e]] # None /\ active[e] \in {current, debt}
    BY <2>1, RouteFacts DEF EntriesInv, EntryOK, TypeOK
  <2>2. ASSUME NEW e \in bound, retiring[e] # None
        PROVE  retiring[e] \in Routes /\ entryOf[retiring[e]] # None /\ retiring[e] \in {current, debt}
    BY <1>2, <2>2, RouteFacts DEF EntriesInv, EntryOK, TypeOK, Live
  <2>3. QED
    BY <2>1, <2>2
\* Unless it is forced, every route has been released before.
<1>5. mode # "force" => left \subseteq {None}
  <2>1. ASSUME mode # "force" PROVE current = None /\ debt = None
    <3>1. mode = "stop" /\ ~failed /\ Len(toStop) = 0
      BY <1>1, <1>2, <2>1
    <3>2. \A r \in {current, debt} \ {None} : \E i \in 1..Len(toStop) : toStop[i] = r
      BY <1>2, <3>1 DEF StopOK
    <3>3. 1..Len(toStop) = {}
      BY <3>1
    <3>4. QED
      BY <3>2, <3>3
  <2>2. QED
    BY <1>4, <2>1
<1> HIDE DEF bound, left
<1>6. ASSUME NEW r \in Routes
      PROVE  /\ pending'[r] \in 0..Cardinality(Connections)
             /\ pending'[r] = Cardinality(queue'[r]) + OnTheWay(r)
             /\ queue'[r] = IF r \in left THEN {} ELSE queue[r]
             /\ Cardinality(queue'[r]) <= Capacity
             /\ pending'[r] <= pending[r]
             /\ pending[r] = 0 => pending'[r] = 0
  <2>1. /\ queue'[r] = IF r \in left THEN {} ELSE queue[r]
        /\ pending'[r] = IF r \in left THEN pending[r] - Cardinality(queue[r]) ELSE pending[r]
    BY <1>1
  <2>2. /\ pending[r] = Cardinality(queue[r]) + OnTheWay(r) /\ OnTheWay(r) \in {0, 1}
        /\ Cardinality(queue[r]) \in Nat /\ pending[r] \in 0..Cardinality(Connections)
        /\ Cardinality(queue[r]) <= Capacity /\ Cardinality({}) = 0
    BY QueueFacts, FS_EmptySet DEF ConnectionsInv, RouteOK, OnTheWay, TypeOK
  <2>3. Cardinality(Connections) \in Nat /\ Capacity \in Nat
    BY HubAssumption, FS_CardinalityType
  <2>4. CASE r \in left
    <3>1. queue'[r] = {} /\ pending'[r] = OnTheWay(r) /\ Cardinality(queue'[r]) = 0
      BY <2>1, <2>2, <2>4
    <3>2. QED
      BY <2>2, <2>3, <2>4, <3>1
  <2>5. CASE r \notin left
    <3>1. queue'[r] = queue[r] /\ pending'[r] = pending[r]
      BY <2>1, <2>5
    <3>2. QED
      BY <2>2, <2>3, <2>5, <3>1
  <2>6. QED
    BY <2>4, <2>5
<1>7. /\ \A r \in Routes : closed'[r] = (closed[r] \/ r \in left)
      /\ \A r \in Routes : drained'[r] = (drained[r] \/ (r \in left /\ retired[r] /\ pending'[r] = 0))
      /\ \A e \in Routes : IF e \in bound
           THEN active'[e] = None /\ retiring'[e] = None /\ physical'[e] = "closed"
           ELSE active'[e] = active[e] /\ retiring'[e] = retiring[e] /\ physical'[e] = physical[e]
      /\ \A c \in Connections : connection'[c] =
           IF \E r \in left \ {None} : c \in queue[r] THEN "refused" ELSE connection[c]
  BY <1>1
<1>8. TypeOK'
  <2>1. pending' \in [Routes -> 0..Cardinality(Connections)]
    BY <1>1, <1>6
  <2>2. queue' \in [Routes -> SUBSET Connections]
    BY <1>1 DEF TypeOK
  <2>3. \A b \in BOOLEAN : \A x : (b \/ x) \in BOOLEAN
    OBVIOUS
  <2>4. closed' \in [Routes -> BOOLEAN]
    BY <1>1, <2>3 DEF TypeOK
  <2>5. drained' \in [Routes -> BOOLEAN]
    BY <1>1, <2>3 DEF TypeOK
  <2>6. /\ active' \in [Routes -> OrNone] /\ retiring' \in [Routes -> OrNone]
        /\ physical' \in [Routes -> {"unbound", "bound", "accepting", "closed"}]
        /\ entries' \in [Addresses -> OrNone]
    BY <1>1, RouteFacts DEF TypeOK
  <2>7. connection' \in [Connections -> {"new", "held", "queued", "serving", "ended", "refused"}]
    BY <1>1 DEF TypeOK
  <2>8. QED
    BY <1>1, <1>6, <2>1, <2>2, <2>4, <2>5, <2>6, <2>7 DEF TypeOK, acceptorVars
<1>9. ConnectionsInv'
  <2>1. ASSUME NEW e \in Routes PROVE AcceptorOK(e)'
    <3>1. AcceptorOK(e) /\ held[e] \subseteq Connections
      BY DEF ConnectionsInv, TypeOK
    <3>2. \A c \in held[e] : connection'[c] = connection[c]
      <4>1. \A r \in Routes : \A c \in queue[r] : connection[c] = "queued"
        BY DEF ConnectionsInv, RouteOK
      <4>2. QED
        BY <1>4, <1>7, <3>1, <4>1 DEF AcceptorOK
    <3>3. QED
      BY <1>1, <3>1, <3>2 DEF AcceptorOK, acceptorVars
  <2>2. ASSUME NEW r \in Routes PROVE RouteOK(r)'
    <3>1. RouteOK(r) /\ queue[r] \subseteq Connections /\ r # None
      BY RouteFacts DEF ConnectionsInv, TypeOK
    <3>2. ASSUME NEW c \in queue'[r] PROVE connection'[c] = "queued" /\ carrier'[c] = r
      <4>1. r \notin left /\ c \in queue[r] /\ c \in Connections /\ carrier[c] = r /\ connection[c] = "queued"
        BY <1>6, <3>1, <3>2 DEF RouteOK
      <4>2. \A q \in left \ {None} : c \notin queue[q]
        BY <1>4, <4>1 DEF ConnectionsInv, RouteOK
      <4>3. QED
        BY <1>1, <1>7, <4>1, <4>2
    <3>3. pending'[r] = Cardinality(queue'[r]) + OnTheWay(r)'
      <4>1. OnTheWay(r)' = OnTheWay(r)
        BY <1>1 DEF OnTheWay, acceptorVars
      <4>2. QED
        BY <1>6, <4>1
    <3>4. drained'[r] => retired'[r] /\ pending'[r] = 0
      BY <1>1, <1>6, <1>7, <3>1 DEF RouteOK
    <3>5. closed'[r] /\ mode' # "force" => pending'[r] = 0
      BY <1>1, <1>5, <1>6, <1>7, <3>1 DEF RouteOK
    <3>6. queue'[r] # {} \/ retired'[r] \/ closed'[r] => entryOf'[r] # None
      BY <1>1, <1>4, <1>6, <1>7, <3>1 DEF RouteOK
    <3>7. server'[r] = "exited" => closed'[r]
      BY <1>1, <1>7, <3>1 DEF RouteOK
    <3>8. QED
      BY <3>2, <3>3, <3>4, <3>5, <3>6, <3>7 DEF RouteOK
  <2>3. ASSUME NEW c \in Connections PROVE ConnectionOK(c)'
    BY <1>1, <1>7 DEF ConnectionsInv, ConnectionOK
  <2>4. QED
    BY <1>1, <1>2, <2>1, <2>2, <2>3 DEF ConnectionsInv
<1>10. EntriesInv'
  <2>1. ASSUME NEW f \in Routes PROVE EntryOK(f)'
    <3>1. EntryOK(f)
      BY DEF EntriesInv
    <3>2. ~Open(f)' /\ active'[f] = None /\ physical'[f] # "accepting"
      BY <1>3, <1>7, <3>1 DEF EntryOK, Open
    <3>3. CASE f \in bound
      BY <1>1, <1>3, <1>7, <3>1, <3>2, <3>3, RouteFacts DEF EntriesInv, AddressOK, EntryOK, acceptorVars
    <3>4. CASE f \notin bound
      <4>1. retiring'[f] # None => /\ entryOf'[retiring'[f]] = f
                                   /\ retiring'[f] \in Live' /\ Leaving(retiring[f])'
        BY <1>1, <1>7, <3>1, <3>4 DEF EntryOK, Live, Leaving
      <4>2. QED
        BY <1>1, <1>7, <3>1, <3>2, <3>4, <4>1 DEF EntryOK, acceptorVars
    <3>5. QED
      BY <3>3, <3>4
  <2>2. QED
    BY <1>1, <2>1 DEF EntriesInv
<1>11. OwnerInv'
  <2>1. StopOK'
    BY <1>1, <1>2 DEF StopOK, Stopping, Terminating
  <2>2. StageOK'
    BY <1>1, <1>2, <2>1 DEF StageOK
  <2>3. CandidateOK' /\ MovingOK' /\ TerminatingOK' /\ BoundOK'
    BY <1>1, <1>2 DEF CandidateOK, MovingOK, TerminatingOK, Terminating, BoundOK
  <2>4. QED
    BY <1>1, <2>2, <2>3 DEF OwnerInv
<1>12. QED
  BY <1>8, <1>9, <1>10, <1>11

-----------------------------------------------------------------------------
(* What holds at every moment of a hand-over.                              *)

LEMMA HandoverInit == Init => HandoverInv
<1> SUFFICES ASSUME Init PROVE HandoverInv
  OBVIOUS
<1> USE DEF Init
<1>1. TypeOK
  <2>1. Cardinality(Connections) \in Nat /\ Cardinality({}) = 0 /\ Capacity \in Nat
    BY HubAssumption, FS_CardinalityType, FS_EmptySet
  <2>2. pending \in [Routes -> 0..Cardinality(Connections)]
    BY <2>1
  <2>3. \A r \in Routes : Cardinality(queue[r]) <= Capacity
    BY <2>1
  <2>4. queue \in [Routes -> SUBSET Connections] /\ held \in [Routes -> SUBSET Connections]
    OBVIOUS
  <2>5. toStop \in Seq(Routes)
    OBVIOUS
  <2>6. None \in OrNone
    BY RouteFacts
  <2>7. QED
    BY <2>2, <2>3, <2>4, <2>5, <2>6 DEF TypeOK
<1>2. ConnectionsInv
  <2>1. Cardinality({}) = 0 /\ newest = 0 /\ None = 0
    BY FS_EmptySet, RouteFacts
  <2>2. QED
    BY <2>1 DEF ConnectionsInv, AcceptorOK, RouteOK, ConnectionOK, OnTheWay
<1>3. EntriesInv
  BY RouteFacts DEF EntriesInv, EntryOK, AddressOK, Open
<1>4. OwnerInv
  BY DEF OwnerInv, StageOK, CandidateOK, MovingOK, TerminatingOK, Terminating, BoundOK
<1>5. QED
  BY <1>1, <1>2, <1>3, <1>4 DEF HandoverInv

LEMMA HandoverStutters ==
    ASSUME HandoverInv, UNCHANGED vars
    PROVE  HandoverInv'
<1> USE DEF HandoverInv, vars
<1>1. TypeOK'
  BY DEF TypeOK, hubVars, acceptorVars, routeVars, connectionVars, ownerVars
<1>2. Unmoved
  BY DEF Unmoved, routeVars
<1>3. EntriesInv' /\ OwnerInv'
  BY <1>2, EntriesFrame, OwnerFrame DEF acceptorVars, routeVars
<1>4. ConnectionsInv'
  <2>1. newest' >= newest /\ candidate' \in {candidate, None}
    BY RouteFacts DEF TypeOK, OrNone, ownerVars
  <2>2. QED
    BY <1>1, <2>1, EntriesMove DEF hubVars, ownerVars
<1>5. QED
  BY <1>1, <1>3, <1>4

LEMMA OwnerPreserves ==
    ASSUME HandoverInv,
           \/ \E a \in Addresses : Prepare(a)
           \/ CommitElsewhere \/ Commit \/ Abort
           \/ OwnerStep \/ TerminationFails \/ BeginStop
    PROVE  HandoverInv'
BY PreparePreserves, CommitElsewherePreserves, CommitPreserves, AbortPreserves, RetireMovedPreserves,
   AbortRoutePreserves, RetireRoutePreserves, RetireTaskPreserves, WaitDrainedPreserves,
   CloseRoutePreserves, CloseTakesPreserves, CloseReturnsPreserves, EndedPreserves, ReleasePreserves,
   AbortServerDownPreserves, NextToStopPreserves, BeginStopPreserves, HubStopPreserves,
   HubStopReturnsPreserves, TerminationFailsPreserves
   DEF OwnerStep

\* The invariant of a hand-over is inductive.
LEMMA HandoverPreserved ==
    ASSUME HandoverInv, [Next]_vars
    PROVE  HandoverInv'
BY AcceptorPreserves, ServerPreserves, EndedPreserves, OwnerPreserves, HandoverStutters DEF Next

LEMMA HandoverFollows ==
    ASSUME HandoverInv
    PROVE  RoutesAreFollowed
<1> USE DEF HandoverInv
<1>1. DrainedMeansHandedOver
  <2>1. ASSUME NEW r \in Routes, drained[r] PROVE queue[r] = {} /\ \A e \in Routes : target[e] # r
    <3>1. Cardinality(queue[r]) = 0 /\ OnTheWay(r) = 0
      BY <2>1, QueueFacts DEF ConnectionsInv, RouteOK, OnTheWay
    <3>2. ASSUME NEW e \in Routes, target[e] = r PROVE FALSE
      <4>1. entryOf[r] = e /\ e # None
        BY <3>2, RouteFacts DEF ConnectionsInv, AcceptorOK
      <4>2. QED
        BY <3>1, <3>2, <4>1 DEF OnTheWay
    <3>3. QED
      BY <3>1, <3>2, QueueFacts
  <2>2. QED
    BY <2>1 DEF DrainedMeansHandedOver
<1>2. ConnectionsUseNewRoute
  BY DEF ConnectionsUseNewRoute, ConnectionsInv, ConnectionOK
<1>3. CurrentIsServed
  <2>1. current # None => current \in Routes /\ entryOf[current] \in Routes
    BY RouteFacts DEF TypeOK, OwnerInv
  <2>2. QED
    BY <2>1 DEF CurrentIsServed, OwnerInv, BoundOK, EntriesInv, EntryOK, ConnectionsInv, RouteOK
<1>4. OnlyCurrentIsBound
  <2> DEFINE open == {e \in Routes : physical[e] \in {"bound", "accepting"}}
             known == {entries[a] : a \in Addresses} \ {None}
  <2>1. open \subseteq known
    <3>1. ASSUME NEW e \in open PROVE e \in known
      <4>1. e \in Routes /\ e # None /\ \E a \in Addresses : entries[a] = e
        BY RouteFacts DEF EntriesInv, EntryOK, Open
      <4>2. QED
        BY <4>1
    <3>2. QED
      BY <3>1
  <2>2. ASSUME ownerPc = "idle", debt = None
        PROVE  open = known /\ known = {entryOf[r] : r \in {current} \ {None}}
    <3>1. task = None /\ candidate = None /\ mode = "none"
      BY <2>2, StageFacts DEF OwnerInv, StageOK
    <3>2. known \subseteq {entryOf[r] : r \in {current} \ {None}}
      BY <2>2, <3>1 DEF OwnerInv, BoundOK
    <3>3. current # None => entryOf[current] \in open
      <4>1. current # None => current \in Routes /\ entryOf[current] \in Routes
        BY RouteFacts DEF TypeOK, OwnerInv
      <4>2. current # None => active[entryOf[current]] = current
        BY <2>2, <3>1 DEF OwnerInv, BoundOK
      <4>3. QED
        BY <4>1, <4>2 DEF EntriesInv, EntryOK
    <3>4. QED
      BY <2>1, <3>2, <3>3
  <2>3. ownerPc = "stopped" => open = {} /\ known = {}
    <3>1. ownerPc = "stopped" => known = {}
      BY DEF OwnerInv, BoundOK
    <3>2. QED
      BY <2>1, <3>1
  <2>4. QED
    BY <2>2, <2>3 DEF OnlyCurrentIsBound
<1>5. QED
  BY <1>1, <1>2, <1>3, <1>4 DEF RoutesAreFollowed

\* At every moment of a hand-over: a drained route has been handed every
\* connection, no connection goes back to an earlier route, the current
\* generation is reachable and no address is left behind.
THEOREM RoutesAreFollowedHolds == Spec => []RoutesAreFollowed
<1>1. Spec => []HandoverInv
  BY HandoverInit, HandoverPreserved, PTL DEF Spec
<1>2. HandoverInv => RoutesAreFollowed
  BY HandoverFollows
<1>3. QED
  BY <1>1, <1>2, PTL

-----------------------------------------------------------------------------
(* A hand-over loses no connection.                                        *)

\* A connection that the step refuses without being forced to had no route and
\* its listener was closed.
Lossless == \A c \in Connections : Refused(c) =>
               \/ mode = "force"
               \/ \E e \in Routes : c \in held[e] /\ target[e] = None /\ physical[e] = "closed"

LEMMA NotReservedLossless ==
    ASSUME HandoverInv, NEW e \in Routes, NotReserved(e)
    PROVE  Lossless
<1> USE DEF HandoverInv
<1>1. acceptor[e] = "routing" /\ ~CanReserve(Target(e))
  BY DEF NotReserved
<1>2. \A c \in Connections : connection'[c] = IF c \in held[e] THEN "refused" ELSE connection[c]
  BY DEF NotReserved, Settle
<1>3. EntryOK(e) /\ AcceptorOK(e)
  BY DEF EntriesInv, ConnectionsInv
<1>4. physical[e] = "closed"
  <2>1. ASSUME physical[e] = "accepting" PROVE FALSE
    BY <1>1, <1>3, <2>1 DEF EntryOK, Target, CanReserve
  <2>2. QED
    BY <1>1, <1>3, <2>1 DEF EntryOK
<1>5. target[e] = None
  BY <1>1, <1>3 DEF AcceptorOK
<1>6. QED
  BY <1>2, <1>4, <1>5 DEF Lossless, Refused

LEMMA DispatchClosedLossless ==
    ASSUME HandoverInv, NEW e \in Routes, DispatchClosed(e)
    PROVE  Lossless
<1> USE DEF HandoverInv
<1>1. acceptor[e] = "dispatching" /\ closed[target[e]] /\ AcceptorOK(e)
  BY DEF DispatchClosed, ConnectionsInv
<1>2. PICK t \in Routes : t = target[e]
  BY <1>1, RouteFacts DEF AcceptorOK, TypeOK
<1>3. OnTheWay(t) = 1 /\ RouteOK(t) /\ Cardinality(queue[t]) \in Nat
  BY <1>1, <1>2, RouteFacts, QueueFacts DEF AcceptorOK, OnTheWay, ConnectionsInv
<1>4. pending[t] # 0
  BY <1>3 DEF RouteOK
<1>5. mode = "force"
  BY <1>1, <1>2, <1>3, <1>4 DEF RouteOK
<1>6. QED
  BY <1>5 DEF Lossless

LEMMA CloseTakesLossless ==
    ASSUME HandoverInv, CloseTakes
    PROVE  Lossless
<1> USE DEF HandoverInv
<1>1. ownerPc = "closing" /\ queue[task] # {} /\ task \in Routes
  BY TaskFacts DEF CloseTakes, Stopping, Terminating
<1>2. pending[task] # 0
  <2>1. RouteOK(task) /\ Cardinality(queue[task]) \in Nat /\ Cardinality(queue[task]) # 0
    BY <1>1, QueueFacts DEF ConnectionsInv
  <2>2. OnTheWay(task) \in {0, 1}
    BY DEF OnTheWay
  <2>3. QED
    BY <2>1, <2>2 DEF RouteOK
<1>3. mode = "force"
  <2>1. mode # "abort"
    BY <1>1, <1>2, StageFacts DEF ConnectionsInv
  <2>2. ~drained[task]
    BY <1>1, <1>2 DEF ConnectionsInv, RouteOK
  <2>3. QED
    BY <1>1, <2>1, <2>2 DEF OwnerInv, TerminatingOK, Terminating
<1>4. QED
  BY <1>3 DEF Lossless

LEMMA HubStopLossless ==
    ASSUME HandoverInv, HubStop
    PROVE  Lossless
<1> USE DEF HandoverInv
<1>1. CASE mode = "force"
  BY <1>1 DEF Lossless
<1>2. CASE mode # "force"
  <2>1. mode = "stop" /\ ~failed /\ StopOK /\ task = None /\ toStop = <<>>
    BY <1>2, StageFacts DEF HubStop, StopOK, Stopping, Terminating
  <2>2. current = None /\ debt = None
    <3>1. \A r \in {current, debt} \ {None} : \E i \in 1..Len(toStop) : toStop[i] = r
      BY <2>1 DEF StopOK
    <3>2. 1..Len(toStop) = {}
      BY <2>1
    <3>3. QED
      BY <3>1, <3>2
  <2>3. \A e \in Routes : active[e] = None /\ retiring[e] = None
    BY <2>1, <2>2 DEF EntriesInv, EntryOK, Live
  <2>4. \A c \in Connections : connection'[c] = connection[c]
    BY <2>3 DEF HubStop
  <2>5. QED
    BY <2>4 DEF Lossless, Refused
<1>3. QED
  BY <1>1, <1>2

LEMMA StepsLossless ==
    ASSUME HandoverInv, [Next]_vars
    PROVE  Lossless
<1>1. ASSUME \A c \in Connections : connection'[c] = "refused" => connection[c] = "refused"
      PROVE  Lossless
  BY <1>1 DEF Lossless, Refused
<1>2. ASSUME UNCHANGED connection PROVE Lossless
  BY <1>1, <1>2
<1>3. ASSUME NEW e \in Routes, AcceptorStep(e) \/ \E c \in Connections : Accept(e, c) PROVE Lossless
  <2>1. CASE Activated(e) \/ AcceptFails(e) \/ Reserve(e)
    BY <1>2, <2>1 DEF Activated, AcceptFails, Reserve, connectionVars
  <2>2. CASE NotReserved(e)
    BY <2>2, NotReservedLossless
  <2>3. CASE DispatchClosed(e)
    BY <2>3, DispatchClosedLossless
  <2>4. CASE Dispatch(e)
    BY <1>1, <2>4 DEF Dispatch, Settle
  <2>5. CASE \E c \in Connections : Accept(e, c)
    BY <1>1, <2>5 DEF Accept, HandoverInv, TypeOK
  <2>6. QED
    BY <1>3, <2>1, <2>2, <2>3, <2>4, <2>5 DEF AcceptorStep
<1>4. ASSUME NEW r \in Routes, ServerTakes(r) \/ ServerWaits(r) PROVE Lossless
  <2>1. CASE ServerTakes(r)
    BY <1>1, <2>1 DEF ServerTakes, HandoverInv, TypeOK
  <2>2. CASE ServerWaits(r)
    BY <1>2, <2>2 DEF ServerWaits, connectionVars
  <2>3. QED
    BY <1>4, <2>1, <2>2
<1>5. ASSUME (\E c \in Connections : ConnectionEnds(c)) \/ CloseConnections PROVE Lossless
  <2>1. CASE \E c \in Connections : ConnectionEnds(c)
    BY <1>1, <2>1 DEF ConnectionEnds, HandoverInv, TypeOK
  <2>2. CASE CloseConnections
    BY <1>1, <2>2 DEF CloseConnections
  <2>3. QED
    BY <1>5, <2>1, <2>2
<1>6. ASSUME CloseTakes \/ HubStop PROVE Lossless
  BY <1>6, CloseTakesLossless, HubStopLossless
<1>7. ASSUME \/ \E a \in Addresses : Prepare(a)
             \/ CommitElsewhere \/ Commit \/ Abort \/ RetireMoved \/ AbortRoute
             \/ RetireRoute \/ RetireTask \/ WaitDrained \/ CloseRoute \/ CloseReturns
      PROVE  Lossless
  BY <1>2, <1>7 DEF Prepare, CommitElsewhere, Commit, Abort, RetireMoved, AbortRoute, RetireRoute,
                    RetireTask, WaitDrained, CloseRoute, CloseReturns, ownerRest, connectionVars
<1>8. ASSUME \/ Release \/ AbortServerDown \/ NextToStop \/ BeginForceStop \/ HubStopReturns
             \/ TerminationFails \/ BeginStop \/ UNCHANGED vars
      PROVE  Lossless
  BY <1>2, <1>8 DEF Release, AbortServerDown, NextToStop, BeginForceStop, HubStopReturns,
                    TerminationFails, BeginStop, ownerRest, connectionVars, vars
<1>9. QED
  BY <1>3, <1>4, <1>5, <1>6, <1>7, <1>8 DEF Next, OwnerStep

\* Unless the server is forced down, a hand-over refuses a connection only while
\* it has no route and its listener is already closed.
THEOREM HandoffLosesNothingHolds == Spec => HandoffLosesNothing
<1>1. Spec => []HandoverInv
  BY HandoverInit, HandoverPreserved, PTL DEF Spec
<1>2. ASSUME HandoverInv, [Next]_vars
      PROVE  [\A c \in Connections : Refused(c) =>
                \/ mode = "force"
                \/ \E e \in Routes : c \in held[e] /\ target[e] = None /\ physical[e] = "closed"]_vars
  BY <1>2, StepsLossless DEF Lossless
<1>3. QED
  BY <1>1, <1>2, PTL DEF Spec, HandoffLosesNothing

-----------------------------------------------------------------------------
(* The pipeline of the spans: where a span that ended is.                  *)

Among(s) == {s[i] : i \in DOMAIN s}
NoRepeats(s) == \A i, j \in DOMAIN s : s[i] = s[j] => i = j

\* Every span that ended is in one place, and there once.
PlacesInv ==
    /\ NoRepeats(spanQueue) /\ NoRepeats(spanBatch)
    /\ Among(spanQueue) \cap Among(spanBatch) = {}
    /\ exported \cap dropped = {}
    /\ (Among(spanQueue) \cup Among(spanBatch)) \cap (exported \cup dropped) = {}
    /\ Among(spanQueue) \cup Among(spanBatch) \cup exported \cup dropped = Ended
    /\ IsFiniteSet(exported) /\ IsFiniteSet(dropped)

\* What the goroutine and the finalizer know of each other: once the finalizer
\* has begun no span is open, so a drain for it leaves nothing behind.
DrainInv ==
    /\ telemetry # "started" => \A s \in Spans : span[s] = "idle"
    /\ telemetry = "built" => finalizer = "none"
    /\ finalizer # "none" => \A s \in Spans : span[s] # "open"
    /\ stopClosed => finalizer \in {"closing", "over", "late"}
    /\ runner = "draining" => purpose \in {"flush", "stop"} /\ finalizer # "none"
    /\ runner = "exporting" /\ purpose \in {"flush", "stop"} => spanQueue = <<>> /\ finalizer # "none"
    /\ flushed \/ runner \in {"closing", "done"} =>
        spanQueue = <<>> /\ spanBatch = <<>> /\ finalizer # "none"
    /\ finalizer \in {"shutdown", "closing", "over"} => flushed
    /\ finalizer = "over" => runner = "done"

SpanInv == SpanTypeOK /\ PlacesInv /\ DrainInv

\* What Append, Head and Tail do to the members of a sequence.
LEMMA AppendAmong ==
    ASSUME NEW S, NEW s \in Seq(S), NEW e \in S
    PROVE  /\ Append(s, e) \in Seq(S) /\ Len(Append(s, e)) = Len(s) + 1
           /\ Among(Append(s, e)) = Among(s) \cup {e}
           /\ NoRepeats(s) /\ e \notin Among(s) => NoRepeats(Append(s, e))
<1>1. /\ Len(s) \in Nat /\ DOMAIN s = 1..Len(s)
      /\ Append(s, e) \in Seq(S) /\ Len(Append(s, e)) = Len(s) + 1
      /\ DOMAIN Append(s, e) = 1..(Len(s) + 1)
      /\ \A i \in 1..Len(s) : Append(s, e)[i] = s[i]
      /\ Append(s, e)[Len(s) + 1] = e
  OBVIOUS
<1>2. Among(Append(s, e)) = Among(s) \cup {e}
  <2>1. ASSUME NEW x \in Among(Append(s, e)) PROVE x \in Among(s) \cup {e}
    <3>1. PICK i \in 1..(Len(s) + 1) : x = Append(s, e)[i]
      BY <1>1, <2>1 DEF Among
    <3>2. i \in 1..Len(s) \/ i = Len(s) + 1
      BY <1>1
    <3>3. QED
      BY <1>1, <3>1, <3>2 DEF Among
  <2>2. ASSUME NEW x \in Among(s) \cup {e} PROVE x \in Among(Append(s, e))
    <3>1. CASE x = e
      <4>1. Len(s) + 1 \in DOMAIN Append(s, e)
        BY <1>1
      <4>2. QED
        BY <1>1, <3>1, <4>1 DEF Among
    <3>2. CASE x \in Among(s)
      <4>1. PICK i \in 1..Len(s) : x = s[i]
        BY <1>1, <3>2 DEF Among
      <4>2. i \in DOMAIN Append(s, e)
        BY <1>1
      <4>3. QED
        BY <1>1, <4>1, <4>2 DEF Among
    <3>3. QED
      BY <2>2, <3>1, <3>2
  <2>3. QED
    BY <2>1, <2>2
<1>3. ASSUME NoRepeats(s), e \notin Among(s),
             NEW i \in 1..(Len(s) + 1), NEW j \in 1..(Len(s) + 1), Append(s, e)[i] = Append(s, e)[j]
      PROVE  i = j
  <2>1. \A k \in 1..Len(s) : s[k] # e
    BY <1>1, <1>3 DEF Among
  <2>2. (i \in 1..Len(s) \/ i = Len(s) + 1) /\ (j \in 1..Len(s) \/ j = Len(s) + 1)
    BY <1>1
  <2>3. QED
    BY <1>1, <1>3, <2>1, <2>2 DEF NoRepeats
<1>4. NoRepeats(s) /\ e \notin Among(s) => NoRepeats(Append(s, e))
  BY <1>1, <1>3 DEF NoRepeats
<1>5. QED
  BY <1>1, <1>2, <1>4

LEMMA TailAmong ==
    ASSUME NEW S, NEW s \in Seq(S), s # <<>>
    PROVE  /\ Head(s) \in S /\ Tail(s) \in Seq(S) /\ Len(Tail(s)) = Len(s) - 1
           /\ Among(s) = Among(Tail(s)) \cup {Head(s)}
           /\ NoRepeats(s) => NoRepeats(Tail(s)) /\ Head(s) \notin Among(Tail(s))
<1>1. /\ Len(s) \in Nat \ {0} /\ DOMAIN s = 1..Len(s) /\ Head(s) = s[1] /\ Head(s) \in S
      /\ Tail(s) \in Seq(S) /\ Len(Tail(s)) = Len(s) - 1
      /\ DOMAIN Tail(s) = 1..(Len(s) - 1)
      /\ \A i \in 1..(Len(s) - 1) : Tail(s)[i] = s[i + 1]
  OBVIOUS
<1>2. Among(s) = Among(Tail(s)) \cup {Head(s)}
  <2>1. ASSUME NEW x \in Among(s) PROVE x \in Among(Tail(s)) \cup {Head(s)}
    <3>1. PICK i \in 1..Len(s) : x = s[i]
      BY <1>1, <2>1 DEF Among
    <3>2. i = 1 \/ i - 1 \in 1..(Len(s) - 1)
      BY <1>1
    <3>3. i # 1 => x = Tail(s)[i - 1] /\ i - 1 \in DOMAIN Tail(s)
      BY <1>1, <3>1, <3>2
    <3>4. QED
      BY <1>1, <3>1, <3>3 DEF Among
  <2>2. ASSUME NEW x \in Among(Tail(s)) \cup {Head(s)} PROVE x \in Among(s)
    <3>1. CASE x = Head(s)
      <4>1. 1 \in DOMAIN s
        BY <1>1
      <4>2. QED
        BY <1>1, <3>1, <4>1 DEF Among
    <3>2. CASE x \in Among(Tail(s))
      <4>1. PICK i \in 1..(Len(s) - 1) : x = Tail(s)[i]
        BY <1>1, <3>2 DEF Among
      <4>2. i + 1 \in DOMAIN s /\ x = s[i + 1]
        BY <1>1, <4>1
      <4>3. QED
        BY <4>2 DEF Among
    <3>3. QED
      BY <2>2, <3>1, <3>2
  <2>3. QED
    BY <2>1, <2>2
<1>3. ASSUME NoRepeats(s) PROVE NoRepeats(Tail(s))
  <2>1. ASSUME NEW i \in 1..(Len(s) - 1), NEW j \in 1..(Len(s) - 1), Tail(s)[i] = Tail(s)[j]
        PROVE  i = j
    <3>1. i + 1 \in DOMAIN s /\ j + 1 \in DOMAIN s /\ s[i + 1] = s[j + 1]
      BY <1>1, <2>1
    <3>2. i + 1 = j + 1
      BY <1>3, <3>1 DEF NoRepeats
    <3>3. QED
      BY <1>1, <3>2
  <2>2. QED
    BY <1>1, <2>1 DEF NoRepeats
<1>4. ASSUME NoRepeats(s) PROVE Head(s) \notin Among(Tail(s))
  <2> SUFFICES ASSUME NEW i \in 1..(Len(s) - 1), Head(s) = Tail(s)[i] PROVE FALSE
    BY <1>1 DEF Among
  <2>1. 1 \in DOMAIN s /\ i + 1 \in DOMAIN s /\ s[1] = s[i + 1]
    BY <1>1
  <2>2. 1 = i + 1
    BY <1>4, <2>1 DEF NoRepeats
  <2>3. QED
    BY <1>1, <2>2
<1>5. QED
  BY <1>1, <1>2, <1>3, <1>4

LEMMA EmptyAmong == Among(<<>>) = {} /\ NoRepeats(<<>>)
BY DEF Among, NoRepeats

LEMMA CountAmong ==
    ASSUME NEW S, NEW s \in Seq(S), NoRepeats(s)
    PROVE  IsFiniteSet(Among(s)) /\ Cardinality(Among(s)) = Len(s)
<1>1. Len(s) \in Nat /\ DOMAIN s = 1..Len(s)
  OBVIOUS
<1>2. s \in [1..Len(s) -> Among(s)]
  BY <1>1 DEF Among
<1>3. ExistsBijection(1..Len(s), Among(s))
  <2>1. s \in Injection(1..Len(s), Among(s))
    BY <1>1, <1>2 DEF Injection, IsInjective, NoRepeats
  <2>2. s \in Surjection(1..Len(s), Among(s))
    BY <1>1, <1>2 DEF Surjection, Among
  <2>3. QED
    BY <2>1, <2>2 DEF ExistsBijection, Bijection
<1>4. QED
  BY <1>1, <1>3, FS_NatBijection, FS_CountingElements

LEMMA SpanTypeStep ==
    ASSUME SpanTypeOK, SpanNext
    PROVE  SpanTypeOK'
<1> USE DEF SpanTypeOK, runnerRest, stopRest
<1>0. <<>> \in Seq(Spans) /\ Len(spanQueue) \in Nat /\ QueueSize \in Nat
  BY SizesAssumption
<1>1. CASE StartTelemetry \/ StartRefused
  BY <1>1 DEF StartTelemetry, StartRefused
<1>2. ASSUME NEW s \in Spans, OpenSpan(s) PROVE SpanTypeOK'
  BY <1>2 DEF OpenSpan
<1>3. ASSUME NEW s \in Spans, EndSpan(s) PROVE SpanTypeOK'
  <2>1. span' \in [Spans -> {"idle", "open", "ended"}]
    BY <1>3 DEF EndSpan
  <2>2. Append(spanQueue, s) \in Seq(Spans) /\ Len(Append(spanQueue, s)) = Len(spanQueue) + 1
    BY AppendAmong
  <2>3. \/ spanQueue' = Append(spanQueue, s) /\ Len(spanQueue) < QueueSize /\ UNCHANGED dropped
        \/ dropped' = dropped \cup {s} /\ UNCHANGED spanQueue
    BY <1>3 DEF EndSpan
  <2>4. spanQueue' \in Seq(Spans) /\ Len(spanQueue') <= QueueSize /\ dropped' \subseteq Spans
    <3>1. CASE spanQueue' = Append(spanQueue, s) /\ Len(spanQueue) < QueueSize /\ UNCHANGED dropped
      <4>1. Len(spanQueue') = Len(spanQueue) + 1 /\ Len(spanQueue) < QueueSize
        BY <2>2, <3>1
      <4>2. Len(spanQueue') <= QueueSize
        BY <1>0, <4>1
      <4>3. QED
        BY <2>2, <3>1, <4>2
    <3>2. CASE dropped' = dropped \cup {s} /\ UNCHANGED spanQueue
      BY <3>2
    <3>3. QED
      BY <2>3, <3>1, <3>2
  <2>5. QED
    BY <1>3, <2>1, <2>4 DEF EndSpan
<1>4. ASSUME spanQueue # <<>>, spanBatch' = Append(spanBatch, Head(spanQueue)), spanQueue' = Tail(spanQueue)
      PROVE  spanQueue' \in Seq(Spans) /\ Len(spanQueue') <= QueueSize /\ spanBatch' \in Seq(Spans)
  <2>1. /\ Head(spanQueue) \in Spans /\ Tail(spanQueue) \in Seq(Spans)
        /\ Len(Tail(spanQueue)) = Len(spanQueue) - 1
    BY <1>4, TailAmong
  <2>2. QED
    BY <1>0, <1>4, <2>1, AppendAmong
<1>5. CASE TakeSpan
  <2>1. spanQueue' \in Seq(Spans) /\ Len(spanQueue') <= QueueSize /\ spanBatch' \in Seq(Spans)
    BY <1>4, <1>5 DEF TakeSpan
  <2>2. runner' \in {"exporting", runner} /\ purpose' \in {"full", purpose}
        /\ UNCHANGED <<exported, dropped, runnerRest>>
    BY <1>5 DEF TakeSpan
  <2>3. QED
    BY <2>1, <2>2
<1>6. CASE Tick \/ TakeFlush \/ TakeStop \/ ExporterCloses
  BY <1>6 DEF Tick, TakeFlush, TakeStop, ExporterCloses
<1>7. CASE Drain
  <2>1. spanQueue' \in Seq(Spans) /\ Len(spanQueue') <= QueueSize /\ spanBatch' \in Seq(Spans)
    BY <1>4, <1>7 DEF Drain
  <2>2. QED
    BY <1>7, <2>1 DEF Drain
<1>8. CASE Export \/ ExportFails
  <2>1. {spanBatch[i] : i \in DOMAIN spanBatch} \subseteq Spans
    OBVIOUS
  <2>2. exported' \subseteq Spans /\ dropped' \subseteq Spans /\ Emptied
    BY <1>8, <2>1 DEF Export, ExportFails
  <2>3. flushed' \in BOOLEAN /\ spanBatch' \in Seq(Spans)
    BY <1>0, <2>2 DEF Emptied
  <2>4. QED
    BY <2>2, <2>3 DEF Emptied
<1>9. CASE \/ BeginTelemetryStop \/ FlushReturns \/ Shutdown \/ FlushGivesUp \/ ShutdownReturns
           \/ ShutdownGivesUp
  BY <1>9 DEF BeginTelemetryStop, FlushReturns, Shutdown, FlushGivesUp, ShutdownReturns, ShutdownGivesUp
<1>10. QED
  BY <1>1, <1>2, <1>3, <1>5, <1>6, <1>7, <1>8, <1>9 DEF SpanNext

\* A span goes from one place to the next, and no other moves.
LEMMA PlacesStep ==
    ASSUME SpanTypeOK, PlacesInv, SpanNext
    PROVE  PlacesInv'
<1> DEFINE Waiting == Among(spanQueue) \cup Among(spanBatch)
<1>0. /\ NoRepeats(spanQueue) /\ NoRepeats(spanBatch) /\ Among(spanQueue) \cap Among(spanBatch) = {}
      /\ exported \cap dropped = {} /\ Waiting \cap (exported \cup dropped) = {}
      /\ Waiting \cup exported \cup dropped = Ended
      /\ IsFiniteSet(exported) /\ IsFiniteSet(dropped)
      /\ spanQueue \in Seq(Spans) /\ spanBatch \in Seq(Spans)
  BY DEF PlacesInv, SpanTypeOK
<1>1. ASSUME UNCHANGED <<spanQueue, spanBatch, exported, dropped>>, Ended' = Ended PROVE PlacesInv'
  BY <1>1 DEF PlacesInv
<1>2. CASE \/ StartTelemetry \/ StartRefused \/ Tick \/ TakeFlush \/ TakeStop \/ ExporterCloses
           \/ BeginTelemetryStop \/ FlushReturns \/ Shutdown \/ FlushGivesUp \/ ShutdownReturns
           \/ ShutdownGivesUp
  <2>1. UNCHANGED <<span, spanQueue, spanBatch, exported, dropped>>
    BY <1>2 DEF StartTelemetry, StartRefused, Tick, TakeFlush, TakeStop, ExporterCloses,
         BeginTelemetryStop, FlushReturns, Shutdown, FlushGivesUp, ShutdownReturns, ShutdownGivesUp,
         runnerRest, stopRest
  <2>2. QED
    BY <1>1, <2>1 DEF Ended
<1>3. ASSUME NEW s \in Spans, OpenSpan(s) PROVE PlacesInv'
  <2>1. span' = [span EXCEPT ![s] = "open"] /\ span[s] = "idle"
        /\ UNCHANGED <<spanQueue, spanBatch, exported, dropped>>
    BY <1>3 DEF OpenSpan
  <2>2. Ended' = Ended
    BY <2>1 DEF Ended, SpanTypeOK
  <2>3. QED
    BY <1>1, <2>1, <2>2
<1>4. ASSUME NEW s \in Spans, EndSpan(s) PROVE PlacesInv'
  <2>1. span[s] = "open" /\ span' = [span EXCEPT ![s] = "ended"] /\ UNCHANGED <<spanBatch, exported>>
    BY <1>4 DEF EndSpan
  <2>2. Ended' = Ended \cup {s} /\ s \notin Ended
    BY <2>1 DEF Ended, SpanTypeOK
  <2>3. CASE spanQueue' = Append(spanQueue, s) /\ UNCHANGED dropped
    <3>1. Among(spanQueue') = Among(spanQueue) \cup {s} /\ NoRepeats(spanQueue')
      BY <1>0, <2>2, <2>3, AppendAmong
    <3>2. QED
      BY <1>0, <2>1, <2>2, <2>3, <3>1 DEF PlacesInv
  <2>4. CASE dropped' = dropped \cup {s} /\ UNCHANGED spanQueue
    <3>1. IsFiniteSet(dropped')
      BY <1>0, <2>4, FS_AddElement
    <3>2. QED
      BY <1>0, <2>1, <2>2, <2>4, <3>1 DEF PlacesInv
  <2>5. QED
    BY <1>4, <2>3, <2>4 DEF EndSpan
<1>5. ASSUME spanQueue # <<>>, spanBatch' = Append(spanBatch, Head(spanQueue)), spanQueue' = Tail(spanQueue),
             UNCHANGED <<exported, dropped, span>>
      PROVE  PlacesInv'
  <2>1. /\ Head(spanQueue) \in Spans /\ NoRepeats(spanQueue') /\ Head(spanQueue) \notin Among(spanQueue')
        /\ Among(spanQueue) = Among(spanQueue') \cup {Head(spanQueue)}
    BY <1>0, <1>5, TailAmong
  <2>2. Among(spanBatch') = Among(spanBatch) \cup {Head(spanQueue)} /\ NoRepeats(spanBatch')
    BY <1>0, <1>5, <2>1, AppendAmong
  <2>3. Ended' = Ended
    BY <1>5 DEF Ended
  <2>4. QED
    BY <1>0, <1>5, <2>1, <2>2, <2>3 DEF PlacesInv
<1>6. CASE TakeSpan
  BY <1>5, <1>6 DEF TakeSpan, runnerRest
<1>7. CASE Drain
  <2>1. CASE spanQueue = <<>>
    <3>1. UNCHANGED <<span, spanQueue, spanBatch, exported, dropped>>
      BY <1>7, <2>1 DEF Drain, runnerRest
    <3>2. QED
      BY <1>1, <3>1 DEF Ended
  <2>2. CASE spanQueue # <<>>
    BY <1>5, <1>7, <2>2 DEF Drain, runnerRest
  <2>3. QED
    BY <2>1, <2>2
<1>8. CASE Export \/ ExportFails
  <2>1. /\ spanBatch' = <<>> /\ UNCHANGED <<span, spanQueue>>
        /\ \/ exported' = exported \cup Among(spanBatch) /\ UNCHANGED dropped
           \/ dropped' = dropped \cup Among(spanBatch) /\ UNCHANGED exported
    BY <1>8 DEF Export, ExportFails, Emptied, Among
  <2>2. IsFiniteSet(exported') /\ IsFiniteSet(dropped')
    <3>1. IsFiniteSet(Among(spanBatch))
      BY <1>0, CountAmong
    <3>2. IsFiniteSet(exported \cup Among(spanBatch)) /\ IsFiniteSet(dropped \cup Among(spanBatch))
      BY <1>0, <3>1, FS_Union
    <3>3. QED
      BY <1>0, <2>1, <3>2
  <2>3. Ended' = Ended
    BY <2>1 DEF Ended
  <2>4. Among(spanBatch') = {} /\ NoRepeats(spanBatch')
    BY <2>1, EmptyAmong
  <2>5. QED
    BY <1>0, <2>1, <2>2, <2>3, <2>4 DEF PlacesInv
<1>9. QED
  BY <1>2, <1>3, <1>4, <1>6, <1>7, <1>8 DEF SpanNext

LEMMA DrainStep ==
    ASSUME SpanTypeOK, DrainInv, SpanNext
    PROVE  DrainInv'
<1> USE DEF DrainInv, runnerRest, stopRest
<1>1. CASE StartTelemetry \/ StartRefused
  BY <1>1 DEF StartTelemetry, StartRefused
<1>2. ASSUME NEW s \in Spans, OpenSpan(s) PROVE DrainInv'
  BY <1>2 DEF OpenSpan
<1>3. ASSUME NEW s \in Spans, EndSpan(s) PROVE DrainInv'
  <2>1. telemetry = "started" /\ finalizer = "none" /\ span[s] = "open"
    BY <1>3 DEF EndSpan
  <2>2. UNCHANGED <<telemetry, spanBatch, runner, purpose, stopClosed, finalizer, flushed>>
    BY <1>3 DEF EndSpan
  <2>3. QED
    BY <2>1, <2>2
<1>4. CASE TakeSpan
  BY <1>4 DEF TakeSpan
<1>5. CASE Tick \/ TakeFlush \/ TakeStop \/ Drain \/ ExporterCloses
  BY <1>5 DEF Tick, TakeFlush, TakeStop, Drain, ExporterCloses
<1>6. CASE Export \/ ExportFails
  <2>1. Emptied
    BY <1>6 DEF Export, ExportFails
  <2>2. QED
    BY <2>1 DEF Emptied, SpanTypeOK
<1>7. CASE BeginTelemetryStop \/ FlushReturns \/ Shutdown \/ FlushGivesUp
  BY <1>7 DEF BeginTelemetryStop, FlushReturns, Shutdown, FlushGivesUp, SpanTypeOK
<1>8. CASE ShutdownReturns \/ ShutdownGivesUp
  BY <1>8 DEF ShutdownReturns, ShutdownGivesUp
<1>9. QED
  BY <1>1, <1>2, <1>3, <1>4, <1>5, <1>6, <1>7, <1>8 DEF SpanNext

LEMMA SpanInvInitially == SpanInit => SpanInv
<1> SUFFICES ASSUME SpanInit PROVE SpanInv
  OBVIOUS
<1>1. SpanTypeOK
  <2>1. <<>> \in Seq(Spans) /\ Len(<<>>) <= QueueSize
    BY SizesAssumption
  <2>2. QED
    BY <2>1 DEF SpanInit, SpanTypeOK
<1>2. PlacesInv
  <2>1. Ended = {} /\ spanQueue = <<>> /\ spanBatch = <<>> /\ exported = {} /\ dropped = {}
    BY DEF SpanInit, Ended
  <2>2. IsFiniteSet({})
    BY FS_EmptySet
  <2>3. QED
    BY <2>1, <2>2, EmptyAmong DEF PlacesInv
<1>3. DrainInv
  BY DEF SpanInit, DrainInv
<1>4. QED
  BY <1>1, <1>2, <1>3 DEF SpanInv

LEMMA SpanInvStep ==
    ASSUME SpanInv, [SpanNext]_spanVars
    PROVE  SpanInv'
<1>1. CASE SpanNext
  BY <1>1, SpanTypeStep, PlacesStep, DrainStep DEF SpanInv
<1>2. CASE UNCHANGED spanVars
  BY <1>2 DEF spanVars, SpanInv, SpanTypeOK, PlacesInv, DrainInv, Ended
<1>3. QED
  BY <1>1, <1>2

LEMMA SpanInvIsEnough == SpanInv => SpansAreSettled
<1> SUFFICES ASSUME SpanInv PROVE SpansAreSettled
  OBVIOUS
<1>1. SpanTypeOK /\ PlacesInv /\ DrainInv /\ spanQueue \in Seq(Spans) /\ spanBatch \in Seq(Spans)
  BY DEF SpanInv, SpanTypeOK
<1>2. /\ IsFiniteSet(Among(spanQueue)) /\ Cardinality(Among(spanQueue)) = Len(spanQueue)
      /\ IsFiniteSet(Among(spanBatch)) /\ Cardinality(Among(spanBatch)) = Len(spanBatch)
      /\ IsFiniteSet(exported) /\ IsFiniteSet(dropped)
  BY <1>1, CountAmong DEF PlacesInv
\* The cardinality of a union of two sets without a common element.
<1>3. ASSUME NEW A, NEW B, IsFiniteSet(A), IsFiniteSet(B), A \cap B = {}
      PROVE  IsFiniteSet(A \cup B) /\ Cardinality(A \cup B) = Cardinality(A) + Cardinality(B)
  <2>1. Cardinality(A) \in Nat /\ Cardinality(B) \in Nat
    BY <1>3, FS_CardinalityType
  <2>2. /\ IsFiniteSet(A \cup B)
        /\ Cardinality(A \cup B) = Cardinality(A) + Cardinality(B) - Cardinality(A \cap B)
    BY <1>3, FS_Union
  <2>3. Cardinality(A \cap B) = 0
    BY <1>3, FS_EmptySet
  <2>4. QED
    BY <2>1, <2>2, <2>3
<1>4. Len(spanQueue) + Len(spanBatch) + Cardinality(exported) + Cardinality(dropped) = Cardinality(Ended)
  <2>1. /\ IsFiniteSet(Among(spanQueue) \cup Among(spanBatch))
        /\ Cardinality(Among(spanQueue) \cup Among(spanBatch)) = Len(spanQueue) + Len(spanBatch)
    BY <1>1, <1>2, <1>3 DEF PlacesInv
  <2>2. /\ IsFiniteSet(exported \cup dropped)
        /\ Cardinality(exported \cup dropped) = Cardinality(exported) + Cardinality(dropped)
    BY <1>1, <1>2, <1>3 DEF PlacesInv
  <2>3. Cardinality((Among(spanQueue) \cup Among(spanBatch)) \cup (exported \cup dropped)) =
            (Len(spanQueue) + Len(spanBatch)) + (Cardinality(exported) + Cardinality(dropped))
    BY <1>1, <1>3, <2>1, <2>2 DEF PlacesInv
  <2>4. (Among(spanQueue) \cup Among(spanBatch)) \cup (exported \cup dropped) = Ended
    BY <1>1 DEF PlacesInv
  <2>5. /\ Len(spanQueue) \in Nat /\ Len(spanBatch) \in Nat
        /\ Cardinality(exported) \in Nat /\ Cardinality(dropped) \in Nat
    BY <1>1, <1>2, FS_CardinalityType
  <2>6. Cardinality(Ended) =
            (Len(spanQueue) + Len(spanBatch)) + (Cardinality(exported) + Cardinality(dropped))
    BY <2>3, <2>4
  <2>7. QED
    BY <2>5, <2>6
<1>5. flushed \/ runner = "done" => exported \cup dropped = Ended
  BY <1>1, EmptyAmong DEF DrainInv, PlacesInv
<1>6. finalizer = "over" => runner = "done" /\ flushed
  BY <1>1 DEF DrainInv
<1>7. QED
  BY <1>1, <1>4, <1>5, <1>6 DEF SpansAreSettled, PlacesInv

\* observability/telemetry.go: every span that ended waits in one place or was
\* exported or counted as dropped, and only once, however the exports go; a
\* flush that was answered, and a goroutine that is done, have left none; for
\* any number of spans and any size of the queue and of a batch.
THEOREM SpansAreSettledHolds == SpanSpec => []SpansAreSettled
<1>1. SpanInit => SpanInv
  BY SpanInvInitially
<1>2. SpanInv /\ [SpanNext]_spanVars => SpanInv'
  BY SpanInvStep
<1>3. SpanInv => SpansAreSettled
  BY SpanInvIsEnough
<1>4. QED
  BY <1>1, <1>2, <1>3, PTL DEF SpanSpec

-----------------------------------------------------------------------------
(* The plan: what has been declared, and what builders are given.          *)

BindingRecords == [plan : Plans \cup {NoPlan}, index : Nat, token : {"nil", NewToken}]
ComponentRecords ==
    [id : Ids, policy : Policies \cup {"swap"}, closes : BOOLEAN, inputs : SUBSET BindingRecords, target : BindingRecords]
OutputRecords == [id : Ids, token : {NewToken}]

ShapesInv ==
    /\ planFrozen \in [Plans -> BOOLEAN]
    /\ outputs \in [Plans -> Seq(OutputRecords)]
    /\ replaced \in [Plans -> SUBSET {NewToken}]
    /\ components \in [Plans -> Seq(ComponentRecords)]
    /\ DOMAIN bindings \subseteq BindingRecords
    /\ installed \in Plans \cup {NoPlan}
    /\ builders \in Seq(SUBSET (BindingRecords \X Ids))
    /\ refusal \in [by : Ids \cup {NoId}, why : {"none", "already replaced", "build"}, inputs : SUBSET BindingRecords]

OfPlan(p) == {b \in DOMAIN bindings : b.plan = p}

\* A binding points at the output it was returned for, and every output has
\* one, so there are no more outputs than bindings.
BindingsInv ==
    /\ \A b \in DOMAIN bindings :
        /\ b.plan \in Plans /\ b.token = NewToken
        /\ b.index \in DOMAIN outputs[b.plan] /\ bindings[b] = outputs[b.plan][b.index].id
    /\ IsFiniteSet(DOMAIN bindings) /\ Cardinality(DOMAIN bindings) <= MaxOutputs
    /\ \A p \in Plans : Len(outputs[p]) <= Cardinality(OfPlan(p))

\* What a component is given when it is built.
Given(c) == c.inputs \cup ({c.target} \ {ZeroBinding})

\* Whatever a component depends on had been declared before it.
OrderInv ==
    \A p \in Plans : \A i \in DOMAIN components[p] : \A b \in Given(components[p][i]) :
        /\ b \in DOMAIN bindings /\ b.plan = p
        /\ \A j \in DOMAIN components[p] : components[p][j].id = bindings[b] => j < i

\* What has been built is the beginning of a plan that no longer changes; a
\* builder that failed has asked for what its view does not resolve.
BuildersInv ==
    /\ builders # <<>> \/ refusal.why = "build" => installed \in Plans
    /\ installed \in Plans =>
        /\ planFrozen[installed] /\ Len(builders) <= Len(components[installed])
        /\ \A i \in DOMAIN builders :
            builders[i] = {<<b, outputs[installed][b.index].id>> : b \in Given(components[installed][i])}
    /\ refusal.why = "build" =>
        /\ Len(builders) < Len(components[installed])
        /\ \E asked \in DOMAIN bindings : refusal.inputs = {asked} /\ ~Resolves(NextComponent, asked)

DeclaredInv == ShapesInv /\ BindingsInv /\ OrderInv /\ BuildersInv

\* A sequence that one thing is appended to.
LEMMA Appended ==
    ASSUME NEW S, NEW s \in Seq(S), NEW x \in S
    PROVE  /\ Append(s, x) \in Seq(S) /\ Len(Append(s, x)) = Len(s) + 1
           /\ DOMAIN s = 1..Len(s) /\ DOMAIN Append(s, x) = 1..(Len(s) + 1) /\ Len(s) \in Nat
           /\ \A i \in DOMAIN s : Append(s, x)[i] = s[i]
           /\ Append(s, x)[Len(s) + 1] = x
OBVIOUS

\* There are as many bindings as outputs at least, which bounds the index.
LEMMA IndexBound ==
    ASSUME BindingsInv, NEW p \in Plans, Len(outputs[p]) \in Nat
    PROVE  Len(outputs[p]) <= MaxOutputs
<1>1. OfPlan(p) \in SUBSET (DOMAIN bindings) /\ IsFiniteSet(DOMAIN bindings)
  BY DEF OfPlan, BindingsInv
<1>2. Cardinality(OfPlan(p)) <= Cardinality(DOMAIN bindings) /\ IsFiniteSet(OfPlan(p))
  BY <1>1, FS_Subset
<1>3. Cardinality(OfPlan(p)) \in Nat /\ Cardinality(DOMAIN bindings) \in Nat
  BY <1>1, <1>2, FS_CardinalityType
<1>4. Len(outputs[p]) <= Cardinality(OfPlan(p)) /\ Cardinality(DOMAIN bindings) <= MaxOutputs
  BY DEF BindingsInv
<1>5. MaxOutputs \in Nat
  BY DeclarationAssumption
<1>6. QED
  BY <1>2, <1>3, <1>4, <1>5

\* A binding that a plan accepts as its own.
LEMMA RegisteredFacts ==
    ASSUME ShapesInv, BindingsInv, NEW p \in Plans, NEW b \in DOMAIN bindings, b.plan = p
    PROVE  /\ b \in BindingRecords /\ b # ZeroBinding
           /\ b.index \in DOMAIN outputs[p] /\ bindings[b] = outputs[p][b.index].id /\ bindings[b] \in Ids
           /\ bindings[b] \in Taken(p)
<1>1. b.index \in DOMAIN outputs[p] /\ bindings[b] = outputs[p][b.index].id /\ b.token = NewToken
  BY DEF BindingsInv
<1>2. outputs[p] \in Seq(OutputRecords) /\ b \in BindingRecords
  BY DEF ShapesInv
<1>3. outputs[p][b.index] \in OutputRecords
  BY <1>1, <1>2
<1>4. b # ZeroBinding
  BY <1>1 DEF ZeroBinding, NewToken
<1>5. QED
  BY <1>1, <1>2, <1>3, <1>4 DEF OutputRecords, Taken

LEMMA DeclaredInvInitially == PlanInit => DeclaredInv
<1> SUFFICES ASSUME PlanInit PROVE DeclaredInv
  OBVIOUS
<1>1. DOMAIN bindings = {}
  BY DEF PlanInit
<1>2. ShapesInv
  <2>1. <<>> \in Seq(OutputRecords) /\ <<>> \in Seq(ComponentRecords) /\ <<>> \in Seq(SUBSET (BindingRecords \X Ids))
    OBVIOUS
  <2>2. refusal \in [by : Ids \cup {NoId}, why : {"none", "already replaced", "build"}, inputs : SUBSET BindingRecords]
    BY DEF PlanInit, NoRefusal
  <2>3. QED
    BY <1>1, <2>1, <2>2 DEF PlanInit, ShapesInv
<1>3. BindingsInv
  <2>1. \A p \in Plans : Len(outputs[p]) = 0 /\ OfPlan(p) = {}
    BY <1>1 DEF PlanInit, OfPlan
  <2>2. IsFiniteSet({}) /\ Cardinality({}) = 0
    BY FS_EmptySet
  <2>3. Cardinality(DOMAIN bindings) <= MaxOutputs /\ IsFiniteSet(DOMAIN bindings)
    <3>1. MaxOutputs \in Nat
      BY DeclarationAssumption
    <3>2. QED
      BY <1>1, <2>2, <3>1
  <2>4. ASSUME NEW p \in Plans PROVE Len(outputs[p]) <= Cardinality(OfPlan(p))
    <3>1. Cardinality(OfPlan(p)) = 0
      BY <2>1, <2>2, Zenon
    <3>2. Len(outputs[p]) = 0
      BY <2>1
    <3>3. QED
      BY <3>1, <3>2
  <2>5. QED
    BY <1>1, <2>3, <2>4 DEF BindingsInv
<1>4. OrderInv
  BY DEF PlanInit, OrderInv
<1>5. BuildersInv
  BY DeclarationAssumption DEF PlanInit, BuildersInv, NoRefusal, NoPlan
<1>6. QED
  BY <1>2, <1>3, <1>4, <1>5 DEF DeclaredInv

\* A plan that goes on is one that is not frozen, so not the one installed:
\* what has been built, and what a builder has asked for, stays right.
LEMMA BuildersStay ==
    ASSUME ShapesInv, BindingsInv, BuildersInv, NEW p \in Plans, ~planFrozen[p], UNCHANGED <<planFrozen, installed, builders>>,
           \A q \in Plans \ {p} : outputs'[q] = outputs[q] /\ components'[q] = components[q],
           DOMAIN bindings \subseteq DOMAIN bindings', refusal'.why # "build" \/ refusal' = refusal
    PROVE  BuildersInv'
<1>1. installed \in Plans => installed # p /\ installed \in Plans \ {p}
  BY DEF BuildersInv
<1>2. ASSUME installed \in Plans
      PROVE  outputs'[installed] = outputs[installed] /\ components'[installed] = components[installed]
  BY <1>1, <1>2
<1>3. refusal'.why = "build" => refusal' = refusal /\ refusal.why = "build"
  OBVIOUS
<1>4. (builders' # <<>> \/ refusal'.why = "build") => installed' \in Plans
  BY <1>3 DEF BuildersInv
<1>5. ASSUME installed' \in Plans
      PROVE  /\ planFrozen'[installed'] /\ Len(builders') <= Len(components'[installed'])
             /\ \A i \in DOMAIN builders' :
                 builders'[i] = {<<b, outputs'[installed'][b.index].id>> : b \in Given(components'[installed'][i])}
  BY <1>2, <1>5 DEF BuildersInv
<1>6. ASSUME refusal'.why = "build"
      PROVE  /\ Len(builders') < Len(components'[installed'])
             /\ \E asked \in DOMAIN bindings' : refusal'.inputs = {asked} /\ ~Resolves(NextComponent, asked)'
  <2>1. installed \in Plans /\ Len(builders) < Len(components[installed])
    BY <1>3, <1>6 DEF BuildersInv
  <2>2. PICK asked \in DOMAIN bindings : refusal.inputs = {asked} /\ ~Resolves(NextComponent, asked)
    BY <1>3, <1>6 DEF BuildersInv
  <2>3. ~Resolves(NextComponent, asked)'
    BY <1>2, <2>1, <2>2 DEF Resolves, NextComponent
  <2>4. QED
    BY <1>2, <1>3, <1>6, <2>1, <2>2, <2>3
<1>7. QED
  BY <1>4, <1>5, <1>6 DEF BuildersInv

\* What a component is given, when it is declared to depend on what is there.
LEMMA NewComponentIsLast ==
    ASSUME ShapesInv, BindingsInv, OrderInv, NEW p \in Plans, NEW c \in ComponentRecords, c.id \notin Taken(p),
           components' = [components EXCEPT ![p] = Append(@, c)],
           \A b \in Given(c) : b \in DOMAIN bindings /\ b.plan = p,
           \A b \in DOMAIN bindings : b \in DOMAIN bindings' /\ bindings'[b] = bindings[b]
    PROVE  components' \in [Plans -> Seq(ComponentRecords)] /\ OrderInv'
<1>1. components \in [Plans -> Seq(ComponentRecords)]
  BY DEF ShapesInv
<1>2. /\ components'[p] = Append(components[p], c) /\ \A q \in Plans \ {p} : components'[q] = components[q]
  BY <1>1
<1>3. /\ Append(components[p], c) \in Seq(ComponentRecords)
      /\ DOMAIN components[p] = 1..Len(components[p]) /\ DOMAIN Append(components[p], c) = 1..(Len(components[p]) + 1)
      /\ Len(components[p]) \in Nat
      /\ \A i \in DOMAIN components[p] : Append(components[p], c)[i] = components[p][i]
      /\ Append(components[p], c)[Len(components[p]) + 1] = c
  BY <1>1, Appended
<1>4. components' \in [Plans -> Seq(ComponentRecords)]
  BY <1>1, <1>3
<1>5. ASSUME NEW q \in Plans, NEW i \in DOMAIN components'[q], NEW b \in Given(components'[q][i])
      PROVE  /\ b \in DOMAIN bindings' /\ b.plan = q
             /\ \A j \in DOMAIN components'[q] : components'[q][j].id = bindings'[b] => j < i
  <2>1. CASE q # p
    BY <1>2, <1>5, <2>1 DEF OrderInv
  <2>2. CASE q = p /\ i \in DOMAIN components[p]
    <3>1. b \in Given(components[p][i])
      BY <1>2, <1>3, <1>5, <2>2
    <3>2. /\ b \in DOMAIN bindings /\ b.plan = p
          /\ \A j \in DOMAIN components[p] : components[p][j].id = bindings[b] => j < i
      BY <2>2, <3>1 DEF OrderInv
    <3>3. c.id # bindings[b]
      BY <3>2, RegisteredFacts
    <3>4. ASSUME NEW j \in DOMAIN components'[q], components'[q][j].id = bindings'[b] PROVE j < i
      <4>1. bindings'[b] = bindings[b]
        BY <3>2
      <4>2. j \in DOMAIN components[p]
        BY <1>2, <1>3, <2>2, <3>3, <3>4, <4>1
      <4>3. QED
        BY <1>2, <1>3, <2>2, <3>2, <3>4, <4>1, <4>2
    <3>5. QED
      BY <2>2, <3>2, <3>4
  <2>3. CASE q = p /\ i = Len(components[p]) + 1
    <3>1. b \in DOMAIN bindings /\ b.plan = p
      BY <1>2, <1>3, <1>5, <2>3
    <3>2. c.id # bindings[b]
      BY <3>1, RegisteredFacts
    <3>3. ASSUME NEW j \in DOMAIN components'[q], components'[q][j].id = bindings'[b] PROVE j < i
      <4>1. j \in 1..(Len(components[p]) + 1) /\ j # Len(components[p]) + 1
        BY <1>2, <1>3, <2>3, <3>1, <3>2, <3>3
      <4>2. QED
        BY <1>3, <2>3, <4>1
    <3>4. QED
      BY <2>3, <3>1, <3>3
  <2>4. i \in DOMAIN components[p] \/ i = Len(components[p]) + 1 \/ q # p
    <3>1. CASE q = p
      <4>1. i \in 1..(Len(components[p]) + 1)
        BY <1>2, <1>3, <1>5, <3>1
      <4>2. QED
        BY <1>3, <4>1
    <3>2. QED
      BY <3>1
  <2>5. QED
    BY <2>1, <2>2, <2>3, <2>4
<1>6. QED
  BY <1>4, <1>5 DEF OrderInv

\* Add returns a binding for one more output, and a component for what is built.
LEMMA AddIsSound ==
    ASSUME DeclaredInv, NEW p \in Plans, NEW id \in Ids, NEW kind \in Kinds, NEW options \in Options,
           NEW inputs \in SUBSET DOMAIN bindings, Add(p, id, kind, inputs, options)
    PROVE  DeclaredInv'
<1> DEFINE output == [id |-> id, token |-> NewToken]
           new == [plan |-> p, index |-> Len(outputs[p]) + 1, token |-> NewToken]
<1>0. ShapesInv /\ BindingsInv /\ OrderInv /\ BuildersInv
  BY DEF DeclaredInv
<1>1. /\ outputs \in [Plans -> Seq(OutputRecords)] /\ output \in OutputRecords
      /\ components \in [Plans -> Seq(ComponentRecords)] /\ DOMAIN bindings \subseteq BindingRecords
  BY <1>0 DEF ShapesInv, OutputRecords
<1>2. /\ ~planFrozen[p] /\ id \notin Taken(p) /\ Cardinality(DOMAIN bindings) < MaxOutputs
      /\ refusal' = NoRefusal /\ UNCHANGED <<planFrozen, replaced, installed, builders>>
  BY DEF Add, Accepts
<1>3. /\ outputs'[p] = Append(outputs[p], output) /\ \A q \in Plans \ {p} : outputs'[q] = outputs[q]
      /\ outputs' \in [Plans -> Seq(OutputRecords)]
  <2>1. outputs' = [outputs EXCEPT ![p] = Append(outputs[p], output)] /\ Append(outputs[p], output) \in Seq(OutputRecords)
    BY <1>1 DEF Add
  <2>2. QED
    BY <1>1, <2>1
<1>4. /\ DOMAIN outputs[p] = 1..Len(outputs[p]) /\ DOMAIN outputs'[p] = 1..(Len(outputs[p]) + 1)
      /\ Len(outputs[p]) \in Nat /\ Len(outputs'[p]) = Len(outputs[p]) + 1
      /\ \A i \in DOMAIN outputs[p] : outputs'[p][i] = outputs[p][i]
      /\ outputs'[p][Len(outputs[p]) + 1] = output
  BY <1>1, <1>3, Appended
<1>5. bindings' = [x \in DOMAIN bindings \cup {new} |-> IF x = new THEN id ELSE bindings[x]]
  BY <1>4 DEF Add
<1>6. new \in BindingRecords /\ new \notin DOMAIN bindings
  <2>1. new \in BindingRecords
    BY <1>4 DEF BindingRecords
  <2>2. ASSUME new \in DOMAIN bindings PROVE FALSE
    <3>1. new.plan = p /\ new.index \in DOMAIN outputs[new.plan]
      BY <1>0, <2>2 DEF BindingsInv
    <3>2. Len(outputs[p]) + 1 \in 1..Len(outputs[p])
      BY <1>4, <3>1
    <3>3. QED
      BY <1>4, <3>2
  <2>3. QED
    BY <2>1, <2>2
<1> HIDE DEF new
<1>7. /\ DOMAIN bindings' = DOMAIN bindings \cup {new} /\ bindings'[new] = id
      /\ \A b \in DOMAIN bindings : b \in DOMAIN bindings' /\ bindings'[b] = bindings[b]
  BY <1>5, <1>6
<1>8. components' \in [Plans -> Seq(ComponentRecords)] /\ OrderInv' /\ \A q \in Plans \ {p} : components'[q] = components[q]
  <2>1. CASE kind = "value"
    <3>1. components' = components
      BY <2>1 DEF Add
    <3>2. OrderInv'
      BY <1>0, <1>7, <3>1 DEF OrderInv
    <3>3. QED
      BY <1>1, <3>1, <3>2
  <2>2. CASE kind # "value"
    <3> DEFINE c == Component(id, kind, options, inputs, ZeroBinding)
    <3>1. components' = [components EXCEPT ![p] = Append(@, c)]
      BY <2>2 DEF Add
    <3>2. c \in ComponentRecords /\ c.id = id /\ c.inputs = inputs /\ c.target = ZeroBinding
      <4>1. kind \in Policies
        BY <2>2 DEF Kinds
      <4>2. ZeroBinding \in BindingRecords
        BY DEF ZeroBinding, BindingRecords
      <4>3. (\E i \in DOMAIN options : options[i] = "finalizer") \in BOOLEAN
        OBVIOUS
      <4>4. QED
        BY <1>1, <4>1, <4>2, <4>3 DEF Component, ComponentRecords
    <3>3. \A b \in inputs : b.plan = p
      BY <2>2 DEF Add, Accepts, DependenciesHold
    <3>4. \A b \in Given(c) : b \in DOMAIN bindings /\ b.plan = p
      BY <3>2, <3>3 DEF Given
    <3> HIDE DEF c
    <3>5. components' \in [Plans -> Seq(ComponentRecords)] /\ OrderInv'
      BY <1>0, <1>2, <1>7, <3>1, <3>2, <3>4, NewComponentIsLast
    <3>6. QED
      BY <1>1, <3>1, <3>5
  <2>3. QED
    BY <2>1, <2>2
<1>9. ShapesInv'
  <2>1. refusal' \in [by : Ids \cup {NoId}, why : {"none", "already replaced", "build"}, inputs : SUBSET BindingRecords]
    BY <1>2 DEF NoRefusal
  <2>2. QED
    BY <1>0, <1>1, <1>2, <1>3, <1>6, <1>7, <1>8, <2>1 DEF ShapesInv
<1>10. BindingsInv'
  <2>1. ASSUME NEW b \in DOMAIN bindings'
        PROVE  /\ b.plan \in Plans /\ b.token = NewToken
               /\ b.index \in DOMAIN outputs'[b.plan] /\ bindings'[b] = outputs'[b.plan][b.index].id
    <3>1. CASE b = new
      <4>1. b.plan = p /\ b.token = NewToken /\ b.index = Len(outputs[p]) + 1
        BY <3>1 DEF new
      <4>2. QED
        BY <1>4, <1>7, <3>1, <4>1
    <3>2. CASE b # new
      <4>1. /\ b \in DOMAIN bindings /\ bindings'[b] = bindings[b]
            /\ b.plan \in Plans /\ b.token = NewToken
            /\ b.index \in DOMAIN outputs[b.plan] /\ bindings[b] = outputs[b.plan][b.index].id
        BY <1>0, <1>7, <3>2 DEF BindingsInv
      <4>2. CASE b.plan = p
        <5>1. b.index \in DOMAIN outputs'[p] /\ outputs'[p][b.index] = outputs[p][b.index]
          BY <1>4, <4>1, <4>2
        <5>2. QED
          BY <4>1, <4>2, <5>1
      <4>3. CASE b.plan # p
        BY <1>3, <4>1, <4>3
      <4>4. QED
        BY <4>2, <4>3
    <3>3. QED
      BY <3>1, <3>2
  <2>2. IsFiniteSet(DOMAIN bindings') /\ Cardinality(DOMAIN bindings') <= MaxOutputs
    <3>1. IsFiniteSet(DOMAIN bindings) /\ Cardinality(DOMAIN bindings) \in Nat
      BY <1>0, FS_CardinalityType DEF BindingsInv
    <3>2. /\ IsFiniteSet(DOMAIN bindings \cup {new})
          /\ Cardinality(DOMAIN bindings \cup {new}) = Cardinality(DOMAIN bindings) + 1
      BY <1>6, <3>1, FS_AddElement
    <3>3. MaxOutputs \in Nat
      BY DeclarationAssumption
    <3>4. QED
      BY <1>2, <1>7, <3>1, <3>2, <3>3
  <2>3. ASSUME NEW q \in Plans PROVE Len(outputs'[q]) <= Cardinality(OfPlan(q)')
    <3>0. Len(outputs[q]) <= Cardinality(OfPlan(q))
      BY <1>0 DEF BindingsInv
    <3>1. IsFiniteSet(OfPlan(q)) /\ Cardinality(OfPlan(q)) \in Nat
      <4>1. OfPlan(q) \in SUBSET (DOMAIN bindings) /\ IsFiniteSet(DOMAIN bindings)
        BY <1>0 DEF OfPlan, BindingsInv
      <4>2. IsFiniteSet(OfPlan(q))
        BY <4>1, FS_Subset
      <4>3. QED
        BY <4>2, FS_CardinalityType
    <3>2. CASE q = p
      <4>1. OfPlan(p)' = OfPlan(p) \cup {new} /\ new \notin OfPlan(p)
        BY <1>6, <1>7 DEF OfPlan, new
      <4>2. Cardinality(OfPlan(p) \cup {new}) = Cardinality(OfPlan(p)) + 1
        BY <3>1, <3>2, <4>1, FS_AddElement
      <4>3. Cardinality(OfPlan(p)') = Cardinality(OfPlan(p)) + 1
        BY <4>1, <4>2
      <4>4. QED
        BY <1>4, <3>0, <3>1, <3>2, <4>3
    <3>3. CASE q # p
      <4>1. OfPlan(q)' = OfPlan(q)
        BY <1>7, <3>3 DEF OfPlan, new
      <4>2. outputs'[q] = outputs[q]
        BY <1>3, <3>3
      <4>3. QED
        BY <3>0, <4>1, <4>2
    <3>4. QED
      BY <3>2, <3>3
  <2>4. QED
    BY <2>1, <2>2, <2>3 DEF BindingsInv
<1>11. BuildersInv'
  BY <1>0, <1>2, <1>3, <1>7, <1>8, BuildersStay DEF NoRefusal
<1>12. QED
  BY <1>8, <1>9, <1>10, <1>11 DEF DeclaredInv

\* Replace adds a component that is given its target.
LEMMA ReplaceIsSound ==
    ASSUME DeclaredInv, NEW p \in Plans, NEW id \in Ids, NEW options \in Options, NEW replacee \in DOMAIN bindings,
           Replace(p, id, options, replacee)
    PROVE  DeclaredInv'
<1> DEFINE c == Replacement(id, options, replacee)
<1>0. ShapesInv /\ BindingsInv /\ OrderInv /\ BuildersInv
  BY DEF DeclaredInv
<1>1. /\ ~planFrozen[p] /\ id \notin Taken(p) /\ replacee.plan = p /\ replacee.token = NewToken
      /\ components' = [components EXCEPT ![p] = Append(@, c)]
      /\ replaced' = [replaced EXCEPT ![p] = @ \cup {replacee.token}]
      /\ refusal' = NoRefusal /\ UNCHANGED <<planFrozen, outputs, bindings, installed, builders>>
  BY <1>0 DEF Replace, Replaceable, BindingsInv
<1>2. c \in ComponentRecords /\ c.id = id /\ c.inputs = {} /\ c.target = replacee
  <2>1. replacee \in BindingRecords
    BY <1>0 DEF ShapesInv
  <2>2. (\E i \in DOMAIN options : options[i] = "finalizer") \in BOOLEAN
    OBVIOUS
  <2>3. QED
    BY <2>1, <2>2 DEF Replacement, Component, ComponentRecords
<1>3. \A b \in Given(c) : b \in DOMAIN bindings /\ b.plan = p
  BY <1>1, <1>2 DEF Given
<1> HIDE DEF c
<1>4. components' \in [Plans -> Seq(ComponentRecords)] /\ OrderInv'
  BY <1>0, <1>1, <1>2, <1>3, NewComponentIsLast
<1>5. replaced' \in [Plans -> SUBSET {NewToken}]
  BY <1>0, <1>1 DEF ShapesInv
<1>6. ShapesInv'
  <2>1. refusal' \in [by : Ids \cup {NoId}, why : {"none", "already replaced", "build"}, inputs : SUBSET BindingRecords]
    BY <1>1 DEF NoRefusal
  <2>2. QED
    BY <1>0, <1>1, <1>4, <1>5, <2>1 DEF ShapesInv
<1>7. BindingsInv'
  BY <1>0, <1>1 DEF BindingsInv, OfPlan
<1>8. BuildersInv'
  <2>1. \A q \in Plans \ {p} : components'[q] = components[q]
    BY <1>0, <1>1 DEF ShapesInv
  <2>2. QED
    BY <1>0, <1>1, <2>1, BuildersStay DEF NoRefusal
<1>9. QED
  BY <1>4, <1>6, <1>7, <1>8 DEF DeclaredInv

\* The calls that leave the outputs and the components of all plans as they are.
LEMMA DeclarationStays ==
    ASSUME DeclaredInv, UNCHANGED <<outputs, replaced, components, bindings>>,
           planFrozen' \in [Plans -> BOOLEAN], installed' \in Plans \cup {NoPlan},
           builders' \in Seq(SUBSET (BindingRecords \X Ids)),
           refusal' \in [by : Ids \cup {NoId}, why : {"none", "already replaced", "build"}, inputs : SUBSET BindingRecords],
           BuildersInv'
    PROVE  DeclaredInv'
<1>1. ShapesInv'
  BY DEF DeclaredInv, ShapesInv
<1>2. BindingsInv'
  BY DEF DeclaredInv, BindingsInv, OfPlan
<1>3. OrderInv'
  BY DEF DeclaredInv, OrderInv
<1>4. QED
  BY <1>1, <1>2, <1>3 DEF DeclaredInv

LEMMA ReplaceRefusedIsSound ==
    ASSUME DeclaredInv, NEW p \in Plans, NEW id \in Ids, NEW options \in Options, NEW replacee \in DOMAIN bindings,
           ReplaceRefused(p, id, options, replacee)
    PROVE  DeclaredInv'
<1>0. ShapesInv /\ BindingsInv /\ BuildersInv
  BY DEF DeclaredInv
<1>1. /\ ~planFrozen[p] /\ refusal' = [by |-> id, why |-> "already replaced", inputs |-> {replacee}]
      /\ UNCHANGED <<planFrozen, outputs, replaced, components, bindings, installed, builders>>
  BY DEF ReplaceRefused, Replaceable, Refuse
<1>2. refusal' \in [by : Ids \cup {NoId}, why : {"none", "already replaced", "build"}, inputs : SUBSET BindingRecords]
  BY <1>0, <1>1 DEF ShapesInv
<1>3. BuildersInv'
  BY <1>0, <1>1, BuildersStay
<1>4. QED
  BY <1>0, <1>1, <1>2, <1>3, DeclarationStays DEF ShapesInv

LEMMA FreezeIsSound ==
    ASSUME DeclaredInv, NEW p \in Plans, Freeze(p)
    PROVE  DeclaredInv'
<1>0. ShapesInv /\ BuildersInv
  BY DEF DeclaredInv
<1>1. /\ planFrozen' \in [Plans -> BOOLEAN] /\ \A q \in Plans : planFrozen[q] => planFrozen'[q]
      /\ UNCHANGED <<outputs, replaced, components, bindings, installed, builders, refusal>>
  BY <1>0 DEF Freeze, ShapesInv
<1>2. BuildersInv'
  BY <1>0, <1>1 DEF BuildersInv, Resolves, NextComponent
<1>3. QED
  BY <1>0, <1>1, <1>2, DeclarationStays DEF ShapesInv

LEMMA InstallIsSound ==
    ASSUME DeclaredInv, NEW p \in Plans, Install(p)
    PROVE  DeclaredInv'
<1>0. ShapesInv /\ BuildersInv
  BY DEF DeclaredInv
<1>1. /\ planFrozen[p] /\ installed' = p
      /\ UNCHANGED <<planFrozen, outputs, replaced, components, bindings, builders, refusal>>
  BY DEF Install
<1>2. builders = <<>> /\ refusal.why # "build"
  BY <1>0, DeclarationAssumption DEF Install, BuildersInv, NoPlan
<1>3. Len(builders) <= Len(components[p])
  <2>1. components[p] \in Seq(ComponentRecords)
    BY <1>0 DEF ShapesInv
  <2>2. Len(components[p]) \in Nat /\ Len(builders) = 0
    BY <1>2, <2>1
  <2>3. QED
    BY <2>2
<1>4. BuildersInv'
  BY <1>1, <1>2, <1>3 DEF BuildersInv
<1>5. QED
  BY <1>0, <1>1, <1>4, DeclarationStays DEF ShapesInv

LEMMA BuildComponentIsSound ==
    ASSUME DeclaredInv, BuildComponent
    PROVE  DeclaredInv'
<1>0. ShapesInv /\ BindingsInv /\ OrderInv /\ BuildersInv
  BY DEF DeclaredInv
<1> DEFINE c == NextComponent
           seen == c.inputs \cup ({c.target} \ {ZeroBinding})
           given == {<<b, outputs[installed][b.index].id>> : b \in seen}
<1>1. /\ installed \in Plans /\ Len(builders) < Len(components[installed])
      /\ builders' = Append(builders, given) /\ refusal' = NoRefusal
      /\ UNCHANGED <<planFrozen, outputs, replaced, components, bindings, installed>>
  BY <1>0 DEF BuildComponent, ShapesInv
<1>2. components[installed] \in Seq(ComponentRecords) /\ builders \in Seq(SUBSET (BindingRecords \X Ids))
  BY <1>0, <1>1 DEF ShapesInv
<1>3. Len(builders) \in Nat /\ Len(components[installed]) \in Nat /\ Len(builders) + 1 \in DOMAIN components[installed]
  BY <1>1, <1>2
<1>4. c = components[installed][Len(builders) + 1] /\ seen = Given(components[installed][Len(builders) + 1])
  BY DEF NextComponent, Given
<1>5. given \in SUBSET (BindingRecords \X Ids)
  <2>1. ASSUME NEW b \in seen PROVE b \in BindingRecords /\ outputs[installed][b.index].id \in Ids
    <3>1. b \in DOMAIN bindings /\ b.plan = installed
      BY <1>0, <1>1, <1>3, <1>4, <2>1 DEF OrderInv
    <3>2. b \in BindingRecords /\ bindings[b] = outputs[installed][b.index].id /\ bindings[b] \in Ids
      BY <1>0, <1>1, <3>1, RegisteredFacts
    <3>3. QED
      BY <3>2
  <2>2. QED
    BY <2>1
<1>6. /\ builders' \in Seq(SUBSET (BindingRecords \X Ids)) /\ Len(builders') = Len(builders) + 1
      /\ DOMAIN builders = 1..Len(builders) /\ DOMAIN builders' = 1..(Len(builders) + 1)
      /\ \A i \in DOMAIN builders : builders'[i] = builders[i]
      /\ builders'[Len(builders) + 1] = given
  <2> HIDE DEF given
  <2>1. QED
    BY <1>1, <1>2, <1>5, Appended
<1>7. given = {<<b, outputs[installed][b.index].id>> : b \in Given(components[installed][Len(builders) + 1])}
  BY <1>4
<1> HIDE DEF given, seen, c
<1>8. BuildersInv'
  <2>1. Len(builders') <= Len(components'[installed'])
    BY <1>1, <1>3, <1>6
  <2>2. ASSUME NEW i \in DOMAIN builders'
        PROVE  builders'[i] = {<<b, outputs'[installed'][b.index].id>> : b \in Given(components'[installed'][i])}
    <3>1. CASE i = Len(builders) + 1
      BY <1>1, <1>6, <1>7, <3>1
    <3>2. CASE i # Len(builders) + 1
      <4>1. i \in DOMAIN builders
        BY <1>3, <1>6, <3>2
      <4>2. QED
        BY <1>0, <1>1, <1>6, <4>1 DEF BuildersInv
    <3>3. QED
      BY <3>1, <3>2
  <2>3. planFrozen'[installed'] /\ refusal'.why # "build"
    BY <1>0, <1>1 DEF BuildersInv, NoRefusal
  <2>4. QED
    BY <1>1, <2>1, <2>2, <2>3 DEF BuildersInv
<1>9. refusal' \in [by : Ids \cup {NoId}, why : {"none", "already replaced", "build"}, inputs : SUBSET BindingRecords]
  BY <1>1 DEF NoRefusal
<1>10. QED
  BY <1>0, <1>1, <1>6, <1>8, <1>9, DeclarationStays DEF ShapesInv

LEMMA BuilderFailsIsSound ==
    ASSUME DeclaredInv, NEW asked \in DOMAIN bindings, BuilderFails(asked)
    PROVE  DeclaredInv'
<1>0. ShapesInv /\ BuildersInv
  BY DEF DeclaredInv
<1>1. /\ installed \in Plans /\ Len(builders) < Len(components[installed]) /\ ~Resolves(NextComponent, asked)
      /\ refusal' = [by |-> NextComponent.id, why |-> "build", inputs |-> {asked}]
      /\ UNCHANGED <<planFrozen, outputs, replaced, components, bindings, installed, builders>>
  BY <1>0 DEF BuilderFails, Refuse, ShapesInv
<1>2. NextComponent.id \in Ids
  <2>1. components[installed] \in Seq(ComponentRecords) /\ builders \in Seq(SUBSET (BindingRecords \X Ids))
    BY <1>0, <1>1 DEF ShapesInv
  <2>2. NextComponent \in ComponentRecords
    BY <1>1, <2>1 DEF NextComponent
  <2>3. QED
    BY <2>2 DEF ComponentRecords
<1>3. refusal' \in [by : Ids \cup {NoId}, why : {"none", "already replaced", "build"}, inputs : SUBSET BindingRecords]
  BY <1>0, <1>1, <1>2 DEF ShapesInv
<1>4. BuildersInv'
  <2>1. ~Resolves(NextComponent, asked)'
    BY <1>1 DEF Resolves, NextComponent
  <2>2. refusal'.inputs = {asked}
    BY <1>1
  <2>3. QED
    BY <1>0, <1>1, <2>1, <2>2 DEF BuildersInv
<1>5. QED
  BY <1>0, <1>1, <1>3, <1>4, DeclarationStays DEF ShapesInv

LEMMA DeclaredInvStep == DeclaredInv /\ [PlanNext]_planVars => DeclaredInv'
<1> SUFFICES ASSUME DeclaredInv, [PlanNext]_planVars PROVE DeclaredInv'
  OBVIOUS
<1>1. CASE UNCHANGED planVars
  <2>1. ShapesInv /\ BuildersInv
    BY DEF DeclaredInv
  <2>2. BuildersInv'
    BY <1>1, <2>1 DEF planVars, BuildersInv, Resolves, NextComponent
  <2>3. QED
    BY <1>1, <2>1, <2>2, DeclarationStays DEF planVars, ShapesInv
<1>2. ASSUME NEW p \in Plans, NEW id \in Ids, NEW options \in Options, NEW replacee \in DOMAIN bindings,
             Replace(p, id, options, replacee)
      PROVE  DeclaredInv'
  BY <1>2, ReplaceIsSound
<1>3. ASSUME NEW p \in Plans, NEW id \in Ids, NEW options \in Options, NEW replacee \in DOMAIN bindings,
             ReplaceRefused(p, id, options, replacee)
      PROVE  DeclaredInv'
  BY <1>3, ReplaceRefusedIsSound
<1>4. ASSUME NEW p \in Plans, NEW id \in Ids, NEW kind \in Kinds, NEW options \in Options,
             NEW inputs \in SUBSET DOMAIN bindings, Add(p, id, kind, inputs, options)
      PROVE  DeclaredInv'
  BY <1>4, AddIsSound
<1>5. ASSUME NEW p \in Plans, Freeze(p) PROVE DeclaredInv'
  BY <1>5, FreezeIsSound
<1>6. ASSUME NEW p \in Plans, Install(p) PROVE DeclaredInv'
  BY <1>6, InstallIsSound
<1>7. CASE BuildComponent
  BY <1>7, BuildComponentIsSound
<1>8. ASSUME NEW asked \in DOMAIN bindings, BuilderFails(asked) PROVE DeclaredInv'
  BY <1>8, BuilderFailsIsSound
<1>9. QED
  BY <1>1, <1>2, <1>3, <1>4, <1>5, <1>6, <1>7, <1>8 DEF PlanNext

LEMMA DeclaredInvIsEnough == DeclaredInv => WiringIsSound
<1> SUFFICES ASSUME DeclaredInv PROVE WiringIsSound
  OBVIOUS
<1>0. ShapesInv /\ BindingsInv /\ OrderInv /\ BuildersInv
  BY DEF DeclaredInv
<1>1. PlanTypeOK
  <2>1. ASSUME NEW p \in Plans, NEW i \in DOMAIN components[p]
        PROVE  /\ components[p][i].id \in Ids /\ components[p][i].policy \in Policies \cup {"swap"}
               /\ components[p][i].closes \in BOOLEAN
    <3>1. components[p] \in Seq(ComponentRecords)
      BY <1>0 DEF ShapesInv
    <3>2. components[p][i] \in ComponentRecords
      BY <3>1
    <3>3. QED
      BY <3>2 DEF ComponentRecords
  <2>2. ASSUME NEW b \in DOMAIN bindings
        PROVE  b.plan \in Plans /\ b.index \in 1..MaxOutputs /\ bindings[b] \in Ids
    <3>1. b.plan \in Plans /\ b.index \in DOMAIN outputs[b.plan]
      BY <1>0 DEF BindingsInv
    <3>2. outputs[b.plan] \in Seq(OutputRecords)
      BY <1>0, <3>1 DEF ShapesInv
    <3>3. Len(outputs[b.plan]) \in Nat /\ b.index \in 1..Len(outputs[b.plan])
      BY <3>1, <3>2
    <3>4. Len(outputs[b.plan]) <= MaxOutputs
      BY <1>0, <3>1, <3>3, IndexBound
    <3>5. MaxOutputs \in Nat
      BY DeclarationAssumption
    <3>6. bindings[b] \in Ids
      BY <1>0, <3>1, RegisteredFacts
    <3>7. QED
      BY <3>1, <3>3, <3>4, <3>5, <3>6
  <2>3. \A p \in Plans : outputs[p] \in Seq([id : Ids, token : {NewToken}])
    BY <1>0 DEF ShapesInv, OutputRecords
  <2>4. refusal.by \in Ids \cup {NoId}
    BY <1>0 DEF ShapesInv
  <2>5. QED
    BY <1>0, <2>1, <2>2, <2>3, <2>4 DEF PlanTypeOK, ShapesInv
<1>2. ASSUME NEW i \in DOMAIN builders, NEW seen \in builders[i]
      PROVE  /\ seen[2] = bindings[seen[1]]
             /\ \A at \in Position(seen[2]) : at < i
  <2>1. installed \in Plans
    <3>1. builders # <<>>
      OBVIOUS
    <3>2. QED
      BY <1>0, <3>1 DEF BuildersInv
  <2>2. i \in DOMAIN components[installed]
    <3>1. components[installed] \in Seq(ComponentRecords) /\ builders \in Seq(SUBSET (BindingRecords \X Ids))
      BY <1>0, <2>1 DEF ShapesInv
    <3>2. Len(builders) <= Len(components[installed])
      BY <1>0, <2>1 DEF BuildersInv
    <3>3. QED
      BY <3>1, <3>2
  <2>3. PICK b \in Given(components[installed][i]) : seen = <<b, outputs[installed][b.index].id>>
    BY <1>0, <2>1 DEF BuildersInv
  <2>4. /\ b \in DOMAIN bindings /\ b.plan = installed
        /\ \A j \in DOMAIN components[installed] : components[installed][j].id = bindings[b] => j < i
    BY <1>0, <2>1, <2>2, <2>3 DEF OrderInv
  <2>5. seen[1] = b /\ seen[2] = bindings[b]
    BY <1>0, <2>3, <2>4 DEF BindingsInv
  <2>6. QED
    BY <2>4, <2>5 DEF Position
<1>3. ASSUME refusal.why = "build" PROVE ~(refusal.inputs \subseteq NextComponent.inputs)
  <2>1. installed \in Plans /\ Len(builders) < Len(components[installed])
    BY <1>0, <1>3 DEF BuildersInv
  <2>2. PICK asked \in DOMAIN bindings : refusal.inputs = {asked} /\ ~Resolves(NextComponent, asked)
    BY <1>0, <1>3 DEF BuildersInv
  <2>3. Len(builders) + 1 \in DOMAIN components[installed]
    <3>1. components[installed] \in Seq(ComponentRecords) /\ builders \in Seq(SUBSET (BindingRecords \X Ids))
      BY <1>0, <2>1 DEF ShapesInv
    <3>2. QED
      BY <2>1, <3>1
  <2>4. ASSUME asked \in NextComponent.inputs PROVE FALSE
    <3>1. asked \in Given(components[installed][Len(builders) + 1])
      BY <2>4 DEF Given, NextComponent
    <3>2. asked.plan = installed
      BY <1>0, <2>1, <2>3, <3>1 DEF OrderInv
    <3>3. asked.index \in DOMAIN outputs[installed]
      BY <1>0, <3>2 DEF BindingsInv
    <3>4. Resolves(NextComponent, asked)
      BY <2>4, <3>2, <3>3 DEF Resolves
    <3>5. QED
      BY <2>2, <3>4
  <2>5. QED
    BY <2>2, <2>4
<1>4. QED
  BY <1>1, <1>2, <1>3 DEF WiringIsSound

\* A builder that runs is given exactly the outputs its bindings were returned
\* for, all fixed or built before it, and what Add accepted never fails for its
\* inputs when the kernel builds it (app/plan.go Add, Replace; definition.go;
\* contracts.go Resolve; kernel.go build), for any plans and declarations.
THEOREM WiringIsSoundHolds == PlanSpec => []WiringIsSound
<1>1. PlanInit => DeclaredInv
  BY DeclaredInvInitially
<1>2. DeclaredInv /\ [PlanNext]_planVars => DeclaredInv'
  BY DeclaredInvStep
<1>3. DeclaredInv => WiringIsSound
  BY DeclaredInvIsEnough
<1>4. QED
  BY <1>1, <1>2, <1>3, PTL DEF PlanSpec
=============================================================================

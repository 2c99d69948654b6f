---------------------------- MODULE ListenerHub ----------------------------
(***************************************************************************)
(* ListenerHub (pkg/httpx/listener_hub.go): one physical listener and one  *)
(* accept goroutine per address; each HTTP generation serves a route, a    *)
(* virtual listener, and a commit hands new connections to the next route. *)
(* The hub is driven as internal/composition/generation.go drives it: one  *)
(* owner, serialised by the GenerationCoordinator, prepares, commits or    *)
(* aborts a candidate, retires the route it replaces and finally stops.    *)
(*                                                                         *)
(* Routes are numbered as generations are. An entry (a physical listener   *)
(* and its goroutine) bears the number of the route it was bound for. A    *)
(* step is one critical section, or one channel operation.                 *)
(***************************************************************************)
EXTENDS Naturals, FiniteSets, Sequences

CONSTANTS
    N,             \* bound: routes that are ever prepared
    Addresses,
    Connections,   \* connections that clients open
    Capacity       \* ListenerHub.capacity: the queue of a route

ASSUME HubAssumption ==
    N \in Nat \ {0} /\ Capacity \in Nat \ {0} /\ IsFiniteSet(Connections)

Routes == 1..N
None == 0          \* nil
OrNone == Routes \cup {None}

VARIABLES
    hubClosed, entries,   \* ListenerHub.closed, .entries
    entryOf,              \* PreparedRoute.entry
    physical,             \* listenerEntry.physical; accepting once activated
    active, retiring,     \* listenerEntry.active, .retiring
    acceptor, held, target, \* the goroutine of run, its connection and its route
    pending, queue,       \* generationListener.pending, .queue
    retired, closed, drained, \* .retiring, .closed with .closeSignal, .drained
    server                \* the http.Server of the route, in Serve

hubVars == <<hubClosed, entries, entryOf, physical, active, retiring>>
acceptorVars == <<acceptor, held, target>>
routeVars == <<pending, queue, retired, closed, drained>>

VARIABLES
    connection,           \* what became of each connection
    carrier,              \* the route that was given it
    newest, acceptedAfter \* history: the last route committed; that when it was accepted

connectionVars == <<connection, carrier, acceptedAfter>>

VARIABLES
    ownerPc,              \* the owner: what it is doing
    current, candidate,   \* generations: current; prepared, not yet committed
    task,                 \* the route that is being terminated
    toStop,               \* generations still to be terminated by Stop or ForceStop
    mode,                 \* abort, retire, stop or force
    debt,                 \* the replaced generation could not be retired
    gracefulTried,        \* Server.gracefulOnce
    failed                \* Stop has joined an error

ownerVars == <<ownerPc, current, candidate, task, toStop, mode, debt, gracefulTried, failed>>
vars == <<hubVars, acceptorVars, routeVars, server, connectionVars, newest, ownerVars>>

TypeOK ==
    /\ hubClosed \in BOOLEAN
    /\ entries \in [Addresses -> OrNone]
    /\ entryOf \in [Routes -> OrNone]
    /\ physical \in [Routes -> {"unbound", "bound", "accepting", "closed"}]
    /\ active \in [Routes -> OrNone] /\ retiring \in [Routes -> OrNone]
    /\ acceptor \in [Routes -> {"none", "waiting", "accepting", "routing",
                                "dispatching", "failed", "done"}]
    /\ held \in [Routes -> SUBSET Connections] /\ target \in [Routes -> OrNone]
    /\ pending \in [Routes -> 0..Cardinality(Connections)]
    /\ queue \in [Routes -> SUBSET Connections]
    /\ \A r \in Routes : Cardinality(queue[r]) <= Capacity
    /\ retired \in [Routes -> BOOLEAN] /\ closed \in [Routes -> BOOLEAN]
    /\ drained \in [Routes -> BOOLEAN]
    /\ server \in [Routes -> {"none", "accepting", "looked", "blocked", "exited"}]
    /\ connection \in [Connections -> {"new", "held", "queued", "serving", "ended", "refused"}]
    /\ carrier \in [Connections -> OrNone] /\ acceptedAfter \in [Connections -> OrNone]
    /\ newest \in OrNone
    /\ ownerPc \in {"idle", "prepared", "moving", "switching", "superseding",
                    "retiring", "draining", "shutting", "closing", "releasing",
                    "unbinding", "next", "hubStopping", "stopped"}
    /\ current \in OrNone /\ candidate \in OrNone /\ task \in OrNone
    /\ toStop \in Seq(Routes)
    /\ mode \in {"none", "abort", "retire", "stop", "force"}
    /\ debt \in OrNone
    /\ gracefulTried \in [Routes -> BOOLEAN]
    /\ failed \in BOOLEAN

-----------------------------------------------------------------------------
(* generationListener.                                                     *)

\* retire, with markDrainedIfNeeded.
Retire(r) ==
    /\ retired' = [retired EXCEPT ![r] = TRUE]
    /\ drained' = [drained EXCEPT ![r] = @ \/ pending[r] = 0]
    /\ UNCHANGED <<pending, queue, closed>>

\* completePending.
CompletePending(r) ==
    /\ pending' = [pending EXCEPT ![r] = IF @ > 0 THEN @ - 1 ELSE 0]
    /\ drained' = [drained EXCEPT ![r] = @ \/ (retired[r] /\ pending'[r] = 0)]

CanReserve(r) == r # None /\ ~closed[r] /\ ~retired[r]

-----------------------------------------------------------------------------
(* listenerEntry.run.                                                      *)

acceptorRest == <<hubVars, server, newest, ownerVars>>

Activated(e) ==
    /\ acceptor[e] = "waiting"
    /\ \/ physical[e] = "accepting" /\ acceptor' = [acceptor EXCEPT ![e] = "accepting"]
       \/ physical[e] = "closed" /\ acceptor' = [acceptor EXCEPT ![e] = "done"]
    /\ UNCHANGED <<acceptorRest, held, target, routeVars, connectionVars>>

Accept(e, c) ==
    /\ acceptor[e] = "accepting" /\ physical[e] = "accepting"
    /\ connection[c] = "new"
    /\ connection' = [connection EXCEPT ![c] = "held"]
    /\ acceptedAfter' = [acceptedAfter EXCEPT ![c] = newest]
    /\ held' = [held EXCEPT ![e] = {c}]
    /\ acceptor' = [acceptor EXCEPT ![e] = "routing"]
    /\ UNCHANGED <<acceptorRest, target, routeVars, carrier>>

\* Accept returns an error: the listener was closed, or another, which is
\* kept in entry.err and ends the goroutine with the listener still bound.
AcceptFails(e) ==
    /\ acceptor[e] = "accepting"
    /\ acceptor' = [acceptor EXCEPT ![e] =
                      IF physical[e] = "closed" THEN "done" ELSE "failed"]
    /\ UNCHANGED <<acceptorRest, held, target, routeVars, connectionVars>>

\* The route the goroutine picks under dispatchMu.
Target(e) == IF active[e] # None THEN active[e] ELSE retiring[e]

Reserve(e) ==
    /\ acceptor[e] = "routing"
    /\ CanReserve(Target(e))
    /\ pending' = [pending EXCEPT ![Target(e)] = @ + 1]
    /\ target' = [target EXCEPT ![e] = Target(e)]
    /\ acceptor' = [acceptor EXCEPT ![e] = "dispatching"]
    /\ UNCHANGED <<acceptorRest, held, queue, retired, closed, drained, connectionVars>>

Settle(e, outcome, route) ==
    /\ connection' = [c \in Connections |-> IF c \in held[e] THEN outcome ELSE connection[c]]
    /\ carrier' = [c \in Connections |-> IF c \in held[e] THEN route ELSE carrier[c]]
    /\ held' = [held EXCEPT ![e] = {}]
    /\ target' = [target EXCEPT ![e] = None]
    /\ acceptor' = [acceptor EXCEPT ![e] = "accepting"]
    /\ UNCHANGED acceptedAfter

NotReserved(e) ==
    /\ acceptor[e] = "routing"
    /\ ~CanReserve(Target(e))
    /\ Settle(e, "refused", None)
    /\ UNCHANGED <<acceptorRest, routeVars>>

\* dispatchReserved: either case of the select may be taken when both are ready.
Dispatch(e) ==
    /\ acceptor[e] = "dispatching"
    /\ Cardinality(queue[target[e]]) < Capacity
    /\ queue' = [queue EXCEPT ![target[e]] = @ \cup held[e]]
    /\ Settle(e, "queued", target[e])
    /\ UNCHANGED <<acceptorRest, pending, retired, closed, drained>>

DispatchClosed(e) ==
    /\ acceptor[e] = "dispatching"
    /\ closed[target[e]]
    /\ CompletePending(target[e])
    /\ Settle(e, "refused", None)
    /\ UNCHANGED <<acceptorRest, queue, retired, closed>>

AcceptorStep(e) ==
    \/ Activated(e) \/ AcceptFails(e)
    \/ Reserve(e) \/ NotReserved(e) \/ Dispatch(e) \/ DispatchClosed(e)

-----------------------------------------------------------------------------
(* The Serve loop of http.Server over generationListener.Accept.           *)

serverRest == <<hubVars, acceptorVars, newest, ownerVars>>

ServerTakes(r) ==
    /\ server[r] \in {"accepting", "blocked"}
    /\ \E c \in queue[r] :
          /\ queue' = [queue EXCEPT ![r] = @ \ {c}]
          /\ connection' = [connection EXCEPT ![c] = "serving"]
    /\ CompletePending(r)
    /\ server' = [server EXCEPT ![r] = "accepting"]
    /\ UNCHANGED <<serverRest, retired, closed, carrier, acceptedAfter>>

ServerWaits(r) ==
    /\ \/ server[r] = "accepting" /\ queue[r] = {} /\ server' = [server EXCEPT ![r] = "looked"]
       \/ server[r] = "looked" /\ server' = [server EXCEPT ![r] =
                                              IF closed[r] THEN "exited" ELSE "blocked"]
       \/ server[r] = "blocked" /\ closed[r] /\ server' = [server EXCEPT ![r] = "accepting"]
    /\ UNCHANGED <<serverRest, routeVars, connectionVars>>

ConnectionEnds(c) ==
    /\ connection[c] = "serving"
    /\ connection' = [connection EXCEPT ![c] = "ended"]
    /\ UNCHANGED <<hubVars, acceptorVars, routeVars, server, carrier, acceptedAfter, newest,
                   ownerVars>>

-----------------------------------------------------------------------------
(* The owner: Prepare of a candidate, Commit and Abort.                    *)

AddressOf(e) == {a \in Addresses : entries[a] = e}
Forget(e) == entries' = [a \in Addresses |-> IF entries[a] = e THEN None ELSE entries[a]]
ClosePhysical(e) == physical' = [physical EXCEPT ![e] = "closed"]

ownerRest == <<acceptorVars, connectionVars>>
Goto(pc) == ownerPc' = pc

NextRoute == Cardinality({r \in Routes : entryOf[r] # None}) + 1

\* Prepare, and the start of a server on the route. A failed start is final.
Prepare(a) ==
    LET r == NextRoute  e == entries[a]
    IN  /\ ownerPc = "idle" /\ debt = None
        /\ r \in Routes /\ (current # None \/ r = 1)
        /\ \/ /\ e = None
              /\ entries' = [entries EXCEPT ![a] = r]
              /\ entryOf' = [entryOf EXCEPT ![r] = r]
              /\ physical' = [physical EXCEPT ![r] = "bound"]
              /\ acceptor' = [acceptor EXCEPT ![r] = "waiting"]
           \/ /\ e # None /\ acceptor[e] # "failed"
              /\ ~(active[e] = None /\ retiring[e] # None)
              /\ entryOf' = [entryOf EXCEPT ![r] = e]
              /\ UNCHANGED <<entries, physical, acceptor>>
        /\ server' = [server EXCEPT ![r] = "accepting"]
        /\ candidate' = r
        /\ Goto("prepared")
        /\ UNCHANGED <<hubClosed, active, retiring, held, target, routeVars, connectionVars,
                       newest, current, task, toStop, mode, debt, gracefulTried, failed>>

\* Commit at another address: retirePhysical of the previous entry, then
\* retire of its route.
CommitElsewhere ==
    LET e == entryOf[current]
    IN  /\ ownerPc = "prepared"
        /\ current # None /\ e # entryOf[candidate]
        /\ active' = [active EXCEPT ![e] = None]
        /\ retiring' = [retiring EXCEPT ![e] = current]
        /\ ClosePhysical(e)
        /\ Goto("moving")
        /\ UNCHANGED <<ownerRest, hubClosed, entries, entryOf, routeVars, server, newest,
                       current, candidate, task, toStop, mode, debt, gracefulTried, failed>>

RetireMoved ==
    /\ ownerPc = "moving"
    /\ Retire(current)
    /\ Goto("switching")
    /\ UNCHANGED <<ownerRest, hubVars, server, newest, current, candidate, task, toStop,
                   mode, debt, gracefulTried, failed>>

\* The switch under dispatchMu, then startAccepting.
Commit ==
    LET e == entryOf[candidate]
    IN  /\ \/ ownerPc = "switching"
           \/ ownerPc = "prepared" /\ active[e] = current
        /\ active' = [active EXCEPT ![e] = candidate]
        /\ retiring' = [retiring EXCEPT ![e] = active[e]]
        /\ physical' = [physical EXCEPT ![e] = IF @ = "bound" THEN "accepting" ELSE @]
        /\ Goto(IF active[e] # None THEN "superseding"
                ELSE IF current # None THEN "draining" ELSE "idle")
        /\ newest' = candidate
        /\ task' = current /\ current' = candidate /\ candidate' = None
        /\ mode' = IF current # None THEN "retire" ELSE "none"
        /\ UNCHANGED <<ownerRest, hubClosed, entries, entryOf, routeVars, server,
                       toStop, debt, gracefulTried, failed>>

Abort ==
    /\ ownerPc = "prepared"
    /\ task' = candidate
    /\ mode' = "abort"
    /\ Goto("shutting")
    /\ UNCHANGED <<ownerRest, hubVars, routeVars, server, newest, current, candidate,
                   toStop, debt, gracefulTried, failed>>

\* Faulty Abort: an address bound for the candidate stays bound.
AbortKeepsBind ==
    /\ ownerPc = "unbinding"
    /\ Goto("idle")
    /\ task' = None /\ candidate' = None /\ mode' = "none"
    /\ UNCHANGED <<ownerRest, hubVars, routeVars, server, newest, current, toStop, debt,
                   gracefulTried, failed>>

\* ListenerHub.Abort, once the candidate's server is down; an entry that
\* serves no other route is closed.
AbortRoute ==
    LET e == entryOf[task]
        unused == active[e] = None /\ retiring[e] = None
    IN  /\ ownerPc = "unbinding"
        /\ IF unused THEN Forget(e) /\ ClosePhysical(e)
           ELSE UNCHANGED <<entries, physical>>
        /\ Goto("idle")
        /\ task' = None /\ candidate' = None /\ mode' = "none"
        /\ UNCHANGED <<ownerRest, hubClosed, entryOf, active, retiring, routeVars, server,
                       newest, current, toStop, debt, gracefulTried, failed>>

-----------------------------------------------------------------------------
(* The owner: a route is retired, its server stopped and it is released.   *)

\* Retire(current) of the hub: the entry and its physical listener.
RetireRoute ==
    LET e == entryOf[task]
    IN  /\ ownerPc = "retiring"
        /\ IF active[e] = task
           THEN /\ active' = [active EXCEPT ![e] = None]
                /\ retiring' = [retiring EXCEPT ![e] = task]
                /\ ClosePhysical(e)
           ELSE UNCHANGED <<active, retiring, physical>>
        /\ Goto("superseding")
        /\ UNCHANGED <<ownerRest, hubClosed, entries, entryOf, routeVars, server, newest,
                       current, candidate, task, toStop, mode, debt, gracefulTried, failed>>

\* retire of the route, at the end of Commit and of Retire. ForceStop does
\* not wait for it to drain.
RetireTask ==
    /\ ownerPc = "superseding"
    /\ Retire(task)
    /\ Goto(IF mode = "force" THEN "shutting" ELSE "draining")
    /\ UNCHANGED <<ownerRest, hubVars, server, newest, current, candidate, task, toStop,
                   mode, debt, gracefulTried, failed>>

\* Faulty stop: WaitDrained is left out.
DrainUnawaited ==
    /\ ownerPc = "draining"
    /\ Goto("shutting")
    /\ UNCHANGED <<ownerRest, hubVars, routeVars, server, newest, current, candidate, task,
                   toStop, mode, debt, gracefulTried, failed>>

WaitDrained ==
    /\ ownerPc = "draining" /\ drained[task]
    /\ Goto("shutting")
    /\ UNCHANGED <<ownerRest, hubVars, routeVars, server, newest, current, candidate, task,
                   toStop, mode, debt, gracefulTried, failed>>

\* Server.Stop or ForceStop: the listener is closed, by the first of them.
CloseRoute ==
    /\ ownerPc = "shutting"
    /\ mode \in {"retire", "stop"} => ~gracefulTried[task]
    /\ gracefulTried' = [gracefulTried EXCEPT ![task] = mode # "force" \/ @]
    /\ closed' = [closed EXCEPT ![task] = TRUE]
    /\ Goto(IF closed[task] THEN "releasing" ELSE "closing")
    /\ UNCHANGED <<ownerRest, hubVars, pending, queue, retired, drained, server, newest,
                   current, candidate, task, toStop, mode, debt, failed>>

\* The loop of Close over the queue.
CloseTakes ==
    /\ ownerPc = "closing"
    /\ \E c \in queue[task] :
          /\ queue' = [queue EXCEPT ![task] = @ \ {c}]
          /\ connection' = [connection EXCEPT ![c] = "refused"]
    /\ CompletePending(task)
    /\ UNCHANGED <<acceptorVars, hubVars, carrier, acceptedAfter, retired, closed, server,
                   newest, ownerVars>>

CloseReturns ==
    /\ ownerPc = "closing" /\ queue[task] = {}
    /\ drained' = [drained EXCEPT ![task] = @ \/ (retired[task] /\ pending[task] = 0)]
    /\ Goto("releasing")
    /\ UNCHANGED <<ownerRest, hubVars, pending, queue, retired, closed, server, newest,
                   current, candidate, task, toStop, mode, debt, gracefulTried, failed>>

Serving(r) == {c \in Connections : connection[c] = "serving" /\ carrier[c] = r}

\* ForceStop closes the connections that the server still has.
CloseConnections ==
    /\ ownerPc = "releasing" /\ mode = "force"
    /\ Serving(task) # {}
    /\ connection' = [c \in Connections |-> IF c \in Serving(task) THEN "ended" ELSE connection[c]]
    /\ UNCHANGED <<hubVars, acceptorVars, routeVars, server, carrier, acceptedAfter, newest,
                   ownerVars>>

ServerDown == server[task] = "exited" /\ (mode = "force" \/ Serving(task) = {})

Terminated(r) ==
    /\ current' = IF mode # "retire" /\ current = r THEN None ELSE current
    /\ debt' = IF mode # "retire" /\ debt = r THEN None ELSE debt
    /\ task' = None
    /\ mode' = IF mode = "retire" THEN "none" ELSE mode
    /\ Goto(IF mode = "retire" THEN "idle" ELSE "next")

\* Release, once the server is down.
Release ==
    LET e == entryOf[task]
        remove == active[e] = None /\ retiring[e] \in {None, task}
    IN  /\ ownerPc = "releasing" /\ mode # "abort" /\ ServerDown
        /\ retiring' = [retiring EXCEPT ![e] = IF @ = task THEN None ELSE @]
        /\ IF remove THEN Forget(e) /\ ClosePhysical(e)
           ELSE UNCHANGED <<entries, physical>>
        /\ Terminated(task)
        /\ UNCHANGED <<ownerRest, hubClosed, entryOf, active, routeVars, server, newest,
                       candidate, toStop, gracefulTried, failed>>

\* The candidate's server is down, or its stop has run out of time.
AbortServerDown ==
    /\ ownerPc = "releasing" /\ mode = "abort"
    /\ Goto("unbinding")
    /\ UNCHANGED <<ownerRest, hubVars, routeVars, server, newest, current, candidate, task,
                   toStop, mode, debt, gracefulTried, failed>>

\* A wait runs out of time, or a graceful stop that has failed is asked again.
TerminationFails ==
    /\ \/ ownerPc = "draining"
       \/ ownerPc = "shutting" /\ mode \in {"retire", "stop"} /\ gracefulTried[task]
       \/ ownerPc = "releasing" /\ mode # "abort"
    /\ debt' = IF mode = "retire" THEN task ELSE debt
    /\ failed' = (mode = "stop" \/ failed)
    /\ task' = None
    /\ mode' = IF mode = "retire" THEN "none" ELSE mode
    /\ Goto(IF mode = "retire" THEN "idle" ELSE "next")
    /\ UNCHANGED <<ownerRest, hubVars, routeVars, server, newest, current, candidate, toStop,
                   gracefulTried>>

-----------------------------------------------------------------------------
(* The owner: Stop, ForceStop if it failed, and Stop of the hub.           *)

Only(r) == IF r = None THEN <<>> ELSE <<r>>
Remaining == Only(current) \o Only(debt)

BeginStop ==
    /\ ownerPc = "idle"
    /\ toStop' = Remaining
    /\ mode' = "stop"
    /\ Goto("next")
    /\ UNCHANGED <<ownerRest, hubVars, routeVars, server, newest, current, candidate, task,
                   debt, gracefulTried, failed>>

NextToStop ==
    /\ ownerPc = "next" /\ toStop # <<>>
    /\ task' = Head(toStop)
    /\ toStop' = Tail(toStop)
    /\ Goto(IF mode = "force" \/ Head(toStop) = current THEN "retiring" ELSE "draining")
    /\ UNCHANGED <<ownerRest, hubVars, routeVars, server, newest, current, candidate, mode,
                   debt, gracefulTried, failed>>

BeginForceStop ==
    /\ ownerPc = "next" /\ toStop = <<>> /\ mode = "stop" /\ failed
    /\ mode' = "force"
    /\ toStop' = Remaining
    /\ UNCHANGED <<ownerRest, hubVars, routeVars, server, newest, ownerPc, current, candidate,
                   task, debt, gracefulTried, failed>>

\* The routes the hub still has are closed and their queues emptied.
HubStop ==
    LET bound == {e \in Routes : AddressOf(e) # {}}
        left == {active[e] : e \in bound} \cup {retiring[e] : e \in bound}
    IN  /\ ownerPc = "next" /\ toStop = <<>> /\ (mode = "force" \/ ~failed)
        /\ hubClosed' = TRUE
        /\ entries' = [a \in Addresses |-> None]
        /\ active' = [e \in Routes |-> IF e \in bound THEN None ELSE active[e]]
        /\ retiring' = [e \in Routes |-> IF e \in bound THEN None ELSE retiring[e]]
        /\ physical' = [e \in Routes |-> IF e \in bound THEN "closed" ELSE physical[e]]
        /\ closed' = [r \in Routes |-> closed[r] \/ r \in left]
        /\ queue' = [r \in Routes |-> IF r \in left THEN {} ELSE queue[r]]
        /\ pending' = [r \in Routes |-> IF r \in left THEN pending[r] - Cardinality(queue[r])
                                        ELSE pending[r]]
        /\ drained' = [r \in Routes |-> drained[r] \/ (r \in left /\ retired[r] /\ pending'[r] = 0)]
        /\ connection' = [c \in Connections |->
                            IF \E r \in left \ {None} : c \in queue[r] THEN "refused"
                            ELSE connection[c]]
        /\ Goto("hubStopping")
        /\ UNCHANGED <<acceptorVars, entryOf, retired, server, carrier, acceptedAfter, newest,
                       current, candidate, task, toStop, mode, debt, gracefulTried, failed>>

HubStopReturns ==
    /\ ownerPc = "hubStopping"
    /\ \A e \in Routes : acceptor[e] \in {"none", "failed", "done"}
    /\ Goto("stopped")
    /\ UNCHANGED <<ownerRest, hubVars, routeVars, server, newest, current, candidate, task,
                   toStop, mode, debt, gracefulTried, failed>>

\* What the owner does without being asked, timeouts apart.
OwnerStep ==
    \/ RetireMoved \/ AbortRoute
    \/ RetireRoute \/ RetireTask \/ WaitDrained
    \/ CloseRoute \/ CloseTakes \/ CloseReturns \/ CloseConnections
    \/ Release \/ AbortServerDown
    \/ NextToStop \/ BeginForceStop \/ HubStop \/ HubStopReturns

-----------------------------------------------------------------------------

Init ==
    /\ hubClosed = FALSE /\ entries = [a \in Addresses |-> None]
    /\ entryOf = [r \in Routes |-> None]
    /\ physical = [r \in Routes |-> "unbound"]
    /\ active = [r \in Routes |-> None] /\ retiring = [r \in Routes |-> None]
    /\ acceptor = [r \in Routes |-> "none"]
    /\ held = [r \in Routes |-> {}] /\ target = [r \in Routes |-> None]
    /\ pending = [r \in Routes |-> 0] /\ queue = [r \in Routes |-> {}]
    /\ retired = [r \in Routes |-> FALSE] /\ closed = [r \in Routes |-> FALSE]
    /\ drained = [r \in Routes |-> FALSE]
    /\ server = [r \in Routes |-> "none"]
    /\ connection = [c \in Connections |-> "new"]
    /\ carrier = [c \in Connections |-> None] /\ acceptedAfter = [c \in Connections |-> None]
    /\ newest = None
    /\ ownerPc = "idle" /\ current = None /\ candidate = None /\ task = None
    /\ toStop = <<>> /\ mode = "none" /\ debt = None
    /\ gracefulTried = [r \in Routes |-> FALSE] /\ failed = FALSE

Next ==
    \/ \E e \in Routes : AcceptorStep(e) \/ \E c \in Connections : Accept(e, c)
    \/ \E r \in Routes : ServerTakes(r) \/ ServerWaits(r)
    \/ \E c \in Connections : ConnectionEnds(c)
    \/ \E a \in Addresses : Prepare(a)
    \/ CommitElsewhere \/ Commit \/ Abort
    \/ OwnerStep \/ TerminationFails \/ BeginStop

Spec == Init /\ [][Next]_vars

-----------------------------------------------------------------------------
(* Properties.                                                             *)

\* WaitDrained: a drained route has no connection in its queue and none on the
\* way to it, so its server can be shut down without losing one.
DrainedMeansHandedOver ==
    \A r \in Routes : drained[r] => queue[r] = {} /\ \A e \in Routes : target[e] # r

\* Commit is the linearisation point: a connection that was accepted after it
\* is never given to an earlier generation.
ConnectionsUseNewRoute ==
    \A c \in Connections : carrier[c] # None => carrier[c] >= acceptedAfter[c]

Refused(c) == connection[c] # "refused" /\ connection'[c] = "refused"

\* A hand-over loses no connection: unless the server is forced down, one is
\* refused only while it has no route yet and its listener is already closed.
HandoffLosesNothing ==
    [][\A c \in Connections : Refused(c) =>
          \/ mode = "force"
          \/ \E e \in Routes : c \in held[e] /\ target[e] = None /\ physical[e] = "closed"]_vars

\* Between operations of the owner the current generation is served: its entry
\* dispatches to it, its listener is bound, its server serves and the goroutine
\* that accepts for it has not been stopped. It may have given up: an error of
\* Accept ends it for good with the listener still bound ("failed"), no one
\* starts it again, and clients reach nobody until another address is chosen.
CurrentIsServed ==
    /\ current # None /\ mode \in {"none", "retire", "abort"}
    /\ ownerPc \notin {"moving", "switching"}
    =>
        /\ active[entryOf[current]] = current
        /\ physical[entryOf[current]] = "accepting"
        /\ acceptor[entryOf[current]] \notin {"none", "done"}
        /\ ~retired[current] /\ ~closed[current] /\ server[current] # "exited"

\* No address is left behind: between operations exactly the address of the
\* current generation is bound and known to the hub, and after Stop none is.
OnlyCurrentIsBound ==
    LET bound == {e \in Routes : physical[e] \in {"bound", "accepting"}}
        known == {entries[a] : a \in Addresses} \ {None}
    IN  /\ ownerPc = "idle" /\ debt = None =>
              bound = known /\ known = {entryOf[r] : r \in {current} \ {None}}
        /\ ownerPc = "stopped" => bound = {} /\ known = {}

\* What a connection and a caller may rely on at every moment of a hand-over:
\* no drained route is lost, no connection goes back, what is accepted reaches the
\* current generation and no address is left behind.
RoutesAreFollowed ==
    TypeOK /\ DrainedMeansHandedOver /\ ConnectionsUseNewRoute /\ CurrentIsServed /\ OnlyCurrentIsBound

-----------------------------------------------------------------------------
(* Why: what holds between the steps of a hand-over.                       *)

\* Where each connection is, and that pending counts those of a route.
AcceptorOK(e) ==
    /\ held[e] # {} <=> acceptor[e] \in {"routing", "dispatching"}
    /\ target[e] # None <=> acceptor[e] = "dispatching"
    /\ \A c, d \in held[e] : c = d
    /\ \A c \in held[e] :
         /\ connection[c] = "held"
         /\ target[e] # None => target[e] >= acceptedAfter[c]
         /\ \A f \in Routes : c \in held[f] => e = f
    /\ target[e] # None => entryOf[target[e]] = e

OnTheWay(r) == IF entryOf[r] # None /\ target[entryOf[r]] = r THEN 1 ELSE 0

RouteOK(r) ==
    /\ \A c \in queue[r] : connection[c] = "queued" /\ carrier[c] = r
    /\ queue[r] # {} \/ retired[r] \/ closed[r] => entryOf[r] # None
    /\ pending[r] = Cardinality(queue[r]) + OnTheWay(r)
    /\ drained[r] => retired[r] /\ pending[r] = 0
    /\ closed[r] /\ mode # "force" => pending[r] = 0
    /\ server[r] = "exited" => closed[r]

ConnectionOK(c) ==
    /\ acceptedAfter[c] <= newest
    /\ carrier[c] # None => carrier[c] >= acceptedAfter[c]
    /\ connection[c] \in {"new", "held"} => carrier[c] = None

ConnectionsInv ==
    /\ \A e \in Routes : AcceptorOK(e)
    /\ \A r \in Routes : RouteOK(r)
    /\ \A c \in Connections : ConnectionOK(c)
    /\ candidate # None => pending[candidate] = 0

\* What an entry serves. Only the current route is active; a route that an entry
\* is retiring takes no connection, or is about to be told so.
Open(e) == physical[e] \in {"bound", "accepting"}
Live == {current, debt} \cup (IF mode = "abort" THEN {} ELSE {task})

Leaving(r) ==
    \/ retired[r]
    \/ ownerPc = "moving" /\ r = current
    \/ ownerPc = "superseding" /\ r = task

EntryOK(e) ==
    /\ physical[e] # "unbound" <=> entryOf[e] = e
    /\ acceptor[e] # "none" <=> entryOf[e] = e
    /\ acceptor[e] \in {"accepting", "routing", "dispatching"} => physical[e] \in {"accepting", "closed"}
    /\ acceptor[e] = "done" => physical[e] = "closed"
    /\ Open(e) => \E a \in Addresses : entries[a] = e
    /\ physical[e] = "accepting" <=> active[e] # None
    /\ active[e] # None => /\ active[e] = current /\ entryOf[current] = e
                           /\ ~retired[current] /\ ~closed[current]
    /\ retiring[e] # None => /\ entryOf[retiring[e]] = e
                             /\ retiring[e] \in Live /\ Leaving(retiring[e])

AddressOK(e) ==
    /\ physical[e] # "unbound"
    /\ Open(e) \/ (active[e] = None /\ retiring[e] # None)

EntriesInv ==
    /\ \A r, q \in Routes : entryOf[r] # None /\ q <= r => entryOf[q] # None
    /\ \A r \in Routes : entryOf[r] # None => entryOf[entryOf[r]] = entryOf[r]
    /\ \A e \in Routes : EntryOK(e)
    /\ \A a \in Addresses : entries[a] # None => AddressOK(entries[a])

\* What the owner is doing and to which routes.
Terminating == {"superseding", "draining", "shutting", "closing", "releasing"}
Stopping == Terminating \cup {"retiring"}

StopOK ==
    /\ ownerPc \in Stopping \cup {"next", "hubStopping", "stopped"}
    /\ task = None <=> ownerPc \notin Stopping
    /\ task \in {current, debt, None} /\ candidate = None
    /\ \A i \in 1..Len(toStop) : toStop[i] \in {current, debt} \ {None, task}
    /\ \A i, j \in 1..Len(toStop) : toStop[i] = toStop[j] => i = j
    /\ mode = "stop" /\ ~failed =>
         \A r \in {current, debt} \ {None, task} : \E i \in 1..Len(toStop) : toStop[i] = r

StageOK ==
    /\ mode = "none" => /\ ownerPc \in {"idle", "prepared", "moving", "switching"} /\ task = None
                        /\ candidate = None <=> ownerPc = "idle"
                        /\ ownerPc # "idle" => debt = None
    /\ mode = "abort" => /\ ownerPc \in {"shutting", "closing", "releasing", "unbinding"}
                         /\ task = candidate /\ candidate # None /\ debt = None
    /\ mode = "retire" => /\ ownerPc \in Terminating
                          /\ task # None /\ task # current /\ current # None
                          /\ candidate = None /\ debt = None
    /\ mode \in {"stop", "force"} => StopOK

CandidateOK ==
    candidate # None =>
        /\ candidate > newest /\ ~retired[candidate]
        /\ mode # "abort" => ~closed[candidate]
        /\ Open(entryOf[candidate])
        /\ \/ current # None /\ entryOf[candidate] = entryOf[current]
           \/ active[entryOf[candidate]] = None /\ retiring[entryOf[candidate]] = None

MovingOK ==
    ownerPc \in {"moving", "switching"} =>
        /\ current # None /\ entryOf[candidate] # entryOf[current]
        /\ active[entryOf[current]] = None /\ retiring[entryOf[current]] = current
        /\ ownerPc = "switching" => retired[current]

TerminatingOK ==
    ownerPc \in Terminating /\ mode # "abort" =>
        /\ \A e \in Routes : active[e] # task
        /\ IF ownerPc = "superseding"
           THEN mode = "retire" => entryOf[task] = entryOf[current]
           ELSE retired[task]
        /\ ownerPc \in {"shutting", "closing"} /\ mode # "force" => drained[task]

BoundOK ==
    /\ mode \in {"none", "retire", "abort"} =>
         /\ current # None /\ ownerPc \notin {"moving", "switching"} => active[entryOf[current]] = current
         /\ \A a \in Addresses : entries[a] # None =>
              \E r \in {current, candidate, task, debt} \ {None} : entries[a] = entryOf[r]
    /\ ownerPc \in {"hubStopping", "stopped"} => \A a \in Addresses : entries[a] = None

OwnerInv ==
    /\ \A r \in {newest, current, candidate, task, debt} \ {None} : entryOf[r] # None
    /\ current # None => current = newest
    /\ debt # None => debt # current /\ retired[debt]
    /\ StageOK /\ CandidateOK /\ MovingOK /\ TerminatingOK /\ BoundOK

HandoverInv == TypeOK /\ ConnectionsInv /\ EntriesInv /\ OwnerInv
=============================================================================

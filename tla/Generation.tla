----------------------------- MODULE Generation -----------------------------
(***************************************************************************)
(* GenerationCoordinator (internal/kernel/generation.go) over the          *)
(* application generations of internal/composition/generation.go: a whole  *)
(* object graph is prepared from one configuration, committed at five hubs *)
(* one after the other, and the graph it replaces is retired. Its          *)
(* operations run one at a time (operationMu); diagnostics are read in     *)
(* between. What a route does with its connections is in ListenerHub.      *)
(***************************************************************************)
EXTENDS Naturals, FiniteSets

CONSTANTS
    MaxGenerations,          \* bound: generations that are ever built
    Digests,    \* of the sections that key the resource pools
    Addresses   \* of the HTTP server

ASSUME GenerationAssumption ==
    MaxGenerations \in Nat \ {0} /\ Digests # {} /\ Addresses # {}

Generations == 1..MaxGenerations
NoGeneration == 0
OrNoGeneration == Generations \cup {NoGeneration}
Configs == Digests \X Addresses

VARIABLES
    lifecycle, ready, cleanupRequired, \* GenerationDiagnostics
    current, retiring,                 \* GenerationCoordinator.current, .retiring
    pc, candidate, failed              \* the operation under way; it has joined an error

coordinatorVars == <<lifecycle, ready, cleanupRequired, current, retiring, pc, candidate, failed>>

VARIABLES
    config,        \* the configuration of each generation: digest and address
    server,        \* its HTTP servers
    holds,         \* it has the handles of its resources
    settled,       \* applicationGeneration.settled with .terminalErr
    stuck,         \* a graceful stop of a server failed (Server.gracefulErr)
    participantFailed, \* .participantStopErr
    refs           \* resourcePool: the entry of a digest, by its references

generationVars == <<config, server, holds, settled, stuck, participantFailed, refs>>

VARIABLES
    routed,        \* hub: the route that is active at each address
    managed,       \* managementHub: that of the one management address
    consumer,      \* messagingHub.current
    admitted,      \* the generations whose consumers the providers have admitted
    scheduler,     \* scheduleHub.current
    scheduling     \* the generations whose scheduler is active

hubVars == <<routed, managed, consumer, admitted, scheduler, scheduling>>

VARIABLES
    halfCommitted  \* history: a Commit failed after the HTTP route was switched

graphVars == <<coordinatorVars, generationVars, hubVars, halfCommitted>>

NoConfig == <<CHOOSE d \in Digests : TRUE, CHOOSE a \in Addresses : TRUE>>
Address(g) == config[g][2]
Outcomes == {"clean", "timeout", "participant", "finalizer"}

GenerationTypeOK ==
    /\ lifecycle \in {"new", "starting", "running", "reloading", "degraded",
                      "draining", "failed", "stopped"}
    /\ ready \in BOOLEAN /\ cleanupRequired \in BOOLEAN
    /\ current \in OrNoGeneration /\ retiring \in OrNoGeneration /\ candidate \in OrNoGeneration
    /\ pc \in {"idle", "load", "acquire", "bind", "bindManagement", "commit",
               "commitManagement", "commitConsumers", "activate", "commitSchedule",
               "publish", "abort", "retire", "stopCurrent", "stopRetiring", "stopFactory",
               "forceCurrent", "forceRetiring", "forceFactory"}
    /\ failed \in BOOLEAN
    /\ config \in [Generations -> Configs]
    /\ server \in [Generations -> {"none", "up", "down"}]
    /\ holds \in [Generations -> BOOLEAN]
    /\ settled \in [Generations -> {"no", "clean", "error"}]
    /\ stuck \subseteq Generations /\ participantFailed \subseteq Generations
    /\ refs \in [Digests -> 0..2]
    /\ routed \in [Addresses -> OrNoGeneration] /\ managed \in OrNoGeneration
    /\ consumer \in OrNoGeneration /\ admitted \subseteq Generations
    /\ scheduler \in OrNoGeneration /\ scheduling \subseteq Generations
    /\ halfCommitted \in BOOLEAN

-----------------------------------------------------------------------------
(* Start and Reload up to the Commit.                                      *)

Goto(next) == pc' = next

Diagnose(state, isReady, cleanup) ==
    lifecycle' = state /\ ready' = isReady /\ cleanupRequired' = cleanup

BeginStart ==
    /\ pc = "idle" /\ lifecycle = "new"
    /\ Diagnose("starting", FALSE, cleanupRequired)
    /\ Goto("load")
    /\ UNCHANGED <<current, retiring, candidate, failed, generationVars, hubVars, halfCommitted>>

\* The old generation goes on serving: a reload is ready.
BeginReload ==
    /\ pc = "idle" /\ lifecycle = "running" /\ ~cleanupRequired
    /\ Diagnose("reloading", TRUE, cleanupRequired)
    /\ Goto("load")
    /\ UNCHANGED <<current, retiring, candidate, failed, generationVars, hubVars, halfCommitted>>

\* fail ends a Start, reject a Reload: neither touches CleanupRequired.
GivenUp ==
    /\ IF lifecycle = "starting" THEN Diagnose("failed", FALSE, cleanupRequired)
       ELSE Diagnose("running", TRUE, cleanupRequired)
    /\ candidate' = NoGeneration
    /\ Goto("idle")

\* loadCandidate fails, or the digest is that of the current generation.
NotLoaded ==
    /\ pc = "load"
    /\ GivenUp
    /\ UNCHANGED <<current, retiring, failed, generationVars, hubVars, halfCommitted>>

NextGeneration == Cardinality({g \in Generations : server[g] # "none" \/ settled[g] # "no"}) + 1

Load(c) ==
    /\ pc = "load"
    /\ NextGeneration \in Generations
    /\ current # NoGeneration => c # config[current]
    /\ config' = [config EXCEPT ![NextGeneration] = c]
    /\ candidate' = NextGeneration
    /\ Goto("acquire")
    /\ UNCHANGED <<lifecycle, ready, cleanupRequired, current, retiring, failed, server, holds,
                   settled, stuck, participantFailed, refs, hubVars, halfCommitted>>

\* The pools: an entry of the digest is reused, or one is built.
Acquire ==
    /\ pc = "acquire"
    /\ holds' = [holds EXCEPT ![candidate] = TRUE]
    /\ refs' = [refs EXCEPT ![config[candidate][1]] = @ + 1]
    /\ Goto("bind")
    /\ UNCHANGED <<lifecycle, ready, cleanupRequired, current, retiring, candidate, failed,
                   config, server, settled, stuck, participantFailed, hubVars, halfCommitted>>

\* The HTTP route is prepared and its server is in Serve.
Bind ==
    /\ pc = "bind"
    /\ server' = [server EXCEPT ![candidate] = "up"]
    /\ Goto("bindManagement")
    /\ UNCHANGED <<lifecycle, ready, cleanupRequired, current, retiring, candidate, failed,
                   config, holds, settled, stuck, participantFailed, refs, hubVars, halfCommitted>>

\* The same for the management route; Prepare returns once both servers run.
BindManagement ==
    /\ pc = "bindManagement"
    /\ Goto("commit")
    /\ UNCHANGED <<lifecycle, ready, cleanupRequired, current, retiring, candidate, failed,
                   generationVars, hubVars, halfCommitted>>

\* Any step of Prepare may fail, or run out of time.
PrepareFails ==
    /\ pc \in {"acquire", "bind", "bindManagement"}
    /\ Goto("abort")
    /\ UNCHANGED <<lifecycle, ready, cleanupRequired, current, retiring, candidate, failed,
                   generationVars, hubVars, halfCommitted>>

-----------------------------------------------------------------------------
(* Commit of a generation. An error ends it where it is.                   *)

commitRest == <<lifecycle, ready, cleanupRequired, current, retiring, candidate, failed,
                generationVars>>

\* ListenerHub.Commit of the HTTP route; the previous route must be active.
CommitRoute ==
    LET here == Address(candidate)
    IN  /\ pc = "commit"
        /\ IF current = NoGeneration \/ Address(current) # here \/ routed[here] = current
           THEN /\ routed' = [a \in Addresses |->
                                IF a = here THEN candidate
                                ELSE IF current # NoGeneration /\ a = Address(current) THEN NoGeneration
                                ELSE routed[a]]
                /\ Goto("commitManagement")
           ELSE UNCHANGED routed /\ Goto("abort")
        /\ UNCHANGED <<commitRest, managed, consumer, admitted, scheduler, scheduling,
                       halfCommitted>>

CommitManagement ==
    /\ pc = "commitManagement"
    /\ IF current = NoGeneration \/ managed = current
       THEN /\ managed' = candidate
            /\ Goto("commitConsumers")
            /\ UNCHANGED halfCommitted
       ELSE /\ halfCommitted' = TRUE
            /\ Goto("abort")
            /\ UNCHANGED managed
    /\ UNCHANGED <<commitRest, routed, consumer, admitted, scheduler, scheduling>>

\* Faulty Commit: the candidate's consumers are let in first.
ActivateFirst ==
    /\ pc = "commitConsumers"
    /\ admitted' = admitted \cup {candidate}
    /\ Goto("activate")
    /\ UNCHANGED <<commitRest, routed, managed, consumer, scheduler, scheduling, halfCommitted>>

\* messaging Hub.Commit: the previous consumers are shut out.
DeactivatePrevious ==
    /\ pc = "commitConsumers"
    /\ admitted' = admitted \ {consumer}
    /\ Goto("activate")
    /\ UNCHANGED <<commitRest, routed, managed, consumer, scheduler, scheduling, halfCommitted>>

ActivateCandidate ==
    /\ pc = "activate"
    /\ admitted' = (admitted \ {consumer}) \cup {candidate}
    /\ consumer' = candidate
    /\ Goto("commitSchedule")
    /\ UNCHANGED <<commitRest, routed, managed, scheduler, scheduling, halfCommitted>>

\* A provider refuses to deactivate the old or to activate the new consumers;
\* the old ones are activated again, which may fail too.
ConsumersFail ==
    /\ \/ pc = "commitConsumers" /\ consumer # NoGeneration
       \/ pc = "activate"
    /\ admitted' \in {admitted \ {consumer}, admitted \cup ({consumer} \ {NoGeneration})}
    /\ halfCommitted' = TRUE
    /\ Goto("abort")
    /\ UNCHANGED <<commitRest, routed, managed, consumer, scheduler, scheduling>>

\* schedule Hub.Commit. A scheduler that was deactivated never runs again.
CommitSchedule ==
    /\ pc = "commitSchedule"
    /\ scheduling' = (scheduling \ {scheduler}) \cup {candidate}
    /\ scheduler' = candidate
    /\ Goto("publish")
    /\ UNCHANGED <<commitRest, routed, managed, consumer, admitted, halfCommitted>>

\* The Coordinator publishes the new generation.
PublishCandidate ==
    /\ pc = "publish"
    /\ current' = candidate /\ retiring' = current /\ candidate' = NoGeneration
    /\ Diagnose("running", TRUE, FALSE)
    /\ Goto(IF current = NoGeneration THEN "idle" ELSE "retire")
    /\ UNCHANGED <<failed, generationVars, hubVars, halfCommitted>>

-----------------------------------------------------------------------------
(* A generation comes to its end.                                          *)

\* Retire of the messaging and the schedule hub.
HubRetire(hub, g) == IF hub = g THEN NoGeneration ELSE hub

\* releaseResources gives the handles back, whatever a finalizer returns.
ReleaseResources(g) ==
    /\ holds' = [holds EXCEPT ![g] = FALSE]
    /\ refs' = IF holds[g] THEN [refs EXCEPT ![config[g][1]] = @ - 1] ELSE refs

\* abort, the HTTP servers apart.
AbortRest ==
    /\ ReleaseResources(candidate)
    /\ settled' = [settled EXCEPT ![candidate] = "clean"]
    /\ consumer' = HubRetire(consumer, candidate)
    /\ admitted' = admitted \ {candidate}
    /\ scheduler' = HubRetire(scheduler, candidate)
    /\ scheduling' = scheduling \ {candidate}
    /\ GivenUp
    /\ UNCHANGED <<current, retiring, failed, config, stuck, participantFailed, routed, managed,
                   halfCommitted>>

\* abort goes through all its steps whatever they return. Only a server that
\* a Commit has given a route has connections that can hold up its stop. A
\* route that was committed stays what it is.
Abort ==
    /\ pc = "abort"
    /\ \/ server' = [server EXCEPT ![candidate] = "down"]
       \/ routed[Address(candidate)] = candidate /\ UNCHANGED server
    /\ AbortRest

\* What may come of stop and ForceStop: a settled generation answers what it
\* did; a server is stopped gracefully once, participants are stopped once.
MayEnd(g, outcome, force) ==
    IF settled[g] # "no"
    THEN outcome = IF settled[g] = "clean" THEN "clean" ELSE "finalizer"
    ELSE /\ g \in participantFailed => outcome \in {"participant", "timeout"}
         /\ g \in stuck /\ ~force => outcome = "timeout"

\* The servers of a generation, then its participants, then its resources.
Ends(g, outcome) ==
    /\ server' = [server EXCEPT ![g] = IF outcome = "timeout" THEN @ ELSE "down"]
    /\ stuck' \in IF outcome = "timeout" THEN {stuck, stuck \cup {g}} ELSE {stuck}
    /\ participantFailed' = IF outcome = "participant" THEN participantFailed \cup {g}
                            ELSE participantFailed
    /\ IF outcome \in {"clean", "finalizer"}
       THEN /\ ReleaseResources(g)
            /\ settled' = [settled EXCEPT ![g] = IF outcome = "clean" THEN "clean" ELSE "error"]
       ELSE UNCHANGED <<holds, refs, settled>>

\* Retire, Stop and ForceStop of a generation. The last two also take the
\* routes of the current generation away.
Terminate(g, outcome, takeRoutes) ==
    IF settled[g] # "no"
    THEN UNCHANGED <<generationVars, hubVars>>
    ELSE /\ Ends(g, outcome)
         /\ consumer' = HubRetire(consumer, g)
         /\ admitted' \in IF outcome = "timeout" THEN {admitted, admitted \ {g}}
                          ELSE {admitted \ {g}}
         /\ scheduler' = HubRetire(scheduler, g)
         /\ scheduling' = scheduling \ {g}
         /\ IF takeRoutes
            THEN /\ routed' = [a \in Addresses |-> IF routed[a] = g THEN NoGeneration ELSE routed[a]]
                 /\ managed' = IF managed = g THEN NoGeneration ELSE managed
            ELSE UNCHANGED <<routed, managed>>
         /\ UNCHANGED config

Retire(outcome) ==
    /\ pc = "retire"
    /\ MayEnd(retiring, outcome, FALSE)
    /\ Terminate(retiring, outcome, FALSE)
    /\ IF outcome = "clean"
       THEN retiring' = NoGeneration /\ UNCHANGED <<lifecycle, ready, cleanupRequired>>
       ELSE Diagnose("degraded", FALSE, TRUE) /\ UNCHANGED retiring
    /\ Goto("idle")
    /\ UNCHANGED <<current, candidate, failed, halfCommitted>>

-----------------------------------------------------------------------------
(* Stop, and ForceStop after a Stop that failed.                           *)

BeginStop ==
    /\ pc = "idle" /\ lifecycle \notin {"stopped", "draining"}
    /\ Diagnose("draining", FALSE, cleanupRequired)
    /\ failed' = FALSE
    /\ Goto("stopCurrent")
    /\ UNCHANGED <<current, retiring, candidate, generationVars, hubVars, halfCommitted>>

BeginForceStop ==
    /\ pc = "idle" /\ lifecycle = "failed" /\ failed
    /\ failed' = FALSE
    /\ Goto("forceCurrent")
    /\ UNCHANGED <<lifecycle, ready, cleanupRequired, current, retiring, candidate,
                   generationVars, hubVars, halfCommitted>>

StopOne(at, g, outcome, next) ==
    /\ pc = at
    /\ IF g = NoGeneration
       THEN outcome = "clean" /\ UNCHANGED <<generationVars, hubVars>>
       ELSE /\ MayEnd(g, outcome, at \in {"forceCurrent", "forceRetiring"})
            /\ Terminate(g, outcome, g = current \/ at = "forceRetiring")
    /\ failed' = (failed \/ outcome # "clean")
    /\ Goto(next)
    /\ UNCHANGED <<lifecycle, ready, cleanupRequired, current, retiring, candidate, halfCommitted>>

\* Stop of the factory: the hubs let go of what they have, then no pool may
\* have an entry. Stop leaves it out after an error, ForceStop does not.
StopFactory ==
    LET error == failed \/ \E d \in Digests : refs[d] > 0
    IN  /\ pc \in {"stopFactory", "forceFactory"}
        /\ IF pc = "stopFactory" /\ failed
           THEN UNCHANGED hubVars
           ELSE /\ routed' = [a \in Addresses |-> NoGeneration] /\ managed' = NoGeneration
                /\ consumer' = NoGeneration /\ admitted' = admitted \ {consumer}
                /\ scheduler' = NoGeneration /\ scheduling' = scheduling \ {scheduler}
        /\ IF error
           THEN Diagnose("failed", ready, TRUE) /\ UNCHANGED <<current, retiring>>
           ELSE Diagnose("stopped", ready, FALSE) /\ current' = NoGeneration /\ retiring' = NoGeneration
        /\ failed' = error
        /\ Goto("idle")
        /\ UNCHANGED <<candidate, generationVars, halfCommitted>>

-----------------------------------------------------------------------------

GenerationInit ==
    /\ lifecycle = "new" /\ ready = FALSE /\ cleanupRequired = FALSE
    /\ current = NoGeneration /\ retiring = NoGeneration /\ candidate = NoGeneration
    /\ pc = "idle" /\ failed = FALSE
    /\ config = [g \in Generations |-> NoConfig]
    /\ server = [g \in Generations |-> "none"]
    /\ holds = [g \in Generations |-> FALSE]
    /\ settled = [g \in Generations |-> "no"]
    /\ stuck = {} /\ participantFailed = {}
    /\ refs = [d \in Digests |-> 0]
    /\ routed = [a \in Addresses |-> NoGeneration] /\ managed = NoGeneration
    /\ consumer = NoGeneration /\ admitted = {}
    /\ scheduler = NoGeneration /\ scheduling = {}
    /\ halfCommitted = FALSE

GenerationNext ==
    \/ BeginStart \/ BeginReload \/ NotLoaded
    \/ \E c \in Configs : Load(c)
    \/ Acquire \/ Bind \/ BindManagement \/ PrepareFails
    \/ CommitRoute \/ CommitManagement \/ DeactivatePrevious \/ ActivateCandidate
    \/ ConsumersFail \/ CommitSchedule \/ PublishCandidate \/ Abort
    \/ BeginStop \/ BeginForceStop
    \/ \E outcome \in Outcomes :
          \/ Retire(outcome)
          \/ StopOne("stopCurrent", current, outcome, "stopRetiring")
          \/ StopOne("stopRetiring", retiring, outcome, "stopFactory")
          \/ StopOne("forceCurrent", current, outcome, "forceRetiring")
          \/ StopOne("forceRetiring", retiring, outcome, "forceFactory")
    \/ StopFactory

GenerationSpec == GenerationInit /\ [][GenerationNext]_graphVars

-----------------------------------------------------------------------------
(* Properties.                                                             *)

Served(g) ==
    /\ server[g] = "up" /\ holds[g]
    /\ routed[Address(g)] = g /\ managed = g
    /\ g \in admitted /\ consumer = g
    /\ g \in scheduling /\ scheduler = g

\* internal/kernel/README.md: a candidate that fails is aborted and leaves the
\* current generation as it was. So a Coordinator that is running and ready
\* has a current generation with both routes, its consumers and its scheduler.
ReadyMeansServed == lifecycle = "running" /\ ready => Served(current)

\* The same as long as no Commit has failed half way.
CurrentIsServed == ~halfCommitted => ReadyMeansServed

\* A server never outlives the resources of its generation: while it may
\* serve requests, the pools count a reference for it.
ServersHoldResources ==
    ~halfCommitted =>
        /\ \A g \in Generations : server[g] = "up" => holds[g]
        /\ \A d \in Digests :
              refs[d] = Cardinality({g \in Generations : holds[g] /\ config[g][1] = d})

\* The consumers and the scheduled tasks of two generations never overlap.
OneAdmitted == Cardinality(admitted) <= 1 /\ Cardinality(scheduling) <= 1

\* A clean stop left nothing behind, candidates that were aborted included.
StoppedMeansReleased ==
    lifecycle = "stopped" /\ ~halfCommitted =>
        /\ \A g \in Generations : server[g] # "up" /\ ~holds[g]
        /\ admitted = {} /\ scheduling = {}

\* Generations do not pile up: cleanup debt keeps a third one from being built.
AtMostTwoGenerations ==
    ~halfCommitted => Cardinality({g \in Generations : server[g] = "up"}) <= 2

\* The generations as a whole: the current one is served by all of its parts,
\* none serves without its resources, no two are admitted, and what is stopped
\* or retired is given back.
GenerationIsSound ==
    /\ GenerationTypeOK /\ CurrentIsServed /\ ServersHoldResources /\ OneAdmitted
    /\ StoppedMeansReleased /\ AtMostTwoGenerations
=============================================================================

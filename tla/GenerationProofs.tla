-------------------------- MODULE GenerationProofs --------------------------
(***************************************************************************)
(* Theorems about the generations of an application: which of them serves, *)
(* for any number of them, of digests and of addresses, and what each has  *)
(* of its parts, for any number of them and any configurations; about the  *)
(* requests that reach it, for any connections, kinds and limits; about    *)
(* where log lines go meanwhile, for any loggers and writers; and about a  *)
(* call that it makes over HTTP, for any settings, requests and losses.    *)
(***************************************************************************)
EXTENDS Generation, Assembly, HttpEdge, HttpClient, LogRouting, FiniteSetTheorems, SequenceTheorems, TLAPS

-----------------------------------------------------------------------------
(* The inductive invariant.                                                *)

Committed == {"commitManagement", "commitConsumers", "activate", "commitSchedule", "publish"}
Preparing == {"acquire", "bind", "bindManagement", "commit", "abort"} \cup Committed
Stopping == {"stopCurrent", "stopRetiring", "stopFactory"}
Forcing == {"forceCurrent", "forceRetiring", "forceFactory"}

\* Which operation is under way in which lifecycle, and over which generations.
CourseInv ==
    /\ pc \in Preparing \cup {"load"} => lifecycle \in {"starting", "reloading"}
    /\ pc = "retire" => lifecycle = "running" /\ retiring # NoGeneration
    /\ pc \in Stopping => lifecycle = "draining"
    /\ pc \in Forcing => lifecycle = "failed"
    /\ pc = "idle" => lifecycle \notin {"starting", "reloading", "draining"}
    /\ candidate # NoGeneration <=> pc \in Preparing
    /\ lifecycle \in {"new", "starting", "stopped"} => current = NoGeneration
    /\ lifecycle \in {"running", "reloading", "degraded"} =>
        current # NoGeneration /\ settled[current] = "no"
    /\ retiring # NoGeneration => pc = "retire" \/ lifecycle \in {"degraded", "draining", "failed"}

Used(g) == server[g] # "none" \/ settled[g] # "no"

\* Generations are numbered one after the other, and the three that are under
\* way are different ones.
NumbersInv ==
    /\ \E n \in 0..MaxGenerations :
        /\ {g \in Generations : Used(g)} = 1..n
        /\ candidate # NoGeneration /\ ~Used(candidate) => candidate = n + 1
    /\ candidate # NoGeneration => settled[candidate] = "no" /\ candidate # current
    /\ current # NoGeneration => server[current] # "none" /\ current # retiring
    /\ retiring # NoGeneration => server[retiring] # "none"
    /\ \A a \in Addresses : routed[a] # NoGeneration => server[routed[a]] # "none"

Holders(d) == {g \in Generations : holds[g] /\ config[g][1] = d}

\* Only these three hold resources, and the pools count them.
HoldersInv ==
    /\ \A g \in Generations : holds[g] => g \in {current, retiring, candidate} /\ settled[g] = "no"
    /\ \A d \in Digests : refs[d] = Cardinality(Holders(d))

\* How far a candidate has come.
StageInv ==
    /\ pc = "acquire" => ~holds[candidate]
    /\ pc \in {"bind", "bindManagement", "commit"} \cup Committed => holds[candidate]
    /\ pc \in {"bindManagement", "commit"} \cup Committed => server[candidate] = "up"
    /\ pc \in Committed => routed[Address(candidate)] = candidate
    /\ pc \in Committed \ {"commitManagement"} => managed = candidate
    /\ pc \in {"commitSchedule", "publish"} => candidate \in admitted
    /\ pc = "publish" => candidate \in scheduling

\* The consumers of one generation are admitted, and its scheduler is active.
AdmittedInv ==
    /\ consumer \in {NoGeneration, IF pc \in {"commitSchedule", "publish"} THEN candidate ELSE current}
    /\ admitted \subseteq {IF pc \in {"commitSchedule", "publish"} THEN candidate ELSE current}
    /\ lifecycle \notin {"draining", "failed"} => admitted \subseteq {consumer}
    /\ scheduler \in {NoGeneration, IF pc = "publish" THEN candidate ELSE current}
    /\ scheduling \subseteq {scheduler}
    /\ \A g \in admitted : settled[g] = "no"
    /\ pc \in {"stopRetiring", "stopFactory", "forceRetiring", "forceFactory"} /\ ~failed => admitted = {}

\* As long as every Commit has gone to its end or has not begun.
WholeInv ==
    ~halfCommitted =>
        /\ \A g \in Generations : server[g] = "up" => holds[g]
        /\ pc \notin Committed /\ candidate # NoGeneration => \A a \in Addresses : routed[a] # candidate
        /\ lifecycle \in {"running", "reloading"} /\ pc \notin Committed => Served(current)
        /\ lifecycle = "reloading" /\ pc = "commitManagement" => managed = current

GenerationInv ==
    /\ GenerationTypeOK /\ CourseInv /\ NumbersInv /\ HoldersInv /\ StageInv /\ AdmittedInv
    /\ WholeInv /\ StoppedMeansReleased

-----------------------------------------------------------------------------
(* What the steps do to the generations.                                   *)

\* The states of a generation; refs is bounded by those that hold resources.
ServerStates == {"none", "up", "down"}
Ended == {"no", "clean", "error"}

GenerationsOK ==
    /\ config \in [Generations -> Configs]
    /\ server \in [Generations -> ServerStates]
    /\ holds \in [Generations -> BOOLEAN]
    /\ settled \in [Generations -> Ended]
    /\ stuck \subseteq Generations /\ participantFailed \subseteq Generations
    /\ refs \in [Digests -> Int]

LEMMA TypeFacts ==
    ASSUME GenerationTypeOK
    PROVE  /\ GenerationsOK
           /\ \A g \in Generations : config[g][1] \in Digests /\ config[g][2] \in Addresses
           /\ 0 \notin Generations /\ MaxGenerations \in Nat
<1>1. GenerationsOK
  <2>1. refs \in [Digests -> Int]
    BY DEF GenerationTypeOK
  <2>2. QED
    BY <2>1 DEF GenerationTypeOK, GenerationsOK, ServerStates, Ended
<1>2. \A g \in Generations : config[g][1] \in Digests /\ config[g][2] \in Addresses
  BY DEF GenerationTypeOK, Configs
<1>3. 0 \notin Generations /\ MaxGenerations \in Nat
  BY GenerationAssumption DEF Generations
<1>4. QED
  BY <1>1, <1>2, <1>3

\* A set of generations is finite.
LEMMA FiniteGenerations ==
    ASSUME NEW S, S \subseteq Generations
    PROVE  IsFiniteSet(S)
<1>1. IsFiniteSet(Generations)
  BY GenerationAssumption, FS_Interval DEF Generations
<1>2. QED
  BY <1>1, FS_Subset

\* A generation gives back the resources it holds, and no other does.
LEMMA ReleaseFacts ==
    ASSUME GenerationsOK, \A d \in Digests : refs[d] = Cardinality(Holders(d)),
           NEW g \in Generations, ReleaseResources(g), UNCHANGED config
    PROVE  /\ holds' \in [Generations -> BOOLEAN] /\ refs' \in [Digests -> Int]
           /\ ~holds'[g]
           /\ \A h \in Generations \ {g} : holds'[h] = holds[h]
           /\ \A d \in Digests : refs'[d] = Cardinality(Holders(d)')
<1>1. /\ holds' = [holds EXCEPT ![g] = FALSE]
      /\ refs' = IF holds[g] THEN [refs EXCEPT ![config[g][1]] = @ - 1] ELSE refs
  BY DEF ReleaseResources
<1>2. /\ holds' \in [Generations -> BOOLEAN] /\ refs' \in [Digests -> Int]
      /\ ~holds'[g] /\ \A h \in Generations \ {g} : holds'[h] = holds[h]
  <2>1. /\ holds' \in [Generations -> BOOLEAN]
        /\ ~holds'[g] /\ \A h \in Generations \ {g} : holds'[h] = holds[h]
    BY <1>1 DEF GenerationsOK
  <2>2. config[g][1] \in Digests
    BY DEF GenerationsOK, Configs
  <2>3. refs' \in [Digests -> Int]
    BY <1>1, <2>2 DEF GenerationsOK
  <2>4. QED
    BY <2>1, <2>3
<1>3. ASSUME NEW d \in Digests PROVE refs'[d] = Cardinality(Holders(d)')
  <2>1. Holders(d)' = Holders(d) \ {g}
    BY <1>2 DEF Holders
  <2>2. IsFiniteSet(Holders(d))
    BY FiniteGenerations DEF Holders
  <2>3. Cardinality(Holders(d) \ {g}) = IF g \in Holders(d) THEN Cardinality(Holders(d)) - 1
                                        ELSE Cardinality(Holders(d))
    BY <2>2, FS_RemoveElement
  <2>4. g \in Holders(d) <=> holds[g] /\ config[g][1] = d
    BY DEF Holders
  <2>5. refs'[d] = IF holds[g] /\ config[g][1] = d THEN refs[d] - 1 ELSE refs[d]
    BY <1>1 DEF GenerationsOK
  <2>6. QED
    BY <2>1, <2>3, <2>4, <2>5
<1>4. QED
  BY <1>2, <1>3

\* The end of a generation that has not come to one before.
LEMMA EndsFacts ==
    ASSUME GenerationsOK, \A d \in Digests : refs[d] = Cardinality(Holders(d)),
           NEW g \in Generations, NEW outcome \in Outcomes, Ends(g, outcome), UNCHANGED config
    PROVE  /\ GenerationsOK'
           /\ \A h \in Generations \ {g} :
                server'[h] = server[h] /\ holds'[h] = holds[h] /\ settled'[h] = settled[h]
           /\ server'[g] = IF outcome = "timeout" THEN server[g] ELSE "down"
           /\ IF outcome \in {"clean", "finalizer"}
              THEN ~holds'[g] /\ settled'[g] = IF outcome = "clean" THEN "clean" ELSE "error"
              ELSE UNCHANGED <<holds, refs, settled>>
           /\ \A d \in Digests : refs'[d] = Cardinality(Holders(d)')
<1>1. server' \in [Generations -> ServerStates]
  BY DEF Ends, GenerationsOK, ServerStates
<1>2. /\ \A h \in Generations \ {g} : server'[h] = server[h]
      /\ server'[g] = IF outcome = "timeout" THEN server[g] ELSE "down"
  BY DEF Ends, GenerationsOK
<1>3. stuck' \subseteq Generations /\ participantFailed' \subseteq Generations
  BY DEF Ends, GenerationsOK
<1>4. config' \in [Generations -> Configs]
  BY DEF GenerationsOK
<1>5. CASE outcome \in {"clean", "finalizer"}
  <2>1. /\ ReleaseResources(g)
        /\ settled' = [settled EXCEPT ![g] = IF outcome = "clean" THEN "clean" ELSE "error"]
    BY <1>5 DEF Ends
  <2>2. /\ holds' \in [Generations -> BOOLEAN] /\ refs' \in [Digests -> Int]
        /\ ~holds'[g] /\ \A h \in Generations \ {g} : holds'[h] = holds[h]
        /\ \A d \in Digests : refs'[d] = Cardinality(Holders(d)')
    BY <2>1, ReleaseFacts
  <2>3. /\ settled' \in [Generations -> Ended]
        /\ settled'[g] = IF outcome = "clean" THEN "clean" ELSE "error"
        /\ \A h \in Generations \ {g} : settled'[h] = settled[h]
    BY <2>1 DEF GenerationsOK, Ended
  <2>4. GenerationsOK'
    BY <1>1, <1>3, <1>4, <2>2, <2>3 DEF GenerationsOK
  <2>5. QED
    BY <1>2, <1>5, <2>2, <2>3, <2>4
<1>6. CASE outcome \notin {"clean", "finalizer"}
  <2>1. UNCHANGED <<holds, refs, settled>>
    BY <1>6 DEF Ends
  <2>2. \A d \in Digests : refs'[d] = Cardinality(Holders(d)')
    BY <2>1 DEF Holders
  <2>3. GenerationsOK'
    BY <1>1, <1>3, <1>4, <2>1 DEF GenerationsOK
  <2>4. QED
    BY <1>2, <1>6, <2>1, <2>2, <2>3
<1>7. QED
  BY <1>5, <1>6

\* A generation that had not come to its end before comes to one, or fails to.
Closes(g, outcome) ==
    /\ g \in Generations /\ settled[g] = "no" /\ Ends(g, outcome) /\ UNCHANGED config
    /\ consumer' = HubRetire(consumer, g)
    /\ scheduler' = HubRetire(scheduler, g) /\ scheduling' = scheduling \ {g}
    /\ admitted' \in {admitted, admitted \ {g}} /\ (outcome # "timeout" => g \notin admitted')
    /\ routed' \in [Addresses -> OrNoGeneration] /\ managed' \in OrNoGeneration
    /\ \A a \in Addresses : routed'[a] \in {routed[a], NoGeneration}

\* A generation that has come to its end, or none, changes nothing.
Settled(g) ==
    /\ g # NoGeneration => settled[g] # "no"
    /\ UNCHANGED <<generationVars, hubVars>>

LEMMA StopOneFacts ==
    ASSUME GenerationTypeOK, NEW here, NEW g \in OrNoGeneration, NEW outcome, NEW next,
           StopOne(here, g, outcome, next)
    PROVE  /\ pc = here /\ pc' = next
           /\ failed' \in BOOLEAN /\ (failed' <=> failed \/ outcome # "clean")
           /\ UNCHANGED <<lifecycle, ready, cleanupRequired, current, retiring, candidate,
                          halfCommitted>>
           /\ Settled(g) \/ Closes(g, outcome)
<1>1. /\ pc = here /\ pc' = next /\ failed' = (failed \/ outcome # "clean")
      /\ UNCHANGED <<lifecycle, ready, cleanupRequired, current, retiring, candidate, halfCommitted>>
  BY DEF StopOne, Goto
<1>2. CASE g = NoGeneration
  BY <1>1, <1>2 DEF StopOne, Settled
<1>3. CASE g # NoGeneration /\ settled[g] # "no"
  BY <1>1, <1>3 DEF StopOne, Terminate, Settled
<1>4. CASE g # NoGeneration /\ settled[g] = "no"
  <2>1. g \in Generations
    BY <1>4 DEF OrNoGeneration
  <2>2. /\ Ends(g, outcome) /\ UNCHANGED config
        /\ consumer' = HubRetire(consumer, g)
        /\ scheduler' = HubRetire(scheduler, g) /\ scheduling' = scheduling \ {g}
        /\ admitted' \in IF outcome = "timeout" THEN {admitted, admitted \ {g}} ELSE {admitted \ {g}}
        /\ \/ /\ routed' = [a \in Addresses |-> IF routed[a] = g THEN NoGeneration ELSE routed[a]]
              /\ managed' = IF managed = g THEN NoGeneration ELSE managed
           \/ UNCHANGED <<routed, managed>>
    BY <1>4 DEF StopOne, Terminate
  <2>3. /\ routed \in [Addresses -> OrNoGeneration] /\ managed \in OrNoGeneration
        /\ NoGeneration \in OrNoGeneration
    BY DEF GenerationTypeOK, OrNoGeneration
  <2>4. /\ routed' \in [Addresses -> OrNoGeneration] /\ managed' \in OrNoGeneration
        /\ \A a \in Addresses : routed'[a] \in {routed[a], NoGeneration}
    BY <2>2, <2>3
  <2>5. Closes(g, outcome)
    BY <1>4, <2>1, <2>2, <2>4 DEF Closes
  <2>6. QED
    BY <1>1, <2>5
<1>5. QED
  BY <1>2, <1>3, <1>4

LEMMA RetireFacts ==
    ASSUME GenerationTypeOK, CourseInv, NEW outcome \in Outcomes, Retire(outcome)
    PROVE  /\ pc = "retire" /\ pc' = "idle" /\ lifecycle = "running" /\ retiring # NoGeneration
           /\ IF outcome = "clean"
              THEN retiring' = NoGeneration /\ UNCHANGED <<lifecycle, ready, cleanupRequired>>
              ELSE /\ retiring' = retiring /\ lifecycle' = "degraded" /\ ready' = FALSE
                   /\ cleanupRequired' = TRUE
           /\ UNCHANGED <<current, candidate, failed, halfCommitted, routed, managed>>
           /\ Settled(retiring) \/ Closes(retiring, outcome)
<1>1. /\ pc = "retire" /\ pc' = "idle" /\ lifecycle = "running" /\ retiring # NoGeneration
      /\ UNCHANGED <<current, candidate, failed, halfCommitted>>
      /\ Terminate(retiring, outcome, FALSE)
  BY DEF Retire, Goto, CourseInv
<1>2. IF outcome = "clean"
      THEN retiring' = NoGeneration /\ UNCHANGED <<lifecycle, ready, cleanupRequired>>
      ELSE /\ retiring' = retiring /\ lifecycle' = "degraded" /\ ready' = FALSE
           /\ cleanupRequired' = TRUE
  BY DEF Retire, Diagnose
<1>3. CASE settled[retiring] # "no"
  <2>1. UNCHANGED <<generationVars, hubVars>>
    BY <1>1, <1>3 DEF Terminate
  <2>2. UNCHANGED <<routed, managed>>
    BY <2>1 DEF hubVars
  <2>3. QED
    BY <1>1, <1>2, <1>3, <2>1, <2>2 DEF Settled
<1>4. CASE settled[retiring] = "no"
  <2>1. /\ Ends(retiring, outcome) /\ UNCHANGED <<config, routed, managed>>
        /\ consumer' = HubRetire(consumer, retiring)
        /\ scheduler' = HubRetire(scheduler, retiring) /\ scheduling' = scheduling \ {retiring}
        /\ admitted' \in IF outcome = "timeout" THEN {admitted, admitted \ {retiring}}
                         ELSE {admitted \ {retiring}}
    BY <1>1, <1>4 DEF Terminate
  <2>2. routed \in [Addresses -> OrNoGeneration] /\ managed \in OrNoGeneration
    BY DEF GenerationTypeOK
  <2>3. retiring \in Generations
    BY <1>1 DEF GenerationTypeOK, OrNoGeneration
  <2>4. Closes(retiring, outcome)
    BY <1>4, <2>1, <2>2, <2>3 DEF Closes
  <2>5. QED
    BY <1>1, <1>2, <2>1, <2>4
<1>5. QED
  BY <1>3, <1>4

\* A candidate that is aborted comes to its end.
LEMMA AbortFacts ==
    ASSUME GenerationTypeOK, CourseInv, HoldersInv, Abort
    PROVE  /\ pc = "abort" /\ pc' = "idle" /\ candidate \in Generations /\ candidate' = NoGeneration
           /\ lifecycle' = IF lifecycle = "starting" THEN "failed" ELSE "running"
           /\ ready' = (lifecycle # "starting") /\ UNCHANGED cleanupRequired
           /\ UNCHANGED <<current, retiring, failed, config, routed, managed, halfCommitted>>
           /\ consumer' = HubRetire(consumer, candidate) /\ admitted' = admitted \ {candidate}
           /\ scheduler' = HubRetire(scheduler, candidate) /\ scheduling' = scheduling \ {candidate}
           /\ GenerationsOK'
           /\ \A g \in Generations \ {candidate} :
                server'[g] = server[g] /\ holds'[g] = holds[g] /\ settled'[g] = settled[g]
           /\ ~holds'[candidate] /\ settled'[candidate] = "clean"
           /\ \/ server'[candidate] = "down"
              \/ routed[Address(candidate)] = candidate /\ server'[candidate] = server[candidate]
           /\ \A d \in Digests : refs'[d] = Cardinality(Holders(d)')
<1>0. GenerationsOK
  BY TypeFacts
<1>1. pc = "abort" /\ candidate \in Generations
  BY DEF Abort, CourseInv, Preparing, GenerationTypeOK, OrNoGeneration
<1>2. /\ pc' = "idle" /\ candidate' = NoGeneration
      /\ lifecycle' = IF lifecycle = "starting" THEN "failed" ELSE "running"
      /\ ready' = (lifecycle # "starting") /\ UNCHANGED cleanupRequired
  BY DEF Abort, AbortRest, GivenUp, Goto, Diagnose
<1>3. /\ UNCHANGED <<current, retiring, failed, config, stuck, participantFailed, routed, managed,
                     halfCommitted>>
      /\ consumer' = HubRetire(consumer, candidate) /\ admitted' = admitted \ {candidate}
      /\ scheduler' = HubRetire(scheduler, candidate) /\ scheduling' = scheduling \ {candidate}
      /\ ReleaseResources(candidate) /\ settled' = [settled EXCEPT ![candidate] = "clean"]
  BY DEF Abort, AbortRest
<1>4. /\ holds' \in [Generations -> BOOLEAN] /\ refs' \in [Digests -> Int]
      /\ ~holds'[candidate]
      /\ \A h \in Generations \ {candidate} : holds'[h] = holds[h]
      /\ \A d \in Digests : refs'[d] = Cardinality(Holders(d)')
  BY <1>0, <1>1, <1>3, ReleaseFacts DEF HoldersInv
<1>5. /\ settled' \in [Generations -> Ended] /\ settled'[candidate] = "clean"
      /\ \A h \in Generations \ {candidate} : settled'[h] = settled[h]
  BY <1>0, <1>1, <1>3 DEF GenerationsOK, Ended
<1>6. /\ server' \in [Generations -> ServerStates]
      /\ \/ server'[candidate] = "down"
         \/ routed[Address(candidate)] = candidate /\ server'[candidate] = server[candidate]
      /\ \A h \in Generations \ {candidate} : server'[h] = server[h]
  BY <1>0, <1>1 DEF Abort, GenerationsOK, ServerStates
<1>7. GenerationsOK'
  BY <1>0, <1>3, <1>4, <1>5, <1>6 DEF GenerationsOK
<1>8. QED
  BY <1>1, <1>2, <1>3, <1>4, <1>5, <1>6, <1>7

\* A candidate has the number after those that were used, and nothing yet.
LEMMA LoadFacts ==
    ASSUME GenerationTypeOK, CourseInv, NumbersInv, HoldersInv, NEW c \in Configs, Load(c)
    PROVE  /\ pc = "load" /\ pc' = "acquire" /\ candidate = NoGeneration
           /\ candidate' \in Generations /\ config' = [config EXCEPT ![candidate'] = c]
           /\ server[candidate'] = "none" /\ settled[candidate'] = "no" /\ ~holds[candidate']
           /\ \E n \in 0..MaxGenerations :
                {g \in Generations : Used(g)} = 1..n /\ candidate' = n + 1
           /\ candidate' # current /\ candidate' # retiring
           /\ UNCHANGED <<lifecycle, ready, cleanupRequired, current, retiring, failed, server, holds,
                          settled, stuck, participantFailed, refs, hubVars, halfCommitted>>
<1>1. /\ pc = "load" /\ pc' = "acquire" /\ NextGeneration \in Generations
      /\ candidate' = NextGeneration /\ config' = [config EXCEPT ![candidate'] = c]
      /\ UNCHANGED <<lifecycle, ready, cleanupRequired, current, retiring, failed, server, holds,
                     settled, stuck, participantFailed, refs, hubVars, halfCommitted>>
  BY DEF Load, Goto
<1>2. candidate = NoGeneration
  BY <1>1 DEF CourseInv, Preparing, Committed
<1>3. PICK n \in 0..MaxGenerations : {g \in Generations : Used(g)} = 1..n
  BY DEF NumbersInv
<1>4. candidate' = n + 1
  <2>1. n \in Nat
    BY GenerationAssumption, <1>3
  <2>2. Cardinality(1..n) = n
    BY <2>1, FS_Interval
  <2>3. {g \in Generations : server[g] # "none" \/ settled[g] # "no"} = 1..n
    BY <1>3 DEF Used
  <2>4. QED
    BY <1>1, <2>2, <2>3 DEF NextGeneration
<1>5. candidate' \notin 1..n
  BY <1>3, <1>4, GenerationAssumption
<1>6. server[candidate'] = "none" /\ settled[candidate'] = "no"
  BY <1>1, <1>3, <1>5 DEF Used
<1>7. candidate' # current /\ candidate' # retiring
  BY <1>1, <1>6, GenerationAssumption DEF NumbersInv, Generations, NoGeneration
<1>8. ~holds[candidate']
  BY <1>1, <1>2, <1>7, GenerationAssumption DEF HoldersInv, Generations, NoGeneration
<1>9. QED
  BY <1>1, <1>2, <1>3, <1>4, <1>6, <1>7, <1>8

-----------------------------------------------------------------------------
(* The parts of the invariant are kept.                                    *)

LEMMA CourseStep ==
    ASSUME GenerationTypeOK, CourseInv, NumbersInv, HoldersInv, GenerationNext
    PROVE  CourseInv'
<1> USE DEF Committed, Preparing, Stopping, Forcing
<1>0. NoGeneration \notin Generations /\ GenerationsOK
  BY TypeFacts DEF NoGeneration
<1>1. CASE BeginStart
  BY <1>1 DEF BeginStart, Goto, Diagnose, generationVars, CourseInv
<1>2. CASE BeginReload
  BY <1>2 DEF BeginReload, Goto, Diagnose, generationVars, CourseInv
<1>3. CASE NotLoaded
  BY <1>3 DEF NotLoaded, GivenUp, Goto, Diagnose, generationVars, CourseInv
<1>4. ASSUME NEW c \in Configs, Load(c) PROVE CourseInv'
  BY <1>0, <1>4, LoadFacts DEF CourseInv
<1>5. CASE Acquire
  BY <1>5 DEF Acquire, Goto, CourseInv
<1>6. CASE Bind
  BY <1>6 DEF Bind, Goto, CourseInv
<1>7. CASE BindManagement
  BY <1>7 DEF BindManagement, Goto, generationVars, CourseInv
<1>8. CASE PrepareFails
  BY <1>8 DEF PrepareFails, Goto, generationVars, CourseInv
<1>9. CASE CommitRoute
  BY <1>9 DEF CommitRoute, Goto, commitRest, generationVars, CourseInv
<1>10. CASE CommitManagement
  BY <1>10 DEF CommitManagement, Goto, commitRest, generationVars, CourseInv
<1>11. CASE DeactivatePrevious
  BY <1>11 DEF DeactivatePrevious, Goto, commitRest, generationVars, CourseInv
<1>12. CASE ActivateCandidate
  BY <1>12 DEF ActivateCandidate, Goto, commitRest, generationVars, CourseInv
<1>13. CASE ConsumersFail
  BY <1>13 DEF ConsumersFail, Goto, commitRest, generationVars, CourseInv
<1>14. CASE CommitSchedule
  BY <1>14 DEF CommitSchedule, Goto, commitRest, generationVars, CourseInv
<1>15. CASE PublishCandidate
  BY <1>15 DEF PublishCandidate, Goto, Diagnose, generationVars, CourseInv, NumbersInv
<1>16. CASE Abort
  <2>1. current # NoGeneration => current \in Generations /\ current # candidate
    BY <1>16, AbortFacts DEF NumbersInv, GenerationTypeOK, OrNoGeneration
  <2>2. QED
    BY <1>16, <2>1, AbortFacts DEF CourseInv
<1>17. CASE BeginStop
  BY <1>17 DEF BeginStop, Goto, Diagnose, generationVars, CourseInv
<1>18. CASE BeginForceStop
  BY <1>18 DEF BeginForceStop, Goto, Diagnose, generationVars, CourseInv
<1>19. ASSUME NEW outcome \in Outcomes, Retire(outcome) PROVE CourseInv'
  <2>1. current \in Generations /\ current # retiring /\ settled[current] = "no"
    BY <1>19, RetireFacts DEF CourseInv, NumbersInv, GenerationTypeOK, OrNoGeneration
  <2>2. settled'[current] = settled[current]
    <3>1. CASE Settled(retiring)
      BY <3>1 DEF Settled, generationVars
    <3>2. CASE Closes(retiring, outcome)
      BY <1>0, <2>1, <3>2, EndsFacts DEF Closes, HoldersInv
    <3>3. QED
      BY <1>19, <3>1, <3>2, RetireFacts
  <2>3. QED
    BY <1>19, <2>1, <2>2, RetireFacts DEF CourseInv
<1>20. ASSUME NEW outcome \in Outcomes,
              \/ StopOne("stopCurrent", current, outcome, "stopRetiring")
              \/ StopOne("stopRetiring", retiring, outcome, "stopFactory")
              \/ StopOne("forceCurrent", current, outcome, "forceRetiring")
              \/ StopOne("forceRetiring", retiring, outcome, "forceFactory")
       PROVE  CourseInv'
  <2>1. current \in OrNoGeneration /\ retiring \in OrNoGeneration
    BY DEF GenerationTypeOK
  <2>2. /\ \/ pc = "stopCurrent" /\ pc' = "stopRetiring"
           \/ pc = "stopRetiring" /\ pc' = "stopFactory"
           \/ pc = "forceCurrent" /\ pc' = "forceRetiring"
           \/ pc = "forceRetiring" /\ pc' = "forceFactory"
        /\ UNCHANGED <<lifecycle, current, retiring, candidate>>
    BY <1>20, <2>1, StopOneFacts
  <2>3. QED
    BY <2>2 DEF CourseInv
<1>21. CASE StopFactory
  BY <1>21 DEF StopFactory, Goto, Diagnose, generationVars, CourseInv
<1>22. QED
  BY <1>1, <1>2, <1>3, <1>4, <1>5, <1>6, <1>7, <1>8, <1>9, <1>10, <1>11, <1>12, <1>13, <1>14, <1>15, <1>16, <1>17, <1>18, <1>19, <1>20, <1>21 DEF GenerationNext

\* The steps of a Stop, as far as all of them go.
StopsOne(g, outcome) ==
    /\ g \in {current, retiring}
    /\ \/ pc = "stopCurrent" /\ pc' = "stopRetiring" /\ g = current
       \/ pc = "stopRetiring" /\ pc' = "stopFactory" /\ g = retiring
       \/ pc = "forceCurrent" /\ pc' = "forceRetiring" /\ g = current
       \/ pc = "forceRetiring" /\ pc' = "forceFactory" /\ g = retiring
    /\ failed' \in BOOLEAN /\ (failed' <=> failed \/ outcome # "clean")
    /\ UNCHANGED <<lifecycle, ready, cleanupRequired, current, retiring, candidate, halfCommitted>>
    /\ Settled(g) \/ Closes(g, outcome)

LEMMA StopsOneFacts ==
    ASSUME GenerationTypeOK, NEW outcome \in Outcomes,
           \/ StopOne("stopCurrent", current, outcome, "stopRetiring")
           \/ StopOne("stopRetiring", retiring, outcome, "stopFactory")
           \/ StopOne("forceCurrent", current, outcome, "forceRetiring")
           \/ StopOne("forceRetiring", retiring, outcome, "forceFactory")
    PROVE  StopsOne(current, outcome) \/ StopsOne(retiring, outcome)
<1>0. current \in OrNoGeneration /\ retiring \in OrNoGeneration
  BY DEF GenerationTypeOK
<1>1. CASE StopOne("stopCurrent", current, outcome, "stopRetiring")
  BY <1>0, <1>1, StopOneFacts DEF StopsOne
<1>2. CASE StopOne("stopRetiring", retiring, outcome, "stopFactory")
  BY <1>0, <1>2, StopOneFacts DEF StopsOne
<1>3. CASE StopOne("forceCurrent", current, outcome, "forceRetiring")
  BY <1>0, <1>3, StopOneFacts DEF StopsOne
<1>4. CASE StopOne("forceRetiring", retiring, outcome, "forceFactory")
  BY <1>0, <1>4, StopOneFacts DEF StopsOne
<1>5. QED
  BY <1>1, <1>2, <1>3, <1>4

\* A generation that closes keeps the others as they are.
LEMMA ClosesFacts ==
    ASSUME GenerationTypeOK, HoldersInv, NEW g, NEW outcome \in Outcomes, Closes(g, outcome)
    PROVE  /\ GenerationsOK' /\ UNCHANGED config
           /\ \A h \in Generations \ {g} :
                server'[h] = server[h] /\ holds'[h] = holds[h] /\ settled'[h] = settled[h]
           /\ server'[g] = IF outcome = "timeout" THEN server[g] ELSE "down"
           /\ IF outcome \in {"clean", "finalizer"}
              THEN ~holds'[g] /\ settled'[g] = IF outcome = "clean" THEN "clean" ELSE "error"
              ELSE UNCHANGED <<holds, refs, settled>>
           /\ \A d \in Digests : refs'[d] = Cardinality(Holders(d)')
BY TypeFacts, EndsFacts DEF Closes, HoldersInv

LEMMA HoldersStep ==
    ASSUME GenerationTypeOK, CourseInv, NumbersInv, HoldersInv, StageInv, GenerationNext
    PROVE  GenerationsOK' /\ HoldersInv'
<1> USE DEF Committed, Preparing, Stopping, Forcing
<1>0. /\ NoGeneration \notin Generations /\ GenerationsOK
      /\ \A g \in Generations : config[g][1] \in Digests
  BY TypeFacts DEF NoGeneration
<1>1. ASSUME UNCHANGED generationVars
      PROVE  GenerationsOK' /\ \A d \in Digests : refs'[d] = Cardinality(Holders(d)')
  <2>1. GenerationsOK'
    BY <1>0, <1>1 DEF GenerationsOK, generationVars
  <2>2. \A d \in Digests : Holders(d)' = Holders(d) /\ refs'[d] = refs[d]
    BY <1>1 DEF Holders, generationVars
  <2>3. QED
    BY <2>1, <2>2 DEF HoldersInv
<1>2. ASSUME UNCHANGED <<generationVars, current, retiring, candidate>>
      PROVE  GenerationsOK' /\ HoldersInv'
  <2>1. GenerationsOK' /\ \A d \in Digests : refs'[d] = Cardinality(Holders(d)')
    BY <1>1, <1>2
  <2>2. QED
    BY <1>2, <2>1 DEF HoldersInv, generationVars
<1>3. CASE BeginStart \/ BeginReload \/ BindManagement \/ PrepareFails \/ BeginStop \/ BeginForceStop
  <2>1. UNCHANGED <<generationVars, current, retiring, candidate>>
    BY <1>3 DEF BeginStart, BeginReload, BindManagement, PrepareFails, BeginStop, BeginForceStop
  <2>2. QED
    BY <1>2, <2>1
<1>4. CASE \/ CommitRoute \/ CommitManagement \/ DeactivatePrevious \/ ActivateCandidate
           \/ ConsumersFail \/ CommitSchedule
  <2>1. UNCHANGED <<generationVars, current, retiring, candidate>>
    BY <1>4 DEF CommitRoute, CommitManagement, DeactivatePrevious, ActivateCandidate, ConsumersFail,
                CommitSchedule, commitRest
  <2>2. QED
    BY <1>2, <2>1
<1>5. CASE NotLoaded
  <2>1. UNCHANGED <<generationVars, current, retiring>> /\ candidate' = NoGeneration
        /\ candidate = NoGeneration
    BY <1>5 DEF NotLoaded, GivenUp, CourseInv
  <2>2. QED
    BY <1>2, <2>1
<1>6. ASSUME NEW c \in Configs, Load(c) PROVE GenerationsOK' /\ HoldersInv'
  <2>1. /\ candidate' \in Generations /\ config' = [config EXCEPT ![candidate'] = c]
        /\ ~holds[candidate'] /\ candidate = NoGeneration
        /\ UNCHANGED <<current, retiring, server, holds, settled, stuck, participantFailed, refs>>
    BY <1>6, LoadFacts
  <2>2. config' \in [Generations -> Configs]
        /\ \A g \in Generations \ {candidate'} : config'[g] = config[g]
    BY <1>0, <2>1 DEF GenerationsOK
  <2>3. \A d \in Digests : Holders(d)' = Holders(d)
    BY <2>1, <2>2 DEF Holders
  <2>4. GenerationsOK'
    BY <1>0, <2>1, <2>2 DEF GenerationsOK
  <2>5. \A d \in Digests : refs'[d] = Cardinality(Holders(d)')
    BY <2>1, <2>3 DEF HoldersInv
  <2>6. QED
    BY <1>0, <2>1, <2>4, <2>5 DEF HoldersInv
<1>7. CASE Acquire
  <2>1. /\ holds' = [holds EXCEPT ![candidate] = TRUE] /\ ~holds[candidate]
        /\ refs' = [refs EXCEPT ![config[candidate][1]] = @ + 1]
        /\ candidate \in Generations /\ settled[candidate] = "no"
        /\ UNCHANGED <<current, retiring, candidate, config, server, settled, stuck, participantFailed>>
    BY <1>7 DEF Acquire, StageInv, CourseInv, NumbersInv, GenerationTypeOK, OrNoGeneration
  <2>2. /\ holds' \in [Generations -> BOOLEAN] /\ holds'[candidate]
        /\ \A g \in Generations \ {candidate} : holds'[g] = holds[g]
    BY <1>0, <2>1 DEF GenerationsOK
  <2>3. config[candidate][1] \in Digests
    BY <1>0, <2>1
  <2>4. /\ refs' \in [Digests -> Int]
        /\ \A d \in Digests : refs'[d] = IF d = config[candidate][1] THEN refs[d] + 1 ELSE refs[d]
    BY <1>0, <2>1, <2>3 DEF GenerationsOK
  <2>5. GenerationsOK'
    BY <1>0, <2>1, <2>2, <2>4 DEF GenerationsOK
  <2>6. ASSUME NEW d \in Digests PROVE refs'[d] = Cardinality(Holders(d)')
    <3>1. CASE d # config[candidate][1]
      <4>1. Holders(d)' = Holders(d)
        BY <2>1, <2>2, <3>1 DEF Holders
      <4>2. QED
        BY <2>4, <3>1, <4>1 DEF HoldersInv
    <3>2. CASE d = config[candidate][1]
      <4>1. Holders(d)' = Holders(d) \cup {candidate} /\ candidate \notin Holders(d)
        BY <2>1, <2>2, <3>2 DEF Holders
      <4>2. IsFiniteSet(Holders(d))
        BY FiniteGenerations DEF Holders
      <4>3. Cardinality(Holders(d) \cup {candidate}) = Cardinality(Holders(d)) + 1
        BY <4>1, <4>2, FS_AddElement
      <4>4. refs[d] = Cardinality(Holders(d)) /\ refs'[d] = refs[d] + 1
        BY <2>4, <3>2 DEF HoldersInv
      <4>5. QED
        BY <4>1, <4>3, <4>4
    <3>3. QED
      BY <3>1, <3>2
  <2>7. \A g \in Generations : holds'[g] => g \in {current, retiring, candidate} /\ settled[g] = "no"
    BY <2>1, <2>2 DEF HoldersInv
  <2>8. QED
    BY <2>1, <2>5, <2>6, <2>7 DEF HoldersInv
<1>8. CASE Bind
  <2>1. /\ server' = [server EXCEPT ![candidate] = "up"]
        /\ UNCHANGED <<current, retiring, candidate, config, holds, settled, stuck, participantFailed, refs>>
    BY <1>8 DEF Bind
  <2>2. GenerationsOK'
    BY <1>0, <2>1 DEF GenerationsOK, ServerStates
  <2>3. \A d \in Digests : Holders(d)' = Holders(d)
    BY <2>1 DEF Holders
  <2>4. QED
    BY <2>1, <2>2, <2>3 DEF HoldersInv
<1>9. CASE PublishCandidate
  <2>1. /\ UNCHANGED generationVars /\ retiring = NoGeneration
        /\ current' = candidate /\ retiring' = current /\ candidate' = NoGeneration
    BY <1>9 DEF PublishCandidate, CourseInv
  <2>2. GenerationsOK' /\ \A d \in Digests : refs'[d] = Cardinality(Holders(d)')
    BY <1>1, <2>1
  <2>3. QED
    BY <1>0, <2>1, <2>2 DEF HoldersInv, generationVars
<1>10. CASE Abort
  <2>1. /\ candidate \in Generations /\ UNCHANGED <<current, retiring>> /\ candidate' = NoGeneration
        /\ GenerationsOK' /\ ~holds'[candidate]
        /\ \A g \in Generations \ {candidate} : holds'[g] = holds[g] /\ settled'[g] = settled[g]
        /\ \A d \in Digests : refs'[d] = Cardinality(Holders(d)')
    BY <1>10, AbortFacts
  <2>2. QED
    BY <2>1 DEF HoldersInv
<1>11. ASSUME NEW g, NEW outcome \in Outcomes, Closes(g, outcome)
       PROVE  /\ GenerationsOK' /\ \A d \in Digests : refs'[d] = Cardinality(Holders(d)')
              /\ \A h \in Generations : holds'[h] =>
                    h \in {current, retiring, candidate} /\ settled'[h] = "no" /\ holds[h]
              /\ outcome = "clean" => ~holds'[g]
  BY <1>11, ClosesFacts DEF HoldersInv
<1>12. ASSUME NEW outcome \in Outcomes, Retire(outcome) PROVE GenerationsOK' /\ HoldersInv'
  <2>1. CASE Settled(retiring)
    <3>1. UNCHANGED generationVars /\ retiring \in Generations /\ ~holds[retiring]
      BY <1>12, <2>1, RetireFacts DEF Settled, HoldersInv, GenerationTypeOK, OrNoGeneration
    <3>2. GenerationsOK' /\ \A d \in Digests : refs'[d] = Cardinality(Holders(d)')
      BY <1>1, <3>1
    <3>3. UNCHANGED <<current, candidate, holds, settled>>
      BY <1>12, <3>1, RetireFacts DEF generationVars
    <3>4. QED
      BY <1>12, <3>1, <3>2, <3>3, RetireFacts DEF HoldersInv
  <2>2. CASE Closes(retiring, outcome)
    <3>1. /\ UNCHANGED <<current, candidate>> /\ retiring' \in {retiring, NoGeneration}
          /\ outcome # "clean" => retiring' = retiring
      BY <1>12, RetireFacts
    <3>2. QED
      BY <1>11, <2>2, <3>1 DEF HoldersInv
  <2>3. QED
    BY <1>12, <2>1, <2>2, RetireFacts
<1>13. ASSUME NEW outcome \in Outcomes, NEW g, StopsOne(g, outcome) PROVE GenerationsOK' /\ HoldersInv'
  <2>1. UNCHANGED <<current, retiring, candidate>>
    BY <1>13 DEF StopsOne
  <2>2. CASE Settled(g)
    BY <1>2, <2>1, <2>2 DEF Settled
  <2>3. CASE Closes(g, outcome)
    BY <1>11, <2>1, <2>3 DEF HoldersInv
  <2>4. QED
    BY <1>13, <2>2, <2>3 DEF StopsOne
<1>14. CASE StopFactory
  <2>1. UNCHANGED <<generationVars, candidate>>
    BY <1>14 DEF StopFactory
  <2>2. GenerationsOK' /\ \A d \in Digests : refs'[d] = Cardinality(Holders(d)')
    BY <1>1, <2>1
  <2>3. CASE failed \/ \E d \in Digests : refs[d] > 0
    <3>1. UNCHANGED <<current, retiring>>
      BY <1>14, <2>3 DEF StopFactory
    <3>2. QED
      BY <1>2, <2>1, <3>1
  <2>4. CASE ~(\E d \in Digests : refs[d] > 0)
    <3>1. ASSUME NEW g \in Generations PROVE ~holds[g]
      <4>1. config[g][1] \in Digests
        BY <1>0
      <4>2. /\ IsFiniteSet(Holders(config[g][1]))
            /\ refs[config[g][1]] = Cardinality(Holders(config[g][1]))
        BY <4>1, FiniteGenerations DEF Holders, HoldersInv
      <4>3. Cardinality(Holders(config[g][1])) \in Nat
        BY <4>2, FS_CardinalityType
      <4>4. Cardinality(Holders(config[g][1])) = 0
        BY <2>4, <4>1, <4>2, <4>3
      <4>5. Holders(config[g][1]) = {}
        BY <4>2, <4>4, FS_EmptySet
      <4>6. QED
        BY <4>5 DEF Holders
    <3>2. QED
      BY <2>1, <2>2, <3>1 DEF HoldersInv, generationVars
  <2>5. QED
    BY <2>3, <2>4
<1>15. QED
  BY <1>3, <1>4, <1>5, <1>6, <1>7, <1>8, <1>9, <1>10, <1>12, <1>13, <1>14, StopsOneFacts DEF GenerationNext

LEMMA NumbersStep ==
    ASSUME GenerationTypeOK, CourseInv, NumbersInv, HoldersInv, StageInv, GenerationNext
    PROVE  NumbersInv'
<1> USE DEF Committed, Preparing, Stopping, Forcing
<1>0. /\ NoGeneration \notin Generations /\ GenerationsOK
      /\ current \in OrNoGeneration /\ retiring \in OrNoGeneration /\ candidate \in OrNoGeneration
      /\ routed \in [Addresses -> OrNoGeneration]
      /\ \A g \in Generations : config[g][2] \in Addresses
  BY TypeFacts DEF NoGeneration, GenerationTypeOK
<1>1. PICK n \in 0..MaxGenerations :
          /\ {g \in Generations : Used(g)} = 1..n
          /\ candidate # NoGeneration /\ ~Used(candidate) => candidate = n + 1
  BY DEF NumbersInv
<1>2. ASSUME UNCHANGED <<generationVars, current, retiring, candidate>>,
             \A a \in Addresses : routed'[a] \in {routed[a], NoGeneration, candidate, current},
             candidate = NoGeneration \/ server[candidate] # "none"
               \/ \A a \in Addresses : routed'[a] = candidate => routed[a] = candidate
      PROVE  NumbersInv'
  <2>1. {g \in Generations : Used(g)}' = {g \in Generations : Used(g)}
    BY <1>2 DEF Used, generationVars
  <2>2. candidate' # NoGeneration /\ ~Used(candidate)' => candidate' = n + 1
    BY <1>1, <1>2 DEF Used, generationVars
  <2>3. \A a \in Addresses : routed'[a] # NoGeneration => server'[routed'[a]] # "none"
    BY <1>2 DEF NumbersInv, generationVars
  <2>4. QED
    BY <1>1, <1>2, <2>1, <2>2, <2>3 DEF NumbersInv, generationVars
<1>3. CASE BeginStart \/ BeginReload \/ BindManagement \/ PrepareFails \/ BeginStop \/ BeginForceStop
  <2>1. UNCHANGED <<generationVars, current, retiring, candidate, routed>>
    BY <1>3 DEF BeginStart, BeginReload, BindManagement, PrepareFails, BeginStop, BeginForceStop, hubVars
  <2>2. QED
    BY <1>2, <2>1
<1>4. CASE \/ CommitManagement \/ DeactivatePrevious \/ ActivateCandidate
           \/ ConsumersFail \/ CommitSchedule
  <2>1. UNCHANGED <<generationVars, current, retiring, candidate, routed>>
    BY <1>4 DEF CommitManagement, DeactivatePrevious, ActivateCandidate, ConsumersFail,
                CommitSchedule, commitRest
  <2>2. QED
    BY <1>2, <2>1
<1>5. CASE CommitRoute
  <2>1. /\ UNCHANGED <<generationVars, current, retiring, candidate>>
        /\ server[candidate] = "up"
    BY <1>5 DEF CommitRoute, commitRest, StageInv
  <2>2. \A a \in Addresses : routed'[a] \in {routed[a], NoGeneration, candidate, current}
    BY <1>5 DEF CommitRoute
  <2>3. QED
    BY <1>2, <2>1, <2>2
<1>6. CASE NotLoaded
  <2>1. /\ UNCHANGED <<generationVars, current, retiring, routed>>
        /\ candidate' = NoGeneration /\ candidate = NoGeneration
    BY <1>6 DEF NotLoaded, GivenUp, CourseInv, hubVars
  <2>2. QED
    BY <1>2, <2>1
<1>7. ASSUME NEW c \in Configs, Load(c) PROVE NumbersInv'
  <2>1. /\ candidate' \in Generations /\ server[candidate'] = "none" /\ settled[candidate'] = "no"
        /\ candidate' # current /\ candidate' # retiring
        /\ UNCHANGED <<current, retiring, server, settled, routed>>
    BY <1>7, LoadFacts DEF hubVars
  <2>2. PICK m \in 0..MaxGenerations : {g \in Generations : Used(g)} = 1..m /\ candidate' = m + 1
    BY <1>7, LoadFacts
  <2>3. {g \in Generations : Used(g)}' = {g \in Generations : Used(g)}
    BY <2>1 DEF Used
  <2>4. QED
    BY <2>1, <2>2, <2>3 DEF NumbersInv
<1>8. CASE Acquire
  <2>1. UNCHANGED <<current, retiring, candidate, server, settled, routed>>
    BY <1>8 DEF Acquire, hubVars
  <2>2. {g \in Generations : Used(g)}' = {g \in Generations : Used(g)} /\ (Used(candidate)' <=> Used(candidate))
    BY <2>1 DEF Used
  <2>3. QED
    BY <1>1, <2>1, <2>2 DEF NumbersInv
\* One more generation is used.
<1>9. ASSUME NEW c \in Generations, c = candidate, Used(c)',
             \A g \in Generations \ {c} : (Used(g)' <=> Used(g))
      PROVE  \E m \in 0..MaxGenerations : {g \in Generations : Used(g)}' = 1..m
  <2>1. {g \in Generations : Used(g)}' = {g \in Generations : Used(g)} \cup {c}
    BY <1>9 DEF Used
  <2>2. CASE Used(c)
    <3>1. {g \in Generations : Used(g)}' = 1..n
      BY <1>1, <1>9, <2>1, <2>2
    <3>2. QED
      BY <3>1
  <2>3. CASE ~Used(c)
    <3>1. c = n + 1 /\ n + 1 \in 0..MaxGenerations
      BY <1>0, <1>1, <1>9, <2>3, GenerationAssumption DEF Generations
    <3>2. (1..n) \cup {n + 1} = 1..(n + 1)
      BY <1>1, GenerationAssumption
    <3>3. {g \in Generations : Used(g)}' = 1..(n + 1)
      BY <1>1, <2>1, <3>1, <3>2
    <3>4. QED
      BY <3>1, <3>3
  <2>4. QED
    BY <2>2, <2>3
<1>10. CASE Bind
  <2>1. /\ server' = [server EXCEPT ![candidate] = "up"] /\ candidate \in Generations
        /\ UNCHANGED <<current, retiring, candidate, settled, routed>>
    BY <1>0, <1>10 DEF Bind, hubVars, CourseInv, OrNoGeneration
  <2>2. server'[candidate] = "up" /\ \A g \in Generations \ {candidate} : server'[g] = server[g]
    BY <1>0, <2>1 DEF GenerationsOK
  <2>3. /\ server'[candidate] # "none"
        /\ \A g \in Generations : server[g] # "none" => server'[g] # "none"
    BY <2>2
  <2>4. Used(candidate)' /\ \A g \in Generations \ {candidate} : (Used(g)' <=> Used(g))
    BY <2>1, <2>2 DEF Used
  <2>5. \E m \in 0..MaxGenerations : {g \in Generations : Used(g)}' = 1..m
    BY <1>9, <2>1, <2>4
  <2>6. \A a \in Addresses : routed'[a] # NoGeneration => server'[routed'[a]] # "none"
    BY <1>0, <2>1, <2>3 DEF NumbersInv, OrNoGeneration
  <2>7. QED
    BY <1>0, <2>1, <2>3, <2>4, <2>5, <2>6 DEF NumbersInv, OrNoGeneration
<1>11. CASE PublishCandidate
  <2>1. /\ UNCHANGED <<generationVars, routed>> /\ retiring = NoGeneration /\ server[candidate] = "up"
        /\ candidate # current /\ candidate # NoGeneration
        /\ current' = candidate /\ retiring' = current /\ candidate' = NoGeneration
    BY <1>11 DEF PublishCandidate, CourseInv, NumbersInv, StageInv, hubVars
  <2>2. {g \in Generations : Used(g)}' = {g \in Generations : Used(g)} /\ UNCHANGED server
    BY <2>1 DEF Used, generationVars
  <2>3. \A a \in Addresses : routed'[a] # NoGeneration => server'[routed'[a]] # "none"
    BY <2>1, <2>2 DEF NumbersInv
  <2>4. QED
    BY <1>1, <2>1, <2>2, <2>3 DEF NumbersInv
<1>12. CASE Abort
  <2>1. /\ candidate \in Generations /\ candidate' = NoGeneration
        /\ UNCHANGED <<current, retiring, routed>> /\ settled'[candidate] = "clean"
        /\ \A g \in Generations \ {candidate} : server'[g] = server[g] /\ settled'[g] = settled[g]
        /\ server'[candidate] \in {"down", server[candidate]}
    BY <1>12, AbortFacts
  <2>2. \A g \in Generations : server[g] # "none" => server'[g] # "none"
    BY <2>1
  <2>3. \A g \in Generations : (Used(g)' <=> g = candidate \/ Used(g))
    BY <2>1 DEF Used
  <2>4. \E m \in 0..MaxGenerations : {g \in Generations : Used(g)}' = 1..m
    BY <1>9, <2>1, <2>3
  <2>5. \A a \in Addresses : routed'[a] # NoGeneration => server'[routed'[a]] # "none"
    BY <1>0, <2>1, <2>2 DEF NumbersInv, OrNoGeneration
  <2>6. QED
    BY <1>0, <2>1, <2>2, <2>4, <2>5 DEF NumbersInv, OrNoGeneration
\* What is stopped has been used.
<1>13. ASSUME NEW g, NEW outcome \in Outcomes, Closes(g, outcome), g \in {current, retiring},
              candidate = NoGeneration, candidate' = NoGeneration, UNCHANGED current,
              retiring' \in {retiring, NoGeneration}
       PROVE  NumbersInv'
  <2>1. g \in Generations /\ server[g] # "none"
    BY <1>0, <1>13 DEF Closes, NumbersInv
  <2>2. /\ \A h \in Generations \ {g} : server'[h] = server[h] /\ settled'[h] = settled[h]
        /\ server'[g] \in {server[g], "down"}
    BY <1>13, ClosesFacts
  <2>3. \A h \in Generations : server[h] # "none" => server'[h] # "none"
    BY <2>2
  <2>4. \A h \in Generations : (Used(h)' <=> Used(h))
    BY <2>1, <2>2 DEF Used
  <2>5. {h \in Generations : Used(h)}' = {h \in Generations : Used(h)}
    BY <2>4
  <2>6. \A a \in Addresses : routed'[a] # NoGeneration => server'[routed'[a]] # "none"
    <3>1. \A a \in Addresses : routed'[a] \in {routed[a], NoGeneration}
      BY <1>13 DEF Closes
    <3>2. QED
      BY <1>0, <2>3, <3>1 DEF NumbersInv, OrNoGeneration
  <2>7. QED
    BY <1>0, <1>1, <1>13, <2>3, <2>5, <2>6 DEF NumbersInv, OrNoGeneration
<1>14. ASSUME NEW g, Settled(g), candidate = NoGeneration, candidate' = NoGeneration,
              UNCHANGED current, retiring' \in {retiring, NoGeneration}
       PROVE  NumbersInv'
  <2>1. UNCHANGED <<server, settled, routed>>
    BY <1>14 DEF Settled, generationVars, hubVars
  <2>2. {h \in Generations : Used(h)}' = {h \in Generations : Used(h)}
    BY <2>1 DEF Used
  <2>3. QED
    BY <1>1, <1>14, <2>1, <2>2 DEF NumbersInv
<1>15. ASSUME NEW outcome \in Outcomes, Retire(outcome) PROVE NumbersInv'
  <2>1. /\ candidate = NoGeneration /\ candidate' = NoGeneration /\ UNCHANGED current
        /\ retiring' \in {retiring, NoGeneration} /\ (Settled(retiring) \/ Closes(retiring, outcome))
    BY <1>15, RetireFacts DEF CourseInv
  <2>2. QED
    BY <1>13, <1>14, <2>1
<1>16. ASSUME NEW outcome \in Outcomes, NEW g, StopsOne(g, outcome) PROVE NumbersInv'
  <2>1. /\ candidate = NoGeneration /\ candidate' = NoGeneration /\ UNCHANGED current
        /\ retiring' = retiring /\ g \in {current, retiring} /\ (Settled(g) \/ Closes(g, outcome))
    BY <1>16 DEF StopsOne, CourseInv
  <2>2. QED
    BY <1>13, <1>14, <2>1
<1>17. CASE StopFactory
  <2>1. /\ UNCHANGED <<generationVars, candidate>> /\ candidate = NoGeneration
        /\ \/ UNCHANGED <<current, retiring>>
           \/ current' = NoGeneration /\ retiring' = NoGeneration
        /\ \A a \in Addresses : routed'[a] \in {routed[a], NoGeneration}
    BY <1>17 DEF StopFactory, CourseInv, hubVars
  <2>2. {g \in Generations : Used(g)}' = {g \in Generations : Used(g)} /\ UNCHANGED server
    BY <2>1 DEF Used, generationVars
  <2>3. QED
    BY <1>1, <2>1, <2>2 DEF NumbersInv
<1>18. QED
  BY <1>3, <1>4, <1>5, <1>6, <1>7, <1>8, <1>10, <1>11, <1>12, <1>15, <1>16, <1>17, StopsOneFacts DEF GenerationNext

LEMMA StageStep ==
    ASSUME GenerationTypeOK, CourseInv, NumbersInv, HoldersInv, StageInv, GenerationNext
    PROVE  StageInv'
<1> USE DEF Committed, Preparing, Stopping, Forcing
<1>0. /\ NoGeneration \notin Generations /\ GenerationsOK
      /\ candidate \in OrNoGeneration /\ managed \in OrNoGeneration
      /\ admitted \subseteq Generations /\ scheduling \subseteq Generations
      /\ \A g \in Generations : config[g][2] \in Addresses
  BY TypeFacts DEF NoGeneration, GenerationTypeOK
\* Where no candidate is under way there is nothing to show.
<1>1. ASSUME pc' \notin {"acquire", "bind", "bindManagement", "commit"} \cup Committed PROVE StageInv'
  BY <1>1 DEF StageInv
<1>2. CASE BeginStart \/ BeginReload \/ NotLoaded \/ PrepareFails \/ ConsumersFail \/ PublishCandidate
           \/ BeginStop \/ BeginForceStop \/ StopFactory
  <2>1. pc' \notin {"acquire", "bind", "bindManagement", "commit"} \cup Committed
    BY <1>2 DEF BeginStart, BeginReload, NotLoaded, PrepareFails, ConsumersFail, PublishCandidate,
                BeginStop, BeginForceStop, StopFactory, GivenUp, Goto
  <2>2. QED
    BY <1>1, <2>1
<1>3. CASE Abort
  BY <1>1, <1>3, AbortFacts
<1>4. ASSUME NEW outcome \in Outcomes, Retire(outcome) PROVE StageInv'
  BY <1>1, <1>4, RetireFacts
<1>5. ASSUME NEW outcome \in Outcomes, NEW g, StopsOne(g, outcome) PROVE StageInv'
  BY <1>1, <1>5 DEF StopsOne
<1>6. ASSUME NEW c \in Configs, Load(c) PROVE StageInv'
  BY <1>6, LoadFacts DEF StageInv
<1>7. CASE Acquire
  <2>1. candidate \in Generations
    BY <1>0, <1>7 DEF Acquire, CourseInv, OrNoGeneration
  <2>2. holds'[candidate] /\ pc' = "bind" /\ candidate' = candidate
    BY <1>0, <1>7, <2>1 DEF Acquire, GenerationsOK, Goto
  <2>3. QED
    BY <2>2 DEF StageInv
<1>8. CASE Bind
  <2>1. candidate \in Generations
    BY <1>0, <1>8 DEF Bind, CourseInv, OrNoGeneration
  <2>2. server'[candidate] = "up" /\ pc' = "bindManagement" /\ UNCHANGED <<candidate, holds>> /\ pc = "bind"
    BY <1>0, <1>8, <2>1 DEF Bind, GenerationsOK, Goto
  <2>3. QED
    BY <2>2 DEF StageInv
<1>9. CASE BindManagement
  BY <1>9 DEF BindManagement, StageInv, Goto, generationVars
<1>10. CASE CommitRoute
  <2>1. candidate \in Generations /\ Address(candidate) \in Addresses
    BY <1>0, <1>10 DEF CommitRoute, CourseInv, OrNoGeneration, Address
  <2>2. pc = "commit" /\ UNCHANGED <<candidate, holds, server, config>>
    BY <1>10 DEF CommitRoute, commitRest, generationVars
  <2>3. pc' = "abort" \/ (pc' = "commitManagement" /\ routed'[Address(candidate)] = candidate)
    BY <1>10, <2>1 DEF CommitRoute, Goto
  <2>4. QED
    BY <2>2, <2>3 DEF StageInv, Address
<1>11. CASE CommitManagement
  BY <1>11 DEF CommitManagement, StageInv, Goto, commitRest, generationVars, Address
<1>12. CASE DeactivatePrevious
  BY <1>12 DEF DeactivatePrevious, StageInv, Goto, commitRest, generationVars, Address
<1>13. CASE ActivateCandidate
  BY <1>13 DEF ActivateCandidate, StageInv, Goto, commitRest, generationVars, Address
<1>14. CASE CommitSchedule
  BY <1>14 DEF CommitSchedule, StageInv, Goto, commitRest, generationVars, Address
<1>15. QED
  BY <1>2, <1>3, <1>4, <1>5, <1>6, <1>7, <1>8, <1>9, <1>10, <1>11, <1>12, <1>13, <1>14, StopsOneFacts DEF GenerationNext

LEMMA AdmittedStep ==
    ASSUME GenerationTypeOK, CourseInv, NumbersInv, HoldersInv, StageInv, AdmittedInv, GenerationNext
    PROVE  AdmittedInv'
<1> USE DEF Committed, Preparing, Stopping, Forcing
<1>0. /\ NoGeneration \notin Generations /\ GenerationsOK
      /\ current \in OrNoGeneration /\ retiring \in OrNoGeneration /\ candidate \in OrNoGeneration
      /\ consumer \in OrNoGeneration /\ scheduler \in OrNoGeneration
      /\ admitted \subseteq Generations /\ scheduling \subseteq Generations
  BY TypeFacts DEF NoGeneration, GenerationTypeOK
<1>1. CASE BeginStart \/ BeginReload \/ BindManagement \/ PrepareFails
  <2>1. /\ pc \notin {"commitSchedule", "publish"} /\ pc' \notin {"commitSchedule", "publish"}
        /\ pc' \notin {"stopRetiring", "stopFactory", "forceRetiring", "forceFactory"}
        /\ lifecycle \notin {"draining", "failed"} /\ UNCHANGED <<current, settled, hubVars>>
    BY <1>1 DEF BeginStart, BeginReload, BindManagement, PrepareFails, Goto, generationVars, CourseInv
  <2>2. QED
    BY <2>1 DEF AdmittedInv, hubVars
<1>2. CASE NotLoaded
  <2>1. /\ pc = "load" /\ pc' = "idle" /\ lifecycle \notin {"draining", "failed"}
        /\ UNCHANGED <<current, settled, hubVars>>
    BY <1>2 DEF NotLoaded, GivenUp, Goto, generationVars, CourseInv
  <2>2. QED
    BY <2>1 DEF AdmittedInv, hubVars
<1>3. CASE BeginStop \/ BeginForceStop
  <2>1. /\ pc = "idle" /\ pc' \in {"stopCurrent", "forceCurrent"} /\ lifecycle' \in {"draining", "failed"}
        /\ UNCHANGED <<current, settled, hubVars>>
    BY <1>3 DEF BeginStop, BeginForceStop, Goto, Diagnose, generationVars
  <2>2. QED
    BY <2>1 DEF AdmittedInv, hubVars
<1>4. ASSUME NEW c \in Configs, Load(c) PROVE AdmittedInv'
  <2>1. pc = "load" /\ pc' = "acquire" /\ UNCHANGED <<lifecycle, current, settled, hubVars>>
    BY <1>4, LoadFacts
  <2>2. QED
    BY <2>1 DEF AdmittedInv, hubVars
<1>5. CASE Acquire \/ Bind
  <2>1. /\ pc \in {"acquire", "bind"} /\ pc' \in {"bind", "bindManagement"}
        /\ UNCHANGED <<lifecycle, current, settled, hubVars>>
    BY <1>5 DEF Acquire, Bind, Goto
  <2>2. QED
    BY <2>1 DEF AdmittedInv, hubVars
<1>6. CASE CommitRoute \/ CommitManagement
  <2>1. /\ pc \in {"commit", "commitManagement"} /\ pc' \in {"commitManagement", "commitConsumers", "abort"}
        /\ UNCHANGED <<lifecycle, current, settled, consumer, admitted, scheduler, scheduling>>
    BY <1>6 DEF CommitRoute, CommitManagement, Goto, commitRest, generationVars
  <2>2. QED
    BY <2>1 DEF AdmittedInv
<1>7. CASE DeactivatePrevious
  <2>1. /\ pc = "commitConsumers" /\ pc' = "activate" /\ admitted' = admitted \ {consumer}
        /\ UNCHANGED <<lifecycle, current, settled, consumer, scheduler, scheduling>>
    BY <1>7 DEF DeactivatePrevious, Goto, commitRest, generationVars
  <2>2. QED
    BY <2>1 DEF AdmittedInv
<1>8. CASE ConsumersFail
  <2>1. /\ pc \in {"commitConsumers", "activate"} /\ pc' = "abort"
        /\ admitted' \subseteq admitted \cup ({consumer} \ {NoGeneration})
        /\ UNCHANGED <<lifecycle, current, settled, consumer, scheduler, scheduling>>
    BY <1>8 DEF ConsumersFail, Goto, commitRest, generationVars
  <2>2. lifecycle \in {"starting", "reloading"} /\ admitted \subseteq {consumer}
        /\ consumer \in {NoGeneration, current}
    BY <2>1 DEF CourseInv, AdmittedInv
  <2>3. admitted' \subseteq {consumer} /\ admitted' \subseteq {current}
    BY <1>0, <2>1, <2>2
  <2>4. \A g \in admitted' : settled[g] = "no"
    BY <1>0, <2>1, <2>2 DEF CourseInv, AdmittedInv
  <2>5. QED
    BY <2>1, <2>3, <2>4 DEF AdmittedInv
<1>9. CASE ActivateCandidate
  <2>1. /\ pc = "activate" /\ pc' = "commitSchedule" /\ admitted' = (admitted \ {consumer}) \cup {candidate}
        /\ consumer' = candidate
        /\ UNCHANGED <<lifecycle, current, candidate, settled, scheduler, scheduling>>
    BY <1>9 DEF ActivateCandidate, Goto, commitRest, generationVars
  <2>2. admitted \subseteq {consumer} /\ settled[candidate] = "no"
    BY <2>1 DEF CourseInv, AdmittedInv, NumbersInv
  <2>3. QED
    BY <2>1, <2>2 DEF AdmittedInv
<1>10. CASE CommitSchedule
  <2>1. /\ pc = "commitSchedule" /\ pc' = "publish"
        /\ scheduling' = (scheduling \ {scheduler}) \cup {candidate} /\ scheduler' = candidate
        /\ UNCHANGED <<lifecycle, current, candidate, settled, consumer, admitted>>
    BY <1>10 DEF CommitSchedule, Goto, commitRest, generationVars
  <2>2. QED
    BY <2>1 DEF AdmittedInv
<1>11. CASE PublishCandidate
  <2>1. /\ pc = "publish" /\ pc' \in {"idle", "retire"} /\ current' = candidate
        /\ UNCHANGED <<settled, hubVars>>
    BY <1>11 DEF PublishCandidate, Goto, generationVars
  <2>2. admitted \subseteq {consumer}
    BY <2>1 DEF CourseInv, AdmittedInv
  <2>3. QED
    BY <2>1, <2>2 DEF AdmittedInv, hubVars
<1>12. CASE Abort
  <2>1. /\ pc = "abort" /\ pc' = "idle" /\ candidate \in Generations
        /\ lifecycle' \notin {"draining", "failed"} => lifecycle \notin {"draining", "failed"}
        /\ UNCHANGED current
        /\ consumer' = HubRetire(consumer, candidate) /\ admitted' = admitted \ {candidate}
        /\ scheduler' = HubRetire(scheduler, candidate) /\ scheduling' = scheduling \ {candidate}
        /\ \A g \in Generations \ {candidate} : settled'[g] = settled[g]
    BY <1>12, AbortFacts DEF CourseInv
  <2>2. QED
    BY <1>0, <2>1 DEF AdmittedInv, HubRetire
<1>13. ASSUME NEW g, NEW outcome \in Outcomes, Closes(g, outcome),
              pc \notin {"commitSchedule", "publish"}, pc' \notin {"commitSchedule", "publish"},
              UNCHANGED current
       PROVE  /\ consumer' \in {NoGeneration, current} /\ admitted' \subseteq {current}
              /\ admitted \subseteq {consumer} => admitted' \subseteq {consumer'} \/ g = consumer
              /\ scheduler' \in {NoGeneration, current} /\ scheduling' \subseteq {scheduler'}
              /\ \A h \in admitted' : settled'[h] = "no"
  <2>1. /\ g \in Generations
        /\ consumer' = HubRetire(consumer, g)
        /\ scheduler' = HubRetire(scheduler, g) /\ scheduling' = scheduling \ {g}
        /\ admitted' \in {admitted, admitted \ {g}} /\ (outcome # "timeout" => g \notin admitted')
    BY <1>13 DEF Closes
  <2>2. /\ consumer' \in {NoGeneration, current} /\ admitted' \subseteq {current}
        /\ scheduler' \in {NoGeneration, current} /\ scheduling' \subseteq {scheduler'}
        /\ admitted \subseteq {consumer} => admitted' \subseteq {consumer'} \/ g = consumer
    BY <1>0, <1>13, <2>1 DEF AdmittedInv, HubRetire
  <2>3. /\ \A h \in Generations \ {g} : settled'[h] = settled[h]
        /\ outcome = "timeout" => settled'[g] = settled[g]
    BY <1>13, ClosesFacts
  <2>4. \A h \in admitted' : settled'[h] = "no"
    BY <1>0, <2>1, <2>3 DEF AdmittedInv
  <2>5. QED
    BY <2>2, <2>4
<1>14. ASSUME NEW outcome \in Outcomes, Retire(outcome) PROVE AdmittedInv'
  <2>1. /\ pc = "retire" /\ pc' = "idle" /\ UNCHANGED current /\ lifecycle = "running"
        /\ Settled(retiring) \/ Closes(retiring, outcome)
    BY <1>14, RetireFacts
  <2>2. CASE Settled(retiring)
    BY <2>1, <2>2 DEF AdmittedInv, Settled, generationVars, hubVars
  <2>3. CASE Closes(retiring, outcome)
    <3>1. retiring # consumer /\ admitted \subseteq {consumer}
      BY <1>0, <2>1, <2>3 DEF AdmittedInv, CourseInv, NumbersInv, Closes
    <3>2. QED
      BY <1>13, <2>1, <2>3, <3>1 DEF AdmittedInv
  <2>4. QED
    BY <2>1, <2>2, <2>3
<1>15. ASSUME NEW outcome \in Outcomes, NEW g, StopsOne(g, outcome) PROVE AdmittedInv'
  <2>1. /\ pc \in Stopping \cup Forcing /\ pc' \in Stopping \cup Forcing /\ UNCHANGED <<current, lifecycle>>
        /\ lifecycle \in {"draining", "failed"} /\ (failed' <=> failed \/ outcome # "clean")
        /\ pc \in {"stopCurrent", "forceCurrent"} => g = current
    BY <1>15 DEF StopsOne, CourseInv
  <2>2. CASE Settled(g)
    <3>1. UNCHANGED <<settled, hubVars>>
      BY <2>2 DEF Settled, generationVars
    <3>2. ~failed' => admitted' = {}
      <4>1. CASE pc \in {"stopCurrent", "forceCurrent"}
        BY <1>0, <2>1, <2>2, <3>1, <4>1 DEF AdmittedInv, Settled, hubVars
      <4>2. CASE pc \notin {"stopCurrent", "forceCurrent"}
        BY <2>1, <3>1, <4>2 DEF AdmittedInv, hubVars
      <4>3. QED
        BY <4>1, <4>2
    <3>3. QED
      BY <2>1, <3>1, <3>2 DEF AdmittedInv, hubVars
  <2>3. CASE Closes(g, outcome)
    <3>1. ~failed' => admitted' = {}
      <4>1. admitted' \subseteq admitted /\ (outcome = "clean" => g \notin admitted')
        BY <2>3 DEF Closes
      <4>2. CASE pc \in {"stopCurrent", "forceCurrent"}
        BY <2>1, <4>1, <4>2 DEF AdmittedInv
      <4>3. CASE pc \notin {"stopCurrent", "forceCurrent"}
        BY <2>1, <4>1, <4>3 DEF AdmittedInv
      <4>4. QED
        BY <4>2, <4>3
    <3>2. /\ consumer' \in {NoGeneration, current} /\ admitted' \subseteq {current}
          /\ scheduler' \in {NoGeneration, current} /\ scheduling' \subseteq {scheduler'}
          /\ \A h \in admitted' : settled'[h] = "no"
      BY <1>13, <2>1, <2>3
    <3>3. QED
      BY <2>1, <3>1, <3>2 DEF AdmittedInv
  <2>4. QED
    BY <1>15, <2>2, <2>3 DEF StopsOne
<1>16. CASE StopFactory
  <2>1. /\ pc \in {"stopFactory", "forceFactory"} /\ pc' = "idle" /\ UNCHANGED settled
        /\ lifecycle' = "stopped" => ~failed
        /\ IF lifecycle' = "stopped" THEN current' = NoGeneration ELSE current' = current
        /\ lifecycle' \in {"failed", "stopped"}
    BY <1>16 DEF StopFactory, Goto, Diagnose, generationVars
  <2>2. CASE pc = "stopFactory" /\ failed
    BY <1>16, <2>1, <2>2 DEF StopFactory, AdmittedInv, hubVars
  <2>3. CASE ~(pc = "stopFactory" /\ failed)
    <3>1. /\ consumer' = NoGeneration /\ admitted' = admitted \ {consumer}
          /\ scheduler' = NoGeneration /\ scheduling' = scheduling \ {scheduler}
      BY <1>16, <2>3 DEF StopFactory
    <3>2. ~failed => admitted = {}
      BY <2>1 DEF AdmittedInv
    <3>3. QED
      BY <2>1, <3>1, <3>2 DEF AdmittedInv
  <2>4. QED
    BY <2>2, <2>3
<1>17. QED
  BY <1>1, <1>2, <1>3, <1>4, <1>5, <1>6, <1>7, <1>8, <1>9, <1>10, <1>11, <1>12, <1>14, <1>15, <1>16, StopsOneFacts DEF GenerationNext

LEMMA WholeStep ==
    ASSUME GenerationTypeOK, CourseInv, NumbersInv, HoldersInv, StageInv, AdmittedInv, WholeInv,
           GenerationNext
    PROVE  WholeInv'
<1> USE DEF Committed, Preparing, Stopping, Forcing
<1>0. /\ NoGeneration \notin Generations /\ GenerationsOK
      /\ current \in OrNoGeneration /\ retiring \in OrNoGeneration /\ candidate \in OrNoGeneration
      /\ routed \in [Addresses -> OrNoGeneration]
      /\ \A g \in Generations : config[g][2] \in Addresses
  BY TypeFacts DEF NoGeneration, GenerationTypeOK
<1> SUFFICES ASSUME ~halfCommitted' PROVE WholeInv'
  BY DEF WholeInv
<1>1. CASE \/ BeginStart \/ BeginReload \/ BindManagement \/ PrepareFails \/ BeginStop \/ BeginForceStop
  <2>1. /\ UNCHANGED <<generationVars, hubVars, current, candidate, halfCommitted>>
        /\ pc \notin Committed /\ pc' \notin Committed
        /\ lifecycle' \in {"running", "reloading"} => lifecycle \in {"running", "reloading"}
    BY <1>1 DEF BeginStart, BeginReload, BindManagement, PrepareFails, BeginStop, BeginForceStop, Goto,
                Diagnose
  <2>2. Served(current)' <=> Served(current)
    BY <2>1 DEF Served, Address, generationVars, hubVars
  <2>3. QED
    BY <2>1, <2>2 DEF WholeInv, generationVars, hubVars
<1>2. CASE NotLoaded
  <2>1. /\ UNCHANGED <<generationVars, hubVars, current, halfCommitted>>
        /\ pc \notin Committed /\ pc' \notin Committed /\ candidate' = NoGeneration
        /\ lifecycle' \in {"running", "reloading"} => lifecycle \in {"running", "reloading"}
    BY <1>2 DEF NotLoaded, GivenUp, Goto, Diagnose, CourseInv
  <2>2. Served(current)' <=> Served(current)
    BY <2>1 DEF Served, Address, generationVars, hubVars
  <2>3. QED
    BY <2>1, <2>2 DEF WholeInv, generationVars, hubVars
<1>3. ASSUME NEW c \in Configs, Load(c) PROVE WholeInv'
  <2>1. /\ pc = "load" /\ pc' = "acquire" /\ candidate' \in Generations /\ candidate' # current
        /\ config' = [config EXCEPT ![candidate'] = c] /\ server[candidate'] = "none"
        /\ UNCHANGED <<lifecycle, current, server, holds, hubVars, halfCommitted>>
    BY <1>3, LoadFacts
  <2>2. lifecycle \in {"running", "reloading"} => current \in Generations
    BY <1>0 DEF CourseInv, OrNoGeneration
  <2>3. current \in Generations => config'[current] = config[current]
    BY <1>0, <2>1 DEF GenerationsOK
  <2>4. lifecycle \in {"running", "reloading"} => Served(current) /\ config'[current] = config[current]
    BY <2>1, <2>2, <2>3 DEF WholeInv
  <2>5. lifecycle \in {"running", "reloading"} => Served(current)'
    BY <2>1, <2>4 DEF Served, Address, hubVars
  <2>6. \A a \in Addresses : routed'[a] # candidate'
    BY <1>0, <2>1 DEF NumbersInv, hubVars
  <2>7. QED
    BY <2>1, <2>5, <2>6 DEF WholeInv
<1>4. CASE Acquire
  <2>1. /\ pc = "acquire" /\ pc' = "bind" /\ candidate \in Generations /\ candidate # current
        /\ holds' = [holds EXCEPT ![candidate] = TRUE]
        /\ UNCHANGED <<lifecycle, current, candidate, server, config, hubVars, halfCommitted>>
    BY <1>0, <1>4 DEF Acquire, Goto, CourseInv, NumbersInv, OrNoGeneration
  <2>2. \A g \in Generations : holds[g] => holds'[g]
    BY <1>0, <2>1 DEF GenerationsOK
  <2>3. lifecycle \in {"running", "reloading"} => Served(current)'
    <3>1. lifecycle \in {"running", "reloading"} => current \in Generations /\ Served(current)
      BY <1>0, <2>1 DEF CourseInv, OrNoGeneration, WholeInv
    <3>2. QED
      BY <2>1, <2>2, <3>1 DEF Served, Address, hubVars
  <2>4. QED
    BY <2>1, <2>2, <2>3 DEF WholeInv, hubVars
<1>5. CASE Bind
  <2>1. /\ pc = "bind" /\ pc' = "bindManagement" /\ candidate \in Generations /\ candidate # current
        /\ server' = [server EXCEPT ![candidate] = "up"] /\ holds[candidate]
        /\ UNCHANGED <<lifecycle, current, candidate, holds, config, hubVars, halfCommitted>>
    BY <1>0, <1>5 DEF Bind, Goto, CourseInv, NumbersInv, StageInv, OrNoGeneration
  <2>2. \A g \in Generations \ {candidate} : server'[g] = server[g]
    BY <1>0, <2>1 DEF GenerationsOK
  <2>3. lifecycle \in {"running", "reloading"} => Served(current)'
    <3>1. lifecycle \in {"running", "reloading"} => current \in Generations /\ Served(current)
      BY <1>0, <2>1 DEF CourseInv, OrNoGeneration, WholeInv
    <3>2. QED
      BY <2>1, <2>2, <3>1 DEF Served, Address, hubVars
  <2>4. QED
    BY <2>1, <2>2, <2>3 DEF WholeInv, hubVars
<1>6. CASE CommitRoute
  <2>1. /\ pc = "commit" /\ lifecycle \in {"starting", "reloading"}
        /\ UNCHANGED <<lifecycle, current, candidate, config, server, holds, managed, consumer, admitted,
                       scheduler, scheduling, halfCommitted>>
    BY <1>6 DEF CommitRoute, CourseInv, commitRest, generationVars
  <2>2. pc' = "commitManagement" \/ (pc' = "abort" /\ UNCHANGED routed)
    BY <1>6 DEF CommitRoute, Goto
  <2>3. lifecycle = "reloading" => Served(current)
    BY <2>1 DEF WholeInv
  <2>4. CASE pc' = "commitManagement"
    BY <2>1, <2>3, <2>4 DEF WholeInv, Served
  <2>5. CASE pc' = "abort" /\ UNCHANGED routed
    <3>1. Served(current)' <=> Served(current)
      BY <2>1, <2>5 DEF Served, Address
    <3>2. QED
      BY <2>1, <2>3, <2>5, <3>1 DEF WholeInv
  <2>6. QED
    BY <2>2, <2>4, <2>5
<1>7. CASE CommitManagement
  <2>1. /\ pc = "commitManagement" /\ lifecycle \in {"starting", "reloading"}
        /\ UNCHANGED <<lifecycle, server, holds>>
        /\ pc' = "commitConsumers" /\ UNCHANGED halfCommitted
    BY <1>7 DEF CommitManagement, Goto, CourseInv, commitRest, generationVars
  <2>2. QED
    BY <2>1 DEF WholeInv
<1>8. CASE DeactivatePrevious \/ ActivateCandidate \/ CommitSchedule
  <2>1. /\ pc' \in {"activate", "commitSchedule", "publish"} /\ UNCHANGED <<server, holds, halfCommitted>>
    BY <1>8 DEF DeactivatePrevious, ActivateCandidate, CommitSchedule, Goto, commitRest, generationVars
  <2>2. QED
    BY <2>1 DEF WholeInv
<1>9. CASE ConsumersFail
  BY <1>9 DEF ConsumersFail
<1>10. CASE PublishCandidate
  <2>1. /\ pc = "publish" /\ current' = candidate /\ candidate' = NoGeneration
        /\ pc' \in {"idle", "retire"} /\ lifecycle' = "running"
        /\ UNCHANGED <<generationVars, hubVars, halfCommitted>>
    BY <1>10 DEF PublishCandidate, Goto, Diagnose
  <2>2. /\ server[candidate] = "up" /\ holds[candidate] /\ routed[Address(candidate)] = candidate
        /\ managed = candidate /\ candidate \in admitted /\ candidate \in scheduling
    BY <2>1 DEF StageInv
  <2>3. consumer = candidate /\ scheduler = candidate
    BY <2>1, <2>2 DEF AdmittedInv, CourseInv
  <2>4. Served(current)'
    BY <2>1, <2>2, <2>3 DEF Served, Address, generationVars, hubVars
  <2>5. QED
    BY <2>1, <2>4 DEF WholeInv, generationVars
<1>11. CASE Abort
  <2>1. /\ pc = "abort" /\ pc' = "idle" /\ candidate \in Generations /\ candidate' = NoGeneration
        /\ lifecycle' \in {"running", "reloading"} => lifecycle = "reloading"
        /\ UNCHANGED <<current, config, routed, managed, halfCommitted>>
        /\ consumer' = HubRetire(consumer, candidate) /\ admitted' = admitted \ {candidate}
        /\ scheduler' = HubRetire(scheduler, candidate) /\ scheduling' = scheduling \ {candidate}
        /\ \A g \in Generations \ {candidate} : server'[g] = server[g] /\ holds'[g] = holds[g]
    BY <1>11, AbortFacts DEF CourseInv
  <2>2. candidate # current /\ candidate # NoGeneration
    BY <1>0, <2>1 DEF NumbersInv
  <2>3. server'[candidate] = "down"
    <3>1. routed[Address(candidate)] # candidate
      BY <1>0, <2>1, <2>2 DEF WholeInv, Address
    <3>2. QED
      BY <1>11, <3>1, AbortFacts
  <2>4. \A g \in Generations : server'[g] = "up" => holds'[g]
    BY <2>1, <2>3 DEF WholeInv
  <2>5. lifecycle = "reloading" => Served(current)'
    <3>1. lifecycle = "reloading" => Served(current) /\ current \in Generations
      BY <1>0, <2>1 DEF WholeInv, CourseInv, OrNoGeneration
    <3>2. QED
      BY <2>1, <2>2, <3>1 DEF Served, HubRetire, Address
  <2>6. QED
    BY <2>1, <2>4, <2>5 DEF WholeInv
<1>12. ASSUME NEW g, NEW outcome \in Outcomes, Closes(g, outcome), UNCHANGED halfCommitted
       PROVE  \A h \in Generations : server'[h] = "up" => holds'[h]
  <2>1. \A h \in Generations : server[h] = "up" => holds[h]
    BY <1>12 DEF WholeInv
  <2>2. /\ \A h \in Generations \ {g} : server'[h] = server[h] /\ holds'[h] = holds[h]
        /\ server'[g] = IF outcome = "timeout" THEN server[g] ELSE "down"
        /\ outcome = "timeout" => holds' = holds
    BY <1>12, ClosesFacts
  <2>3. QED
    BY <2>1, <2>2
<1>13. ASSUME NEW outcome \in Outcomes, Retire(outcome) PROVE WholeInv'
  <2>1. /\ pc = "retire" /\ pc' = "idle" /\ lifecycle = "running"
        /\ candidate = NoGeneration /\ candidate' = NoGeneration
        /\ UNCHANGED <<current, halfCommitted, routed, managed>>
        /\ Settled(retiring) \/ Closes(retiring, outcome)
    BY <1>13, RetireFacts DEF CourseInv
  <2>2. Served(current) /\ current \in Generations /\ current # retiring
    BY <1>0, <2>1 DEF WholeInv, CourseInv, NumbersInv, OrNoGeneration
  <2>3. CASE Settled(retiring)
    <3>1. Served(current)' <=> Served(current)
      BY <2>1, <2>3 DEF Served, Address, Settled, generationVars, hubVars
    <3>2. QED
      BY <2>1, <2>2, <2>3, <3>1 DEF WholeInv, Settled, generationVars
  <2>4. CASE Closes(retiring, outcome)
    <3>1. /\ consumer' = HubRetire(consumer, retiring) /\ UNCHANGED config
          /\ scheduler' = HubRetire(scheduler, retiring) /\ scheduling' = scheduling \ {retiring}
          /\ admitted' \in {admitted, admitted \ {retiring}}
      BY <2>4 DEF Closes
    <3>2. server'[current] = server[current] /\ holds'[current] = holds[current]
      BY <2>2, <2>4, ClosesFacts
    <3>3. Served(current)'
      BY <2>1, <2>2, <3>1, <3>2 DEF Served, HubRetire, Address
    <3>4. QED
      BY <1>12, <2>1, <2>4, <3>3 DEF WholeInv
  <2>5. QED
    BY <2>1, <2>3, <2>4
<1>14. ASSUME NEW outcome \in Outcomes, NEW g, StopsOne(g, outcome) PROVE WholeInv'
  <2>1. /\ pc' \in Stopping \cup Forcing /\ candidate' = NoGeneration /\ lifecycle' \in {"draining", "failed"}
        /\ UNCHANGED halfCommitted
    BY <1>14 DEF StopsOne, CourseInv
  <2>2. \A h \in Generations : server'[h] = "up" => holds'[h]
    <3>1. CASE Settled(g)
      BY <2>1, <3>1 DEF Settled, WholeInv, generationVars
    <3>2. CASE Closes(g, outcome)
      BY <1>12, <2>1, <3>2
    <3>3. QED
      BY <1>14, <3>1, <3>2 DEF StopsOne
  <2>3. QED
    BY <2>1, <2>2 DEF WholeInv
<1>15. CASE StopFactory
  <2>1. /\ pc' = "idle" /\ candidate' = NoGeneration /\ lifecycle' \in {"failed", "stopped"}
        /\ UNCHANGED <<server, holds, halfCommitted>>
    BY <1>15 DEF StopFactory, Goto, Diagnose, generationVars, CourseInv
  <2>2. QED
    BY <2>1 DEF WholeInv
<1>16. QED
  BY <1>1, <1>2, <1>3, <1>4, <1>5, <1>6, <1>7, <1>8, <1>9, <1>10, <1>11, <1>13, <1>14, <1>15, StopsOneFacts DEF GenerationNext

\* Nothing happens after a clean stop but another Stop, and a Stop that finds
\* no fault has taken everything down.
LEMMA StoppedStep ==
    ASSUME GenerationTypeOK, CourseInv, HoldersInv, AdmittedInv, WholeInv, StoppedMeansReleased,
           GenerationNext, GenerationsOK', HoldersInv', AdmittedInv', WholeInv'
    PROVE  StoppedMeansReleased'
<1> SUFFICES ASSUME lifecycle' = "stopped", ~halfCommitted'
             PROVE  /\ \A g \in Generations : server'[g] # "up" /\ ~holds'[g]
                    /\ admitted' = {} /\ scheduling' = {}
  BY DEF StoppedMeansReleased
<1> USE DEF Committed, Preparing, Stopping, Forcing
<1>1. StopFactory
  <2>1. ~(BeginStart \/ BeginReload \/ NotLoaded \/ BeginStop \/ PublishCandidate)
    BY DEF BeginStart, BeginReload, NotLoaded, BeginStop, PublishCandidate, GivenUp, Diagnose
  <2>2. ASSUME UNCHANGED lifecycle, pc # "idle" PROVE FALSE
    <3>1. lifecycle = "stopped" /\ pc # "idle"
      BY <2>2
    <3>2. QED
      BY <3>1 DEF CourseInv, GenerationTypeOK
  <2>3. ~(\E c \in Configs : Load(c)) /\ ~Acquire /\ ~Bind /\ ~BindManagement /\ ~PrepareFails
    BY <2>2 DEF Load, Acquire, Bind, BindManagement, PrepareFails
  <2>4. ~CommitRoute /\ ~CommitManagement /\ ~DeactivatePrevious /\ ~ActivateCandidate
        /\ ~ConsumersFail /\ ~CommitSchedule
    BY <2>2 DEF CommitRoute, CommitManagement, DeactivatePrevious, ActivateCandidate, ConsumersFail,
                CommitSchedule, commitRest
  <2>5. ~Abort
    BY AbortFacts
  <2>6. ~BeginForceStop
    BY DEF BeginForceStop
  <2>7. ASSUME NEW outcome \in Outcomes PROVE ~Retire(outcome)
    BY RetireFacts
  <2>8. ASSUME NEW outcome \in Outcomes, NEW g PROVE ~StopsOne(g, outcome)
    <3>1. ASSUME StopsOne(g, outcome) PROVE UNCHANGED lifecycle /\ pc # "idle"
      BY <3>1 DEF StopsOne
    <3>2. QED
      BY <2>2, <3>1
  <2>9. QED
    BY <2>1, <2>3, <2>4, <2>5, <2>6, <2>7, <2>8, StopsOneFacts DEF GenerationNext
<1>2. /\ ~failed /\ UNCHANGED <<server, holds, halfCommitted>> /\ pc \in {"stopFactory", "forceFactory"}
      /\ current' = NoGeneration /\ retiring' = NoGeneration /\ candidate' = candidate
      /\ admitted' = admitted \ {consumer} /\ scheduling' = scheduling \ {scheduler}
  BY <1>1 DEF StopFactory, Diagnose, generationVars
<1>3. candidate = NoGeneration /\ NoGeneration \notin Generations
  BY <1>2, TypeFacts DEF CourseInv, NoGeneration
<1>4. \A g \in Generations : ~holds'[g]
  BY <1>2, <1>3 DEF HoldersInv
<1>5. \A g \in Generations : server'[g] # "up"
  BY <1>4 DEF WholeInv
<1>6. admitted' = {} /\ scheduling' = {}
  BY <1>2 DEF AdmittedInv
<1>7. QED
  BY <1>4, <1>5, <1>6

\* Of a current, a retiring and a candidate generation one is missing.
LEMMA AtMostTwo ==
    ASSUME NEW S, S \subseteq Generations, NEW a, NEW b, NEW c, S \subseteq {a, b, c},
           b = NoGeneration \/ c = NoGeneration
    PROVE  Cardinality(S) \in 0..2
<1>1. IsFiniteSet(S)
  BY FiniteGenerations
<1>2. NoGeneration \notin Generations
  BY GenerationAssumption DEF Generations, NoGeneration
<1>3. PICK x \in {b, c} : S \subseteq {a} \cup {x}
  BY <1>2
<1>4. IsFiniteSet({a} \cup {x}) /\ Cardinality({a} \cup {x}) <= 2
  <2>1. IsFiniteSet({a}) /\ Cardinality({a}) = 1
    BY FS_Singleton
  <2>2. /\ IsFiniteSet({a} \cup {x})
        /\ Cardinality({a} \cup {x}) = IF x \in {a} THEN 1 ELSE 2
    BY <2>1, FS_AddElement
  <2>3. QED
    BY <2>2
<1>5. Cardinality(S) <= Cardinality({a} \cup {x})
  BY <1>3, <1>4, FS_Subset
<1>6. Cardinality(S) \in Nat /\ Cardinality({a} \cup {x}) \in Nat
  BY <1>1, <1>4, FS_CardinalityType
<1>7. QED
  BY <1>4, <1>5, <1>6

LEMMA GenerationTypeStep ==
    ASSUME GenerationTypeOK, CourseInv, HoldersInv, GenerationNext,
           GenerationsOK', CourseInv', HoldersInv'
    PROVE  GenerationTypeOK'
<1> USE DEF Committed, Preparing, Stopping, Forcing
<1>0. /\ NoGeneration \in OrNoGeneration /\ GenerationsOK
      /\ current \in OrNoGeneration /\ retiring \in OrNoGeneration /\ candidate \in OrNoGeneration
  BY TypeFacts DEF OrNoGeneration, GenerationTypeOK
<1>1. refs' \in [Digests -> 0..2]
  <2>1. ASSUME NEW d \in Digests PROVE refs'[d] \in 0..2
    <3>1. Holders(d)' \subseteq Generations /\ Holders(d)' \subseteq {current', retiring', candidate'}
      BY DEF Holders, HoldersInv
    <3>2. retiring' = NoGeneration \/ candidate' = NoGeneration
      BY DEF CourseInv
    <3>3. Cardinality(Holders(d)') \in 0..2
      BY <3>1, <3>2, AtMostTwo
    <3>4. QED
      BY <3>3 DEF HoldersInv
  <2>2. refs' \in [Digests -> Int]
    BY DEF GenerationsOK
  <2>3. QED
    BY <2>1, <2>2
<1>2. /\ config' \in [Generations -> Configs]
      /\ server' \in [Generations -> {"none", "up", "down"}]
      /\ holds' \in [Generations -> BOOLEAN]
      /\ settled' \in [Generations -> {"no", "clean", "error"}]
      /\ stuck' \subseteq Generations /\ participantFailed' \subseteq Generations
  BY DEF GenerationsOK, ServerStates, Ended
\* The state of the Coordinator, and that of the hubs.
<1> DEFINE CoordinatorOK ==
             /\ lifecycle \in {"new", "starting", "running", "reloading", "degraded",
                               "draining", "failed", "stopped"}
             /\ ready \in BOOLEAN /\ cleanupRequired \in BOOLEAN
             /\ current \in OrNoGeneration /\ retiring \in OrNoGeneration /\ candidate \in OrNoGeneration
             /\ pc \in {"idle", "load", "acquire", "bind", "bindManagement", "commit",
                        "commitManagement", "commitConsumers", "activate", "commitSchedule",
                        "publish", "abort", "retire", "stopCurrent", "stopRetiring", "stopFactory",
                        "forceCurrent", "forceRetiring", "forceFactory"}
             /\ failed \in BOOLEAN /\ halfCommitted \in BOOLEAN
           HubsOK ==
             /\ routed \in [Addresses -> OrNoGeneration] /\ managed \in OrNoGeneration
             /\ consumer \in OrNoGeneration /\ admitted \subseteq Generations
             /\ scheduler \in OrNoGeneration /\ scheduling \subseteq Generations
<1>3. CoordinatorOK /\ HubsOK
  BY DEF GenerationTypeOK
<1>4. ASSUME CoordinatorOK', HubsOK' PROVE GenerationTypeOK'
  BY <1>1, <1>2, <1>4 DEF GenerationTypeOK
<1>5. ASSUME UNCHANGED hubVars PROVE HubsOK'
  BY <1>3, <1>5 DEF hubVars
<1>6. CASE \/ BeginStart \/ BeginReload \/ NotLoaded \/ BindManagement \/ PrepareFails
           \/ PublishCandidate \/ BeginStop \/ BeginForceStop
  <2>1. CoordinatorOK'
    BY <1>0, <1>3, <1>6 DEF BeginStart, BeginReload, NotLoaded, BindManagement, PrepareFails,
          PublishCandidate, BeginStop, BeginForceStop, GivenUp, Goto, Diagnose
  <2>2. HubsOK'
    BY <1>5, <1>6 DEF BeginStart, BeginReload, NotLoaded, BindManagement, PrepareFails,
          PublishCandidate, BeginStop, BeginForceStop
  <2>3. QED
    BY <1>4, <2>1, <2>2
<1>7. ASSUME NEW c \in Configs, Load(c) PROVE GenerationTypeOK'
  <2>1. /\ NextGeneration \in Generations /\ candidate' = NextGeneration /\ pc' = "acquire"
        /\ UNCHANGED <<lifecycle, ready, cleanupRequired, current, retiring, failed, halfCommitted>>
        /\ UNCHANGED hubVars
    BY <1>7 DEF Load, Goto
  <2>2. CoordinatorOK'
    BY <1>3, <2>1 DEF OrNoGeneration
  <2>3. QED
    BY <1>4, <1>5, <2>1, <2>2
<1>8. CASE Acquire \/ Bind
  <2>1. CoordinatorOK'
    BY <1>3, <1>8 DEF Acquire, Bind, Goto
  <2>2. HubsOK'
    BY <1>5, <1>8 DEF Acquire, Bind
  <2>3. QED
    BY <1>4, <2>1, <2>2
<1>9. CASE \/ CommitRoute \/ CommitManagement \/ DeactivatePrevious \/ ActivateCandidate
           \/ ConsumersFail \/ CommitSchedule
  <2>1. /\ pc' \in {"commitManagement", "commitConsumers", "activate", "commitSchedule", "publish", "abort"}
        /\ UNCHANGED <<lifecycle, ready, cleanupRequired, current, retiring, candidate, failed>>
        /\ halfCommitted' \in {halfCommitted, TRUE}
    BY <1>9 DEF CommitRoute, CommitManagement, DeactivatePrevious, ActivateCandidate, ConsumersFail,
          CommitSchedule, commitRest, Goto
  <2>2. CoordinatorOK'
    BY <1>3, <2>1
  <2>3. candidate \in Generations
    BY <1>0, <1>9 DEF CommitRoute, CommitManagement, DeactivatePrevious, ActivateCandidate, ConsumersFail,
          CommitSchedule, CourseInv, OrNoGeneration
  <2>4. consumer \in Generations \cup {NoGeneration}
    BY <1>3 DEF OrNoGeneration
  <2>5. HubsOK'
    <3>1. CASE CommitRoute
      BY <1>0, <1>3, <3>1 DEF CommitRoute
    <3>2. CASE CommitManagement
      BY <1>0, <1>3, <3>2 DEF CommitManagement
    <3>3. CASE DeactivatePrevious \/ ActivateCandidate \/ CommitSchedule
      BY <1>0, <1>3, <2>3, <3>3 DEF DeactivatePrevious, ActivateCandidate, CommitSchedule
    <3>4. CASE ConsumersFail
      BY <1>3, <2>4, <3>4 DEF ConsumersFail
    <3>5. QED
      BY <1>9, <3>1, <3>2, <3>3, <3>4
  <2>6. QED
    BY <1>4, <2>2, <2>5
<1>10. ASSUME NEW g, NEW hub \in OrNoGeneration PROVE HubRetire(hub, g) \in OrNoGeneration
  BY <1>0 DEF HubRetire
<1>11. CASE Abort
  <2>1. CoordinatorOK'
    BY <1>0, <1>3, <1>11, AbortFacts
  <2>2. HubsOK'
    BY <1>3, <1>10, <1>11, AbortFacts
  <2>3. QED
    BY <1>4, <2>1, <2>2
<1>12. ASSUME NEW g, NEW outcome, Settled(g) \/ Closes(g, outcome) PROVE HubsOK'
  <2>1. CASE Settled(g)
    BY <1>5, <2>1 DEF Settled
  <2>2. CASE Closes(g, outcome)
    BY <1>3, <1>10, <2>2 DEF Closes
  <2>3. QED
    BY <1>12, <2>1, <2>2
<1>13. ASSUME NEW outcome \in Outcomes, Retire(outcome) PROVE GenerationTypeOK'
  <2>1. CoordinatorOK'
    BY <1>0, <1>3, <1>13, RetireFacts
  <2>2. HubsOK'
    BY <1>12, <1>13, RetireFacts
  <2>3. QED
    BY <1>4, <2>1, <2>2
<1>14. ASSUME NEW outcome \in Outcomes, NEW g, StopsOne(g, outcome) PROVE GenerationTypeOK'
  <2>1. CoordinatorOK'
    BY <1>3, <1>14 DEF StopsOne
  <2>2. HubsOK'
    BY <1>12, <1>14 DEF StopsOne
  <2>3. QED
    BY <1>4, <2>1, <2>2
<1>15. CASE StopFactory
  <2>1. failed' \in BOOLEAN
    BY <1>3, <1>15 DEF StopFactory
  <2>2. CoordinatorOK'
    BY <1>0, <1>3, <1>15, <2>1 DEF StopFactory, Goto, Diagnose
  <2>3. HubsOK'
    BY <1>0, <1>3, <1>5, <1>15 DEF StopFactory
  <2>4. QED
    BY <1>4, <2>2, <2>3
<1>16. QED
  BY <1>6, <1>7, <1>8, <1>9, <1>11, <1>13, <1>14, <1>15, StopsOneFacts DEF GenerationNext

-----------------------------------------------------------------------------
(* The theorem.                                                            *)

LEMMA GenerationInvInitially == GenerationInit => GenerationInv
<1> SUFFICES ASSUME GenerationInit PROVE GenerationInv
  OBVIOUS
<1> USE DEF Committed, Preparing, Stopping, Forcing
<1>1. NoGeneration \notin Generations /\ NoGeneration \in OrNoGeneration /\ 0 \in 0..MaxGenerations
  BY GenerationAssumption DEF Generations, NoGeneration, OrNoGeneration
<1>2. NoConfig \in Configs
  BY GenerationAssumption DEF NoConfig, Configs
<1>3. GenerationTypeOK
  <2>1. config \in [Generations -> Configs] /\ refs \in [Digests -> 0..2]
    BY <1>2 DEF GenerationInit
  <2>2. /\ server \in [Generations -> {"none", "up", "down"}]
        /\ holds \in [Generations -> BOOLEAN]
        /\ settled \in [Generations -> {"no", "clean", "error"}]
    BY DEF GenerationInit
  <2>3. routed \in [Addresses -> OrNoGeneration]
    BY <1>1 DEF GenerationInit
  <2>4. QED
    BY <1>1, <2>1, <2>2, <2>3 DEF GenerationInit, GenerationTypeOK
<1>4. CourseInv
  BY DEF GenerationInit, CourseInv
<1>5. NumbersInv
  <2>1. {g \in Generations : Used(g)} = {} /\ 1..0 = {}
    BY DEF GenerationInit, Used
  <2>2. candidate = NoGeneration /\ current = NoGeneration /\ retiring = NoGeneration
        /\ \A a \in Addresses : routed[a] = NoGeneration
    BY DEF GenerationInit
  <2>3. QED
    BY <1>1, <2>1, <2>2 DEF NumbersInv
<1>6. HoldersInv
  <2>1. \A d \in Digests : Holders(d) = {} /\ refs[d] = 0
    BY DEF GenerationInit, Holders
  <2>2. \A g \in Generations : ~holds[g]
    BY DEF GenerationInit
  <2>3. QED
    BY <2>1, <2>2, FS_EmptySet DEF HoldersInv
<1>7. StageInv /\ AdmittedInv /\ StoppedMeansReleased
  BY DEF GenerationInit, StageInv, AdmittedInv, StoppedMeansReleased
<1>8. WholeInv
  BY DEF GenerationInit, WholeInv
<1>9. QED
  BY <1>3, <1>4, <1>5, <1>6, <1>7, <1>8 DEF GenerationInv

LEMMA GenerationInvStep ==
    ASSUME GenerationInv, [GenerationNext]_graphVars
    PROVE  GenerationInv'
<1>1. CASE GenerationNext
  <2>1. CourseInv' /\ NumbersInv' /\ GenerationsOK' /\ HoldersInv' /\ StageInv' /\ AdmittedInv' /\ WholeInv'
    BY <1>1, CourseStep, NumbersStep, HoldersStep, StageStep, AdmittedStep, WholeStep DEF GenerationInv
  <2>2. GenerationTypeOK' /\ StoppedMeansReleased'
    BY <1>1, <2>1, GenerationTypeStep, StoppedStep DEF GenerationInv
  <2>3. QED
    BY <2>1, <2>2 DEF GenerationInv
<1>2. CASE UNCHANGED graphVars
  <2> USE <1>2 DEF graphVars, coordinatorVars, generationVars, hubVars
  <2>1. GenerationTypeOK'
    BY DEF GenerationInv, GenerationTypeOK
  <2>2. CourseInv' /\ StoppedMeansReleased'
    BY DEF GenerationInv, CourseInv, StoppedMeansReleased
  <2>3. NumbersInv'
    <3>1. {g \in Generations : Used(g)}' = {g \in Generations : Used(g)} /\ (Used(candidate)' <=> Used(candidate))
      BY DEF Used
    <3>2. QED
      BY <3>1 DEF GenerationInv, NumbersInv
  <2>4. HoldersInv'
    <3>1. \A d \in Digests : Holders(d)' = Holders(d)
      BY DEF Holders
    <3>2. QED
      BY <3>1 DEF GenerationInv, HoldersInv
  <2>5. StageInv' /\ AdmittedInv'
    BY DEF GenerationInv, StageInv, AdmittedInv, Address
  <2>6. WholeInv'
    <3>1. Served(current)' <=> Served(current)
      BY DEF Served, Address
    <3>2. QED
      BY <3>1 DEF GenerationInv, WholeInv
  <2>7. QED
    BY <2>1, <2>2, <2>3, <2>4, <2>5, <2>6 DEF GenerationInv
<1>3. QED
  BY <1>1, <1>2

LEMMA GenerationInvIsEnough == GenerationInv => GenerationIsSound
<1> SUFFICES ASSUME GenerationInv PROVE GenerationIsSound
  OBVIOUS
<1>1. CurrentIsServed
  <2>1. lifecycle = "running" => pc \notin Committed
    BY DEF GenerationInv, CourseInv, Preparing, Committed
  <2>2. QED
    BY <2>1 DEF GenerationInv, WholeInv, CurrentIsServed, ReadyMeansServed
<1>2. ServersHoldResources
  <2>1. \A d \in Digests : Holders(d) = {g \in Generations : holds[g] /\ config[g][1] = d}
    BY DEF Holders
  <2>2. QED
    BY <2>1 DEF GenerationInv, WholeInv, HoldersInv, ServersHoldResources
<1>3. OneAdmitted
  <2>1. ASSUME NEW S, NEW x, S \subseteq {x} PROVE Cardinality(S) <= 1
    <3>1. IsFiniteSet({x}) /\ Cardinality({x}) = 1
      BY FS_Singleton
    <3>2. QED
      BY <2>1, <3>1, FS_Subset
  <2>2. \E x : admitted \subseteq {x}
    BY DEF GenerationInv, AdmittedInv
  <2>3. QED
    BY <2>1, <2>2 DEF GenerationInv, AdmittedInv, OneAdmitted
<1>4. AtMostTwoGenerations
  <2> SUFFICES ASSUME ~halfCommitted
               PROVE  Cardinality({g \in Generations : server[g] = "up"}) <= 2
    BY DEF AtMostTwoGenerations
  <2>1. {g \in Generations : server[g] = "up"} \subseteq {current, retiring, candidate}
    BY DEF GenerationInv, WholeInv, HoldersInv
  <2>2. retiring = NoGeneration \/ candidate = NoGeneration
    BY DEF GenerationInv, CourseInv, Preparing, Committed
  <2>3. Cardinality({g \in Generations : server[g] = "up"}) \in 0..2
    BY <2>1, <2>2, AtMostTwo
  <2>4. QED
    BY <2>3
<1>5. QED
  BY <1>1, <1>2, <1>3, <1>4 DEF GenerationIsSound, GenerationInv

\* internal/kernel/generation.go with internal/composition/generation.go: as
\* long as no Commit stops half way, a generation that is current and ready is
\* served by both its routes, its consumers and its scheduler, no server
\* outlives the resources of its generation, whose references the pools count
\* exactly, a clean stop leaves nothing held, and never do more than two
\* generations serve. And always the consumers and the schedulers of at most
\* one generation are active.
THEOREM GenerationIsSoundHolds == GenerationSpec => []GenerationIsSound
<1>1. GenerationInit => GenerationInv
  BY GenerationInvInitially
<1>2. GenerationInv /\ [GenerationNext]_graphVars => GenerationInv'
  BY GenerationInvStep
<1>3. GenerationInv => GenerationIsSound
  BY GenerationInvIsEnough
<1>4. QED
  BY <1>1, <1>2, <1>3, PTL DEF GenerationSpec

-----------------------------------------------------------------------------
(* The parts of a generation: the inductive invariant.                     *)

\* What the first steps of Prepare leave behind.
Built(n) == {Steps[i] : i \in 1..n} \ Checks

\* Graphs are numbered one after the other; one that is put together or serves
\* has exactly the parts its steps have built, one that is not there has none.
BuiltInv ==
    /\ \E n \in 0..MaxGraphs : {g \in Graphs : phase[g] # "none"} = 1..n
    /\ \A g \in Graphs :
        /\ phase[g] = "none" => at[g] = 0
        /\ phase[g] \in {"none", "settled"} => held[g] = {}
        /\ phase[g] = "preparing" => at[g] < Len(Steps)
        /\ phase[g] \in {"preparing", "prepared", "serving"} => held[g] = Built(at[g]) /\ g \notin unserved
        /\ g \in unserved => held[g] \cap Servers # {}

\* At most one graph serves, and at most one other is there.
LiveInv ==
    /\ \A g \in Serving : \A h \in Serving : g = h
    /\ \E a \in Graphs : \E b \in Graphs :
        \A g \in Graphs : phase[g] \notin {"none", "settled"} => g \in {a, b}

\* Whose finalizer failed has reported it.
LeftInv == \A l \in left : l[1] \in reported

AssemblyInv == AssemblyTypeOK /\ BuiltInv /\ LiveInv /\ LeftInv /\ PoolsAreExact /\ UsersGoFirst

\* The steps of Prepare, one by one, and the parts among them.
LEMMA StepsAre ==
    /\ Len(Steps) = 17 /\ DOMAIN Steps = 1..17
    /\ Steps[1] = "logger" /\ Steps[2] = "database" /\ Steps[3] = "cache" /\ Steps[4] = "i18n"
    /\ Steps[5] = "storage" /\ Steps[6] = "metrics" /\ Steps[7] = "telemetry" /\ Steps[8] = "auth"
    /\ Steps[9] = "migration" /\ Steps[10] = "execution" /\ Steps[11] = "messaging"
    /\ Steps[12] = "modules" /\ Steps[13] = "scheduler" /\ Steps[14] = "participants"
    /\ Steps[15] = "router" /\ Steps[16] = "server" /\ Steps[17] = "management"
BY DEF Steps, Shared

LEMMA PartsAre ==
    /\ Pools = {"logger", "database", "cache", "i18n", "storage", "metrics", "execution"}
    /\ Parts = {"logger", "database", "cache", "i18n", "storage", "metrics", "execution", "telemetry",
                "messaging", "scheduler", "participants", "server", "management"}
    /\ Pools \cap Checks = {} /\ Servers \subseteq Parts /\ Servers \cap Pools = {} /\ Pools \subseteq Parts
<1>1. Pools = {"logger", "database", "cache", "i18n", "storage", "metrics", "execution"}
  BY DEF Pools, Shared, ToSet
<1>2. ToSet(Steps) = {Steps[i] : i \in 1..17}
  BY StepsAre DEF ToSet
<1>3. {Steps[i] : i \in 1..17} =
          {"logger", "database", "cache", "i18n", "storage", "metrics", "telemetry", "auth", "migration",
           "execution", "messaging", "modules", "scheduler", "participants", "router", "server", "management"}
  <2>1. \A i \in 1..17 : i \in {1, 2, 3, 4, 5, 6, 7, 8, 9, 10, 11, 12, 13, 14, 15, 16, 17}
    OBVIOUS
  <2>2. QED
    BY <2>1, StepsAre
<1>4. Parts = {"logger", "database", "cache", "i18n", "storage", "metrics", "execution", "telemetry",
               "messaging", "scheduler", "participants", "server", "management"}
  BY <1>2, <1>3 DEF Parts, Checks
<1>5. QED
  BY <1>1, <1>4 DEF Checks, Servers

\* Each step adds its own part, and finds built what the part is handed.
LEMMA StepFacts ==
    ASSUME NEW n \in 0..16
    PROVE  /\ Built(n + 1) = Built(n) \cup ({Steps[n + 1]} \ Checks)
           /\ Steps[n + 1] \notin Checks =>
                Steps[n + 1] \in Parts \ Built(n) /\ Uses(Steps[n + 1]) \subseteq Built(n)
<1>1. Built(n + 1) = Built(n) \cup ({Steps[n + 1]} \ Checks)
  <2>1. 1..(n + 1) = (1..n) \cup {n + 1}
    OBVIOUS
  <2>2. QED
    BY <2>1 DEF Built
<1>2. n \in {0, 1, 2, 3, 4, 5, 6, 7, 8, 9, 10, 11, 12, 13, 14, 15, 16}
  OBVIOUS
<1>3. \A i \in 1..17 : i \in {1, 2, 3, 4, 5, 6, 7, 8, 9, 10, 11, 12, 13, 14, 15, 16, 17}
  OBVIOUS
<1>4. ASSUME NEW i \in 1..n PROVE Steps[i] # Steps[n + 1]
  BY <1>2, <1>3, StepsAre
<1>5. Steps[n + 1] \notin Checks => Steps[n + 1] \in Parts \ Built(n)
  BY <1>2, <1>4, StepsAre, PartsAre DEF Built, Checks
<1>6. ASSUME Steps[n + 1] \notin Checks, NEW used \in Uses(Steps[n + 1])
      PROVE  used \in Built(n)
  <2>1. \E i \in 1..n : used = Steps[i]
    BY <1>2, <1>6, StepsAre DEF Uses
  <2>2. used \notin Checks
    BY <1>2, <1>6, StepsAre DEF Uses, Checks
  <2>3. QED
    BY <2>1, <2>2 DEF Built
<1>7. QED
  BY <1>1, <1>5, <1>6

\* Whoever is handed a part comes before it in the order of the teardown.
Agrees(order) ==
    \A user \in Parts : \A used \in Uses(user) : \A i \in DOMAIN order :
        order[i] = used => \E j \in 1..(i - 1) : order[j] = user

LEMMA TeardownAgrees == Agrees(Teardown) /\ Agrees(<<"management">> \o Teardown)
<1>1. /\ DOMAIN Teardown = 1..13 /\ Len(Teardown) = 13
      /\ Teardown[1] = "server" /\ Teardown[2] = "management" /\ Teardown[3] = "participants"
      /\ Teardown[4] = "scheduler" /\ Teardown[5] = "messaging" /\ Teardown[6] = "telemetry"
      /\ Teardown[7] = "metrics" /\ Teardown[8] = "storage" /\ Teardown[9] = "i18n"
      /\ Teardown[10] = "cache" /\ Teardown[11] = "database" /\ Teardown[12] = "logger"
      /\ Teardown[13] = "execution"
  BY DEF Teardown
<1>2. \A i \in 1..13 : i \in {1, 2, 3, 4, 5, 6, 7, 8, 9, 10, 11, 12, 13}
  OBVIOUS
<1>3. ASSUME NEW user \in Parts, NEW used \in Uses(user), NEW i \in 1..13, Teardown[i] = used
      PROVE  \E j \in 1..(i - 1) : Teardown[j] = user
  <2>1. CASE user = "telemetry"
    BY <1>1, <1>2, <1>3, <2>1 DEF Uses
  <2>2. CASE user = "messaging"
    BY <1>1, <1>2, <1>3, <2>2 DEF Uses
  <2>3. CASE user = "scheduler"
    BY <1>1, <1>2, <1>3, <2>3 DEF Uses
  <2>4. CASE user = "participants"
    BY <1>1, <1>2, <1>3, <2>4 DEF Uses
  <2>5. CASE user = "server"
    BY <1>1, <1>2, <1>3, <2>5 DEF Uses
  <2>6. CASE user = "management"
    BY <1>1, <1>2, <1>3, <2>6 DEF Uses
  <2>7. CASE user \notin {"telemetry", "messaging", "scheduler", "participants", "server", "management"}
    BY <1>3, <2>7 DEF Uses
  <2>8. QED
    BY <2>1, <2>2, <2>3, <2>4, <2>5, <2>6, <2>7
<1>4. Agrees(Teardown)
  BY <1>1, <1>3 DEF Agrees
<1>5. /\ DOMAIN (<<"management">> \o Teardown) = 1..14
      /\ (<<"management">> \o Teardown)[1] = "management"
      /\ \A i \in 1..13 : (<<"management">> \o Teardown)[i + 1] = Teardown[i]
  BY <1>1 DEF Teardown
<1>6. Agrees(<<"management">> \o Teardown)
  <2> DEFINE order == <<"management">> \o Teardown
  <2>1. ASSUME NEW user \in Parts, NEW used \in Uses(user), NEW i \in 1..14, order[i] = used
        PROVE  \E j \in 1..(i - 1) : order[j] = user
    <3>1. used # "management"
      BY <2>1 DEF Uses
    <3>2. i # 1
      BY <1>5, <2>1, <3>1
    <3>3. i - 1 \in 1..13 /\ Teardown[i - 1] = used
      <4>1. i - 1 \in 1..13 /\ (i - 1) + 1 = i
        BY <3>2
      <4>2. QED
        BY <1>5, <2>1, <4>1
    <3>4. PICK j \in 1..((i - 1) - 1) : Teardown[j] = user
      BY <1>3, <3>3
    <3>5. j + 1 \in 1..(i - 1) /\ j \in 1..13
      BY <3>3, <3>4
    <3>6. order[j + 1] = user
      BY <1>5, <3>4, <3>5
    <3>7. QED
      BY <3>5, <3>6
  <2> HIDE DEF order
  <2>2. DOMAIN order = 1..14
    BY <1>5 DEF order
  <2>3. Agrees(order)
    BY <2>1, <2>2 DEF Agrees
  <2>4. QED
    BY <2>3 DEF order
<1>7. QED
  BY <1>4, <1>6

\* So whatever goes next is used by nothing that is still there.
LEMMA NothingUsesTheNext ==
    ASSUME NEW g \in Graphs, NEW part, held[g] \subseteq Parts, NextToGo(g, part)
    PROVE  part \in held[g] /\ \A user \in held[g] : part \notin Uses(user)
<1>1. part \in held[g] /\ First(g, Order(g), part)
  BY DEF NextToGo, First
<1>2. PICK i \in 1..Len(Order(g)) : Order(g)[i] = part /\ \A j \in 1..(i - 1) : Order(g)[j] \notin held[g]
  BY <1>1 DEF First
<1>3. Agrees(Order(g))
  BY TeardownAgrees DEF Order
<1>4. DOMAIN Order(g) = 1..Len(Order(g))
  <2>1. DOMAIN Teardown = 1..Len(Teardown)
    BY DEF Teardown
  <2>2. DOMAIN (<<"management">> \o Teardown) = 1..Len(<<"management">> \o Teardown)
    BY DEF Teardown
  <2>3. CASE phase[g] = "aborting"
    BY <2>2, <2>3 DEF Order
  <2>4. CASE phase[g] # "aborting"
    BY <2>1, <2>4 DEF Order
  <2>5. QED
    BY <2>3, <2>4
<1>5. QED
  BY <1>1, <1>2, <1>3, <1>4 DEF Agrees

\* The generations that hold a handle of an entry, when they hold H and were
\* built from D.
HoldersOf(H, D, e) == {g \in Graphs : e[1] \in H[g] /\ <<e[1], D[g][e[1]]>> = e}

LEMMA HoldersAreUsers ==
    PoolsAreExact <=> \A e \in Entries : counts[e] = Cardinality(HoldersOf(held, digests, e))
BY DEF PoolsAreExact, HoldersOf, EntryOf

LEMMA HoldersAreFinite ==
    ASSUME NEW H, NEW D, NEW e
    PROVE  IsFiniteSet(HoldersOf(H, D, e)) /\ Cardinality(HoldersOf(H, D, e)) \in Nat
<1>1. IsFiniteSet(Graphs)
  BY AssemblyAssumption, FS_Interval DEF Graphs
<1>2. HoldersOf(H, D, e) \in SUBSET Graphs
  BY DEF HoldersOf
<1>3. IsFiniteSet(HoldersOf(H, D, e))
  BY <1>1, <1>2, FS_Subset
<1>4. QED
  BY <1>3, FS_CardinalityType

\* Who holds the entries depends on the pools among the parts alone.
LEMMA HoldersStay ==
    ASSUME NEW H, NEW D, NEW I, NEW E, NEW e \in Entries,
           \A g \in Graphs : \A pool \in Pools :
               /\ pool \in I[g] <=> pool \in H[g]
               /\ pool \in H[g] => E[g] = D[g]
    PROVE  HoldersOf(I, E, e) = HoldersOf(H, D, e)
<1>1. e[1] \in Pools
  BY DEF Entries
<1>2. ASSUME NEW g \in Graphs
      PROVE  (e[1] \in I[g] /\ <<e[1], E[g][e[1]]>> = e) <=> (e[1] \in H[g] /\ <<e[1], D[g][e[1]]>> = e)
  BY <1>1
<1>3. QED
  BY <1>2 DEF HoldersOf

\* At most two generations hold anything, so no entry has three holders.
LEMMA TwoHolders ==
    ASSUME NEW H, NEW D, NEW e, NEW a \in Graphs, NEW b \in Graphs,
           \A g \in Graphs : H[g] # {} => g \in {a, b}
    PROVE  Cardinality(HoldersOf(H, D, e)) \in 0..2
<1>1. IsFiniteSet({a, b}) /\ Cardinality({a, b}) <= 2
  <2>1. IsFiniteSet({a}) /\ Cardinality({a}) = 1
    BY FS_Singleton
  <2>2. {a} \cup {b} = {a, b}
    OBVIOUS
  <2>3. IsFiniteSet({a} \cup {b}) /\ Cardinality({a} \cup {b}) = IF b \in {a} THEN Cardinality({a}) ELSE Cardinality({a}) + 1
    BY <2>1, FS_AddElement
  <2>4. QED
    BY <2>1, <2>2, <2>3
<1>2. HoldersOf(H, D, e) \in SUBSET {a, b}
  BY DEF HoldersOf
<1>3. Cardinality(HoldersOf(H, D, e)) <= Cardinality({a, b})
  BY <1>1, <1>2, FS_Subset
<1>4. Cardinality({a, b}) \in Nat /\ Cardinality(HoldersOf(H, D, e)) \in Nat
  BY <1>1, HoldersAreFinite, FS_CardinalityType
<1>5. QED
  BY <1>1, <1>3, <1>4

\* As long as nobody takes or gives back a handle, the pools stay exact.
LEMMA PoolsUntouched ==
    ASSUME PoolsAreExact, counts' = counts,
           \A g \in Graphs : \A pool \in Pools :
               /\ pool \in held'[g] <=> pool \in held[g]
               /\ pool \in held[g] => digests'[g] = digests[g]
    PROVE  PoolsAreExact'
<1>1. ASSUME NEW e \in Entries
      PROVE  counts'[e] = Cardinality(HoldersOf(held', digests', e))
  <2>1. HoldersOf(held', digests', e) = HoldersOf(held, digests, e)
    BY HoldersStay
  <2>2. QED
    BY <2>1, HoldersAreUsers
<1>2. QED
  BY <1>1 DEF PoolsAreExact, HoldersOf, EntryOf

\* A step that changes only where its generations are: none appears or goes,
\* none is put back to where its parts would be counted from its steps, and at
\* most one serves.
LEMMA PhasesMove ==
    ASSUME AssemblyInv, UNCHANGED <<at, digests, held, unserved, counts, left>>,
           reported \subseteq reported', reported' \subseteq Graphs, phase' \in [Graphs -> Phases],
           \A g \in Graphs :
               /\ phase'[g] = "none" <=> phase[g] = "none"
               /\ phase'[g] = "settled" <=> phase[g] = "settled"
               /\ phase'[g] = "preparing" => phase[g] = "preparing"
               /\ phase'[g] \in {"preparing", "prepared", "serving"} => phase[g] \in {"preparing", "prepared", "serving"},
           \A g \in Graphs : \A h \in Graphs : phase'[g] = "serving" /\ phase'[h] = "serving" => g = h
    PROVE  AssemblyInv'
<1>1. AssemblyTypeOK'
  BY DEF AssemblyInv, AssemblyTypeOK
<1>2. BuiltInv'
  <2>1. {g \in Graphs : phase'[g] # "none"} = {g \in Graphs : phase[g] # "none"}
    OBVIOUS
  <2>2. QED
    BY <2>1 DEF AssemblyInv, BuiltInv
<1>3. LiveInv'
  <2>1. \A g \in Serving' : \A h \in Serving' : g = h
    BY DEF Serving
  <2>2. PICK a \in Graphs, b \in Graphs : \A g \in Graphs : phase[g] \notin {"none", "settled"} => g \in {a, b}
    BY DEF AssemblyInv, LiveInv
  <2>3. \A g \in Graphs : phase'[g] \notin {"none", "settled"} => g \in {a, b}
    BY <2>2
  <2>4. QED
    BY <2>1, <2>3 DEF LiveInv
<1>4. LeftInv'
  BY DEF AssemblyInv, LeftInv
<1>5. PoolsAreExact'
  BY PoolsUntouched DEF AssemblyInv
<1>6. UsersGoFirst'
  BY DEF AssemblyInv, UsersGoFirst
<1>7. QED
  BY <1>1, <1>2, <1>3, <1>4, <1>5, <1>6 DEF AssemblyInv

\* The steps of that kind: one of Prepare fails, the candidate does, it is
\* committed, an end begins, an end is given up.
LEMMA PhasesMoveSoundly ==
    ASSUME AssemblyInv, NEW g \in Graphs,
           StepFails(g) \/ CandidateFails(g) \/ Commit(g) \/ BeginEnd(g) \/ StopFails(g)
    PROVE  AssemblyInv'
<1>1. phase \in [Graphs -> Phases] /\ reported \subseteq Graphs
  BY DEF AssemblyInv, AssemblyTypeOK
<1>2. \A h \in Graphs : \A k \in Graphs : phase[h] = "serving" /\ phase[k] = "serving" => h = k
  BY DEF AssemblyInv, LiveInv, Serving
<1>3. CASE StepFails(g)
  BY <1>1, <1>2, <1>3, PhasesMove DEF StepFails, Phases
<1>4. CASE CandidateFails(g)
  BY <1>1, <1>2, <1>4, PhasesMove DEF CandidateFails, Phases
<1>5. CASE Commit(g)
  BY <1>1, <1>2, <1>5, PhasesMove DEF Commit, Phases
<1>6. CASE BeginEnd(g)
  BY <1>1, <1>2, <1>6, PhasesMove DEF BeginEnd, Phases
<1>7. CASE StopFails(g)
  BY <1>1, <1>2, <1>7, PhasesMove DEF StopFails, Phases
<1>8. QED
  BY <1>3, <1>4, <1>5, <1>6, <1>7

\* A generation appears: it is the next, and joins at most the one that serves.
LEMMA BeginPrepareIsSound ==
    ASSUME AssemblyInv, NEW g \in Graphs, NEW v \in Variants, BeginPrepare(g, v)
    PROVE  AssemblyInv'
<1>1. PICK n \in 0..MaxGraphs : {h \in Graphs : phase[h] # "none"} = 1..n
  BY DEF AssemblyInv, BuiltInv
<1>2. g = n + 1
  <2>1. Cardinality(1..n) = n
    BY FS_Interval
  <2>2. QED
    BY <1>1, <2>1 DEF BeginPrepare
<1>3. phase[g] = "none"
  <2>1. g \notin 1..n
    BY <1>2
  <2>2. QED
    BY <1>1, <2>1
<1>4. /\ phase'[g] = "preparing" /\ \A h \in Graphs \ {g} : phase'[h] = phase[h]
      /\ digests'[g] = v /\ \A h \in Graphs \ {g} : digests'[h] = digests[h]
      /\ UNCHANGED <<at, held, unserved, counts, left, reported>>
  BY DEF BeginPrepare, AssemblyInv, AssemblyTypeOK
<1>5. held[g] = {} /\ at[g] = 0
  BY <1>3 DEF AssemblyInv, BuiltInv
<1>6. \A h \in Graphs : phase[h] \in {"none", "serving", "settled"}
  BY DEF BeginPrepare, AtRest
<1>7. AssemblyTypeOK'
  BY <1>4 DEF BeginPrepare, AssemblyInv, AssemblyTypeOK, Phases
<1>8. BuiltInv'
  <2>1. {h \in Graphs : phase'[h] # "none"} = 1..(n + 1)
    <3>1. {h \in Graphs : phase'[h] # "none"} = {h \in Graphs : phase[h] # "none"} \cup {g}
      BY <1>4
    <3>2. 1..(n + 1) = (1..n) \cup {n + 1}
      OBVIOUS
    <3>3. QED
      BY <1>1, <1>2, <3>1, <3>2
  <2>2. n + 1 \in 0..MaxGraphs
    BY <1>2, AssemblyAssumption DEF Graphs
  <2>3. \E m \in 0..MaxGraphs : {h \in Graphs : phase'[h] # "none"} = 1..m
    BY <2>1, <2>2
  <2>4. Built(0) = {}
    BY DEF Built
  <2>5. ASSUME NEW h \in Graphs
        PROVE  /\ phase'[h] = "none" => at'[h] = 0
               /\ phase'[h] \in {"none", "settled"} => held'[h] = {}
               /\ phase'[h] = "preparing" => at'[h] < Len(Steps)
               /\ phase'[h] \in {"preparing", "prepared", "serving"} => held'[h] = Built(at'[h]) /\ h \notin unserved'
               /\ h \in unserved' => held'[h] \cap Servers # {}
    <3>1. CASE h = g
      <4>1. g \notin unserved
        BY <1>5 DEF AssemblyInv, BuiltInv
      <4>2. at[g] < Len(Steps)
        BY <1>5, StepsAre
      <4>3. QED
        BY <1>4, <1>5, <2>4, <3>1, <4>1, <4>2
    <3>2. CASE h # g
      BY <1>4, <3>2 DEF AssemblyInv, BuiltInv
    <3>3. QED
      BY <3>1, <3>2
  <2>6. QED
    BY <2>3, <2>5 DEF BuiltInv
<1>9. LiveInv'
  <2>1. \A h \in Graphs : \A k \in Graphs : phase'[h] = "serving" /\ phase'[k] = "serving" => h = k
    BY <1>4 DEF AssemblyInv, LiveInv, Serving
  <2>2. \E b \in Graphs : \A h \in Graphs : phase[h] = "serving" => h = b
    BY DEF AssemblyInv, LiveInv, Serving
  <2>3. PICK b \in Graphs : \A h \in Graphs : phase[h] = "serving" => h = b
    BY <2>2
  <2>4. \A h \in Graphs : phase'[h] \notin {"none", "settled"} => h \in {g, b}
    BY <1>4, <1>6, <2>3
  <2>5. QED
    BY <2>1, <2>4 DEF LiveInv, Serving
<1>10. LeftInv'
  BY <1>4 DEF AssemblyInv, LeftInv
<1>11. PoolsAreExact'
  BY <1>4, <1>5, PoolsUntouched DEF AssemblyInv
<1>12. UsersGoFirst'
  BY <1>4 DEF AssemblyInv, UsersGoFirst
<1>13. QED
  BY <1>7, <1>8, <1>9, <1>10, <1>11, <1>12 DEF AssemblyInv

\* Prepare has a step behind it, and keeps its part unless it is a check:
\* everything but the pools.
LEMMA PrepareAdvances ==
    ASSUME AssemblyInv, NEW g \in Graphs, NEW step, Advance(g, step),
           held' = [held EXCEPT ![g] = @ \cup ({step} \ Checks)],
           UNCHANGED <<digests, unserved, left, reported>>
    PROVE  /\ phase' \in [Graphs -> Phases] /\ at' \in [Graphs -> 0..Len(Steps)] /\ held' \in [Graphs -> SUBSET Parts]
           /\ BuiltInv' /\ LiveInv' /\ LeftInv' /\ UsersGoFirst'
           /\ step \notin Checks => step \in Parts \ held[g]
<1>1. /\ phase \in [Graphs -> Phases] /\ at \in [Graphs -> 0..Len(Steps)] /\ held \in [Graphs -> SUBSET Parts]
  BY DEF AssemblyInv, AssemblyTypeOK
<1>2. phase[g] = "preparing" /\ step = Steps[at[g] + 1]
  BY DEF Advance
<1>3. at[g] \in 0..16 /\ held[g] = Built(at[g]) /\ g \notin unserved
  BY <1>1, <1>2, StepsAre DEF AssemblyInv, BuiltInv
<1>4. /\ at'[g] = at[g] + 1 /\ \A h \in Graphs \ {g} : at'[h] = at[h]
      /\ phase'[g] = (IF at[g] + 1 = 17 THEN "prepared" ELSE "preparing")
      /\ \A h \in Graphs \ {g} : phase'[h] = phase[h]
      /\ held'[g] = held[g] \cup ({step} \ Checks) /\ \A h \in Graphs \ {g} : held'[h] = held[h]
  BY <1>1, <1>2, StepsAre DEF Advance
<1>5. held'[g] = Built(at[g] + 1)
  BY <1>2, <1>3, <1>4, StepFacts
<1>6. step \notin Checks => step \in Parts \ held[g] /\ Uses(step) \subseteq held[g]
  BY <1>2, <1>3, StepFacts
<1>7. phase' \in [Graphs -> Phases]
  BY <1>1 DEF Advance, Phases
<1>8. at' \in [Graphs -> 0..Len(Steps)]
  <2>1. at[g] + 1 \in 0..Len(Steps)
    BY <1>3, StepsAre
  <2>2. QED
    BY <1>1, <2>1 DEF Advance
<1>9. held' \in [Graphs -> SUBSET Parts]
  <2>1. held[g] \cup ({step} \ Checks) \in SUBSET Parts
    BY <1>1, <1>6
  <2>2. QED
    BY <1>1, <2>1
<1>10. BuiltInv'
  <2>1. {h \in Graphs : phase'[h] # "none"} = {h \in Graphs : phase[h] # "none"}
    BY <1>2, <1>4
  <2>2. \E m \in 0..MaxGraphs : {h \in Graphs : phase'[h] # "none"} = 1..m
    BY <2>1 DEF AssemblyInv, BuiltInv
  <2>3. ASSUME NEW h \in Graphs
        PROVE  /\ phase'[h] = "none" => at'[h] = 0
               /\ phase'[h] \in {"none", "settled"} => held'[h] = {}
               /\ phase'[h] = "preparing" => at'[h] < Len(Steps)
               /\ phase'[h] \in {"preparing", "prepared", "serving"} => held'[h] = Built(at'[h]) /\ h \notin unserved'
               /\ h \in unserved' => held'[h] \cap Servers # {}
    <3>1. CASE h = g
      <4>1. phase'[g] = "preparing" => at'[g] < Len(Steps)
        BY <1>3, <1>4, StepsAre
      <4>2. phase'[g] \in {"preparing", "prepared"}
        BY <1>4
      <4>3. QED
        BY <1>3, <1>4, <1>5, <3>1, <4>1, <4>2
    <3>2. CASE h # g
      BY <1>4, <3>2 DEF AssemblyInv, BuiltInv
    <3>3. QED
      BY <3>1, <3>2
  <2>4. QED
    BY <2>2, <2>3 DEF BuiltInv
<1>11. LiveInv'
  <2>1. \A h \in Graphs : /\ phase'[h] = "serving" <=> phase[h] = "serving"
                          /\ phase'[h] \in {"none", "settled"} <=> phase[h] \in {"none", "settled"}
    BY <1>2, <1>4
  <2>2. QED
    BY <2>1 DEF AssemblyInv, LiveInv, Serving
<1>12. LeftInv'
  BY DEF AssemblyInv, LeftInv
<1>13. UsersGoFirst'
  BY <1>4, <1>6 DEF AssemblyInv, UsersGoFirst
<1>14. QED
  BY <1>6, <1>7, <1>8, <1>9, <1>10, <1>11, <1>12, <1>13


LEMMA EntryIsThere ==
    ASSUME NEW v \in Variants, NEW pool \in Pools
    PROVE  <<pool, v[pool]>> \in Entries
BY DEF Entries

\* The step takes a handle.
LEMMA TakeHandleIsSound ==
    ASSUME AssemblyInv, NEW g \in Graphs, NEW pool \in Pools, TakeHandle(g, pool)
    PROVE  AssemblyInv'
<1>1. /\ counts \in [Entries -> 0..2] /\ digests \in [Graphs -> Variants] /\ held \in [Graphs -> SUBSET Parts]
      /\ unserved \subseteq Graphs /\ left \subseteq Graphs \X Parts /\ reported \subseteq Graphs
  BY DEF AssemblyInv, AssemblyTypeOK
<1>2. {pool} \ Checks = {pool}
  BY PartsAre
<1>3. /\ Advance(g, pool) /\ held' = [held EXCEPT ![g] = @ \cup ({pool} \ Checks)]
      /\ UNCHANGED <<digests, unserved, left, reported>>
      /\ counts' = [counts EXCEPT ![EntryOf(g, pool)] = @ + 1]
  BY <1>2 DEF TakeHandle, Keep
<1>4. /\ phase' \in [Graphs -> Phases] /\ at' \in [Graphs -> 0..Len(Steps)] /\ held' \in [Graphs -> SUBSET Parts]
      /\ BuiltInv' /\ LiveInv' /\ LeftInv' /\ UsersGoFirst' /\ pool \notin held[g]
  BY <1>3, PrepareAdvances, PartsAre
<1>5. EntryOf(g, pool) = <<pool, digests[g][pool]>> /\ EntryOf(g, pool) \in Entries
  BY <1>1, EntryIsThere DEF EntryOf
<1>6. held'[g] = held[g] \cup {pool} /\ \A h \in Graphs \ {g} : held'[h] = held[h]
  BY <1>1, <1>2, <1>3
<1>7. ASSUME NEW e \in Entries
      PROVE  counts'[e] = Cardinality(HoldersOf(held', digests, e))
  <2>1. counts[e] = Cardinality(HoldersOf(held, digests, e))
    BY HoldersAreUsers DEF AssemblyInv
  <2>2. CASE e = <<pool, digests[g][pool]>>
    <3>1. HoldersOf(held', digests, e) = HoldersOf(held, digests, e) \cup {g} /\ g \notin HoldersOf(held, digests, e)
      BY <1>4, <1>6, <2>2 DEF HoldersOf
    <3>2. Cardinality(HoldersOf(held', digests, e)) = Cardinality(HoldersOf(held, digests, e)) + 1
      BY <3>1, HoldersAreFinite, FS_AddElement
    <3>3. counts'[e] = counts[e] + 1
      BY <1>1, <1>3, <1>5, <2>2
    <3>4. QED
      BY <2>1, <3>2, <3>3
  <2>3. CASE e # <<pool, digests[g][pool]>>
    <3>1. ASSUME NEW h \in Graphs
          PROVE  (e[1] \in held'[h] /\ <<e[1], digests[h][e[1]]>> = e) <=> (e[1] \in held[h] /\ <<e[1], digests[h][e[1]]>> = e)
      BY <1>6, <2>3
    <3>2. HoldersOf(held', digests, e) = HoldersOf(held, digests, e)
      BY <3>1 DEF HoldersOf
    <3>3. counts'[e] = counts[e]
      BY <1>1, <1>3, <1>5, <2>3
    <3>4. QED
      BY <2>1, <3>2, <3>3
  <2>4. QED
    BY <2>2, <2>3
<1>8. PoolsAreExact'
  BY <1>3, <1>7 DEF PoolsAreExact, HoldersOf, EntryOf
<1>9. counts' \in [Entries -> 0..2]
  <2>1. \E a \in Graphs : \E b \in Graphs : \A h \in Graphs : held'[h] # {} => h \in {a, b}
    BY <1>4 DEF LiveInv, BuiltInv
  <2>2. \A e \in Entries : Cardinality(HoldersOf(held', digests, e)) \in 0..2
    BY <2>1, TwoHolders
  <2>3. DOMAIN counts' = Entries /\ counts' = [e \in Entries |-> counts'[e]]
    BY <1>1, <1>3
  <2>4. QED
    BY <1>7, <2>2, <2>3
<1>10. AssemblyTypeOK'
  BY <1>1, <1>3, <1>4, <1>9 DEF AssemblyTypeOK
<1>11. QED
  BY <1>4, <1>8, <1>10 DEF AssemblyInv

\* The step builds a part of the generation's own, or checks something.
LEMMA BuildIsSound ==
    ASSUME AssemblyInv, NEW g \in Graphs, NEW step, step \notin Pools, Advance(g, step),
           held' = [held EXCEPT ![g] = @ \cup ({step} \ Checks)],
           UNCHANGED <<digests, unserved, counts, left, reported>>
    PROVE  AssemblyInv'
<1>1. /\ phase' \in [Graphs -> Phases] /\ at' \in [Graphs -> 0..Len(Steps)] /\ held' \in [Graphs -> SUBSET Parts]
      /\ BuiltInv' /\ LiveInv' /\ LeftInv' /\ UsersGoFirst'
  BY PrepareAdvances
<1>2. held \in [Graphs -> SUBSET Parts]
  BY DEF AssemblyInv, AssemblyTypeOK
<1>3. \A h \in Graphs : \A pool \in Pools : pool \in held'[h] <=> pool \in held[h]
  BY <1>2
<1>4. PoolsAreExact'
  BY <1>3, PoolsUntouched DEF AssemblyInv
<1>5. AssemblyTypeOK'
  BY <1>1 DEF AssemblyTypeOK, AssemblyInv
<1>6. QED
  BY <1>1, <1>4, <1>5 DEF AssemblyInv

\* The server that was made but never served is kept, for abort to close.
LEMMA ListenerRefusedIsSound ==
    ASSUME AssemblyInv, NEW g \in Graphs, ListenerRefused(g)
    PROVE  AssemblyInv'
<1>1. /\ phase \in [Graphs -> Phases] /\ at \in [Graphs -> 0..Len(Steps)] /\ held \in [Graphs -> SUBSET Parts]
      /\ unserved \subseteq Graphs
  BY DEF AssemblyInv, AssemblyTypeOK
<1>2. PICK made \in Servers : made = Steps[at[g] + 1]
  BY DEF ListenerRefused
<1>3. phase[g] = "preparing" /\ at[g] \in 0..16 /\ held[g] = Built(at[g])
  BY <1>1, StepsAre DEF ListenerRefused, AssemblyInv, BuiltInv
<1>4. /\ held'[g] = held[g] \cup {made} /\ \A h \in Graphs \ {g} : held'[h] = held[h]
      /\ phase'[g] = "aborting" /\ \A h \in Graphs \ {g} : phase'[h] = phase[h]
      /\ unserved' = unserved \cup {g} /\ UNCHANGED <<at, digests, counts, left, reported>>
  BY <1>1, <1>2 DEF ListenerRefused, Keep
<1>5. made \in Parts /\ made \notin Pools /\ made \notin Checks
  BY <1>2, PartsAre DEF Servers, Checks
<1>6. Uses(made) \subseteq held[g]
  BY <1>2, <1>3, <1>5, StepFacts
<1>7. AssemblyTypeOK'
  <2>1. held' \in [Graphs -> SUBSET Parts]
    <3>1. held[g] \cup {Steps[at[g] + 1]} \in SUBSET Parts
      BY <1>1, <1>2, <1>5
    <3>2. QED
      BY <1>1, <3>1 DEF ListenerRefused, Keep
  <2>2. phase' \in [Graphs -> Phases]
    BY <1>1 DEF ListenerRefused, Phases
  <2>3. QED
    BY <1>1, <1>4, <2>1, <2>2 DEF AssemblyInv, AssemblyTypeOK
<1>8. BuiltInv'
  <2>1. {h \in Graphs : phase'[h] # "none"} = {h \in Graphs : phase[h] # "none"}
    BY <1>3, <1>4
  <2>2. \E m \in 0..MaxGraphs : {h \in Graphs : phase'[h] # "none"} = 1..m
    BY <2>1 DEF AssemblyInv, BuiltInv
  <2>3. ASSUME NEW h \in Graphs
        PROVE  /\ phase'[h] = "none" => at'[h] = 0
               /\ phase'[h] \in {"none", "settled"} => held'[h] = {}
               /\ phase'[h] = "preparing" => at'[h] < Len(Steps)
               /\ phase'[h] \in {"preparing", "prepared", "serving"} => held'[h] = Built(at'[h]) /\ h \notin unserved'
               /\ h \in unserved' => held'[h] \cap Servers # {}
    <3>1. CASE h = g
      BY <1>2, <1>4, <3>1
    <3>2. CASE h # g
      BY <1>4, <3>2 DEF AssemblyInv, BuiltInv
    <3>3. QED
      BY <3>1, <3>2
  <2>4. QED
    BY <2>2, <2>3 DEF BuiltInv
<1>9. LiveInv'
  <2>1. \A h \in Graphs : /\ phase'[h] = "serving" <=> phase[h] = "serving"
                          /\ phase'[h] \in {"none", "settled"} <=> phase[h] \in {"none", "settled"}
    BY <1>3, <1>4
  <2>2. QED
    BY <2>1 DEF AssemblyInv, LiveInv, Serving
<1>10. LeftInv'
  BY <1>4 DEF AssemblyInv, LeftInv
<1>11. PoolsAreExact'
  <2>1. \A h \in Graphs : \A pool \in Pools : pool \in held'[h] <=> pool \in held[h]
    BY <1>4, <1>5
  <2>2. QED
    BY <1>4, <2>1, PoolsUntouched DEF AssemblyInv
<1>12. UsersGoFirst'
  BY <1>4, <1>6 DEF AssemblyInv, UsersGoFirst
<1>13. QED
  BY <1>7, <1>8, <1>9, <1>10, <1>11, <1>12 DEF AssemblyInv

\* A part goes while a generation is taken apart, in whatever way.
LEMMA GiveBackIsSound ==
    ASSUME AssemblyInv, NEW g \in Graphs, NEW part \in held[g], phase[g] \in {"aborting", "stopping"},
           GiveBack(g, part), UNCHANGED <<phase, at, digests>>,
           unserved' \subseteq unserved, part \in Servers => g \notin unserved',
           reported \subseteq reported', reported' \subseteq Graphs,
           left' \subseteq Graphs \X Parts, LeftInv'
    PROVE  AssemblyInv'
<1>1. /\ counts \in [Entries -> 0..2] /\ digests \in [Graphs -> Variants] /\ held \in [Graphs -> SUBSET Parts]
      /\ unserved \subseteq Graphs
  BY DEF AssemblyInv, AssemblyTypeOK
<1>2. held'[g] = held[g] \ {part} /\ \A h \in Graphs \ {g} : held'[h] = held[h]
  BY <1>1 DEF GiveBack
<1>3. held' \in [Graphs -> SUBSET Parts]
  <2>1. held[g] \ {part} \in SUBSET Parts
    BY <1>1
  <2>2. QED
    BY <1>1, <2>1 DEF GiveBack
<1>4. PoolsAreExact' /\ counts' \in [Entries -> 0..2]
  <2>1. CASE part \notin Pools
    <3>1. counts' = counts
      BY <2>1 DEF GiveBack, Drop
    <3>2. \A h \in Graphs : \A pool \in Pools : pool \in held'[h] <=> pool \in held[h]
      BY <1>2, <2>1
    <3>3. QED
      BY <1>1, <3>1, <3>2, PoolsUntouched DEF AssemblyInv
  <2>2. CASE part \in Pools
    <3>1. EntryOf(g, part) = <<part, digests[g][part]>> /\ EntryOf(g, part) \in Entries
      BY <1>1, <2>2, EntryIsThere DEF EntryOf
    <3>2. counts' = [counts EXCEPT ![EntryOf(g, part)] = @ - 1]
      BY <2>2 DEF GiveBack, Drop
    <3>3. ASSUME NEW e \in Entries
          PROVE  counts'[e] = Cardinality(HoldersOf(held', digests, e))
      <4>1. counts[e] = Cardinality(HoldersOf(held, digests, e))
        BY HoldersAreUsers DEF AssemblyInv
      <4>2. CASE e = <<part, digests[g][part]>>
        <5>1. HoldersOf(held, digests, e) = HoldersOf(held', digests, e) \cup {g} /\ g \notin HoldersOf(held', digests, e)
          BY <1>2, <4>2 DEF HoldersOf
        <5>2. IsFiniteSet(HoldersOf(held', digests, e)) /\ Cardinality(HoldersOf(held', digests, e)) \in Nat
          BY HoldersAreFinite
        <5>3. Cardinality(HoldersOf(held, digests, e)) = Cardinality(HoldersOf(held', digests, e)) + 1
          BY <5>1, <5>2, FS_AddElement
        <5>4. counts'[e] = counts[e] - 1
          BY <1>1, <3>1, <3>2, <4>2
        <5>5. QED
          BY <4>1, <5>2, <5>3, <5>4
      <4>3. CASE e # <<part, digests[g][part]>>
        <5>1. ASSUME NEW h \in Graphs
              PROVE  (e[1] \in held'[h] /\ <<e[1], digests[h][e[1]]>> = e) <=> (e[1] \in held[h] /\ <<e[1], digests[h][e[1]]>> = e)
          BY <1>2, <4>3
        <5>2. HoldersOf(held', digests, e) = HoldersOf(held, digests, e)
          BY <5>1 DEF HoldersOf
        <5>3. counts'[e] = counts[e]
          BY <1>1, <3>1, <3>2, <4>3
        <5>4. QED
          BY <4>1, <5>2, <5>3
      <4>4. QED
        BY <4>2, <4>3
    <3>4. PoolsAreExact'
      BY <3>3 DEF PoolsAreExact, HoldersOf, EntryOf
    <3>5. counts' \in [Entries -> 0..2]
      <4>1. counts[EntryOf(g, part)] \in 0..2 /\ counts[EntryOf(g, part)] # 0
        <5>1. counts[EntryOf(g, part)] = Cardinality(HoldersOf(held, digests, EntryOf(g, part)))
          BY <3>1, HoldersAreUsers DEF AssemblyInv
        <5>2. g \in HoldersOf(held, digests, EntryOf(g, part))
          BY <3>1 DEF HoldersOf
        <5>3. IsFiniteSet(HoldersOf(held, digests, EntryOf(g, part)))
          BY HoldersAreFinite
        <5>4. QED
          BY <1>1, <3>1, <5>1, <5>2, <5>3, FS_EmptySet
      <4>2. counts[EntryOf(g, part)] - 1 \in 0..2
        BY <4>1
      <4>3. QED
        BY <1>1, <3>1, <3>2, <4>2
    <3>6. QED
      BY <3>4, <3>5
  <2>3. QED
    BY <2>1, <2>2
<1>5. AssemblyTypeOK'
  BY <1>1, <1>3, <1>4 DEF AssemblyInv, AssemblyTypeOK
<1>6. BuiltInv'
  <2>1. \E m \in 0..MaxGraphs : {h \in Graphs : phase'[h] # "none"} = 1..m
    BY DEF AssemblyInv, BuiltInv
  <2>2. ASSUME NEW h \in Graphs
        PROVE  /\ phase'[h] = "none" => at'[h] = 0
               /\ phase'[h] \in {"none", "settled"} => held'[h] = {}
               /\ phase'[h] = "preparing" => at'[h] < Len(Steps)
               /\ phase'[h] \in {"preparing", "prepared", "serving"} => held'[h] = Built(at'[h]) /\ h \notin unserved'
               /\ h \in unserved' => held'[h] \cap Servers # {}
    <3>1. CASE h = g
      <4>1. g \in unserved => held[g] \cap Servers # {}
        BY DEF AssemblyInv, BuiltInv
      <4>2. g \in unserved' => held'[g] \cap Servers # {}
        BY <1>2, <4>1
      <4>3. QED
        BY <3>1, <4>2
    <3>2. CASE h # g
      BY <1>2, <3>2 DEF AssemblyInv, BuiltInv
    <3>3. QED
      BY <3>1, <3>2
  <2>3. QED
    BY <2>1, <2>2 DEF BuiltInv
<1>7. LiveInv'
  BY DEF AssemblyInv, LiveInv, Serving
<1>8. UsersGoFirst'
  <2>1. held[g] \subseteq Parts /\ NextToGo(g, part)
    BY <1>1 DEF GiveBack
  <2>2. \A user \in held[g] : part \notin Uses(user)
    BY <2>1, NothingUsesTheNext
  <2>3. QED
    BY <1>2, <2>2 DEF AssemblyInv, UsersGoFirst
<1>9. QED
  BY <1>4, <1>5, <1>6, <1>7, <1>8 DEF AssemblyInv

\* Whether its finalizer answers, fails, or is never reached in time.
LEMMA ClosingIsSound ==
    ASSUME AssemblyInv, NEW g \in Graphs, NEW part \in held[g],
           ClosePart(g, part) \/ CloseFails(g, part) \/ WaitsInVain(g, part)
    PROVE  AssemblyInv'
<1>1. /\ held \in [Graphs -> SUBSET Parts] /\ unserved \subseteq Graphs
      /\ left \subseteq Graphs \X Parts /\ reported \subseteq Graphs /\ LeftInv
  BY DEF AssemblyInv, AssemblyTypeOK
<1>2. CASE ClosePart(g, part)
  <2>1. LeftInv'
    BY <1>1, <1>2 DEF ClosePart, LeftInv
  <2>2. QED
    BY <1>1, <1>2, <2>1, GiveBackIsSound DEF ClosePart
<1>3. CASE CloseFails(g, part)
  <2>1. LeftInv'
    BY <1>1, <1>3 DEF CloseFails, LeftInv
  <2>2. left' \subseteq Graphs \X Parts /\ reported \subseteq reported' /\ reported' \subseteq Graphs
    BY <1>1, <1>3 DEF CloseFails
  <2>3. QED
    BY <1>1, <1>3, <2>1, <2>2, GiveBackIsSound DEF CloseFails
<1>4. CASE WaitsInVain(g, part)
  <2>1. LeftInv'
    BY <1>1, <1>4 DEF WaitsInVain, LeftInv
  <2>2. /\ unserved' \subseteq unserved /\ g \notin unserved' /\ left' = left
        /\ reported \subseteq reported' /\ reported' \subseteq Graphs
    BY <1>1, <1>4 DEF WaitsInVain
  <2>3. QED
    BY <1>1, <1>4, <2>1, <2>2, GiveBackIsSound DEF WaitsInVain
<1>5. QED
  BY <1>2, <1>3, <1>4

\* A generation that has given everything back is gone.
LEMMA SettleIsSound ==
    ASSUME AssemblyInv, NEW g \in Graphs, Settle(g)
    PROVE  AssemblyInv'
<1>1. /\ phase[g] \in {"aborting", "stopping"} /\ held[g] = {}
      /\ phase'[g] = "settled" /\ \A h \in Graphs \ {g} : phase'[h] = phase[h]
      /\ at'[g] = 0 /\ \A h \in Graphs \ {g} : at'[h] = at[h]
      /\ UNCHANGED <<digests, held, unserved, counts, left, reported>>
  BY DEF Settle, AssemblyInv, AssemblyTypeOK
<1>2. AssemblyTypeOK'
  <2>1. at' \in [Graphs -> 0..Len(Steps)]
    BY StepsAre DEF Settle, AssemblyInv, AssemblyTypeOK
  <2>2. phase' \in [Graphs -> Phases]
    BY DEF Settle, AssemblyInv, AssemblyTypeOK, Phases
  <2>3. QED
    BY <1>1, <2>1, <2>2 DEF AssemblyInv, AssemblyTypeOK
<1>3. BuiltInv'
  <2>1. {h \in Graphs : phase'[h] # "none"} = {h \in Graphs : phase[h] # "none"}
    BY <1>1
  <2>2. \E m \in 0..MaxGraphs : {h \in Graphs : phase'[h] # "none"} = 1..m
    BY <2>1 DEF AssemblyInv, BuiltInv
  <2>3. ASSUME NEW h \in Graphs
        PROVE  /\ phase'[h] = "none" => at'[h] = 0
               /\ phase'[h] \in {"none", "settled"} => held'[h] = {}
               /\ phase'[h] = "preparing" => at'[h] < Len(Steps)
               /\ phase'[h] \in {"preparing", "prepared", "serving"} => held'[h] = Built(at'[h]) /\ h \notin unserved'
               /\ h \in unserved' => held'[h] \cap Servers # {}
    <3>1. CASE h = g
      BY <1>1, <3>1 DEF AssemblyInv, BuiltInv
    <3>2. CASE h # g
      BY <1>1, <3>2 DEF AssemblyInv, BuiltInv
    <3>3. QED
      BY <3>1, <3>2
  <2>4. QED
    BY <2>2, <2>3 DEF BuiltInv
<1>4. LiveInv'
  <2>1. \A h \in Graphs : /\ phase'[h] = "serving" <=> phase[h] = "serving"
                          /\ phase'[h] \notin {"none", "settled"} => phase[h] \notin {"none", "settled"}
    BY <1>1
  <2>2. PICK a \in Graphs, b \in Graphs : \A h \in Graphs : phase[h] \notin {"none", "settled"} => h \in {a, b}
    BY DEF AssemblyInv, LiveInv
  <2>3. \A h \in Graphs : phase'[h] \notin {"none", "settled"} => h \in {a, b}
    BY <2>1, <2>2
  <2>4. \A h \in Serving' : \A k \in Serving' : h = k
    BY <2>1 DEF AssemblyInv, LiveInv, Serving
  <2>5. QED
    BY <2>3, <2>4 DEF LiveInv
<1>5. LeftInv' /\ UsersGoFirst'
  BY <1>1 DEF AssemblyInv, LeftInv, UsersGoFirst
<1>6. PoolsAreExact'
  BY <1>1, PoolsUntouched DEF AssemblyInv
<1>7. QED
  BY <1>2, <1>3, <1>4, <1>5, <1>6 DEF AssemblyInv

\* The pools have an entry exactly as long as a generation holds a handle of
\* it, whatever is there finds what it was given, and nothing is lost in
\* silence: while a generation is put together, serves and is taken apart
\* (generation.go Prepare, abort, stop; generation_resources.go acquire,
\* release), for any number of generations and any configurations.
THEOREM AssemblyIsSoundHolds == AssemblySpec => []AssemblyIsSound
<1>1. AssemblyInit => AssemblyInv
  <2> SUFFICES ASSUME AssemblyInit PROVE AssemblyInv
    OBVIOUS
  <2>1. AssemblyTypeOK
    <3>1. 0 \in 0..Len(Steps)
      BY StepsAre
    <3>2. (CHOOSE v \in Variants : TRUE) \in Variants
      BY AssemblyAssumption
    <3>3. QED
      BY <3>1, <3>2 DEF AssemblyInit, AssemblyTypeOK, Phases
  <2>2. BuiltInv
    <3>1. {g \in Graphs : phase[g] # "none"} = 1..0 /\ 0 \in 0..MaxGraphs
      BY AssemblyAssumption DEF AssemblyInit
    <3>2. \E n \in 0..MaxGraphs : {g \in Graphs : phase[g] # "none"} = 1..n
      BY <3>1
    <3>3. QED
      BY <3>2 DEF AssemblyInit, BuiltInv
  <2>3. LiveInv
    <3>1. 1 \in Graphs
      BY AssemblyAssumption DEF Graphs
    <3>2. QED
      BY <3>1 DEF AssemblyInit, LiveInv, Serving
  <2>4. LeftInv /\ UsersGoFirst
    BY DEF AssemblyInit, LeftInv, UsersGoFirst
  <2>5. PoolsAreExact
    <3>1. ASSUME NEW e \in Entries PROVE counts[e] = Cardinality(HoldersOf(held, digests, e))
      <4>1. HoldersOf(held, digests, e) = {}
        BY DEF HoldersOf, AssemblyInit
      <4>2. QED
        BY <4>1, FS_EmptySet DEF AssemblyInit
    <3>2. QED
      BY <3>1, HoldersAreUsers
  <2>6. QED
    BY <2>1, <2>2, <2>3, <2>4, <2>5 DEF AssemblyInv
<1>2. AssemblyInv /\ [AssemblyNext]_assemblyVars => AssemblyInv'
  <2> SUFFICES ASSUME AssemblyInv, [AssemblyNext]_assemblyVars PROVE AssemblyInv'
    OBVIOUS
  <2>1. CASE UNCHANGED assemblyVars
    <3>1. AssemblyTypeOK' /\ LeftInv' /\ UsersGoFirst'
      BY <2>1 DEF assemblyVars, AssemblyInv, AssemblyTypeOK, LeftInv, UsersGoFirst
    <3>2. BuiltInv'
      BY <2>1 DEF assemblyVars, AssemblyInv, BuiltInv
    <3>3. LiveInv'
      BY <2>1 DEF assemblyVars, AssemblyInv, LiveInv, Serving
    <3>4. PoolsAreExact'
      BY <2>1 DEF assemblyVars, AssemblyInv, PoolsAreExact, EntryOf
    <3>5. QED
      BY <3>1, <3>2, <3>3, <3>4 DEF AssemblyInv
  <2>2. ASSUME NEW g \in Graphs, NEW v \in Variants, BeginPrepare(g, v) PROVE AssemblyInv'
    BY <2>2, BeginPrepareIsSound
  <2>3. ASSUME NEW g \in Graphs, NEW pool \in Pools, TakeHandle(g, pool) PROVE AssemblyInv'
    BY <2>3, TakeHandleIsSound
  <2>4. ASSUME NEW g \in Graphs, NEW part \in Parts \ Pools, Build(g, part) PROVE AssemblyInv'
    <3>1. {part} \ Checks = {part}
      BY DEF Parts
    <3>2. QED
      BY <2>4, <3>1, BuildIsSound DEF Build, Keep
  <2>5. ASSUME NEW g \in Graphs, NEW check \in Checks, Pass(g, check) PROVE AssemblyInv'
    <3>1. check \notin Pools
      BY PartsAre
    <3>2. held[g] \cup ({check} \ Checks) = held[g]
      OBVIOUS
    <3>3. held' = [held EXCEPT ![g] = @ \cup ({check} \ Checks)]
      BY <2>5, <3>2 DEF Pass, AssemblyInv, AssemblyTypeOK
    <3>4. QED
      BY <2>5, <3>1, <3>3, BuildIsSound DEF Pass
  <2>6. ASSUME NEW g \in Graphs, NEW part \in held[g],
               ClosePart(g, part) \/ CloseFails(g, part) \/ WaitsInVain(g, part)
        PROVE  AssemblyInv'
    BY <2>6, ClosingIsSound
  <2>7. ASSUME NEW g \in Graphs, StepFails(g) \/ CandidateFails(g) \/ Commit(g) \/ BeginEnd(g) \/ StopFails(g)
        PROVE  AssemblyInv'
    BY <2>7, PhasesMoveSoundly
  <2>8. ASSUME NEW g \in Graphs, ListenerRefused(g) PROVE AssemblyInv'
    BY <2>8, ListenerRefusedIsSound
  <2>9. ASSUME NEW g \in Graphs, Settle(g) PROVE AssemblyInv'
    BY <2>9, SettleIsSound
  <2>10. QED
    BY <2>1, <2>2, <2>3, <2>4, <2>5, <2>6, <2>7, <2>8, <2>9 DEF AssemblyNext
<1>3. AssemblyInv => AssemblyIsSound
  <2> SUFFICES ASSUME AssemblyInv PROVE AssemblyIsSound
    OBVIOUS
  <2>1. AssemblyTypeOK /\ PoolsAreExact /\ UsersGoFirst /\ BuiltInv /\ LeftInv
    BY DEF AssemblyInv
  <2>2. LossIsReported
    BY <2>1 DEF LossIsReported, BuiltInv, LeftInv
  <2>3. QED
    BY <2>1, <2>2 DEF AssemblyIsSound
<1>4. QED
  BY <1>1, <1>2, <1>3, PTL DEF AssemblySpec

-----------------------------------------------------------------------------
(* The request pipeline.                                                   *)

EdgeRecords ==
    [kind : Kinds, at : Stages, over : {"no", "deadline", "canceled"},
     status : Statuses, slot : BOOLEAN, ran : BOOLEAN]

\* The gates a request has passed when it is at a stage, in their order.
BehindScreen == {"meter", "reserve", "authenticate", "route", "enforce", "handle"}
BehindLogin == {"route", "enforce", "handle"}
BehindRoute == {"enforce", "handle"}
Waiting == {"idle", "screen"} \cup BehindScreen

\* What is so of a request at its stage: unanswered until a gate or its handler
\* answers it, inside the limit from its slot to its end, and past its gates.
ConnectionOK(rec) ==
    /\ rec.at \in Waiting => rec.status = 0 /\ ~rec.ran
    /\ rec.at \in {"leaving", "done"} => rec.status # 0
    /\ rec.at \in {"idle", "screen", "meter", "reserve", "done"} => ~rec.slot
    /\ rec.status = 200 \/ rec.at = "panicking" => rec.ran
    /\ rec.at \in BehindScreen \/ rec.ran => Screened(rec.kind) = 0
    /\ rec.at \in BehindLogin \/ rec.ran => Authentic(rec.kind)
    /\ rec.at \in BehindRoute \/ rec.ran => RouteProblem(rec.kind) = 0
    /\ rec.at = "handle" \/ rec.ran => Permitted(rec.kind)

Holding == {r \in Requests : request[r].slot}

\* What the bucket has and what it has spent in two ticks is not more than it holds
\* and one refill.
BucketInv ==
    /\ tokens \in Nat /\ granted \in Nat \X Nat
    /\ tokens <= Burst
    /\ tokens + granted[2] * Whole <= Burst
    /\ tokens + granted[1] * Whole + granted[2] * Whole <= Burst + Refill

EdgeInv ==
    /\ request \in [Requests -> EdgeRecords]
    /\ \A r \in Requests : ConnectionOK(request[r])
    /\ inFlight \in 0..MaxInFlight /\ inFlight = Cardinality(Holding)
    /\ BucketInv

\* A request moves; the others stay where they are.
Moves(r, rec) ==
    /\ rec \in EdgeRecords /\ ConnectionOK(rec)
    /\ request' = [request EXCEPT ![r] = rec]

LEMMA MovesKeep ==
    ASSUME EdgeInv, NEW r \in Requests, NEW rec, Moves(r, rec)
    PROVE  /\ request' \in [Requests -> EdgeRecords]
           /\ \A q \in Requests : ConnectionOK(request'[q])
           /\ rec.slot = request[r].slot => Holding' = Holding
           /\ rec.slot => Holding' = Holding \cup {r}
           /\ ~rec.slot => Holding' = Holding \ {r}
           /\ IsFiniteSet(Holding)
<1>1. /\ request' \in [Requests -> EdgeRecords]
      /\ \A q \in Requests : request'[q] = IF q = r THEN rec ELSE request[q]
  BY DEF EdgeInv, Moves
<1>2. \A q \in Requests : ConnectionOK(request'[q])
  <2>1. ASSUME NEW q \in Requests PROVE ConnectionOK(request'[q])
    <3>1. CASE q = r
      <4>1. request'[q] = rec
        BY <1>1, <3>1
      <4>2. QED
        BY <4>1 DEF Moves
    <3>2. CASE q # r
      <4>1. request'[q] = request[q]
        BY <1>1, <3>2
      <4>2. QED
        BY <4>1 DEF EdgeInv
    <3>3. QED
      BY <3>1, <3>2
  <2>2. QED
    BY <2>1
<1>3. IsFiniteSet(Holding)
  <2>1. Holding \in SUBSET Requests
    BY DEF Holding
  <2>2. QED
    BY <2>1, FS_Subset, EdgeAssumption
<1>4. Holding' = {q \in Requests : request'[q].slot}
  BY DEF Holding
<1>5. rec.slot \in BOOLEAN /\ request[r].slot \in BOOLEAN
  BY DEF Moves, EdgeInv, EdgeRecords
<1>6. rec.slot = request[r].slot => Holding' = Holding
  BY <1>1, <1>4 DEF Holding
<1>7. rec.slot => Holding' = Holding \cup {r}
  BY <1>1, <1>4 DEF Holding
<1>8. ~rec.slot => Holding' = Holding \ {r}
  BY <1>1, <1>4 DEF Holding
<1>9. QED
  BY <1>1, <1>2, <1>3, <1>6, <1>7, <1>8

\* A step that takes and gives no slot.
LEMMA InsideKeeps ==
    ASSUME EdgeInv, NEW r \in Requests, NEW rec, Moves(r, rec), rec.slot = request[r].slot,
           UNCHANGED inFlight, BucketInv'
    PROVE  EdgeInv'
BY MovesKeep DEF EdgeInv

LEMMA BucketStays == ASSUME BucketInv, UNCHANGED <<tokens, granted>> PROVE BucketInv'
BY DEF BucketInv

\* The status of a context that is over, and the answer of a refusal.
LEMMA RefuseFacts ==
    ASSUME EdgeInv, NEW r \in Requests, NEW status \in Statuses \ {0, 200}, Refuse(r, status),
           request[r].at \in Waiting
    PROVE  \E rec : Moves(r, rec) /\ rec.slot = request[r].slot /\ rec.status = status
<1>1. request[r] \in EdgeRecords /\ ConnectionOK(request[r])
  BY DEF EdgeInv
<1>2. request[r].status = 0 /\ ~request[r].ran
  BY <1>1 DEF ConnectionOK
<1> DEFINE rec == [request[r] EXCEPT !.at = "leaving", !.status = status]
<1>3. request' = [request EXCEPT ![r] = rec]
  BY <1>2 DEF Refuse, Answered, EdgeInv
<1>4. rec \in EdgeRecords
  BY <1>1 DEF EdgeRecords, Stages
<1>5. /\ rec.at = "leaving" /\ rec.status = status /\ rec.slot = request[r].slot
      /\ rec.ran = request[r].ran
  BY <1>1 DEF EdgeRecords
<1>6. ConnectionOK(rec)
  BY <1>2, <1>5 DEF ConnectionOK, Waiting, BehindScreen, BehindLogin, BehindRoute
<1>7. QED
  BY <1>3, <1>4, <1>5, <1>6 DEF Moves

LEMMA RefuseKeeps ==
    ASSUME EdgeInv, NEW r \in Requests, NEW status \in Statuses \ {0, 200}, Refuse(r, status),
           request[r].at \in Waiting, UNCHANGED <<inFlight, tokens, granted>>
    PROVE  EdgeInv'
<1>1. PICK rec : Moves(r, rec) /\ rec.slot = request[r].slot
  BY RefuseFacts
<1>2. BucketInv'
  BY BucketStays DEF EdgeInv
<1>3. QED
  BY <1>1, <1>2, InsideKeeps

\* A gate lets a request through to the next.
LEMMA ProceedKeeps ==
    ASSUME EdgeInv, NEW r \in Requests, NEW stage \in BehindScreen \ {"authenticate"}, Proceed(r, stage),
           request[r].at \in Waiting, stage \in {"meter", "reserve"} => ~request[r].slot,
           Screened(request[r].kind) = 0,
           stage \in BehindLogin => Authentic(request[r].kind),
           stage \in BehindRoute => RouteProblem(request[r].kind) = 0,
           stage = "handle" => Permitted(request[r].kind),
           UNCHANGED inFlight, BucketInv'
    PROVE  EdgeInv'
<1>1. request[r] \in EdgeRecords /\ ConnectionOK(request[r])
  BY DEF EdgeInv
<1>2. request[r].status = 0 /\ ~request[r].ran
  BY <1>1 DEF ConnectionOK
<1> DEFINE rec == [request[r] EXCEPT !.at = stage]
<1>3. request' = [request EXCEPT ![r] = rec]
  BY DEF Proceed, EdgeInv
<1>4. rec \in EdgeRecords
  BY <1>1 DEF EdgeRecords, Stages, BehindScreen
<1>5. /\ rec.at = stage /\ rec.status = 0 /\ rec.slot = request[r].slot
      /\ ~rec.ran /\ rec.kind = request[r].kind
  BY <1>1, <1>2 DEF EdgeRecords
<1>6. ConnectionOK(rec)
  BY <1>5 DEF ConnectionOK, Waiting, BehindScreen, BehindLogin, BehindRoute
<1>7. Moves(r, rec)
  BY <1>3, <1>4, <1>6 DEF Moves
<1> HIDE DEF rec
<1>8. QED
  BY <1>5, <1>7, InsideKeeps

LEMMA ArriveKeeps ==
    ASSUME EdgeInv, NEW r \in Requests, Arrive(r)
    PROVE  EdgeInv'
<1>1. PICK kind \in Kinds : request' = [request EXCEPT ![r] =
          [kind |-> kind, at |-> "screen", over |-> "no", status |-> 0, slot |-> FALSE, ran |-> FALSE]]
  BY DEF Arrive
<1> DEFINE rec == [kind |-> kind, at |-> "screen", over |-> "no", status |-> 0, slot |-> FALSE, ran |-> FALSE]
<1>2. rec \in EdgeRecords
  BY DEF EdgeRecords, Stages, Statuses
<1>3. ConnectionOK(rec)
  BY DEF ConnectionOK, Waiting, BehindScreen, BehindLogin, BehindRoute
<1>4. ~request[r].slot
  BY DEF Arrive, EdgeInv, ConnectionOK
<1>5. request[r].slot \in BOOLEAN
  BY DEF EdgeInv, EdgeRecords
<1>6. Moves(r, rec) /\ rec.slot = request[r].slot
  BY <1>1, <1>2, <1>3, <1>4, <1>5 DEF Moves
<1>7. BucketInv' /\ UNCHANGED inFlight
  BY BucketStays DEF Arrive, EdgeInv
<1> HIDE DEF rec
<1>8. QED
  BY <1>6, <1>7, InsideKeeps

LEMMA ExpireKeeps ==
    ASSUME EdgeInv, NEW r \in Requests, Expire(r)
    PROVE  EdgeInv'
<1>1. PICK cause \in {"deadline", "canceled"} : request' = [request EXCEPT ![r].over = cause]
  BY DEF Expire
<1> DEFINE rec == [request[r] EXCEPT !.over = cause]
<1>2. request[r] \in EdgeRecords /\ ConnectionOK(request[r])
  BY DEF EdgeInv
<1>3. request' = [request EXCEPT ![r] = rec]
  BY <1>1 DEF EdgeInv
<1>4. rec \in EdgeRecords
  BY <1>2 DEF EdgeRecords
<1>5. /\ rec.kind = request[r].kind /\ rec.at = request[r].at /\ rec.status = request[r].status
      /\ rec.slot = request[r].slot /\ rec.ran = request[r].ran
  BY <1>2 DEF EdgeRecords
<1>6. Moves(r, rec)
  BY <1>2, <1>3, <1>4, <1>5 DEF Moves, ConnectionOK
<1>7. BucketInv' /\ UNCHANGED inFlight
  BY BucketStays DEF Expire, EdgeInv
<1> HIDE DEF rec
<1>8. QED
  BY <1>5, <1>6, <1>7, InsideKeeps

LEMMA Times == \A a, b \in Nat : a * Whole \in Nat /\ (a + 1) * Whole = a * Whole + Whole /\ (a + b) * Whole = a * Whole + b * Whole
BY EdgeAssumption

LEMMA BucketFacts ==
    ASSUME BucketInv
    PROVE  granted[1] \in Nat /\ granted[2] \in Nat /\ tokens \in Nat
<1>1. granted \in Nat \X Nat /\ tokens \in Nat
  BY DEF BucketInv
<1>2. QED
  BY <1>1

LEMMA TickKeeps == ASSUME EdgeInv, Tick PROVE EdgeInv'
<1>1. /\ tokens' = Filled(tokens + Refill) /\ granted' = <<granted[2], 0>>
      /\ granted[1] \in Nat /\ granted[2] \in Nat /\ tokens \in Nat
  BY BucketFacts DEF Tick, EdgeInv
<1>2. granted'[1] = granted[2] /\ granted'[2] = 0 /\ granted' \in Nat \X Nat
  BY <1>1
<1>3. /\ tokens' \in Nat /\ tokens' <= Burst /\ tokens' <= tokens + Refill
  BY <1>1, EdgeAssumption DEF Filled
<1>4. granted'[2] * Whole = 0 /\ granted'[1] * Whole = granted[2] * Whole /\ granted[2] * Whole \in Nat
  BY <1>1, <1>2, Times, EdgeAssumption
<1>5. tokens + granted[2] * Whole <= Burst
  BY DEF EdgeInv, BucketInv
<1>6. /\ tokens' + granted'[2] * Whole <= Burst
      /\ tokens' + granted'[1] * Whole + granted'[2] * Whole <= Burst + Refill
  BY <1>1, <1>3, <1>4, <1>5, EdgeAssumption
<1>7. BucketInv'
  BY <1>2, <1>3, <1>6 DEF BucketInv
<1>8. QED
  BY <1>7 DEF Tick, EdgeInv, Holding

LEMMA GatesKeep ==
    ASSUME EdgeInv, NEW r \in Requests, Screen(r) \/ Meter(r) \/ Authenticate(r) \/ Route(r) \/ Enforce(r)
    PROVE  EdgeInv'
<1>0. /\ request[r] \in EdgeRecords /\ ConnectionOK(request[r]) /\ request[r].kind \in RequestKind
      /\ BucketInv
  BY KindsAssumption DEF EdgeInv, EdgeRecords
<1>1. CASE Screen(r)
  <2>1. request[r].at = "screen" /\ UNCHANGED <<inFlight, tokens, granted>> /\ BucketInv'
    BY <1>0, <1>1, BucketStays DEF Screen
  <2>2. CASE Screened(request[r].kind) = 0
    <3>1. Proceed(r, "meter") /\ ~request[r].slot
      BY <1>0, <1>1, <2>1, <2>2 DEF Screen, ConnectionOK
    <3>2. QED
      BY <2>1, <2>2, <3>1, ProceedKeeps DEF Waiting, BehindScreen, BehindLogin, BehindRoute
  <2>3. CASE Screened(request[r].kind) # 0
    <3>1. Screened(request[r].kind) \in Statuses \ {0, 200}
      BY <2>3 DEF Screened, Statuses
    <3>2. Refuse(r, Screened(request[r].kind))
      BY <1>1, <2>3 DEF Screen
    <3>3. QED
      BY <2>1, <3>1, <3>2, RefuseKeeps DEF Waiting
  <2>4. QED
    BY <2>2, <2>3
<1>over. ContextStatus(request[r].over) \in Statuses \ {0, 200}
  BY DEF ContextStatus, Statuses
<1>2. CASE Meter(r)
  <2>1. request[r].at = "meter" /\ UNCHANGED inFlight /\ Screened(request[r].kind) = 0 /\ ~request[r].slot
    BY <1>0, <1>2 DEF Meter, ConnectionOK, BehindScreen
  <2>2. CASE Refuse(r, ContextStatus(request[r].over)) /\ UNCHANGED <<tokens, granted>>
    BY <1>over, <2>1, <2>2, RefuseKeeps DEF Waiting, BehindScreen
  <2>3. CASE Refuse(r, 429) /\ UNCHANGED <<tokens, granted>>
    <3>1. 429 \in Statuses \ {0, 200}
      BY DEF Statuses
    <3>2. QED
      BY <2>1, <2>3, <3>1, RefuseKeeps DEF Waiting, BehindScreen
  <2>4. CASE /\ CanSpend /\ Proceed(r, "reserve")
             /\ tokens' = tokens - Whole /\ granted' = <<granted[1], granted[2] + 1>>
    <3>1. granted[1] \in Nat /\ granted[2] \in Nat /\ tokens \in Nat /\ tokens >= Whole
      BY <1>0, <2>4, BucketFacts DEF CanSpend
    <3>2. granted'[1] = granted[1] /\ granted'[2] = granted[2] + 1 /\ granted' \in Nat \X Nat
      BY <2>4, <3>1
    <3>3. /\ granted'[1] * Whole = granted[1] * Whole /\ granted'[2] * Whole = granted[2] * Whole + Whole
          /\ granted[1] * Whole \in Nat /\ granted[2] * Whole \in Nat
      BY <3>1, <3>2, Times
    <3>4. /\ tokens <= Burst /\ tokens + granted[2] * Whole <= Burst
          /\ tokens + granted[1] * Whole + granted[2] * Whole <= Burst + Refill
      BY <1>0 DEF BucketInv
    <3>5. /\ tokens' \in Nat /\ tokens' <= Burst /\ tokens' + granted'[2] * Whole <= Burst
          /\ tokens' + granted'[1] * Whole + granted'[2] * Whole <= Burst + Refill
      BY <2>4, <3>1, <3>3, <3>4, EdgeAssumption
    <3>6. BucketInv'
      BY <3>2, <3>5 DEF BucketInv
    <3>7. QED
      BY <2>1, <2>4, <3>6, ProceedKeeps DEF Waiting, BehindScreen, BehindLogin, BehindRoute
  <2>5. QED
    BY <1>2, <2>2, <2>3, <2>4 DEF Meter
<1>3. CASE Authenticate(r)
  <2>1. /\ request[r].at = "authenticate" /\ UNCHANGED <<inFlight, tokens, granted>> /\ BucketInv'
        /\ Screened(request[r].kind) = 0
    BY <1>0, <1>3, BucketStays DEF Authenticate, ConnectionOK, BehindScreen
  <2>2. CASE Authentic(request[r].kind) /\ Proceed(r, "route")
    BY <2>1, <2>2, ProceedKeeps DEF Waiting, BehindScreen, BehindLogin, BehindRoute
  <2>3. CASE Refuse(r, 401)
    <3>1. 401 \in Statuses \ {0, 200}
      BY DEF Statuses
    <3>2. QED
      BY <2>1, <2>3, <3>1, RefuseKeeps DEF Waiting, BehindScreen
  <2>4. QED
    BY <1>3, <2>2, <2>3 DEF Authenticate
<1>4. CASE Route(r)
  <2>1. /\ request[r].at = "route" /\ UNCHANGED <<inFlight, tokens, granted>> /\ BucketInv'
        /\ Screened(request[r].kind) = 0 /\ Authentic(request[r].kind)
    BY <1>0, <1>4, BucketStays DEF Route, ConnectionOK, BehindScreen, BehindLogin
  <2>2. CASE RouteProblem(request[r].kind) = 0
    <3>1. Proceed(r, "enforce")
      BY <1>4, <2>2 DEF Route
    <3>2. QED
      BY <2>1, <2>2, <3>1, ProceedKeeps DEF Waiting, BehindScreen, BehindLogin, BehindRoute
  <2>3. CASE RouteProblem(request[r].kind) # 0
    <3>1. RouteProblem(request[r].kind) \in Statuses \ {0, 200}
      BY <2>3 DEF RouteProblem, Statuses
    <3>2. Refuse(r, RouteProblem(request[r].kind))
      BY <1>4, <2>3 DEF Route
    <3>3. QED
      BY <2>1, <3>1, <3>2, RefuseKeeps DEF Waiting, BehindScreen
  <2>4. QED
    BY <2>2, <2>3
<1>5. CASE Enforce(r)
  <2>1. /\ request[r].at = "enforce" /\ UNCHANGED <<inFlight, tokens, granted>> /\ BucketInv'
        /\ Screened(request[r].kind) = 0 /\ Authentic(request[r].kind) /\ RouteProblem(request[r].kind) = 0
    BY <1>0, <1>5, BucketStays DEF Enforce, ConnectionOK, BehindScreen, BehindLogin, BehindRoute
  <2>2. CASE Permitted(request[r].kind) /\ Proceed(r, "handle")
    BY <2>1, <2>2, ProceedKeeps DEF Waiting, BehindScreen, BehindLogin, BehindRoute
  <2>3. CASE Refuse(r, ContextStatus(request[r].over))
    BY <1>over, <2>1, <2>3, RefuseKeeps DEF Waiting, BehindScreen
  <2>4. CASE Refuse(r, 403)
    <3>1. 403 \in Statuses \ {0, 200}
      BY DEF Statuses
    <3>2. QED
      BY <2>1, <2>4, <3>1, RefuseKeeps DEF Waiting, BehindScreen
  <2>5. QED
    BY <1>5, <2>2, <2>3, <2>4 DEF Enforce
<1>6. QED
  BY <1>1, <1>2, <1>3, <1>4, <1>5

LEMMA ReserveKeeps == ASSUME EdgeInv, NEW r \in Requests, Reserve(r) PROVE EdgeInv'
<1>0. /\ request[r] \in EdgeRecords /\ ConnectionOK(request[r]) /\ request[r].at = "reserve"
      /\ UNCHANGED <<tokens, granted>> /\ BucketInv'
  BY BucketStays DEF Reserve, EdgeInv
<1>1. request[r].status = 0 /\ ~request[r].ran /\ ~request[r].slot /\ Screened(request[r].kind) = 0
  BY <1>0 DEF ConnectionOK, Waiting, BehindScreen
<1>2. CASE inFlight < MaxInFlight
  <2> DEFINE rec == [request[r] EXCEPT !.at = "authenticate", !.slot = TRUE]
  <2>1. request' = [request EXCEPT ![r] = rec] /\ inFlight' = inFlight + 1
    BY <1>2 DEF Reserve, EdgeInv
  <2>2. rec \in EdgeRecords
    BY <1>0 DEF EdgeRecords, Stages
  <2>3. /\ rec.at = "authenticate" /\ rec.slot = TRUE /\ rec.status = 0 /\ ~rec.ran /\ rec.kind = request[r].kind
    BY <1>0, <1>1 DEF EdgeRecords
  <2>4. ConnectionOK(rec)
    BY <1>1, <2>3 DEF ConnectionOK, Waiting, BehindScreen, BehindLogin, BehindRoute
  <2>5. Moves(r, rec)
    BY <2>1, <2>2, <2>4 DEF Moves
  <2> HIDE DEF rec
  <2>6. /\ request' \in [Requests -> EdgeRecords] /\ \A q \in Requests : ConnectionOK(request'[q])
        /\ Holding' = Holding \cup {r} /\ IsFiniteSet(Holding)
    BY <2>3, <2>5, MovesKeep
  <2>7. r \notin Holding
    BY <1>1 DEF Holding
  <2>8. Cardinality(Holding') = Cardinality(Holding) + 1
    BY <2>6, <2>7, FS_AddElement
  <2>9. inFlight' \in 0..MaxInFlight
    BY <1>2, <2>1, EdgeAssumption DEF EdgeInv
  <2>10. QED
    BY <1>0, <2>1, <2>6, <2>8, <2>9 DEF EdgeInv
<1>3. CASE ~(inFlight < MaxInFlight)
  <2>1. Refuse(r, 503) /\ UNCHANGED inFlight /\ 503 \in Statuses \ {0, 200}
    BY <1>3 DEF Reserve, Statuses
  <2>2. QED
    BY <1>0, <2>1, RefuseKeeps DEF Waiting, BehindScreen
<1>4. QED
  BY <1>2, <1>3

\* What the handler leaves: an answer, or a panic that may have answered.
Worked(r, stage, status) ==
    request' = [request EXCEPT ![r].at = stage, ![r].ran = TRUE, ![r].status = status]

LEMMA HandlerEnds ==
    ASSUME EdgeInv, NEW r \in Requests, request[r].at = "handle",
           NEW stage \in {"leaving", "panicking"}, NEW status \in Statuses,
           stage = "leaving" => status # 0,
           Worked(r, stage, status), UNCHANGED <<inFlight, tokens, granted>>
    PROVE  EdgeInv'
<1>0. request[r] \in EdgeRecords /\ ConnectionOK(request[r]) /\ BucketInv'
  BY BucketStays DEF EdgeInv
<1>1. /\ Screened(request[r].kind) = 0 /\ Authentic(request[r].kind)
      /\ RouteProblem(request[r].kind) = 0 /\ Permitted(request[r].kind)
  BY <1>0 DEF ConnectionOK, Waiting, BehindScreen, BehindLogin, BehindRoute
<1> DEFINE rec == [request[r] EXCEPT !.at = stage, !.ran = TRUE, !.status = status]
<1>2. request' = [request EXCEPT ![r] = rec]
  BY DEF EdgeInv, Worked
<1>3. stage \in Stages
  BY DEF Stages
<1>4. rec \in EdgeRecords
  BY <1>0, <1>3 DEF EdgeRecords
<1>5. /\ rec.at = stage /\ rec.status = status /\ rec.slot = request[r].slot /\ rec.ran = TRUE
      /\ rec.kind = request[r].kind
  BY <1>0 DEF EdgeRecords
<1>6. ConnectionOK(rec)
  BY <1>1, <1>5 DEF ConnectionOK, Waiting, BehindScreen, BehindLogin, BehindRoute
<1>7. Moves(r, rec)
  BY <1>2, <1>4, <1>6 DEF Moves
<1> HIDE DEF rec
<1>8. QED
  BY <1>0, <1>5, <1>7, InsideKeeps

LEMMA HandleKeeps == ASSUME EdgeInv, NEW r \in Requests, Handle(r) PROVE EdgeInv'
<1>1. request[r].at = "handle" /\ UNCHANGED <<inFlight, tokens, granted>> /\ request[r].status = 0
  BY DEF Handle, EdgeInv, ConnectionOK, Waiting, BehindScreen
<1>2. ASSUME NEW stage \in {"leaving", "panicking"}, NEW status \in {0, 200, 404, 409, 500, 503, 504},
             stage = "leaving" => status # 0, Worked(r, stage, status)
      PROVE  EdgeInv'
  <2>1. status \in Statuses
    BY DEF Statuses
  <2>2. QED
    BY <1>1, <1>2, <2>1, HandlerEnds
<1>3. \A outcome : Answered(r, outcome) = outcome
  BY <1>1 DEF Answered
<1>4. PICK outcome \in {200, 404, 409, 500, 503, 504} :
         \/ Worked(r, "leaving", Answered(r, outcome))
         \/ \E status \in {0, 200} : Worked(r, "panicking", status)
  BY ZenonT(30) DEF Handle, Worked
<1>5. CASE Worked(r, "leaving", Answered(r, outcome))
  BY <1>2, <1>3, <1>5
<1>6. CASE \E status \in {0, 200} : Worked(r, "panicking", status)
  BY <1>2, <1>6
<1>7. QED
  BY <1>4, <1>5, <1>6

\* Both ways out give the slot back, and neither replaces an answer.
LEMMA FinishKeeps ==
    ASSUME EdgeInv, NEW r \in Requests, NEW status \in Statuses, Finish(r, status), inFlight' = Freed(r),
           request[r].at \in {"leaving", "panicking"}, UNCHANGED <<tokens, granted>>,
           status = 200 => request[r].ran, request[r].status = 0 => status # 0
    PROVE  EdgeInv' /\ (request[r].status # 0 => request'[r].status = request[r].status)
<1>0. /\ request[r] \in EdgeRecords /\ ConnectionOK(request[r]) /\ BucketInv'
  BY BucketStays DEF EdgeInv
<1> DEFINE rec == [request[r] EXCEPT !.at = "done", !.slot = FALSE, !.status = Answered(r, status)]
<1>1. request' = [request EXCEPT ![r] = rec]
  BY DEF Finish, EdgeInv
<1>2. Answered(r, status) \in Statuses
  BY <1>0 DEF Answered, EdgeRecords
<1>3. rec \in EdgeRecords
  BY <1>0, <1>2 DEF EdgeRecords, Stages
<1>4. /\ rec.at = "done" /\ rec.slot = FALSE /\ rec.status = Answered(r, status) /\ rec.ran = request[r].ran
      /\ rec.kind = request[r].kind
  BY <1>0 DEF EdgeRecords
<1>5. ConnectionOK(rec)
  BY <1>0, <1>4 DEF Answered, ConnectionOK, Waiting, BehindScreen, BehindLogin, BehindRoute
<1>6. Moves(r, rec)
  BY <1>1, <1>3, <1>5 DEF Moves
<1>7. request'[r] = rec
  BY <1>1 DEF EdgeInv
<1> HIDE DEF rec
<1>8. /\ request' \in [Requests -> EdgeRecords] /\ \A q \in Requests : ConnectionOK(request'[q])
      /\ Holding' = Holding \ {r} /\ IsFiniteSet(Holding)
  BY <1>4, <1>6, MovesKeep
<1>9. Cardinality(Holding') = (IF r \in Holding THEN Cardinality(Holding) - 1 ELSE Cardinality(Holding))
      /\ Cardinality(Holding') \in Nat
  <2>1. IsFiniteSet(Holding')
    BY <1>8, FS_RemoveElement
  <2>2. QED
    BY <1>8, <2>1, FS_RemoveElement, FS_CardinalityType
<1>10. inFlight' = Cardinality(Holding')
  BY <1>9 DEF Freed, Holding, EdgeInv
<1>11. inFlight' \in 0..MaxInFlight
  BY <1>9, <1>10, EdgeAssumption DEF EdgeInv
<1>12. request[r].status # 0 => request'[r].status = request[r].status
  BY <1>4, <1>7 DEF Answered
<1>13. QED
  BY <1>0, <1>8, <1>10, <1>11, <1>12 DEF EdgeInv

LEMMA LeavingKeeps ==
    ASSUME EdgeInv, NEW r \in Requests, Leave(r) \/ Recover(r)
    PROVE  EdgeInv' /\ (request[r].status # 0 => request'[r].status = request[r].status)
<1>0. request[r] \in EdgeRecords /\ ConnectionOK(request[r])
  BY DEF EdgeInv
<1>1. CASE Leave(r)
  <2> DEFINE status == IF request[r].over = "deadline" THEN 504 ELSE request[r].status
  <2>1. status \in Statuses /\ (status = 200 => request[r].ran) /\ request[r].status # 0
    BY <1>0, <1>1 DEF Leave, Statuses, ConnectionOK, EdgeRecords
  <2>2. /\ Finish(r, status) /\ inFlight' = Freed(r) /\ request[r].at = "leaving"
        /\ UNCHANGED <<tokens, granted>>
    BY <1>1 DEF Leave
  <2> HIDE DEF status
  <2>3. QED
    BY <2>1, <2>2, FinishKeeps
<1>2. CASE Recover(r)
  <2>1. 500 \in Statuses
    BY DEF Statuses
  <2>2. /\ Finish(r, 500) /\ inFlight' = Freed(r) /\ request[r].at = "panicking"
        /\ UNCHANGED <<tokens, granted>>
    BY <1>2 DEF Recover, Unwound
  <2>3. QED
    BY <2>1, <2>2, FinishKeeps
<1>3. QED
  BY <1>1, <1>2

LEMMA EdgeStep == ASSUME EdgeInv, [EdgeNext]_edgeVars PROVE EdgeInv'
<1>1. CASE UNCHANGED edgeVars
  BY <1>1 DEF edgeVars, EdgeInv, BucketInv, Holding
<1>2. QED
  BY <1>1, TickKeeps, ArriveKeeps, ExpireKeeps, GatesKeep, ReserveKeeps, HandleKeeps, LeavingKeeps DEF EdgeNext

LEMMA EdgeInitially == ASSUME EdgeInit PROVE EdgeInv
<1>1. PICK kind \in Kinds : request = [r \in Requests |->
         [kind |-> kind, at |-> "idle", over |-> "no", status |-> 0, slot |-> FALSE, ran |-> FALSE]]
  BY DEF EdgeInit
<1> DEFINE rec == [kind |-> kind, at |-> "idle", over |-> "no", status |-> 0, slot |-> FALSE, ran |-> FALSE]
<1>2. rec \in EdgeRecords /\ ~rec.slot
  BY DEF EdgeRecords, Stages, Statuses
<1>3. ConnectionOK(rec)
  BY DEF ConnectionOK, Waiting, BehindScreen, BehindLogin, BehindRoute
<1> HIDE DEF rec
<1>4. request = [r \in Requests |-> rec]
  BY <1>1 DEF rec
<1>5. request \in [Requests -> EdgeRecords] /\ \A r \in Requests : ConnectionOK(request[r])
  BY <1>2, <1>3, <1>4
<1>6. Cardinality(Holding) = 0
  <2>1. Holding = {}
    BY <1>2, <1>4 DEF Holding
  <2>2. QED
    BY <2>1, FS_EmptySet
<1>7. BucketInv
  <2>1. /\ granted = <<0, 0>> /\ tokens = Burst
        /\ granted \in Nat \X Nat /\ granted[1] = 0 /\ granted[2] = 0
    BY DEF EdgeInit
  <2>2. granted[1] * Whole = 0 /\ granted[2] * Whole = 0
    BY <2>1, EdgeAssumption
  <2>3. QED
    BY <2>1, <2>2, EdgeAssumption DEF BucketInv
<1>8. inFlight = 0 /\ 0 \in 0..MaxInFlight
  BY EdgeAssumption DEF EdgeInit
<1>9. QED
  BY <1>5, <1>6, <1>7, <1>8 DEF EdgeInv

\* What is committed first stays: an action property.
LEMMA AnswersStay ==
    ASSUME EdgeInv, [EdgeNext]_edgeVars, NEW r \in Requests, request[r].status # 0, request[r].at # "done"
    PROVE  request'[r].status = request[r].status
<1>0. request[r].at \in {"leaving", "panicking"}
  BY DEF EdgeInv, ConnectionOK, EdgeRecords, Stages, Waiting, BehindScreen
<1>1. ASSUME NEW q \in Requests, q # r,
             \/ Arrive(q) \/ Expire(q) \/ Screen(q) \/ Meter(q) \/ Reserve(q)
             \/ Authenticate(q) \/ Route(q) \/ Enforce(q) \/ Handle(q) \/ Leave(q) \/ Recover(q)
      PROVE  request'[r] = request[r]
  BY <1>1 DEF Arrive, Expire, Screen, Meter, Reserve, Authenticate, Route, Enforce, Handle, Leave, Recover,
              Proceed, Refuse, Finish, EdgeInv
<1>2. CASE Expire(r)
  BY <1>2 DEF Expire, EdgeInv, EdgeRecords
<1>3. CASE Leave(r) \/ Recover(r)
  BY <1>3, LeavingKeeps
<1>4. CASE Tick \/ UNCHANGED edgeVars
  BY <1>4 DEF Tick, edgeVars
<1>5. CASE \/ Arrive(r) \/ Screen(r) \/ Meter(r) \/ Reserve(r)
           \/ Authenticate(r) \/ Route(r) \/ Enforce(r) \/ Handle(r)
  BY <1>0, <1>5 DEF Arrive, Screen, Meter, Reserve, Authenticate, Route, Enforce, Handle
<1>6. QED
  BY <1>1, <1>2, <1>3, <1>4, <1>5 DEF EdgeNext

LEMMA EdgeInvImplies == ASSUME EdgeInv PROVE EdgeTypeOK /\ SlotsAreReturned /\ RateHolds /\ WorkIsEarned
<1>1. EdgeTypeOK
  <2>1. granted \in Nat \X Nat /\ tokens \in 0 .. Burst
    BY EdgeAssumption DEF EdgeInv, BucketInv
  <2>2. PICK a \in Nat, b \in Nat : granted = <<a, b>>
    BY <2>1
  <2>3. granted \in Seq(Nat) /\ Len(granted) = 2
    BY <2>2
  <2>4. QED
    BY <2>1, <2>3 DEF EdgeInv, EdgeRecords, EdgeTypeOK
<1>2. SlotsAreReturned
  BY DEF EdgeInv, ConnectionOK, Holding, SlotsAreReturned
<1>3. RateHolds
  <2>0. BucketInv
    BY DEF EdgeInv
  <2>1. /\ granted[1] \in Nat /\ granted[2] \in Nat /\ tokens \in Nat
        /\ tokens + granted[1] * Whole + granted[2] * Whole <= Burst + Refill
    BY <2>0, BucketFacts DEF BucketInv
  <2>2. (granted[1] + granted[2]) * Whole = granted[1] * Whole + granted[2] * Whole
        /\ granted[1] * Whole \in Nat /\ granted[2] * Whole \in Nat
    BY <2>1, Times
  <2>3. QED
    BY <2>1, <2>2, EdgeAssumption DEF RateHolds
<1>4. WorkIsEarned
  <2>1. ASSUME NEW r \in Requests, request[r].ran
        PROVE  LET kind == request[r].kind IN
               /\ ~kind.upgrade /\ kind.accepts /\ kind.origin \in {"none", "allowed"}
               /\ kind.credential = "valid" \/ (Development /\ kind.credential = "none")
               /\ kind.document = "one" /\ kind.target = "operation" /\ kind.scope
    <3>1. /\ request[r].kind \in RequestKind
          /\ Screened(request[r].kind) = 0 /\ Authentic(request[r].kind)
          /\ RouteProblem(request[r].kind) = 0 /\ Permitted(request[r].kind)
      BY <2>1, KindsAssumption DEF EdgeInv, EdgeRecords, ConnectionOK
    <3>2. QED
      BY <3>1 DEF RequestKind, Screened, Authentic, RouteProblem, Permitted
  <2>2. \A r \in Requests : /\ request[r].status = 200 => request[r].ran
                            /\ request[r].at = "done" => request[r].status # 0
    BY DEF EdgeInv, ConnectionOK
  <2>3. QED
    BY <2>1, <2>2 DEF WorkIsEarned
<1>5. QED
  BY <1>1, <1>2, <1>3, <1>4

\* For any connections, requests, limits and buckets: slots are returned on every
\* way out, the rate holds, only what passed every gate is worked on, and the
\* first answer is the only one (OverloadLimiter, RateLimiter.allow, WriteProblem).
THEOREM EdgeIsSoundHolds == EdgeSpec => EdgeIsSound
<1>1. EdgeInit => EdgeInv
  BY EdgeInitially
<1>2. EdgeInv /\ [EdgeNext]_edgeVars => EdgeInv'
  BY EdgeStep
<1>3. EdgeInv => EdgeTypeOK /\ SlotsAreReturned /\ RateHolds /\ WorkIsEarned
  BY EdgeInvImplies
<1>4. EdgeInv /\ [EdgeNext]_edgeVars =>
        [\A r \in Requests :
            request[r].status # 0 /\ request[r].at # "done" => request'[r].status = request[r].status]_edgeVars
  BY AnswersStay
<1>5. QED
  BY <1>1, <1>2, <1>3, <1>4, PTL DEF EdgeSpec, EdgeIsSound, AnswerIsFinal

-----------------------------------------------------------------------------
(* Where log lines go.                                                     *)

LogShapes ==
    /\ target \in [Managers -> {"baseline", "resource"} \cup Managers]
    /\ resource \in [Locals -> {"none", "open", "closed"}]
    /\ users \in [Roles -> SUBSET Locals]
    /\ \A g \in Roles : users[g] = {} \/ \E m \in Locals : users[g] = {m}
    /\ passed \in [Writers -> Seq(Managers)]

InUse(m) == \E g \in Roles : m \in users[g]

\* The process writes where the current generation has it.
Follows ==
    /\ users["current"] = {} => target[Process] = "baseline"
    /\ \A m \in users["current"] : target[Process] = m

\* The logger that is being activated, as the only step of its start.
Activating(m) == steps = <<To(m, "resource")>>

\* What can still be under way: nothing; an activation; the redirection of a commit;
\* the end of a component that nobody has any more, or what is left of it; or the end
\* of the current generation, which restores the process's manager before that.
Activation == \E m \in Locals : Activating(m) /\ users["candidate"] = {m} /\ m \notin users["current"]
                                 /\ resource[m] = "open"
Redirection == \E m \in Locals : steps = <<To(Process, m)>> /\ users["current"] = {m}
Release == \E m \in Locals : /\ ~InUse(m)
                             /\ \/ steps = <<To(m, Process), Closing(m)>>
                                \/ steps = <<Closing(m)>> /\ target[m] = Process
EndOfCurrent ==
    /\ users["current"] = {}
    /\ \/ steps = <<To(Process, "baseline")>>
       \/ \E m \in Locals : /\ ~InUse(m)
                            /\ steps = <<To(Process, "baseline"), To(m, Process), Closing(m)>>

UnderWay ==
    \/ (steps = << >> \/ Activation \/ Release) /\ Follows
    \/ Redirection
    \/ EndOfCurrent

\* A component writes to its own logger, which is open, or falls back to the process;
\* and the process is directed to none that falls back.
TargetsInv ==
    /\ \A m \in Locals : /\ target[m] \in {"resource", Process}
                         /\ target[m] = "resource" => resource[m] = "open"
                         /\ InUse(m) => target[m] = "resource" \/ Activating(m)
    /\ target[Process] = "baseline" \/ (target[Process] \in Locals /\ target[target[Process]] = "resource")

\* A line has come along the targets, and its locks keep them as they are.
OnItsWay(p) == \A i \in 1..(Len(p) - 1) : target[p[i]] = p[i + 1]

LogInv == LogShapes /\ UnderWay /\ TargetsInv /\ \A w \in Writers : OnItsWay(passed[w])

\* The ways there are: no other has the targets as its links.
LEMMA WaysAreShort ==
    ASSUME LogShapes, TargetsInv, NEW p \in Seq(Managers), OnItsWay(p), p # << >>
    PROVE  \/ \E m \in Managers : p = <<m>>
           \/ \E m \in Locals : target[m] = Process /\ p = <<m, Process>>
           \/ \E l \in Locals : target[Process] = l /\ target[l] = "resource" /\ p = <<Process, l>>
           \/ \E m, l \in Locals : /\ target[m] = Process /\ target[Process] = l /\ target[l] = "resource"
                                   /\ p = <<m, Process, l>>
<1>0. /\ Process \notin Locals /\ "resource" \notin Managers /\ "baseline" \notin Managers
      /\ Managers = Locals \cup {Process}
  BY ManagersAssumption DEF Managers
<1>1. /\ Len(p) \in Nat /\ Len(p) >= 1 /\ \A i \in 1..Len(p) : p[i] \in Managers
  OBVIOUS
<1>2. \A m \in Managers : target[m] \in Managers =>
         \/ m \in Locals /\ target[m] = Process
         \/ m = Process /\ target[m] \in Locals /\ target[target[m]] = "resource"
  BY <1>0 DEF TargetsInv
<1>3. Len(p) >= 2 => p[1] \in Managers /\ p[2] \in Managers /\ target[p[1]] = p[2]
  BY <1>1 DEF OnItsWay
<1>4. Len(p) >= 3 => p[3] \in Managers /\ target[p[2]] = p[3]
  BY <1>1 DEF OnItsWay
<1>5. Len(p) < 4
  <2>1. SUFFICES ASSUME Len(p) >= 4 PROVE FALSE
    BY <1>1
  <2>2. p[4] \in Managers /\ target[p[3]] = p[4]
    BY <1>1, <2>1 DEF OnItsWay
  <2>3. Len(p) >= 2 /\ Len(p) >= 3
    BY <1>1, <2>1
  <2>4. QED
    BY <1>0, <1>2, <1>3, <1>4, <2>2, <2>3
<1>6. Len(p) = 1 \/ Len(p) = 2 \/ Len(p) = 3
  <2>1. Len(p) \in Nat /\ Len(p) >= 1
    BY <1>1
  <2>2. \A n \in Nat : n >= 1 /\ n < 4 => n = 1 \/ n = 2 \/ n = 3
    OBVIOUS
  <2>3. QED
    BY <2>1, <2>2, <1>5
<1>7. CASE Len(p) = 1
  <2>1. p = <<p[1]>> /\ p[1] \in Managers
    BY <1>1, <1>7
  <2>2. QED
    BY <2>1
<1>8. CASE Len(p) = 2
  <2>1. p = <<p[1], p[2]>>
    BY <1>8
  <2>2. p[1] \in Managers /\ p[2] \in Managers /\ target[p[1]] = p[2]
    BY <1>3, <1>8
  <2>3. QED
    BY <1>0, <1>2, <2>1, <2>2
<1>9. CASE Len(p) = 3
  <2>1. p = <<p[1], p[2], p[3]>>
    BY <1>9
  <2>2. p[1] \in Managers /\ p[2] \in Managers /\ target[p[1]] = p[2] /\ p[3] \in Managers /\ target[p[2]] = p[3]
    BY <1>3, <1>4, <1>9
  <2>3. p[1] \in Locals /\ p[2] = Process /\ p[3] \in Locals /\ target[p[3]] = "resource"
    BY <1>0, <1>2, <2>2
  <2>4. QED
    BY <2>1, <2>2, <2>3
<1>10. QED
  BY <1>6, <1>7, <1>8, <1>9

\* The line of a writer moves along, or a new one sets out, or one is written.
LEMMA LinesKeep ==
    ASSUME LogInv, NEW w \in Writers, PassOn(w) \/ Written(w) \/ \E m \in Managers : Line(w, m)
    PROVE  LogInv'
<1>0. /\ UNCHANGED <<target, resource, users, steps>>
      /\ passed \in [Writers -> Seq(Managers)] /\ \A v \in Writers : OnItsWay(passed[v])
  BY DEF PassOn, Written, Line, LogInv, LogShapes
<1>1. PICK p \in Seq(Managers) : passed' = [passed EXCEPT ![w] = p] /\ OnItsWay(p)
  <2>1. CASE PassOn(w)
    <3>1. passed[w] \in Seq(Managers) /\ passed[w] # << >> /\ Place(w) \in Managers /\ OnItsWay(passed[w])
      BY <1>0, <2>1 DEF PassOn, CanPassOn
    <3> DEFINE p == Append(passed[w], Place(w))
    <3>2. passed' = [passed EXCEPT ![w] = p]
      BY <1>0, <2>1 DEF PassOn
    <3>3. /\ p \in Seq(Managers) /\ Len(p) = Len(passed[w]) + 1 /\ Len(passed[w]) \in Nat
          /\ p[Len(p)] = Place(w) /\ \A i \in 1..Len(passed[w]) : p[i] = passed[w][i]
      BY <3>1
    <3> HIDE DEF p
    <3>4. ASSUME NEW i \in 1..(Len(p) - 1) PROVE target[p[i]] = p[i + 1]
      <4>1. CASE i = Len(passed[w])
        BY <3>3, <4>1 DEF Place
      <4>2. CASE i # Len(passed[w])
        <5>1. i \in 1..(Len(passed[w]) - 1) /\ i + 1 \in 1..Len(passed[w]) /\ i \in 1..Len(passed[w])
          BY <3>3, <4>2
        <5>2. QED
          BY <3>1, <3>3, <5>1 DEF OnItsWay
      <4>3. QED
        BY <4>1, <4>2
    <3>5. QED
      BY <3>2, <3>3, <3>4 DEF OnItsWay
  <2>2. CASE Written(w)
    <3>1. << >> \in Seq(Managers) /\ OnItsWay(<< >>)
      BY DEF OnItsWay
    <3>2. QED
      BY <2>2, <3>1 DEF Written
  <2>3. CASE \E m \in Managers : Line(w, m)
    <3>1. PICK m \in Managers : passed' = [passed EXCEPT ![w] = <<m>>]
      BY <2>3 DEF Line
    <3>2. <<m>> \in Seq(Managers) /\ OnItsWay(<<m>>)
      BY DEF OnItsWay
    <3>3. QED
      BY <3>1, <3>2
  <2>4. QED
    BY <2>1, <2>2, <2>3
<1>2. /\ passed' \in [Writers -> Seq(Managers)]
      /\ \A v \in Writers : passed'[v] = p \/ passed'[v] = passed[v]
  BY <1>0, <1>1
<1>3. ASSUME NEW v \in Writers PROVE OnItsWay(passed[v])'
  BY <1>0, <1>1, <1>2 DEF OnItsWay
<1>4. LogShapes' /\ UnderWay' /\ TargetsInv'
  BY <1>0, <1>2 DEF LogInv, LogShapes, UnderWay, TargetsInv, InUse, Activating, Activation, Release, Redirection,
                    EndOfCurrent, Follows
<1>5. QED
  BY <1>3, <1>4 DEF LogInv

\* What the end of the last user of a component leaves to do.
LEMMA LetGoFacts ==
    ASSUME LogShapes, NEW g \in Roles, users[g] # {}
    PROVE  \E m \in Locals : /\ users[g] = {m}
                             /\ IF \E o \in Roles \ {g} : m \in users[o]
                                THEN LetGo(g) = << >>
                                ELSE LetGo(g) = <<To(m, Process), Closing(m)>>
<1>1. PICK m \in Locals : users[g] = {m}
  BY DEF LogShapes
<1>2. (CHOOSE l \in users[g] : TRUE) = m
  BY <1>1
<1>3. QED
  BY <1>1, <1>2 DEF LetGo

\* A generation that is not the current one lets go of its component.
LEMMA LetGoKeeps ==
    ASSUME LogInv, NEW g \in {"candidate", "retiring"}, NothingUnderWay, users[g] # {},
           steps' = LetGo(g), users' = [users EXCEPT ![g] = {}], UNCHANGED <<target, resource, passed>>
    PROVE  LogInv'
<1>0. g \in Roles /\ "current" \in Roles /\ g # "current"
  BY DEF Roles
<1>1. PICK m \in Locals : /\ users[g] = {m}
                          /\ IF \E o \in Roles \ {g} : m \in users[o]
                             THEN LetGo(g) = << >>
                             ELSE LetGo(g) = <<To(m, Process), Closing(m)>>
  BY <1>0, LetGoFacts DEF LogInv
<1>2. /\ users' \in [Roles -> SUBSET Locals] /\ users'[g] = {}
      /\ \A o \in Roles \ {g} : users'[o] = users[o]
  BY <1>0 DEF LogInv, LogShapes
<1>3. users'["current"] = users["current"]
  BY <1>0, <1>2
<1>4. LogShapes'
  BY <1>2 DEF LogInv, LogShapes
<1>5. Follows'
  <2>1. Follows
    BY DEF NothingUnderWay, LogInv, UnderWay, Activation, Activating, Release, Redirection, EndOfCurrent
  <2>2. QED
    BY <1>3, <2>1 DEF Follows
<1>6. UnderWay'
  <2>1. CASE \E o \in Roles \ {g} : m \in users[o]
    BY <1>1, <1>5, <2>1 DEF UnderWay
  <2>2. CASE ~\E o \in Roles \ {g} : m \in users[o]
    <3>1. ~InUse(m)'
      BY <1>2, <2>2 DEF InUse
    <3>2. steps' = <<To(m, Process), Closing(m)>>
      BY <1>1, <2>2
    <3>3. QED
      BY <1>5, <3>1, <3>2 DEF UnderWay, Release
  <2>3. QED
    BY <2>1, <2>2
<1>7. TargetsInv'
  <2>1. \A l \in Locals : InUse(l)' => InUse(l) /\ ~Activating(l)
    BY <1>0, <1>2 DEF InUse, NothingUnderWay, Activating
  <2>2. QED
    BY <2>1 DEF LogInv, TargetsInv
<1>8. QED
  BY <1>4, <1>6, <1>7 DEF LogInv, OnItsWay

LEMMA TakeKeeps == ASSUME LogInv, NEW m \in Locals, TakeLogger(m) PROVE LogInv'
<1>0. /\ NothingUnderWay /\ users["candidate"] = {} /\ UNCHANGED <<target, passed>>
      /\ "candidate" \in Roles /\ "current" \in Roles /\ "candidate" # "current"
  BY DEF TakeLogger, Roles
<1>1. /\ users' \in [Roles -> SUBSET Locals] /\ users'["candidate"] = {m}
      /\ \A o \in Roles \ {"candidate"} : users'[o] = users[o]
  BY <1>0 DEF TakeLogger, LogInv, LogShapes
<1>2. users'["current"] = users["current"]
  BY <1>0, <1>1
<1>3. Follows'
  <2>1. Follows
    BY <1>0 DEF NothingUnderWay, LogInv, UnderWay, Activation, Activating, Release, Redirection, EndOfCurrent
  <2>2. QED
    BY <1>0, <1>2, <2>1 DEF Follows
<1>4. CASE m \in users["current"] /\ steps' = << >> /\ UNCHANGED resource
  <2>1. LogShapes'
    BY <1>0, <1>1, <1>4 DEF LogInv, LogShapes
  <2>2. \A l \in Locals : InUse(l)' => InUse(l) /\ ~Activating(l)
    BY <1>0, <1>1, <1>4 DEF InUse, NothingUnderWay, Activating
  <2>3. TargetsInv'
    BY <1>0, <1>4, <2>2 DEF LogInv, TargetsInv
  <2>4. QED
    BY <1>0, <1>3, <1>4, <2>1, <2>3 DEF LogInv, OnItsWay, UnderWay
<1>5. CASE /\ resource[m] = "none" /\ steps' = <<To(m, "resource")>>
           /\ resource' = [resource EXCEPT ![m] = "open"]
  <2>1. /\ resource' \in [Locals -> {"none", "open", "closed"}] /\ resource'[m] = "open"
        /\ \A l \in Locals : l # m => resource'[l] = resource[l]
    BY <1>5 DEF LogInv, LogShapes
  <2>2. LogShapes'
    BY <1>0, <1>1, <2>1 DEF LogInv, LogShapes
  <2>3. ~InUse(m) /\ target[m] = Process
    <3>1. target[m] = Process
      BY <1>5 DEF LogInv, TargetsInv
    <3>2. ~Activating(m)
      BY <1>0 DEF NothingUnderWay, Activating
    <3>3. target[m] # "resource"
      BY <1>5 DEF LogInv, TargetsInv
    <3>4. QED
      BY <3>1, <3>2, <3>3 DEF LogInv, TargetsInv
  <2>4. m \notin users'["current"]
    BY <1>0, <1>2, <2>3 DEF InUse
  <2>5. Activating(m)'
    BY <1>5 DEF Activating
  <2>6. UnderWay'
    BY <1>1, <1>3, <2>1, <2>4, <2>5 DEF UnderWay, Activation
  <2>7. \A l \in Locals : InUse(l)' => l = m \/ (InUse(l) /\ ~Activating(l))
    BY <1>0, <1>1 DEF InUse, NothingUnderWay, Activating
  <2>8. TargetsInv'
    BY <1>0, <2>1, <2>3, <2>5, <2>7 DEF LogInv, TargetsInv
  <2>9. QED
    BY <1>0, <2>2, <2>6, <2>8 DEF LogInv, OnItsWay
<1>6. QED
  BY <1>4, <1>5 DEF TakeLogger

LEMMA CommitKeeps == ASSUME LogInv, NEW m \in Locals, CommitGeneration(m) PROVE LogInv'
<1>0. /\ NothingUnderWay /\ m \in users["candidate"] /\ UNCHANGED <<target, resource, passed>>
      /\ steps' = <<To(Process, m)>>
      /\ users' = [candidate |-> {}, current |-> {m}, retiring |-> users["current"]]
  BY DEF CommitGeneration, Writing
<1>1. Roles = {"candidate", "current", "retiring"}
  BY DEF Roles
<1>2. /\ users' \in [Roles -> SUBSET Locals]
      /\ users'["candidate"] = {} /\ users'["current"] = {m} /\ users'["retiring"] = users["current"]
  BY <1>0, <1>1 DEF LogInv, LogShapes
<1>3. LogShapes'
  <2>1. ASSUME NEW g \in Roles PROVE users'[g] = {} \/ \E l \in Locals : users'[g] = {l}
    BY <1>1, <1>2 DEF LogInv, LogShapes
  <2>2. QED
    BY <1>0, <1>2, <2>1 DEF LogInv, LogShapes
<1>4. UnderWay'
  BY <1>0, <1>2 DEF UnderWay, Redirection
<1>5. ASSUME NEW l \in Locals, InUse(l)' PROVE InUse(l) /\ ~Activating(l)
  <2>1. InUse(l)
    BY <1>0, <1>1, <1>2, <1>5 DEF InUse
  <2>2. QED
    BY <1>0, <2>1 DEF NothingUnderWay, Activating
<1>6. TargetsInv'
  BY <1>0, <1>5 DEF LogInv, TargetsInv
<1>7. QED
  BY <1>0, <1>3, <1>4, <1>6 DEF LogInv, OnItsWay

LEMMA Joined ==
    ASSUME NEW x, NEW y, NEW z
    PROVE  <<x>> \o << >> = <<x>> /\ <<x>> \o <<y, z>> = <<x, y, z>>
<1>1. <<x>> \in Seq({x, y, z}) /\ <<y, z>> \in Seq({x, y, z}) /\ << >> \in Seq({x, y, z})
  OBVIOUS
<1>2. <<x>> \o << >> = <<x>>
  <2> DEFINE s == <<x>> \o << >>
  <2>1. s \in Seq({x, y, z}) /\ Len(s) = 1 /\ s[1] = x
    BY <1>1
  <2> HIDE DEF s
  <2>2. s = <<s[1]>>
    BY <2>1
  <2>3. QED
    BY <2>1, <2>2 DEF s
<1>3. <<x>> \o <<y, z>> = <<x, y, z>>
  <2> DEFINE s == <<x>> \o <<y, z>>
  <2>1. s \in Seq({x, y, z}) /\ Len(s) = 3 /\ s[1] = x /\ s[2] = y /\ s[3] = z
    BY <1>1
  <2> HIDE DEF s
  <2>2. s = <<s[1], s[2], s[3]>>
    BY <2>1
  <2>3. QED
    BY <2>1, <2>2 DEF s
<1>4. QED
  BY <1>2, <1>3

\* The process is restored before the component of the current generation goes.
LEMMA StopKeeps == ASSUME LogInv, StopCurrent PROVE LogInv'
<1>0. /\ NothingUnderWay /\ users["current"] # {} /\ UNCHANGED <<target, resource, passed>>
      /\ steps' = <<To(Process, "baseline")>> \o LetGo("current")
      /\ users' = [users EXCEPT !["current"] = {}] /\ "current" \in Roles
  BY DEF StopCurrent, Writing, RestoredFirst, Roles
<1>1. PICK m \in Locals : /\ users["current"] = {m}
                          /\ IF \E o \in Roles \ {"current"} : m \in users[o]
                             THEN LetGo("current") = << >>
                             ELSE LetGo("current") = <<To(m, Process), Closing(m)>>
  BY <1>0, LetGoFacts DEF LogInv
<1>2. /\ users' \in [Roles -> SUBSET Locals] /\ users'["current"] = {}
      /\ \A o \in Roles \ {"current"} : users'[o] = users[o]
  BY <1>0 DEF LogInv, LogShapes
<1>3. LogShapes'
  BY <1>0, <1>2 DEF LogInv, LogShapes
<1>4. UnderWay'
  <2>1. CASE \E o \in Roles \ {"current"} : m \in users[o]
    <3>1. steps' = <<To(Process, "baseline")>>
      BY <1>0, <1>1, <2>1, Joined
    <3>2. QED
      BY <1>2, <3>1 DEF UnderWay, EndOfCurrent
  <2>2. CASE ~\E o \in Roles \ {"current"} : m \in users[o]
    <3>1. ~InUse(m)'
      BY <1>2, <2>2 DEF InUse
    <3>2. steps' = <<To(Process, "baseline"), To(m, Process), Closing(m)>>
      BY <1>0, <1>1, <2>2, Joined
    <3>3. QED
      BY <1>2, <3>1, <3>2 DEF UnderWay, EndOfCurrent
  <2>3. QED
    BY <2>1, <2>2
<1>5. TargetsInv'
  <2>1. \A l \in Locals : InUse(l)' => InUse(l) /\ ~Activating(l)
    BY <1>0, <1>2 DEF InUse, NothingUnderWay, Activating
  <2>2. QED
    BY <1>0, <2>1 DEF LogInv, TargetsInv
<1>6. QED
  BY <1>0, <1>3, <1>4, <1>5 DEF LogInv, OnItsWay

\* A switch of the process or of a component, that no line passes.
LEMMA SwitchFrame ==
    ASSUME LogInv, NEW h \in Managers, NEW to \in {"baseline", "resource"} \cup Managers,
           \A w \in Writers : ~Holds(w, h), target' = [target EXCEPT ![h] = to],
           UNCHANGED <<resource, users, passed>>
    PROVE  /\ LogShapes' /\ \A w \in Writers : OnItsWay(passed[w])'
           /\ target'[h] = to /\ \A m \in Managers : m # h => target'[m] = target[m]
<1>1. /\ target' \in [Managers -> {"baseline", "resource"} \cup Managers]
      /\ target'[h] = to /\ \A m \in Managers : m # h => target'[m] = target[m]
  BY DEF LogInv, LogShapes
<1>2. ASSUME NEW w \in Writers PROVE OnItsWay(passed[w])'
  <2>1. ASSUME NEW i \in 1..(Len(passed[w]) - 1) PROVE target'[passed[w][i]] = passed[w][i + 1]
    <3>1. passed[w] \in Seq(Managers) /\ OnItsWay(passed[w])
      BY DEF LogInv, LogShapes
    <3>2. i \in 1..Len(passed[w]) /\ passed[w][i] \in Managers
      BY <3>1
    <3>3. passed[w][i] # h
      BY <3>2 DEF Holds
    <3>4. QED
      BY <1>1, <3>1, <3>2, <3>3 DEF OnItsWay
  <2>2. QED
    BY <2>1 DEF OnItsWay
<1>3. LogShapes'
  BY <1>1 DEF LogInv, LogShapes
<1>4. QED
  BY <1>1, <1>2, <1>3

LEMMA SwitchKeeps == ASSUME LogInv, Switch PROVE LogInv'
<1>0. /\ Process \notin Locals /\ "resource" \notin Managers /\ "baseline" \notin Managers
      /\ Managers = Locals \cup {Process} /\ "resource" # "baseline"
  BY ManagersAssumption DEF Managers
<1>1. /\ steps # << >> /\ Head(steps).does = "switch" /\ steps' = Tail(steps)
      /\ \A w \in Writers : ~Holds(w, Head(steps).manager)
      /\ target' = [target EXCEPT ![Head(steps).manager] = Head(steps).to]
      /\ UNCHANGED <<resource, users, passed>>
  BY DEF Switch, Locking
<1>2. ASSUME NEW h \in Managers, NEW to \in {"baseline", "resource"} \cup Managers, Head(steps) = To(h, to)
      PROVE  /\ LogShapes' /\ \A w \in Writers : OnItsWay(passed[w])'
             /\ target'[h] = to /\ \A m \in Managers : m # h => target'[m] = target[m]
  <2>1. Head(steps).manager = h /\ Head(steps).to = to
    BY <1>2 DEF To
  <2>2. QED
    BY <1>1, <2>1, SwitchFrame
<1>3. CASE Activation /\ Follows
  <2>1. PICK m \in Locals : /\ Activating(m) /\ users["candidate"] = {m} /\ m \notin users["current"]
                            /\ resource[m] = "open"
    BY <1>3 DEF Activation
  <2>2. Head(steps) = To(m, "resource") /\ Tail(steps) = << >>
    BY <2>1 DEF Activating
  <2>3. /\ LogShapes' /\ \A w \in Writers : OnItsWay(passed[w])'
        /\ target'[m] = "resource" /\ \A l \in Managers : l # m => target'[l] = target[l]
    BY <1>0, <1>2, <2>2
  <2>4. Follows'
    BY <1>0, <1>1, <1>3, <2>3 DEF Follows
  <2>5. UnderWay'
    BY <1>1, <2>2, <2>4 DEF UnderWay
  <2>6. ASSUME NEW l \in Locals, l # m PROVE Activating(l) = FALSE
    BY <2>1, <2>6 DEF Activating, To
  <2>7. TargetsInv'
    BY <1>0, <1>1, <2>1, <2>3, <2>6 DEF LogInv, TargetsInv, InUse
  <2>8. QED
    BY <2>3, <2>5, <2>7 DEF LogInv
<1>4. CASE Redirection
  <2>1. PICK m \in Locals : steps = <<To(Process, m)>> /\ users["current"] = {m}
    BY <1>4 DEF Redirection
  <2>2. /\ Head(steps) = To(Process, m) /\ Tail(steps) = << >>
        /\ Process \in Managers /\ m \in {"baseline", "resource"} \cup Managers
    BY <1>0, <2>1
  <2>3. /\ LogShapes' /\ \A w \in Writers : OnItsWay(passed[w])'
        /\ target'[Process] = m /\ \A l \in Managers : l # Process => target'[l] = target[l]
    BY <1>0, <1>2, <2>2
  <2>4. UnderWay'
    BY <1>1, <2>1, <2>2, <2>3 DEF UnderWay, Follows
  <2>5. \A l \in Locals : ~Activating(l)
    BY <1>0, <2>1 DEF Activating, To
  <2>6. target[m] = "resource"
    BY <2>1, <2>5 DEF LogInv, TargetsInv, InUse, Roles
  <2>7. TargetsInv'
    BY <1>0, <1>1, <2>3, <2>5, <2>6 DEF LogInv, TargetsInv, InUse
  <2>8. QED
    BY <2>3, <2>4, <2>7 DEF LogInv
<1>5. CASE Release /\ Follows
  <2>1. PICK m \in Locals : ~InUse(m) /\ (steps = <<To(m, Process), Closing(m)>> \/ steps = <<Closing(m)>>)
    BY <1>5 DEF Release
  <2>2. steps = <<To(m, Process), Closing(m)>>
    BY <1>1, <2>1 DEF Closing
  <2>3. /\ Head(steps) = To(m, Process) /\ Tail(steps) = <<Closing(m)>>
        /\ m \in Managers /\ Process \in {"baseline", "resource"} \cup Managers
    BY <1>0, <2>2
  <2>4. /\ LogShapes' /\ \A w \in Writers : OnItsWay(passed[w])'
        /\ target'[m] = Process /\ \A l \in Managers : l # m => target'[l] = target[l]
    BY <1>0, <1>2, <2>3
  <2>5. Follows'
    BY <1>0, <1>1, <1>5, <2>4 DEF Follows
  <2>6. UnderWay'
    BY <1>1, <2>1, <2>3, <2>4, <2>5 DEF UnderWay, Release, InUse
  <2>7. \A l \in Locals : ~Activating(l)
    BY <2>2 DEF Activating, Closing
  <2>8. target[Process] # m
    <3>1. \A l \in users["current"] : l # m
      BY <2>1 DEF InUse, Roles
    <3>2. QED
      BY <1>0, <1>5, <3>1 DEF Follows, LogInv, LogShapes, Roles
  <2>9. TargetsInv'
    BY <1>0, <1>1, <2>1, <2>4, <2>7, <2>8 DEF LogInv, TargetsInv, InUse
  <2>10. QED
    BY <2>4, <2>6, <2>9 DEF LogInv
<1>6. CASE EndOfCurrent
  <2>1. /\ users["current"] = {} /\ Head(steps) = To(Process, "baseline")
        /\ \/ Tail(steps) = << >>
           \/ \E m \in Locals : ~InUse(m) /\ Tail(steps) = <<To(m, Process), Closing(m)>>
    <3>1. CASE steps = <<To(Process, "baseline")>>
      BY <1>6, <3>1 DEF EndOfCurrent
    <3>2. ASSUME NEW m \in Locals, ~InUse(m),
                 steps = <<To(Process, "baseline"), To(m, Process), Closing(m)>>
          PROVE  Head(steps) = To(Process, "baseline") /\ Tail(steps) = <<To(m, Process), Closing(m)>>
      BY <3>2
    <3>3. QED
      BY <1>6, <3>1, <3>2 DEF EndOfCurrent
  <2>2. /\ LogShapes' /\ \A w \in Writers : OnItsWay(passed[w])'
        /\ target'[Process] = "baseline" /\ \A l \in Managers : l # Process => target'[l] = target[l]
    BY <1>0, <1>2, <2>1
  <2>3. Follows'
    BY <1>1, <2>1, <2>2 DEF Follows
  <2>4. UnderWay'
    BY <1>1, <2>1, <2>3 DEF UnderWay, Release, InUse
  <2>5. \A l \in Locals : ~Activating(l)
    BY <1>0, <2>1 DEF Activating, To
  <2>6. TargetsInv'
    BY <1>0, <1>1, <2>2, <2>5 DEF LogInv, TargetsInv, InUse
  <2>7. QED
    BY <2>2, <2>4, <2>6 DEF LogInv
<1>7. QED
  BY <1>1, <1>3, <1>4, <1>5, <1>6 DEF LogInv, UnderWay

LEMMA CloseKeeps == ASSUME LogInv, CloseResource PROVE LogInv'
<1>0. /\ Process \notin Locals /\ "resource" \notin Managers /\ Managers = Locals \cup {Process}
  BY ManagersAssumption DEF Managers
<1>1. /\ steps # << >> /\ Head(steps).does = "close" /\ steps' = Tail(steps)
      /\ resource' = [resource EXCEPT ![Head(steps).manager] = "closed"]
      /\ UNCHANGED <<target, users, passed>>
  BY DEF CloseResource
<1>2. /\ ~Activation /\ ~Redirection /\ ~EndOfCurrent
  BY <1>1 DEF Activation, Activating, Redirection, EndOfCurrent, To
<1>3. PICK m \in Locals : steps = <<Closing(m)>> /\ target[m] = Process /\ ~InUse(m) /\ Follows
  BY <1>1, <1>2 DEF LogInv, UnderWay, Release, To
<1>4. Head(steps).manager = m /\ Tail(steps) = << >>
  BY <1>3 DEF Closing
<1>5. /\ resource' \in [Locals -> {"none", "open", "closed"}]
      /\ \A l \in Locals : l # m => resource'[l] = resource[l]
  BY <1>1, <1>4 DEF LogInv, LogShapes
<1>6. LogShapes'
  BY <1>1, <1>5 DEF LogInv, LogShapes
<1>7. UnderWay'
  BY <1>1, <1>3, <1>4 DEF UnderWay, Follows
<1>8. \A l \in Locals : ~Activating(l)
  BY <1>3 DEF Activating, Closing, To
<1>9. TargetsInv'
  BY <1>0, <1>1, <1>3, <1>5, <1>8 DEF LogInv, TargetsInv, InUse
<1>10. QED
  BY <1>1, <1>6, <1>7, <1>9 DEF LogInv, OnItsWay

LEMMA LogStep == ASSUME LogInv, [LogNext]_logVars PROVE LogInv'
<1>1. CASE UNCHANGED logVars
  BY <1>1 DEF logVars, LogInv, LogShapes, UnderWay, Activation, Activating, Redirection, Release, EndOfCurrent,
              Follows, InUse, TargetsInv, OnItsWay
<1>2. CASE AbortCandidate \/ RetirePrevious
  BY <1>2, LetGoKeeps DEF AbortCandidate, RetirePrevious, Writing
<1>3. QED
  BY <1>1, <1>2, StopKeeps, SwitchKeeps, CloseKeeps, TakeKeeps, CommitKeeps, LinesKeep DEF LogNext

LEMMA LogInitially == ASSUME LogInit PROVE LogInv
<1>0. Process \notin Locals /\ "resource" \notin Managers /\ Managers = Locals \cup {Process}
  BY ManagersAssumption DEF Managers
<1>1. LogShapes
  BY <1>0 DEF LogInit, LogShapes, Roles
<1>2. UnderWay
  BY <1>0 DEF LogInit, UnderWay, Follows, Roles
<1>3. TargetsInv
  BY <1>0 DEF LogInit, TargetsInv, InUse, Roles
<1>4. QED
  BY <1>1, <1>2, <1>3 DEF LogInit, LogInv, OnItsWay

LEMMA PairOfManagers ==
    ASSUME NEW x, NEW y, x # y
    PROVE  IsFiniteSet({x, y}) /\ Cardinality({x, y}) = 2
<1>1. IsFiniteSet({x}) /\ Cardinality({x}) = 1
  BY FS_Singleton
<1>2. y \notin {x} /\ {x} \cup {y} = {x, y}
  OBVIOUS
<1>3. IsFiniteSet({x} \cup {y}) /\ Cardinality({x} \cup {y}) = 1 + 1
  BY <1>1, <1>2, FS_AddElement
<1>4. QED
  BY <1>2, <1>3

\* What the ways of the lines show about them.
LEMMA LogInvImplies == ASSUME LogInv PROVE LinesAreWritten
<1>0. /\ Process \notin Locals /\ "resource" \notin Managers /\ "baseline" \notin Managers
      /\ Managers = Locals \cup {Process}
  BY ManagersAssumption DEF Managers
<1>1. ASSUME NEW w \in Writers, passed[w] # << >>
      PROVE  /\ Len(passed[w]) <= Cardinality(Managers)
             /\ ~Holds(w, Place(w))
             /\ Place(w) = "resource" => resource[passed[w][Len(passed[w])]] = "open"
  <2>0. LogShapes /\ TargetsInv /\ passed[w] \in Seq(Managers) /\ OnItsWay(passed[w])
    BY DEF LogInv, LogShapes
  <2>1. IsFiniteSet(Managers) /\ Cardinality(Managers) \in Nat
    BY <1>0, ManagersAssumption, FS_AddElement, FS_CardinalityType
  <2>2. ASSUME NEW S \in SUBSET Managers PROVE Cardinality(S) <= Cardinality(Managers)
    BY <2>1, FS_Subset
  <2>3. ASSUME NEW m \in Managers, passed[w] = <<m>>
        PROVE  /\ Len(passed[w]) <= Cardinality(Managers)
               /\ ~Holds(w, Place(w))
               /\ Place(w) = "resource" => resource[passed[w][Len(passed[w])]] = "open"
    <3>1. Cardinality({m}) = 1 /\ {m} \in SUBSET Managers
      BY FS_Singleton
    <3>2. Len(passed[w]) = 1 /\ passed[w][1] = m
      BY <2>3
    <3>3. target[m] # m
      BY <1>0, <2>0 DEF TargetsInv
    <3>4. target[m] = "resource" => resource[m] = "open"
      BY <1>0, <2>0 DEF TargetsInv
    <3>5. Len(passed[w]) <= Cardinality(Managers)
      BY <2>2, <3>1, <3>2
    <3>6. QED
      BY <3>2, <3>3, <3>4, <3>5 DEF Holds, Place
  <2>4. ASSUME NEW m \in Locals, target[m] = Process, passed[w] = <<m, Process>>
        PROVE  /\ Len(passed[w]) <= Cardinality(Managers)
               /\ ~Holds(w, Place(w))
               /\ Place(w) = "resource" => resource[passed[w][Len(passed[w])]] = "open"
    <3>1. Len(passed[w]) = 2 /\ passed[w][1] = m /\ passed[w][2] = Process
      BY <2>4
    <3>2. target[Process] # Process /\ target[Process] # m /\ target[Process] # "resource"
      BY <1>0, <2>0, <2>4 DEF TargetsInv
    <3>3. Cardinality({m, Process}) = 2 /\ {m, Process} \in SUBSET Managers
      BY <1>0, PairOfManagers
    <3>4. Len(passed[w]) <= Cardinality(Managers)
      BY <2>2, <3>1, <3>3
    <3>5. QED
      BY <3>1, <3>2, <3>4 DEF Holds, Place
  <2>5. ASSUME NEW l \in Locals, target[l] = "resource", passed[w] = <<Process, l>>
        PROVE  /\ Len(passed[w]) <= Cardinality(Managers)
               /\ ~Holds(w, Place(w))
               /\ Place(w) = "resource" => resource[passed[w][Len(passed[w])]] = "open"
    <3>1. Len(passed[w]) = 2 /\ passed[w][1] = Process /\ passed[w][2] = l
      BY <2>5
    <3>2. target[l] # Process /\ target[l] # l /\ resource[l] = "open"
      BY <1>0, <2>0, <2>5 DEF TargetsInv
    <3>3. Cardinality({l, Process}) = 2 /\ {l, Process} \in SUBSET Managers
      BY <1>0, PairOfManagers
    <3>4. Len(passed[w]) <= Cardinality(Managers)
      BY <2>2, <3>1, <3>3
    <3>5. QED
      BY <3>1, <3>2, <3>4 DEF Holds, Place
  <2>6. ASSUME NEW m \in Locals, NEW l \in Locals, target[m] = Process, target[l] = "resource",
               passed[w] = <<m, Process, l>>
        PROVE  /\ Len(passed[w]) <= Cardinality(Managers)
               /\ ~Holds(w, Place(w))
               /\ Place(w) = "resource" => resource[passed[w][Len(passed[w])]] = "open"
    <3>1. Len(passed[w]) = 3 /\ passed[w][1] = m /\ passed[w][2] = Process /\ passed[w][3] = l
      BY <2>6
    <3>2. target[l] # Process /\ target[l] # l /\ target[l] # m /\ l # m /\ resource[l] = "open"
      BY <1>0, <2>0, <2>6 DEF TargetsInv
    <3>3. Cardinality({m, Process}) = 2 /\ IsFiniteSet({m, Process})
      BY <1>0, PairOfManagers
    <3>4. Cardinality({m, Process} \cup {l}) = 3 /\ {m, Process} \cup {l} \in SUBSET Managers
      BY <1>0, <3>2, <3>3, FS_AddElement
    <3>5. Len(passed[w]) <= Cardinality(Managers)
      BY <2>2, <3>1, <3>4
    <3>6. QED
      BY <3>1, <3>2, <3>5 DEF Holds, Place
  <2>7. QED
    BY <1>1, <2>0, <2>3, <2>4, <2>5, <2>6, WaysAreShort
<1>2. LogTypeOK
  <2>1. ASSUME NEW g \in Roles PROVE users[g] \subseteq Locals /\ Cardinality(users[g]) <= 1
    <3>1. CASE users[g] = {}
      BY <3>1, FS_EmptySet
    <3>2. ASSUME NEW m \in Locals, users[g] = {m} PROVE users[g] \subseteq Locals /\ Cardinality(users[g]) <= 1
      BY <3>2, FS_Singleton
    <3>3. QED
      BY <3>1, <3>2 DEF LogInv, LogShapes
  <2>2. ASSUME NEW w \in Writers PROVE Len(passed[w]) <= Cardinality(Managers)
    <3>1. CASE passed[w] = << >>
      <4>1. Cardinality(Managers) \in Nat
        BY <1>0, ManagersAssumption, FS_AddElement, FS_CardinalityType
      <4>2. QED
        BY <3>1, <4>1
    <3>2. QED
      BY <1>1, <3>1
  <2>3. QED
    BY <2>1, <2>2 DEF LogInv, LogShapes, LogTypeOK
<1>3. OnlyOpenIsWritten /\ NoLineGoesRound
  BY <1>1 DEF OnlyOpenIsWritten, NoLineGoesRound
\* The manager that is waited for is held, so the line is not on its way to it.
<1>4. NoLockInCircles
  <2>1. ASSUME steps # << >>, Head(steps).does = "switch", NEW w \in Writers, Holds(w, Head(steps).manager)
        PROVE  CanPassOn(w) \/ HasArrived(w)
    <3>1. passed[w] # << >>
      BY <2>1 DEF Holds
    <3>2. ~Holds(w, Place(w))
      BY <1>1, <3>1
    <3>3. ~Locking(Place(w))
      BY <2>1, <3>2 DEF Locking
    <3>4. QED
      BY <3>1, <3>2, <3>3 DEF CanPassOn, HasArrived
  <2>2. QED
    BY <2>1 DEF NoLockInCircles
<1>5. ProcessFollowsCurrent
  <2>1. ASSUME NothingUnderWay
        PROVE  target[Process] = IF users["current"] = {} THEN "baseline" ELSE CHOOSE m \in users["current"] : TRUE
    <3>1. Follows
      BY <2>1 DEF NothingUnderWay, LogInv, UnderWay, Redirection, EndOfCurrent
    <3>2. QED
      BY <3>1 DEF Follows
  <2>2. QED
    BY <2>1 DEF ProcessFollowsCurrent
<1>6. QED
  BY <1>2, <1>3, <1>4, <1>5 DEF LinesAreWritten

\* For any logger components and any writers: a line is written to a logger that is
\* open, none goes round or waits behind a switch that waits for it, and at rest the
\* process writes where the current generation does, however generations come and
\* go while lines are on their way (Manager.write, Replace and Restore).
THEOREM LinesAreWrittenHolds == LogSpec => []LinesAreWritten
<1>1. LogInit => LogInv
  BY LogInitially
<1>2. LogInv /\ [LogNext]_logVars => LogInv'
  BY LogStep
<1>3. LogInv => LinesAreWritten
  BY LogInvImplies
<1>4. QED
  BY <1>1, <1>2, <1>3, PTL DEF LogSpec

-----------------------------------------------------------------------------
(* One call of the HTTP client.                                            *)

Payloads == {"given", "none", "encoded", "unencodable"}
CallStages == {"new", "call", "send", "read", "decide", "wait", "done"}
Trying == {"send", "read", "decide", "wait"}
Answers == [status : {"none", "success", "refusal", "many", "failure"}, body : {"none", "fits", "unread"}]

\* What the caller gave, and what its request says of an answer.
Given(order) == IF order.raw THEN "given" ELSE order.json
Accepted(order, status) == IF order.accepts = {} THEN status = "success" ELSE status \in order.accepts

\* An answer after which there may be another attempt.
Passed(order, answer) ==
    /\ answer.body \in {"none", "fits"}
    /\ answer.status = "none" \/ (answer.status \in {"many", "failure"} /\ ~Accepted(order, answer.status))

ClientShapes ==
    /\ client \in [base : STRING, count : Int, wait : Int, max : Int]
    /\ \E w : sending \in [order : Orders, at : CallStages, attempt : Nat, wait : {w}]
    /\ seen \in Seq(Payloads) /\ answers \in Seq(Answers)
    /\ result \in {"none", "ok", "status", "error", "nothing"}

\* Before the first attempt nothing has been kept, sent or answered.
Untouched ==
    answers = << >> /\ seen = << >> /\ sending.attempt = 0 /\ payload = "none" /\ buffer = "given"

\* While attempts are made there is an answer for each, and a result after the last.
Underway ==
    /\ sending.at = "new" => Untouched
    /\ sending.at = "call" => Untouched /\ client.count >= 0
    /\ sending.at \in Trying =>
          /\ client.count >= 0 /\ sending.attempt <= client.count /\ payload = Given(sending.order)
          /\ Len(answers) = IF sending.at = "send" THEN sending.attempt ELSE sending.attempt + 1
    /\ sending.at = "wait" => sending.attempt < client.count
    /\ sending.at = "done" => answers = << >> \/ Len(answers) <= client.count + 1
    /\ sending.at # "done" => result = "none"

\* All answers but the one under consideration were no reason to stop, and no answer
\* comes from nowhere.
Heard ==
    /\ \A n \in 1..Len(answers) :
          /\ (answers[n].status = "none") = (answers[n].body = "none")
          /\ answers[n].status # "none" => seen # << >>
          /\ n < Len(answers) \/ sending.at \in {"send", "decide", "wait"} => Passed(sending.order, answers[n])
    /\ Len(seen) <= Len(answers)
    /\ \A n \in 1..Len(seen) : seen[n] = Given(sending.order)

Told ==
    /\ result = "ok" => /\ seen # << >> /\ answers # << >>
                        /\ LastAnswer.body = "fits" /\ Accepted(sending.order, LastAnswer.status)
    /\ result = "status" => /\ answers # << >>
                            /\ LastAnswer.body = "fits" /\ ~Accepted(sending.order, LastAnswer.status)
    /\ result # "nothing"

ClientInv == ClientShapes /\ Underway /\ Heard /\ Told

LEMMA ClientAsks ==
    /\ \A s : StatusAccepted(s) = Accepted(sending.order, s)
    /\ \A a : a.body \in {"none", "fits"} /\ Repeatable(a) <=> Passed(sending.order, a)
BY DEF StatusAccepted, Repeatable, Accepted, Passed

\* What moving on does to the call.
LEMMA ClientMoves ==
    ASSUME ClientShapes, NEW where \in CallStages, MovesTo(where)
    PROVE  /\ \E w : sending' \in [order : Orders, at : CallStages, attempt : Nat, wait : {w}]
           /\ sending'.order = sending.order /\ sending'.at = where /\ sending'.attempt = sending.attempt
<1>1. PICK w : sending \in [order : Orders, at : CallStages, attempt : Nat, wait : {w}]
  BY DEF ClientShapes
<1>2. sending' \in [order : Orders, at : CallStages, attempt : Nat, wait : {w}]
  BY <1>1 DEF MovesTo
<1>3. /\ sending'.order = sending.order /\ sending'.at = where /\ sending'.attempt = sending.attempt
  BY <1>1 DEF MovesTo
<1>4. QED
  BY <1>2, <1>3

LEMMA ClientRepeats ==
    ASSUME ClientShapes, NEW wait,
           \/ sending' = Again(sending)
           \/ sending' = Again([sending EXCEPT !.wait = wait])
           \/ sending' = [sending EXCEPT !.at = "wait", !.wait = wait]
    PROVE  /\ \E w : sending' \in [order : Orders, at : CallStages, attempt : Nat, wait : {w}]
           /\ sending'.order = sending.order
           /\ \/ sending'.at = "send" /\ sending'.attempt = sending.attempt + 1
              \/ /\ sending'.at = "wait" /\ sending'.attempt = sending.attempt
                 /\ sending' = [sending EXCEPT !.at = "wait", !.wait = wait]
<1>1. PICK w : sending \in [order : Orders, at : CallStages, attempt : Nat, wait : {w}]
  BY DEF ClientShapes
<1>2. ASSUME NEW v, NEW from \in [order : Orders, at : CallStages, attempt : Nat, wait : {v}]
      PROVE  /\ Again(from) \in [order : Orders, at : CallStages, attempt : Nat, wait : {v}]
             /\ Again(from).order = from.order /\ Again(from).at = "send"
             /\ Again(from).attempt = from.attempt + 1
  <2>1. "send" \in CallStages /\ from.attempt + 1 \in Nat
    BY DEF CallStages
  <2>2. [from EXCEPT !.at = "send"] \in [order : Orders, at : CallStages, attempt : Nat, wait : {v}]
    BY <2>1
  <2>3. Again(from) \in [order : Orders, at : CallStages, attempt : Nat, wait : {v}]
    BY <2>1, <2>2 DEF Again
  <2>4. /\ Again(from).order = from.order /\ Again(from).at = "send"
        /\ Again(from).attempt = from.attempt + 1
    BY <2>1 DEF Again
  <2>5. QED
    BY <2>3, <2>4
<1>3. [sending EXCEPT !.wait = wait] \in [order : Orders, at : CallStages, attempt : Nat, wait : {wait}]
  BY <1>1
<1>30. /\ [sending EXCEPT !.wait = wait].order = sending.order
       /\ [sending EXCEPT !.wait = wait].attempt = sending.attempt
  BY <1>1
<1>4. CASE sending' = [sending EXCEPT !.at = "wait", !.wait = wait]
  <2>1. sending' \in [order : Orders, at : CallStages, attempt : Nat, wait : {wait}]
    BY <1>1, <1>4 DEF CallStages
  <2>2. QED
    BY <1>1, <1>4, <2>1
<1>5. CASE sending' = Again(sending)
  BY <1>1, <1>2, <1>5
<1>6. CASE sending' = Again([sending EXCEPT !.wait = wait])
  BY <1>2, <1>3, <1>30, <1>6
<1>7. QED
  BY <1>4, <1>5, <1>6

\* Going back to an earlier answer, or giving up, with what Outcome makes of it.
LEMMA ClientReturns ==
    ASSUME ClientInv, sending.at \in {"read", "decide", "wait"}, Returns(Outcome(LastAnswer)),
           UNCHANGED <<client, buffer, context, payload, seen, answers>>
    PROVE  ClientInv'
<1>1. /\ \E w : sending' \in [order : Orders, at : CallStages, attempt : Nat, wait : {w}]
      /\ sending'.order = sending.order /\ sending'.at = "done" /\ sending'.attempt = sending.attempt
      /\ result' = Outcome(LastAnswer)
  BY ClientMoves DEF ClientInv, Returns, CallStages
<1>2. Len(answers) \in 1..(client.count + 1) /\ answers # << >> /\ client.count \in Int
  BY DEF ClientInv, ClientShapes, Underway, Trying
<1>3. /\ LastAnswer' = LastAnswer
      /\ LastAnswer.body = "fits" \/ Outcome(LastAnswer) = "error"
      /\ LastAnswer.status # "none" => seen # << >>
      /\ LastAnswer.status = "none" => Outcome(LastAnswer) = "error"
  BY <1>2 DEF LastAnswer, Outcome, ClientInv, Heard
<1>4. result' \in {"ok", "status", "error"}
      /\ (result' = "ok" => LastAnswer.body = "fits" /\ Accepted(sending.order, LastAnswer.status) /\ seen # << >>)
      /\ (result' = "status" => LastAnswer.body = "fits" /\ ~Accepted(sending.order, LastAnswer.status))
  BY <1>1, <1>3, ClientAsks DEF Outcome
<1>5. ClientShapes'
  BY <1>1, <1>4 DEF ClientInv, ClientShapes
<1>6. Underway'
  BY <1>1, <1>2 DEF Underway, Trying
<1>7. Heard'
  BY <1>1 DEF ClientInv, Heard
<1>8. Told'
  BY <1>1, <1>2, <1>3, <1>4 DEF Told
<1>9. QED
  BY <1>5, <1>6, <1>7, <1>8 DEF ClientInv

LEMMA ClientPrepares ==
    ASSUME ClientInv, NewClient \/ PrepareRequest
    PROVE  ClientInv'
<1>1. Untouched /\ result = "none" /\ UNCHANGED <<buffer, seen, answers, context>>
  BY DEF NewClient, PrepareRequest, ClientInv, Underway, Working
<1>2. PICK where \in {"call", "send", "done"} :
          /\ MovesTo(where)
          /\ where = "done" => result' = "error" /\ UNCHANGED payload
          /\ where # "done" => UNCHANGED result
          /\ where = "call" => UNCHANGED payload /\ client'.count >= 0
          /\ where = "send" => payload' = Given(sending.order) /\ client.count >= 0 /\ UNCHANGED client
  <2>1. CASE NewClient
    <3>1. CASE Acceptable(client)
      <4>1. MovesTo("call") /\ UNCHANGED <<result, payload>> /\ client' = Resolve(client)
        BY <2>1, <3>1 DEF NewClient
      <4>2. client'.count = client.count
        BY <4>1 DEF Resolve, ClientInv, ClientShapes
      <4>3. QED
        BY <3>1, <4>1, <4>2 DEF Acceptable
    <3>2. CASE ~Acceptable(client)
      BY <2>1, <3>2 DEF NewClient, Returns
    <3>3. QED
      BY <3>1, <3>2
  <2>2. CASE PrepareRequest
    BY <1>1, <2>2 DEF PrepareRequest, Returns, Payload, Given, Working, Untouched, ClientInv, Underway
  <2>3. QED
    BY <2>1, <2>2
<1>3. client' \in [base : STRING, count : Int, wait : Int, max : Int]
  <2>1. client \in [base : STRING, count : Int, wait : Int, max : Int]
    BY DEF ClientInv, ClientShapes
  <2>2. CASE client' = client
    BY <2>1, <2>2
  <2>3. CASE client' = Resolve(client)
    <3>1. /\ client.wait \in Int /\ client.max \in Int
          /\ (IF client.wait = 0 THEN DefaultWait ELSE client.wait) \in Int
          /\ (IF client.max = 0 THEN DefaultMax ELSE client.max) \in Int
      BY <2>1 DEF DefaultWait, DefaultMax
    <3>2. QED
      BY <2>1, <2>3, <3>1 DEF Resolve
  <2>4. QED
    BY <2>2, <2>3 DEF NewClient, PrepareRequest, Working
<1>4. /\ \E w : sending' \in [order : Orders, at : CallStages, attempt : Nat, wait : {w}]
      /\ sending'.order = sending.order /\ sending'.at = where /\ sending'.attempt = 0
  BY <1>1, <1>2, ClientMoves DEF ClientInv, CallStages, Untouched
<1>5. ClientShapes'
  BY <1>1, <1>2, <1>3, <1>4 DEF ClientInv, ClientShapes
<1>6. Len(answers) = 0 /\ Len(seen) = 0 /\ answers' = << >> /\ seen' = << >>
  BY <1>1 DEF Untouched
<1>7. Underway'
  BY <1>1, <1>2, <1>4, <1>6 DEF Underway, Untouched, Trying
<1>8. Heard' /\ Told'
  BY <1>1, <1>2, <1>6 DEF Heard, Told
<1>9. QED
  BY <1>5, <1>7, <1>8 DEF ClientInv

LEMMA ClientAttempts ==
    ASSUME ClientInv, Attempt
    PROVE  ClientInv'
<1>1. /\ \E w : sending' \in [order : Orders, at : CallStages, attempt : Nat, wait : {w}]
      /\ sending'.order = sending.order /\ sending'.at = "read" /\ sending'.attempt = sending.attempt
      /\ sending.at = "send" /\ UNCHANGED <<client, buffer, context, payload, result>>
  BY ClientMoves DEF ClientInv, Attempt, Working, CallStages
<1>2. /\ client.count >= 0 /\ sending.attempt <= client.count /\ payload = Given(sending.order)
      /\ Len(answers) = sending.attempt /\ result = "none" /\ answers \in Seq(Answers) /\ seen \in Seq(Payloads)
  BY <1>1 DEF ClientInv, ClientShapes, Underway, Trying
<1>3. Sent = Given(sending.order) /\ Given(sending.order) \in Payloads
  <2>1. Given(sending.order) \in {"given", "none", "encoded", "unencodable"}
    BY OrdersAssumption DEF ClientInv, ClientShapes, Given
  <2>2. Given(sending.order) # "buffer"
    BY <2>1
  <2>3. QED
    BY <1>2, <2>1, <2>2 DEF Sent, Payloads
<1>4. PICK answer \in Answers :
          /\ answers' = Append(answers, answer)
          /\ (answer.status = "none") = (answer.body = "none")
          /\ \/ seen' = seen /\ answer.status = "none"
             \/ seen' = Append(seen, Given(sending.order))
  <2>1. NoAnswer \in Answers /\ NoAnswer.status = "none" /\ NoAnswer.body = "none"
    BY DEF NoAnswer, Answers
  <2>2. CASE answers' = Append(answers, NoAnswer)
    BY <1>3, <2>1, <2>2 DEF Attempt
  <2>3. CASE ~(answers' = Append(answers, NoAnswer))
    <3>1. PICK s \in {"success", "refusal", "many", "failure"}, b \in {"fits", "unread"} :
              answers' = Append(answers, [status |-> s, body |-> b]) /\ seen' = Append(seen, Sent)
      BY <2>3 DEF Attempt
    <3>2. [status |-> s, body |-> b] \in Answers
      BY DEF Answers
    <3>3. QED
      BY <1>3, <3>1, <3>2
  <2>4. QED
    BY <2>2, <2>3
<1>5. /\ answers' \in Seq(Answers) /\ Len(answers') = Len(answers) + 1
      /\ answers'[Len(answers) + 1] = answer
      /\ \A n \in 1..Len(answers) : answers'[n] = answers[n]
  BY <1>2, <1>4
<1>6. /\ seen' \in Seq(Payloads) /\ Len(seen') <= Len(answers') /\ (seen # << >> => seen' # << >>)
      /\ \A n \in 1..Len(seen') : seen'[n] = Given(sending.order)
      /\ answer.status # "none" => seen' # << >>
  <2>1. Len(seen) <= Len(answers) /\ \A n \in 1..Len(seen) : seen[n] = Given(sending.order)
    BY DEF ClientInv, Heard
  <2>2. CASE seen' = seen /\ answer.status = "none"
    BY <1>2, <1>5, <2>1, <2>2
  <2>3. CASE seen' = Append(seen, Given(sending.order))
    BY <1>2, <1>3, <1>5, <2>1, <2>3
  <2>4. QED
    BY <1>4, <2>2, <2>3
<1>7. ClientShapes'
  BY <1>1, <1>5, <1>6 DEF ClientInv, ClientShapes
<1>8. Underway'
  BY <1>1, <1>2, <1>5 DEF Underway, Trying
<1>9. Heard'
  <2>1. ASSUME NEW n \in 1..Len(answers')
        PROVE  /\ (answers'[n].status = "none") = (answers'[n].body = "none")
               /\ answers'[n].status # "none" => seen' # << >>
               /\ n < Len(answers') => Passed(sending.order, answers'[n])
    <3>1. CASE n \in 1..Len(answers)
      BY <1>1, <1>5, <1>6, <3>1 DEF ClientInv, Heard
    <3>2. CASE n = Len(answers) + 1
      BY <1>2, <1>4, <1>5, <1>6, <3>2
    <3>3. QED
      BY <1>2, <1>5, <2>1, <3>1, <3>2
  <2>2. QED
    BY <1>1, <1>6, <2>1 DEF Heard
<1>10. QED
  BY <1>1, <1>2, <1>7, <1>8, <1>9 DEF ClientInv, Told

LEMMA ClientGoesOn ==
    ASSUME ClientInv, ReadAnswer \/ Decide \/ TimerFires \/ WaitIsCut
    PROVE  ClientInv'
<1>1. /\ sending.at \in {"read", "decide", "wait"}
      /\ UNCHANGED <<client, buffer, context, payload, seen, answers>>
  BY DEF ReadAnswer, Decide, TimerFires, WaitIsCut, Working
<1>2. /\ client.count >= 0 /\ sending.attempt <= client.count /\ payload = Given(sending.order)
      /\ Len(answers) = sending.attempt + 1 /\ result = "none" /\ client.count \in Int /\ sending.attempt \in Nat
  BY <1>1 DEF ClientInv, ClientShapes, Underway, Trying
<1>3. ASSUME ~Returns(Outcome(LastAnswer))
      PROVE  /\ \E w : sending' \in [order : Orders, at : CallStages, attempt : Nat, wait : {w}]
             /\ sending'.order = sending.order /\ result' = result
             /\ Passed(sending.order, answers[Len(answers)])
             /\ \/ sending'.at = "decide" /\ sending'.attempt = sending.attempt
                \/ sending'.at = "send" /\ sending'.attempt = sending.attempt + 1 /\ sending.attempt < client.count
                \/ sending'.at = "wait" /\ sending'.attempt = sending.attempt /\ sending.attempt < client.count
  <2>1. CASE ReadAnswer
    <3>1. /\ LastAnswer.body \in {"none", "fits"} /\ Repeatable(LastAnswer)
          /\ MovesTo("decide") /\ UNCHANGED result
      BY <1>3, <2>1 DEF ReadAnswer
    <3>2. Passed(sending.order, answers[Len(answers)])
      BY <3>1, ClientAsks DEF LastAnswer
    <3>3. "decide" \in CallStages /\ ClientShapes
      BY DEF CallStages, ClientInv
    <3>4. QED
      BY <3>1, <3>2, <3>3, ClientMoves
  <2>2. Passed(sending.order, answers[Len(answers)]) \/ sending.at = "read"
    BY <1>1, <1>2 DEF ClientInv, Heard
  <2>3. CASE Decide
    <3>1. sending.at = "decide" /\ sending.attempt < client.count /\ UNCHANGED result
      BY <1>3, <2>3 DEF Decide
    <3>2. \E wait : \/ sending' = Again([sending EXCEPT !.wait = wait])
                    \/ sending' = [sending EXCEPT !.at = "wait", !.wait = wait]
      BY <1>3, <2>3 DEF Decide
    <3>3. QED
      BY <2>2, <3>1, <3>2, ClientRepeats DEF ClientInv
  <2>4. CASE TimerFires
    <3>1. sending.at = "wait" /\ sending' = Again(sending) /\ UNCHANGED result /\ sending.attempt < client.count
      BY <2>4 DEF TimerFires, ClientInv, Underway
    <3>2. sending'.at # "wait"
      BY <3>1 DEF Again, ClientInv, ClientShapes
    <3>3. QED
      BY <2>2, <3>1, <3>2, ClientRepeats DEF ClientInv
  <2>5. QED
    BY <1>3, <2>1, <2>3, <2>4 DEF WaitIsCut
<1>4. CASE Returns(Outcome(LastAnswer))
  BY <1>1, <1>4, ClientReturns
<1>5. CASE ~Returns(Outcome(LastAnswer))
  <2>1. /\ \E w : sending' \in [order : Orders, at : CallStages, attempt : Nat, wait : {w}]
        /\ sending'.order = sending.order /\ result' = result
        /\ Passed(sending.order, answers[Len(answers)])
        /\ \/ sending'.at = "decide" /\ sending'.attempt = sending.attempt
           \/ sending'.at = "send" /\ sending'.attempt = sending.attempt + 1 /\ sending.attempt < client.count
           \/ sending'.at = "wait" /\ sending'.attempt = sending.attempt /\ sending.attempt < client.count
    BY <1>3, <1>5
  <2>2. ClientShapes'
    BY <1>1, <1>2, <2>1 DEF ClientInv, ClientShapes
  <2>3. Underway'
    BY <1>1, <1>2, <2>1 DEF Underway, Trying
  <2>4. Heard'
    <3>1. ASSUME NEW n \in 1..Len(answers)
          PROVE  /\ (answers[n].status = "none") = (answers[n].body = "none")
                 /\ answers[n].status # "none" => seen # << >>
                 /\ Passed(sending.order, answers[n])
      <4>1. CASE n = Len(answers)
        BY <2>1, <4>1 DEF ClientInv, Heard
      <4>2. CASE n < Len(answers)
        BY <4>2 DEF ClientInv, Heard
      <4>3. QED
        BY <1>2, <4>1, <4>2
    <3>2. QED
      BY <1>1, <2>1, <3>1 DEF ClientInv, Heard
  <2>5. QED
    BY <1>2, <2>1, <2>2, <2>3, <2>4 DEF ClientInv, Told
<1>6. QED
  BY <1>4, <1>5

LEMMA ClientStays ==
    ASSUME ClientInv, ContextEnds \/ ReuseBuffer \/ UNCHANGED clientVars
    PROVE  ClientInv'
<1>1. /\ UNCHANGED <<client, sending, payload, seen, answers, result>>
      /\ Untouched => UNCHANGED buffer
  BY DEF ContextEnds, ReuseBuffer, clientVars, Untouched
<1>2. ClientShapes' /\ Heard'
  BY <1>1 DEF ClientInv, ClientShapes, Heard
<1>3. Underway'
  BY <1>1 DEF ClientInv, Underway, Untouched
<1>4. Told'
  BY <1>1 DEF ClientInv, Told, LastAnswer
<1>5. QED
  BY <1>2, <1>3, <1>4 DEF ClientInv

\* Whatever the settings, the request, the losses and the moment at which the context
\* ends: the peer acts no more often than was configured and never after a final
\* answer, every attempt carries what the caller gave, and Do says what became of the
\* last attempt (client.go:76-150).
THEOREM CallsAreHonest == ClientSpec => [](RepeatsAreEarned /\ PayloadIsKept /\ ResultIsTrue)
<1>1. ClientInit => ClientInv
  <2> SUFFICES ASSUME ClientInit PROVE ClientInv
    OBVIOUS
  <2>1. client \in [base : STRING, count : Int, wait : Int, max : Int]
    BY SettingsAssumption DEF ClientInit
  <2>2. PICK order \in Orders : sending = [order |-> order, at |-> "new", attempt |-> 0, wait |-> 0]
    BY DEF ClientInit
  <2>3. sending \in [order : Orders, at : CallStages, attempt : Nat, wait : {0}]
    BY <2>2 DEF CallStages
  <2>4. /\ seen = << >> /\ answers = << >> /\ payload = "none" /\ buffer = "given" /\ result = "none"
        /\ sending.at = "new" /\ sending.attempt = 0
    BY <2>2 DEF ClientInit
  <2>5. ClientShapes
    BY <2>1, <2>3, <2>4 DEF ClientShapes
  <2>6. Underway /\ Heard /\ Told
    BY <2>4 DEF Underway, Untouched, Trying, Heard, Told
  <2>7. QED
    BY <2>5, <2>6 DEF ClientInv
<1>2. ClientInv /\ [ClientNext]_clientVars => ClientInv'
  BY ClientPrepares, ClientAttempts, ClientGoesOn, ClientStays DEF ClientNext
<1>3. ClientInv => RepeatsAreEarned /\ PayloadIsKept /\ ResultIsTrue
  <2> SUFFICES ASSUME ClientInv PROVE RepeatsAreEarned /\ PayloadIsKept /\ ResultIsTrue
    OBVIOUS
  <2>1. /\ Len(seen) <= Len(answers) /\ Len(seen) \in Nat /\ Len(answers) \in Nat
        /\ client.count \in Int /\ sending.attempt \in Nat
    BY DEF ClientInv, ClientShapes, Heard
  <2>2. seen # << >> => Len(answers) <= client.count + 1
    <3>1. CASE sending.at \in {"new", "call"}
      BY <3>1 DEF ClientInv, Underway, Untouched
    <3>2. CASE sending.at \in Trying
      BY <2>1, <3>2 DEF ClientInv, Underway
    <3>3. CASE sending.at = "done"
      <4>1. answers = << >> => seen = << >>
        BY <2>1 DEF ClientInv, ClientShapes
      <4>2. QED
        BY <3>3, <4>1 DEF ClientInv, Underway
    <3>4. QED
      BY <3>1, <3>2, <3>3 DEF ClientInv, ClientShapes, CallStages, Trying
  <2>3. ASSUME NEW n \in 1..(Len(answers) - 1)
        PROVE  /\ Outcome(answers[n]) # "ok" /\ answers[n].status # "refusal"
               /\ answers[n].body \in {"none", "fits"}
    <3>1. Passed(sending.order, answers[n])
      BY <2>1 DEF ClientInv, Heard
    <3>2. QED
      BY <3>1, ClientAsks DEF Passed, Outcome
  <2>4. RepeatsAreEarned
    BY <2>1, <2>2, <2>3 DEF RepeatsAreEarned
  <2>5. PayloadIsKept
    BY DEF PayloadIsKept, ClientInv, Heard, Given
  <2>6. ResultIsTrue
    BY ClientAsks DEF ResultIsTrue, ClientInv, Told
  <2>7. QED
    BY <2>4, <2>5, <2>6
<1>4. QED
  BY <1>1, <1>2, <1>3, PTL DEF ClientSpec
=============================================================================

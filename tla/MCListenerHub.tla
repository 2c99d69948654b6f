--------------------------- MODULE MCListenerHub ---------------------------
(* Generations at one or two addresses and clients that open a few           *)
(* connections; the spans of the requests; and the plan that a composition   *)
(* declares its components in, beside them: they share no state, so each     *)
(* behaviour is one of them.                                                 *)
EXTENDS ListenerHub, SpanPipeline, Plan, TLC

\* A component with a finalizer, and one that names an option twice.
MCOptions == {<<"finalizer">>, <<"start", "start">>}

Symmetry == Permutations(Addresses) \cup Permutations(Connections)

VARIABLE part
mcVars == <<part, vars, spanVars, planVars>>

MCInit == part \in {"hub", "spans", "plan"} /\ Init /\ SpanInit /\ PlanInit
MCNext ==
    \/ part = "hub" /\ Next /\ UNCHANGED <<part, spanVars, planVars>>
    \/ part = "spans" /\ SpanNext /\ UNCHANGED <<part, vars, planVars>>
    \/ part = "plan" /\ PlanNext /\ UNCHANGED <<part, vars, spanVars>>

MCSpec == MCInit /\ [][MCNext]_mcVars
=============================================================================

-------------------------------- MODULE Plan --------------------------------
(***************************************************************************)
(* The plan a composition declares its components in                       *)
(* (internal/kernel/app: plan.go, definition.go, binding.go, contracts.go) *)
(* and the kernel that installs and builds it. A definition names what it  *)
(* depends on by the bindings earlier calls returned; a builder resolves   *)
(* them through a view that only lives while it runs. Kernel takes such a  *)
(* plan as its constants; which plans can come about is the matter here.   *)
(***************************************************************************)
EXTENDS Naturals, Sequences, FiniteSets

CONSTANTS
    Plans,      \* plans a program may be composing
    Ids,        \* component ids
    Options,    \* lists of lifecycle options: "start", "ready", "finalizer", "nil"
    Policies,   \* reload policies of the components that are added
    MaxOutputs  \* bound: outputs of all plans

VARIABLES
    planFrozen,   \* Plan.state = planFrozen
    outputs,      \* Plan.outputs with Plan.tokens: [id, token]
    replaced,     \* Plan.replaced
    components,   \* Plan.components with Plan.configs
    bindings,     \* every Binding returned so far |-> the id it was returned for
    installed,    \* Kernel.components: the plan they come from
    builders,     \* what each component built so far has resolved
    refusal       \* the last call or build that failed

planVars == <<planFrozen, outputs, replaced, components, bindings, installed, builders, refusal>>

NoId == "nobody"
NoPlan == "no plan"

ASSUME DeclarationAssumption == NoPlan \notin Plans /\ MaxOutputs \in Nat

\* &bindingToken{}: the struct is empty, and the runtime gives every empty
\* allocation the same address.
NewToken == "zerobase"

ZeroBinding == [plan |-> NoPlan, index |-> 0, token |-> "nil"]
NoRefusal == [by |-> NoId, why |-> "none", inputs |-> {}]

Kinds == {"value"} \cup Policies

PlanTypeOK ==
    /\ planFrozen \in [Plans -> BOOLEAN]
    /\ \A p \in Plans : outputs[p] \in Seq([id : Ids, token : {NewToken}])
    /\ replaced \in [Plans -> SUBSET {NewToken}]
    /\ \A p \in Plans : \A i \in DOMAIN components[p] :
           LET c == components[p][i] IN c.id \in Ids /\ c.policy \in Policies \cup {"swap"} /\ c.closes \in BOOLEAN
    /\ \A b \in DOMAIN bindings : b.plan \in Plans /\ b.index \in 1..MaxOutputs /\ bindings[b] \in Ids
    /\ installed \in Plans \cup {NoPlan}
    /\ refusal.by \in Ids \cup {NoId}

PlanInit ==
    /\ planFrozen = [p \in Plans |-> FALSE]
    /\ outputs = [p \in Plans |-> <<>>]
    /\ replaced = [p \in Plans |-> {}]
    /\ components = [p \in Plans |-> <<>>]
    /\ bindings = << >>
    /\ installed = NoPlan
    /\ builders = <<>>
    /\ refusal = NoRefusal

-----------------------------------------------------------------------------
(* Declaring.                                                              *)

Taken(p) == {outputs[p][i].id : i \in DOMAIN outputs[p]} \cup {components[p][i].id : i \in DOMAIN components[p]}

\* newLifecycle: each option at most once.
WellFormed(options) ==
    \A i \in DOMAIN options : options[i] # "nil" /\ \A j \in DOMAIN options : options[i] = options[j] => i = j

Component(id, policy, options, inputs, target) ==
    [id |-> id, policy |-> policy, closes |-> \E i \in DOMAIN options : options[i] = "finalizer",
     inputs |-> inputs, target |-> target]

\* A replacement publishes no output of its own: it is built with its target.
Replacement(id, options, target) == Component(id, "swap", options, {}, target)

Registered(p, b) ==
    /\ b.token # "nil"
    /\ b.index \in DOMAIN outputs[p] /\ outputs[p][b.index].token = b.token

\* Faulty DependenciesHold: a binding of another plan passes.
DependenciesOfAnyPlan(p, inputs) == \A b \in inputs : Registered(p, b)

\* dependencies.validate.
DependenciesHold(p, inputs) == \A b \in inputs : b.plan = p /\ Registered(p, b)

Accepts(p, id, kind, inputs, options) ==
    /\ ~planFrozen[p] /\ id \notin Taken(p)
    /\ kind # "value" => WellFormed(options) /\ DependenciesHold(p, inputs)

\* A call that fails leaves everything as it was: only the failures that a
\* property looks at are recorded.
Refuse(id, why, inputs) ==
    /\ refusal' = [by |-> id, why |-> why, inputs |-> inputs]
    /\ UNCHANGED <<planFrozen, outputs, replaced, components, bindings, installed, builders>>

Add(p, id, kind, inputs, options) ==
    /\ Cardinality(DOMAIN bindings) < MaxOutputs
    /\ Accepts(p, id, kind, inputs, options)
    /\ outputs' = [outputs EXCEPT ![p] = Append(@, [id |-> id, token |-> NewToken])]
    /\ components' = IF kind = "value" THEN components
                     ELSE [components EXCEPT ![p] = Append(@, Component(id, kind, options, inputs, ZeroBinding))]
    /\ LET b == [plan |-> p, index |-> Len(outputs'[p]), token |-> NewToken]
       IN bindings' = [x \in DOMAIN bindings \cup {b} |-> IF x = b THEN id ELSE bindings[x]]
    /\ refusal' = NoRefusal
    /\ UNCHANGED <<planFrozen, replaced, installed, builders>>

Replaceable(p, id, options, target) ==
    /\ ~planFrozen[p] /\ id \notin Taken(p) /\ WellFormed(options)
    /\ target.plan = p /\ Registered(p, target)

Replace(p, id, options, target) ==
    /\ Replaceable(p, id, options, target) /\ target.token \notin replaced[p]
    /\ replaced' = [replaced EXCEPT ![p] = @ \cup {target.token}]
    /\ components' = [components EXCEPT ![p] = Append(@, Replacement(id, options, target))]
    /\ refusal' = NoRefusal
    /\ UNCHANGED <<planFrozen, outputs, bindings, installed, builders>>

ReplaceRefused(p, id, options, target) ==
    /\ Replaceable(p, id, options, target) /\ target.token \in replaced[p]
    /\ Refuse(id, "already replaced", {target})

Freeze(p) ==
    /\ ~planFrozen[p]
    /\ planFrozen' = [planFrozen EXCEPT ![p] = TRUE]
    /\ UNCHANGED <<outputs, replaced, components, bindings, installed, builders, refusal>>

-----------------------------------------------------------------------------
(* Installing and building.                                                *)

\* Kernel.Install: once, before the start.
Install(p) ==
    /\ planFrozen[p] /\ installed = NoPlan
    /\ installed' = p
    /\ UNCHANGED <<planFrozen, outputs, replaced, components, bindings, builders, refusal>>

NextComponent == components[installed][Len(builders) + 1]

\* Resolve, in the view of a component that runs.
Resolves(c, b) ==
    /\ b.plan = installed
    /\ \E declared \in c.inputs : declared.index = b.index /\ declared.token = b.token
    /\ b.index \in DOMAIN outputs[installed]

\* The kernel builds in plan order. A builder asks for what it declared (one
\* that asks for less sees less); a replacement is given its target.
BuildComponent ==
    /\ installed # NoPlan /\ refusal.why # "build"
    /\ Len(builders) < Len(components[installed])
    /\ \A b \in NextComponent.inputs : Resolves(NextComponent, b)
    /\ LET seen == NextComponent.inputs \cup ({NextComponent.target} \ {ZeroBinding})
       IN builders' = Append(builders, {<<b, outputs[installed][b.index].id>> : b \in seen})
    /\ refusal' = NoRefusal
    /\ UNCHANGED <<planFrozen, outputs, replaced, components, bindings, installed>>

\* Its code may also hold bindings that it did not declare.
BuilderFails(asked) ==
    /\ installed # NoPlan
    /\ Len(builders) < Len(components[installed])
    /\ ~Resolves(NextComponent, asked)
    /\ Refuse(NextComponent.id, "build", {asked})

PlanNext ==
    \/ \E p \in Plans, id \in Ids, options \in Options, target \in DOMAIN bindings :
           Replace(p, id, options, target) \/ ReplaceRefused(p, id, options, target)
    \/ \E p \in Plans, id \in Ids, kind \in Kinds, options \in Options, inputs \in SUBSET DOMAIN bindings :
           Add(p, id, kind, inputs, options)
    \/ \E p \in Plans : Freeze(p) \/ Install(p)
    \/ BuildComponent \/ \E asked \in DOMAIN bindings : BuilderFails(asked)

PlanSpec == PlanInit /\ [][PlanNext]_planVars

-----------------------------------------------------------------------------
(* Properties.                                                             *)

Position(id) == {i \in DOMAIN components[installed] : components[installed][i].id = id}

\* Whatever was declared, in whatever order and to whichever plan: a builder
\* that runs is given exactly the outputs its bindings were returned for, all
\* of them fixed values or of components that were built before it; and a
\* builder is refused an input only if it did not declare it, so what Add
\* accepted never fails for its inputs when the kernel builds it.
WiringIsSound ==
    /\ PlanTypeOK
    /\ \A i \in DOMAIN builders : \A seen \in builders[i] :
           /\ seen[2] = bindings[seen[1]]
           /\ \A at \in Position(seen[2]) : at < i
    /\ refusal.why = "build" => ~(refusal.inputs \subseteq NextComponent.inputs)
=============================================================================

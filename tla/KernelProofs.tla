---------------------------- MODULE KernelProofs ----------------------------
(***************************************************************************)
(* Theorems about Kernel for every plan, every set of users and every set  *)
(* of configurations.                                                      *)
(***************************************************************************)
EXTENDS KernelInvariant, FiniteSetTheorems, TLAPS

-----------------------------------------------------------------------------
(* What the updates of the operation record do, field by field.            *)

LEMMA VisitedOp ==
    ASSUME op \in OpRecords, NEW c, Visited(c)
    PROVE  /\ op' \in OpRecords
           /\ op'.kind = op.kind /\ op'.phase = op.phase /\ op'.changed = op.changed
           /\ op'.config = op.config /\ op'.role = op.role
           /\ op'.todo = op.todo \ {c}
BY DEF OpRecords, Visited

LEMMA EnterOp ==
    ASSUME op \in OpRecords, NEW phase \in Phases, NEW todo \in SUBSET Components,
           Enter(phase, todo)
    PROVE  /\ op' \in OpRecords
           /\ op'.kind = op.kind /\ op'.phase = phase /\ op'.changed = op.changed
           /\ op'.config = op.config /\ op'.todo = todo
BY DEF OpRecords, Enter

LEMMA EnterFinalizationOp ==
    ASSUME op \in OpRecords, NEW phase \in Phases, NEW role \in Roles,
           NEW todo \in SUBSET Components, EnterFinalization(phase, role, todo)
    PROVE  /\ op' \in OpRecords
           /\ op'.kind = op.kind /\ op'.phase = phase /\ op'.changed = op.changed
           /\ op'.role = role /\ op'.config = op.config /\ op'.todo = todo
BY DEF OpRecords, EnterFinalization

LEMMA NextDutyOp ==
    ASSUME op \in OpRecords, NEW c, NEW failed \in BOOLEAN, NextDuty(c, failed)
    PROVE  /\ op' \in OpRecords
           /\ op'.kind = op.kind /\ op'.phase = op.phase /\ op'.changed = op.changed
           /\ op'.config = op.config /\ op'.todo \subseteq op.todo
<1>1. CASE op.phase = "release" /\ op.role # "stopping"
  BY <1>1 DEF OpRecords, NextDuty, Roles
<1>2. CASE ~(op.phase = "release" /\ op.role # "stopping")
  BY <1>2 DEF OpRecords, NextDuty, Roles
<1>3. QED
  BY <1>1, <1>2

LEMMA FinishOp ==
    ASSUME op \in OpRecords, NEW result, NEW state, Finish(result, state)
    PROVE  /\ op' \in OpRecords
           /\ op'.kind = "none" /\ op'.phase = "idle" /\ op'.todo = {} /\ op'.changed = {}
           /\ outcome' = result /\ kernelState' = state
<1>1. op' = [op EXCEPT !.kind = "none", !.phase = "idle", !.todo = {},
                       !.changed = {}, !.role = "candidate", !.config = NoConfig,
                       !.failed = FALSE]
  BY DEF Finish
<1>2. op' \in OpRecords
  BY <1>1 DEF OpRecords, Phases, Roles
<1>3. QED
  BY <1>1, <1>2 DEF OpRecords, Finish

LEMMA BeginOp ==
    ASSUME op \in OpRecords, NEW config \in Configs, NEW C \in SUBSET Components,
           NEW kind \in {"start", "reload"},
           op' = [op EXCEPT !.kind = kind, !.phase = "prepare", !.todo = C,
                            !.changed = C, !.config = config, !.failed = FALSE]
    PROVE  /\ op' \in OpRecords
           /\ op'.kind = kind /\ op'.phase = "prepare" /\ op'.todo = C /\ op'.changed = C
           /\ op'.config = config
BY DEF OpRecords, Phases

\* The part of a configuration that a component reads.
LEMMA SectionDigest ==
    ASSUME op \in OpRecords, NEW c \in Components
    PROVE  op.config[c] \in Digests \cup {NoDigest}
<1>1. c \in Sections
  BY PlanAssumption DEF Components, Sections
<1>2. op.config \in Configs \cup {NoConfig}
  BY DEF OpRecords
<1>3. CASE op.config \in Configs
  BY <1>1, <1>3 DEF Configs
<1>4. CASE op.config = NoConfig
  BY <1>1, <1>4 DEF NoConfig
<1>5. QED
  BY <1>2, <1>3, <1>4

-----------------------------------------------------------------------------
(* Type correctness.                                                       *)

\* Which phases an operation goes through, and the kernel state it runs in.
KindOK ==
    /\ op.kind = "none" => op.phase = "idle"
    /\ op.kind = "start" =>
            /\ kernelState = "created"
            /\ op.phase \in {"prepare", "discard", "drain", "prepareStop", "undo", "stopPending"}
    /\ op.kind = "reload" =>
            /\ kernelState = "running"
            /\ op.phase \in {"prepare", "drain", "rollback", "discard", "commit", "resume", "retire"}
    /\ op.kind = "stop" =>
            /\ kernelState \in {"draining", "failed"}
            /\ op.phase \in {"terminalDrain", "prepareStop", "release"}

\* The generation that Build hands out exists: a component that still has to
\* be prepared has built fewer instances than the bound.
RoomToBuild ==
    /\ kernelState = "created" /\ op.kind = "none" =>
            \A c \in Components : nextGeneration[c] = 0
    /\ op.phase = "prepare" =>
            \A c \in op.todo : candidate[c] = None => nextGeneration[c] < MaxGeneration

\* A goroutine in acquire wants a component.
WantsComponent ==
    \A u \in Users : userState[u] # "running" => want[u] \in Components

TypeInv == TypeOK /\ KindOK /\ RoomToBuild /\ WantsComponent

LEMMA InitTypeInv == Init => TypeInv
BY PlanAssumption DEF Init, TypeInv, TypeOK, KindOK, RoomToBuild, WantsComponent,
    Components, Generations, None, LeaseStates, OwnershipStates, UserStates, KernelStates,
    Outcomes, OpRecords, Phases, Roles, NoConfig, NoDigest

LEMMA UserTypeInv ==
    ASSUME TypeInv, NEW u \in Users, UserStep(u)
    PROVE  TypeInv'
<1> USE DEF TypeInv, TypeOK, KindOK, RoomToBuild, WantsComponent, UserStates, leaseVars,
            ownerVars, slotVars, userVars, kernelVars
<1>1. ASSUME NEW c \in Components, Request(u, c) PROVE TypeInv'
  BY <1>1 DEF Request
<1>2. ASSUME NEW c \in Components, Release(u, c) PROVE TypeInv'
  BY <1>2 DEF Release, None
<1>3. CASE AcquireServing(u)
  <2>1. want[u] \in Components
    BY <1>3 DEF AcquireServing
  <2>2. QED
    BY <1>3, <2>1 DEF AcquireServing
<1>4. CASE AcquireWaits(u)
  BY <1>4 DEF AcquireWaits
<1>5. CASE AcquireRefused(u)
  BY <1>5 DEF AcquireRefused
<1>6. CASE AcquireCancelled(u)
  BY <1>6 DEF AcquireCancelled
<1>7. QED
  BY <1>1, <1>2, <1>3, <1>4, <1>5, <1>6 DEF UserStep

LEMMA BeginTypeInv ==
    ASSUME TypeInv,
           \/ \E config \in Configs : BeginStart(config) \/ BeginReload(config)
           \/ BeginStop
    PROVE  TypeInv'
<1> USE DEF TypeInv, leaseVars, ownerVars, slotVars, userVars, kernelVars
<1>1. ASSUME NEW config \in Configs, BeginStart(config) PROVE TypeInv'
  <2>1. /\ op' \in OpRecords /\ op'.kind = "start" /\ op'.phase = "prepare"
        /\ op'.todo = Components
    BY <1>1, BeginOp DEF BeginStart, TypeOK
  <2>2. KindOK'
    BY <1>1, <2>1 DEF BeginStart, KindOK
  <2>3. RoomToBuild'
    <3>1. \A c \in Components : nextGeneration'[c] = 0
      BY <1>1 DEF BeginStart, RoomToBuild
    <3>2. QED
      BY <2>1, <3>1, PlanAssumption DEF RoomToBuild
  <2>4. QED
    BY <1>1, <2>1, <2>2, <2>3 DEF BeginStart, TypeOK, WantsComponent
<1>2. ASSUME NEW config \in Configs, BeginReload(config) PROVE TypeInv'
  <2>1. \/ UNCHANGED op
        \/ /\ op' \in OpRecords /\ op'.kind = "reload" /\ op'.phase = "prepare"
           /\ op'.todo = Changed(config)
    <3>1. Changed(config) \in SUBSET Components
      BY DEF Changed
    <3>2. QED
      BY <1>2, <3>1, BeginOp DEF BeginReload, TypeOK
  <2>2. /\ kernelState = "running" /\ kernelState' = "running" /\ op.kind = "none"
        /\ \A c \in Components : nextGeneration'[c] < MaxGeneration
    BY <1>2 DEF BeginReload
  <2>3. KindOK' /\ RoomToBuild'
    BY <2>1, <2>2 DEF KindOK, RoomToBuild, Changed
  <2>4. QED
    BY <1>2, <2>1, <2>3 DEF BeginReload, TypeOK, WantsComponent, Outcomes
<1>3. CASE BeginStop
  <2>1. \/ UNCHANGED op
        \/ op' \in OpRecords /\ op'.kind = "stop" /\ op'.phase \in {"terminalDrain", "release"}
    <3>1. CASE op' = [op EXCEPT !.kind = "stop", !.phase = "terminalDrain",
                                !.todo = Components, !.changed = Components,
                                !.failed = FALSE]
      BY <3>1 DEF TypeOK, OpRecords, Phases
    <3>2. CASE op' = [op EXCEPT !.kind = "stop", !.phase = "release",
                                !.todo = Components, !.changed = Components,
                                !.role = "candidate", !.failed = FALSE]
      BY <3>2 DEF TypeOK, OpRecords, Phases, Roles
    <3>3. QED
      BY <1>3, <3>1, <3>2 DEF BeginStop
  <2>2. TypeOK'
    BY <1>3, <2>1 DEF BeginStop, StopPendingLeases, TypeOK, KernelStates, LeaseStates,
                      UserStates, Outcomes
  <2>3. KindOK' /\ RoomToBuild'
    BY <1>3, <2>1 DEF BeginStop, KindOK, RoomToBuild
  <2>4. WantsComponent'
    BY <1>3 DEF BeginStop, StopPendingLeases, WantsComponent, TypeOK, UserStates
  <2>5. QED
    BY <2>2, <2>3, <2>4
<1>4. QED
  BY <1>1, <1>2, <1>3

(* Steps that only move the operation on: to the next component of a loop, *)
(* to the next loop, or to its end.                                        *)

SameOperation ==
    /\ op' \in OpRecords /\ op'.kind = op.kind /\ op.kind # "none"
    /\ op'.phase = "prepare" => op.phase = "prepare" /\ op'.todo \subseteq op.todo

ControlStep ==
    /\ SameOperation
    /\ KindOK'
    /\ UNCHANGED <<leaseVars, ownerVars, slotVars, userVars, kernelVars>>

LEMMA ControlTypeInv ==
    ASSUME TypeInv, ControlStep
    PROVE  TypeInv'
BY DEF ControlStep, SameOperation, TypeInv, TypeOK, RoomToBuild, WantsComponent, leaseVars,
       ownerVars, slotVars, userVars, kernelVars

ControlOf(c) ==
    \/ CandidateReady(c) \/ PrepareFails(c) \/ DrainDone(c) \/ DrainTimeout(c)
    \/ TerminalDrainDone(c) \/ NothingToFinalize(c) \/ CachedFailure(c)

ControlActions ==
    \/ \E c \in Components : ControlOf(c)
    \/ Prepared \/ Drained \/ RolledBack \/ Resumed \/ TerminallyDrained \/ StopPrepared
    \/ UndoDone

LEMMA ControlActionsAreControlSteps ==
    ASSUME TypeInv, ControlActions
    PROVE  ControlStep
<1> USE DEF TypeInv, ControlStep, SameOperation, KindOK
<1>0. op \in OpRecords /\ op.changed \in SUBSET Components /\ kernelVars' = kernelVars
  BY DEF TypeOK, OpRecords, ControlActions, ControlOf, CandidateReady, PrepareFails, DrainDone,
         DrainTimeout, TerminalDrainDone, NothingToFinalize, CachedFailure, Prepared, Drained,
         RolledBack, Resumed, TerminallyDrained, StopPrepared, UndoDone
<1>1. ASSUME NEW c \in Components, CandidateReady(c) PROVE ControlStep
  BY <1>0, <1>1, VisitedOp DEF CandidateReady, kernelVars
<1>2. ASSUME NEW c \in Components, PrepareFails(c) PROVE ControlStep
  <2>1. CASE op.kind = "start"
    <3>1. op' = [op EXCEPT !.phase = "discard", !.role = "candidate",
                           !.todo = {c}, !.changed = {d \in Components : d < c}]
      BY <1>2, <2>1 DEF PrepareFails
    <3>2. op' \in OpRecords /\ op'.kind = op.kind /\ op'.phase = "discard"
      BY <1>0, <3>1 DEF OpRecords, Phases, Roles
    <3>3. QED
      BY <1>0, <1>2, <2>1, <3>2 DEF PrepareFails, kernelVars
  <2>2. CASE op.kind = "reload"
    <3>1. EnterFinalization("discard", "candidate", {d \in op.changed : d <= c})
      BY <1>2, <2>2 DEF PrepareFails
    <3>2. op' \in OpRecords /\ op'.kind = op.kind /\ op'.phase = "discard"
      BY <1>0, <3>1, EnterFinalizationOp DEF Phases, Roles
    <3>3. QED
      BY <1>0, <1>2, <2>2, <3>2 DEF PrepareFails, kernelVars
  <2>3. QED
    BY <1>2, <2>1, <2>2 DEF PrepareFails
<1>3. ASSUME NEW c \in Components, DrainDone(c) PROVE ControlStep
  BY <1>0, <1>3, VisitedOp DEF DrainDone, kernelVars
<1>4. ASSUME NEW c \in Components, DrainTimeout(c) PROVE ControlStep
  <2>1. \/ op.kind = "reload" /\ Enter("rollback", {d \in op.changed : c <= d})
        \/ op.kind = "start" /\ Enter("stopPending", {})
    BY <1>4 DEF DrainTimeout
  <2>2. /\ op' \in OpRecords /\ op'.kind = op.kind /\ op.kind # "none"
        /\ \/ op.kind = "reload" /\ op'.phase = "rollback"
           \/ op.kind = "start" /\ op'.phase = "stopPending"
    BY <1>0, <2>1, EnterOp DEF Phases
  <2>3. QED
    BY <1>0, <1>4, <2>2 DEF DrainTimeout, kernelVars
<1>5. ASSUME NEW c \in Components, TerminalDrainDone(c) PROVE ControlStep
  BY <1>0, <1>5, VisitedOp DEF TerminalDrainDone, kernelVars
<1>6. ASSUME NEW c \in Components, NothingToFinalize(c) PROVE ControlStep
  BY <1>0, <1>6, NextDutyOp DEF NothingToFinalize, Finalizing, kernelVars
<1>7. ASSUME NEW c \in Components, CachedFailure(c) PROVE ControlStep
  BY <1>0, <1>7, NextDutyOp DEF CachedFailure, Finalizing, kernelVars
<1>8. CASE Prepared
  BY <1>0, <1>8, EnterOp DEF Prepared, Phases, kernelVars
<1>9. CASE Drained
  <2>1. \/ op.kind = "reload" /\ Enter("commit", op.changed)
        \/ op.kind = "start" /\ Enter("prepareStop", op.changed)
    BY <1>9 DEF Drained
  <2>2. /\ op' \in OpRecords /\ op'.kind = op.kind /\ op.kind # "none"
        /\ \/ op.kind = "reload" /\ op'.phase = "commit"
           \/ op.kind = "start" /\ op'.phase = "prepareStop"
    BY <1>0, <2>1, EnterOp DEF Phases
  <2>3. QED
    BY <1>0, <1>9, <2>2 DEF Drained, kernelVars
<1>10. CASE RolledBack
  BY <1>0, <1>10, EnterFinalizationOp DEF RolledBack, Phases, Roles, kernelVars, OpRecords
<1>11. CASE Resumed
  BY <1>0, <1>11, EnterFinalizationOp DEF Resumed, Phases, Roles, kernelVars, OpRecords
<1>12. CASE TerminallyDrained
  BY <1>0, <1>12, EnterOp DEF TerminallyDrained, Phases, kernelVars, OpRecords
<1>13. CASE StopPrepared
  <2>1. \/ op.kind = "stop" /\ EnterFinalization("release", "candidate", op.changed)
        \/ op.kind = "start" /\ EnterFinalization("undo", "stopping", op.changed)
    BY <1>13 DEF StopPrepared
  <2>2. /\ op' \in OpRecords /\ op'.kind = op.kind /\ op.kind # "none"
        /\ \/ op.kind = "stop" /\ op'.phase = "release"
           \/ op.kind = "start" /\ op'.phase = "undo"
    BY <1>0, <2>1, EnterFinalizationOp DEF Phases, Roles
  <2>3. QED
    BY <1>0, <1>13, <2>2 DEF StopPrepared, kernelVars
<1>14. CASE UndoDone
  BY <1>0, <1>14, EnterOp DEF UndoDone, Phases, kernelVars, OpRecords
<1>15. QED
  BY <1>1, <1>2, <1>3, <1>4, <1>5, <1>6, <1>7, <1>8, <1>9, <1>10, <1>11, <1>12, <1>13,
     <1>14 DEF ControlActions, ControlOf

(* Steps that end an operation.                                            *)

EndStep ==
    /\ op' \in OpRecords /\ op'.kind = "none" /\ op'.phase = "idle"
    /\ outcome' \in Outcomes
    /\ kernelState' \in KernelStates \ {"created"}
    /\ UNCHANGED <<ownerVars, slotVars>>

EndActions ==
    \/ RetireDone \/ ReleaseDone \/ StartDone \/ StartFailed
    \/ DiscardDone /\ op.kind = "reload"
    \/ \E c \in Components : TerminalDrainTimeout(c)

LEMMA EndActionsAreEndSteps ==
    ASSUME TypeInv, EndActions
    PROVE  EndStep
<1> USE DEF TypeInv, EndStep, KernelStates, Outcomes
<1>0. op \in OpRecords
  BY DEF TypeOK
<1>1. CASE RetireDone
  <2>1. op.kind = "reload"
    BY <1>1 DEF RetireDone, KindOK, OpRecords, TypeOK
  <2>2. kernelState = "running"
    BY <2>1 DEF KindOK
  <2>3. \E result \in {"cleanup-failed", "ok"} : Finish(result, kernelState)
    BY <1>1 DEF RetireDone
  <2>4. QED
    BY <1>0, <1>1, <2>2, <2>3, FinishOp DEF RetireDone
<1>2. CASE ReleaseDone
  BY <1>0, <1>2, FinishOp DEF ReleaseDone
<1>3. CASE StartDone
  BY <1>0, <1>3, FinishOp DEF StartDone
<1>4. CASE StartFailed
  BY <1>0, <1>4, FinishOp DEF StartFailed
<1>5. CASE DiscardDone /\ op.kind = "reload"
  <2>1. kernelState = "running" /\ Finish("rejected", kernelState)
    BY <1>5 DEF DiscardDone, KindOK
  <2>2. QED
    BY <1>0, <1>5, <2>1, FinishOp DEF DiscardDone
<1>6. ASSUME NEW c \in Components, TerminalDrainTimeout(c) PROVE EndStep
  <2>1. op.kind = "stop"
    BY <1>6 DEF TerminalDrainTimeout, KindOK, OpRecords, TypeOK
  <2>2. kernelState \in {"draining", "failed"} /\ Finish("drain-incomplete", kernelState)
    BY <1>6, <2>1 DEF TerminalDrainTimeout, KindOK
  <2>3. QED
    BY <1>0, <1>6, <2>2, FinishOp DEF TerminalDrainTimeout
<1>7. QED
  BY <1>1, <1>2, <1>3, <1>4, <1>5, <1>6 DEF EndActions

LEMMA EndTypeInv ==
    ASSUME TypeInv, EndActions
    PROVE  TypeInv'
<1> USE DEF TypeInv
<1>1. EndStep
  BY EndActionsAreEndSteps
<1>2. KindOK' /\ RoomToBuild'
  BY <1>1 DEF EndStep, KindOK, RoomToBuild
<1>3. CASE StartFailed
  <2>1. /\ leaseState' \in [Components -> LeaseStates]
        /\ userState' \in [Users -> UserStates]
        /\ UNCHANGED <<current, activeUses, drainDone, terminalDrain, want, held, snapshot>>
    BY <1>3 DEF StartFailed, StopPendingLeases, TypeOK, LeaseStates, UserStates
  <2>2. WantsComponent'
    BY <1>3 DEF StartFailed, StopPendingLeases, TypeOK, WantsComponent, UserStates
  <2>3. QED
    BY <1>1, <1>2, <2>1, <2>2 DEF EndStep, TypeOK, ownerVars, slotVars
<1>4. CASE ~StartFailed
  <2>1. UNCHANGED <<leaseVars, userVars>> /\ snapshot' \in Configs \cup {NoConfig}
    BY <1>4 DEF EndActions, RetireDone, ReleaseDone, StartDone, DiscardDone,
                TerminalDrainTimeout, TypeOK, OpRecords
  <2>2. QED
    BY <1>1, <1>2, <2>1 DEF EndStep, TypeOK, WantsComponent, leaseVars, userVars, ownerVars,
                            slotVars
<1>5. QED
  BY <1>3, <1>4

(* Steps that change leases, owners or slots.                              *)

\* What RoomToBuild needs of a step inside an operation.
LEMMA RoomToBuildStep ==
    ASSUME TypeInv, SameOperation, kernelState' = kernelState,
           \A c \in op.todo : candidate'[c] = None =>
                candidate[c] = None /\ nextGeneration'[c] = nextGeneration[c]
    PROVE  RoomToBuild'
BY DEF TypeInv, RoomToBuild, SameOperation

LEMMA SetSlotType ==
    ASSUME TypeOK, NEW c, NEW g, NEW state \in OwnershipStates, SetSlot(c, g, state)
    PROVE  slotState' \in [Components -> [Generations -> OwnershipStates]]
BY DEF SetSlot, TypeOK

LEMMA BuildTypeInv ==
    ASSUME TypeInv, NEW c \in Components, Build(c)
    PROVE  TypeInv'
<1> USE DEF TypeInv
<1>1. c \in op.todo /\ candidate[c] = None /\ op.phase = "prepare" /\ op' = op
  BY DEF Build, InOrder
<1>2. nextGeneration[c] + 1 \in Generations
  <2>1. nextGeneration[c] < MaxGeneration
    BY <1>1 DEF RoomToBuild
  <2>2. nextGeneration[c] \in 0..MaxGeneration
    BY PlanAssumption DEF TypeOK, Generations, None
  <2>3. QED
    BY <2>1, <2>2, PlanAssumption DEF Generations
<1>3. slotState' \in [Components -> [Generations -> OwnershipStates]]
  BY DEF Build, TypeOK, SetSlot, OwnershipStates
<1>4. slotDigest' \in [Components -> [Generations -> Digests \cup {NoDigest}]]
  BY SectionDigest DEF Build, TypeOK
<1>5. /\ candidate' \in [Components -> Generations \cup {None}]
      /\ nextGeneration' \in [Components -> Generations \cup {None}]
  BY <1>2 DEF Build, TypeOK
<1>6. TypeOK'
  BY <1>3, <1>4, <1>5 DEF Build, TypeOK, leaseVars, userVars, kernelVars
<1>7. KindOK' /\ SameOperation
  BY <1>1 DEF KindOK, SameOperation, Build, kernelVars, TypeOK
<1>8. RoomToBuild'
  <2>1. \A d \in op.todo : d \in Components
    BY DEF TypeOK, OpRecords
  <2>2. \A d \in op.todo : candidate'[d] = None =>
            candidate[d] = None /\ nextGeneration'[d] = nextGeneration[d]
    BY <1>2, <2>1, PlanAssumption DEF Build, TypeOK, None, Generations
  <2>3. QED
    BY <1>7, <2>2, RoomToBuildStep DEF Build, kernelVars
<1>9. QED
  BY <1>6, <1>7, <1>8 DEF Build, WantsComponent, userVars

LEMMA PublishInitialTypeInv ==
    ASSUME TypeInv, NEW c \in Components, PublishInitial(c)
    PROVE  TypeInv'
<1> USE DEF TypeInv
<1>1. /\ op' \in OpRecords /\ op'.kind = op.kind /\ op'.phase = op.phase
      /\ op'.todo = op.todo \ {c} /\ op.kind = "start"
  BY VisitedOp DEF PublishInitial, TypeOK
<1>2. /\ slotState' \in [Components -> [Generations -> OwnershipStates]]
      /\ leaseState' \in [Components -> LeaseStates]
      /\ userState' \in [Users -> UserStates]
  BY DEF PublishInitial, SetSlot, WakeWaiters, TypeOK, OwnershipStates, LeaseStates, UserStates
<1>3. currentDigest' \in [Components -> Digests \cup {NoDigest}]
  BY SectionDigest DEF PublishInitial, TypeOK
<1>4. /\ candidate' \in [Components -> Generations \cup {None}]
      /\ current' \in [Components -> Generations \cup {None}]
      /\ installed' \in [Components -> Generations \cup {None}]
  BY DEF PublishInitial, TypeOK
<1>5. TypeOK'
  BY <1>1, <1>2, <1>3, <1>4 DEF PublishInitial, TypeOK, kernelVars
<1>6. KindOK'
  BY <1>1 DEF KindOK, PublishInitial, kernelVars
<1>7. RoomToBuild'
  BY <1>1 DEF RoomToBuild, PublishInitial, TypeOK, OpRecords
<1>8. WantsComponent'
  BY DEF PublishInitial, WakeWaiters, WantsComponent, TypeOK, UserStates
<1>9. QED
  BY <1>5, <1>6, <1>7, <1>8

LEMMA LeaseStepTypeInv ==
    ASSUME TypeInv, NEW c \in Components,
           \/ DrainBegin(c) \/ TerminalDrainBegin(c) \/ Rollback(c) \/ Resume(c)
           \/ PrepareStop(c)
    PROVE  TypeInv'
<1> USE DEF TypeInv
<1>1. op' \in OpRecords /\ op'.kind = op.kind /\ op'.phase = op.phase
  BY VisitedOp DEF DrainBegin, TerminalDrainBegin, Rollback, Resume, PrepareStop, TypeOK
<1>2. kernelVars' = kernelVars /\ op.kind # "none" /\ op.phase # "prepare"
  BY DEF DrainBegin, TerminalDrainBegin, Rollback, Resume, PrepareStop, KindOK
<1>3. KindOK' /\ RoomToBuild'
  BY <1>1, <1>2 DEF KindOK, RoomToBuild, kernelVars
<1>4. TypeOK' /\ WantsComponent'
  <2>1. CASE DrainBegin(c) \/ TerminalDrainBegin(c)
    <3>1. PICK terminal \in BOOLEAN : StartDrain(c, terminal)
      BY <2>1 DEF DrainBegin, TerminalDrainBegin
    <3>2. /\ leaseState' \in [Components -> LeaseStates]
          /\ slotState' \in [Components -> [Generations -> OwnershipStates]]
          /\ terminalDrain' \in [Components -> BOOLEAN]
      BY <3>1 DEF StartDrain, SetSlot, TypeOK, LeaseStates, OwnershipStates
    <3>3. drainDone' \in [Components -> BOOLEAN]
      BY <3>1 DEF StartDrain, TypeOK
    <3>4. UNCHANGED <<current, activeUses, slotDigest, ownerVars, userVars>>
      BY <2>1 DEF DrainBegin, TerminalDrainBegin, StartDrain
    <3>5. QED
      BY <1>1, <1>2, <3>2, <3>3, <3>4 DEF TypeOK, WantsComponent, ownerVars, userVars, kernelVars
  <2>2. CASE Rollback(c) \/ Resume(c)
    <3>1. ResumeLease(c) /\ ownerVars' = ownerVars
      BY <2>2 DEF Rollback, Resume
    <3>2. /\ leaseState' \in [Components -> LeaseStates]
          /\ drainDone' \in [Components -> BOOLEAN]
          /\ slotState' \in [Components -> [Generations -> OwnershipStates]]
      BY <3>1 DEF ResumeLease, SetSlot, TypeOK, LeaseStates, OwnershipStates
    <3>3. userState' \in [Users -> UserStates] /\ WantsComponent'
      BY <3>1 DEF ResumeLease, WakeWaiters, TypeOK, UserStates, WantsComponent
    <3>4. UNCHANGED <<current, activeUses, terminalDrain, slotDigest, want, held>>
      BY <3>1 DEF ResumeLease
    <3>5. QED
      BY <1>1, <1>2, <3>1, <3>2, <3>3, <3>4 DEF TypeOK, ownerVars, kernelVars
  <2>3. CASE PrepareStop(c)
    BY <1>1, <1>2, <2>3 DEF PrepareStop, SetSlot, WakeWaiters, TypeOK, None,
        WantsComponent, LeaseStates, OwnershipStates, UserStates, kernelVars
  <2>4. QED
    BY <2>1, <2>2, <2>3
<1>5. QED
  BY <1>3, <1>4

LEMMA CommitTypeInv ==
    ASSUME TypeInv, (\E c \in Components : Commit(c)) \/ Committed
    PROVE  TypeInv'
<1> USE DEF TypeInv
<1>1. ASSUME NEW c \in Components, Commit(c) PROVE TypeInv'
  <2>1. op' \in OpRecords /\ op'.kind = op.kind /\ op'.phase = "commit" /\ op.phase = "commit"
    BY <1>1, VisitedOp DEF Commit, TypeOK
  <2>2. KindOK' /\ RoomToBuild'
    BY <1>1, <2>1 DEF Commit, KindOK, RoomToBuild, kernelVars
  <2>3. /\ slotState' \in [Components -> [Generations -> OwnershipStates]]
        /\ currentDigest' \in [Components -> Digests \cup {NoDigest}]
    BY <1>1, SectionDigest DEF Commit, TypeOK, OwnershipStates
  <2>4. /\ candidate' \in [Components -> Generations \cup {None}]
        /\ current' \in [Components -> Generations \cup {None}]
        /\ retired' \in [Components -> Generations \cup {None}]
        /\ installed' \in [Components -> Generations \cup {None}]
    BY <1>1 DEF Commit, TypeOK
  <2>5. QED
    BY <1>1, <2>1, <2>2, <2>3, <2>4 DEF Commit, TypeOK, WantsComponent, userVars, kernelVars
<1>2. CASE Committed
  <2>1. op' \in OpRecords /\ op'.kind = op.kind /\ op'.phase = "resume" /\ op.phase = "commit"
    BY <1>2, EnterOp DEF Committed, TypeOK, OpRecords, Phases
  <2>2. KindOK' /\ RoomToBuild'
    BY <1>2, <2>1 DEF Committed, KindOK, RoomToBuild
  <2>3. QED
    BY <1>2, <2>1, <2>2 DEF Committed, TypeOK, OpRecords, WantsComponent, leaseVars,
        ownerVars, slotVars, userVars
<1>3. QED
  BY <1>1, <1>2

LEMMA FinalizeTypeInv ==
    ASSUME TypeInv, NEW c \in Components,
           FinalizeWithoutCall(c) \/ FinalizerBegins(c) \/ FinalizerReturns(c)
    PROVE  TypeInv'
<1> USE DEF TypeInv
<1>1. op' \in OpRecords /\ op'.kind = op.kind /\ op'.phase = op.phase
  BY NextDutyOp DEF FinalizeWithoutCall, FinalizerBegins, FinalizerReturns, TypeOK
<1>2. kernelVars' = kernelVars /\ op.kind # "none" /\ op.phase # "prepare"
  BY DEF FinalizeWithoutCall, FinalizerBegins, FinalizerReturns, Finalizing, KindOK
<1>3. KindOK' /\ RoomToBuild'
  BY <1>1, <1>2 DEF KindOK, RoomToBuild, kernelVars
<1>4. slotState' \in [Components -> [Generations -> OwnershipStates]]
  <2>1. \E state \in OwnershipStates : SetSlot(c, Owner(op.role, c), state)
    BY DEF FinalizeWithoutCall, FinalizerBegins, FinalizerReturns, OwnershipStates
  <2>2. QED
    BY <2>1, SetSlotType
<1>5. /\ candidate' \in [Components -> Generations \cup {None}]
      /\ retired' \in [Components -> Generations \cup {None}]
      /\ stopping' \in [Components -> Generations \cup {None}]
      /\ installed' \in [Components -> Generations \cup {None}]
  BY DEF FinalizeWithoutCall, FinalizerBegins, FinalizerReturns, DropOwner, Deactivate, TypeOK
<1>6. UNCHANGED <<leaseVars, currentDigest, nextGeneration, slotDigest, userVars>>
  BY DEF FinalizeWithoutCall, FinalizerBegins, FinalizerReturns
<1>7. QED
  BY <1>1, <1>2, <1>3, <1>4, <1>5, <1>6 DEF TypeOK, WantsComponent, leaseVars, userVars,
      kernelVars

LEMMA DiscardOfStart ==
    ASSUME TypeInv, DiscardDone, op.kind = "start"
    PROVE  TypeInv'
<1>1. Enter("drain", op.changed) /\ op \in OpRecords /\ op.changed \in SUBSET Components
  BY DEF DiscardDone, Finish, TypeInv, TypeOK, OpRecords
<1>2. op' \in OpRecords /\ op'.kind = "start" /\ op'.phase = "drain"
  BY <1>1, EnterOp DEF Phases
<1>3. ControlStep
  BY <1>2 DEF ControlStep, SameOperation, TypeInv, KindOK, DiscardDone, kernelVars
<1>4. QED
  BY <1>3, ControlTypeInv

\* Every step keeps the types: no step of any operation leaves a variable
\* outside the values its field has in the code.
LEMMA NextTypeInv ==
    ASSUME TypeInv, [Next]_vars
    PROVE  TypeInv'
<1>1. CASE UNCHANGED vars
  BY <1>1 DEF TypeInv, TypeOK, KindOK, RoomToBuild, WantsComponent, vars, leaseVars,
      ownerVars, slotVars, userVars, kernelVars
<1>2. CASE KernelStep \/ Timeout
  <2>1. ASSUME ControlActions PROVE TypeInv'
    BY <2>1, ControlActionsAreControlSteps, ControlTypeInv
  <2>2. ASSUME NEW c \in Components, ControlOf(c) PROVE TypeInv'
    BY <2>1, <2>2 DEF ControlActions
  <2>3. ASSUME EndActions PROVE TypeInv'
    BY <2>3, EndTypeInv
  <2>4. ASSUME NEW c \in Components,
               \/ DrainBegin(c) \/ TerminalDrainBegin(c) \/ Rollback(c) \/ Resume(c)
               \/ PrepareStop(c)
        PROVE  TypeInv'
    BY <2>4, LeaseStepTypeInv
  <2>5. CASE Preparation
    <3>1. ASSUME NEW c \in Components,
                 Build(c) \/ PublishInitial(c) \/ CandidateReady(c) \/ PrepareFails(c)
          PROVE  TypeInv'
      BY <2>2, <3>1, BuildTypeInv, PublishInitialTypeInv DEF ControlOf
    <3>2. CASE StartDone
      BY <2>3, <3>2 DEF EndActions
    <3>3. CASE Prepared
      BY <2>1, <3>3 DEF ControlActions
    <3>4. QED
      BY <2>5, <3>1, <3>2, <3>3 DEF Preparation
  <2>6. CASE Draining
    <3>1. ASSUME NEW c \in Components, DrainBegin(c) \/ DrainDone(c) \/ Rollback(c)
          PROVE  TypeInv'
      BY <2>2, <2>4, <3>1 DEF ControlOf
    <3>2. CASE Drained \/ RolledBack
      BY <2>1, <3>2 DEF ControlActions
    <3>3. QED
      BY <2>6, <3>1, <3>2 DEF Draining
  <2>7. CASE Timeout
    <3>1. ASSUME NEW c \in Components, TerminalDrainTimeout(c) PROVE TypeInv'
      BY <2>3, <3>1 DEF EndActions
    <3>2. ASSUME NEW c \in Components, DrainTimeout(c) PROVE TypeInv'
      BY <2>2, <3>2 DEF ControlOf
    <3>3. QED
      BY <2>7, <3>1, <3>2 DEF Timeout
  <2>8. CASE Switching
    <3>1. ASSUME NEW c \in Components, Commit(c) \/ Resume(c) PROVE TypeInv'
      BY <2>4, <3>1, CommitTypeInv
    <3>2. CASE Committed
      BY <3>2, CommitTypeInv
    <3>3. CASE Resumed
      BY <2>1, <3>3 DEF ControlActions
    <3>4. QED
      BY <2>8, <3>1, <3>2, <3>3 DEF Switching
  <2>9. CASE Stopping
    <3>1. ASSUME NEW c \in Components,
                 TerminalDrainBegin(c) \/ TerminalDrainDone(c) \/ PrepareStop(c)
          PROVE  TypeInv'
      BY <2>2, <2>4, <3>1 DEF ControlOf
    <3>2. CASE TerminallyDrained \/ StopPrepared
      BY <2>1, <3>2 DEF ControlActions
    <3>3. QED
      BY <2>9, <3>1, <3>2 DEF Stopping
  <2>10. CASE Finalization
    <3>1. ASSUME NEW c \in Components, NothingToFinalize(c) \/ CachedFailure(c)
          PROVE  TypeInv'
      BY <2>2, <3>1 DEF ControlOf
    <3>2. ASSUME NEW c \in Components,
                 FinalizeWithoutCall(c) \/ FinalizerBegins(c) \/ FinalizerReturns(c)
          PROVE  TypeInv'
      BY <3>2, FinalizeTypeInv
    <3>3. CASE DiscardDone
      BY <2>3, <3>3, DiscardOfStart DEF EndActions, DiscardDone
    <3>4. CASE RetireDone \/ ReleaseDone \/ StartFailed
      BY <2>3, <3>4 DEF EndActions
    <3>5. CASE UndoDone
      BY <2>1, <3>5 DEF ControlActions
    <3>6. QED
      BY <2>10, <3>1, <3>2, <3>3, <3>4, <3>5 DEF Finalization
  <2>11. QED
    BY <1>2, <2>5, <2>6, <2>7, <2>8, <2>9, <2>10 DEF KernelStep
<1>3. CASE UserNext
  BY <1>3, UserTypeInv DEF UserNext
<1>4. CASE \/ \E config \in Configs : BeginStart(config) \/ BeginReload(config)
           \/ BeginStop
  BY <1>4, BeginTypeInv
<1>5. QED
  BY <1>1, <1>2, <1>3, <1>4 DEF Next

\* Type correctness of the kernel.
THEOREM TypeCorrect == Spec => []TypeOK
<1>1. Init => TypeInv
  BY InitTypeInv
<1>2. TypeInv /\ [Next]_vars => TypeInv'
  BY NextTypeInv
<1>3. TypeInv => TypeOK
  BY DEF TypeInv
<1>4. QED
  BY <1>1, <1>2, <1>3, PTL DEF Spec

-----------------------------------------------------------------------------
(* Safety: the inductive invariant of KernelInvariant.                     *)

Inv == TypeInv /\ SafetyInv

LEMMA HoldersFinite ==
    ASSUME NEW c
    PROVE  IsFiniteSet(Holders(c))
<1>1. Holders(c) \subseteq Users
  BY DEF Holders
<1>2. QED
  BY <1>1, UsersAssumption, FS_Subset

\* A lease whose count is zero has no callback inside.
LEMMA NobodyInside ==
    ASSUME UsesCounted, NEW c \in Components, activeUses[c] = 0, NEW u \in Users
    PROVE  held[u][c] = None
<1>1. Holders(c) = {}
  BY HoldersFinite, FS_EmptySet DEF UsesCounted
<1>2. QED
  BY <1>1 DEF Holders

LEMMA NoneIsBelow ==
    ASSUME TypeOK, NEW c \in Components
    PROVE  None <= nextGeneration[c]
<1>1. nextGeneration[c] \in Generations \cup {None}
  BY DEF TypeOK
<1>2. nextGeneration[c] \in Nat
  BY <1>1, PlanAssumption DEF Generations, None
<1>3. QED
  BY <1>2 DEF None

LEMMA InitSafety == Init => SafetyInv
<1> SUFFICES ASSUME Init PROVE SafetyInv
  OBVIOUS
<1>1. \A c \in Components : Holders(c) = {}
  <2>1. SUFFICES ASSUME NEW c \in Components, NEW u \in Users, held[u][c] # None PROVE FALSE
    BY DEF Holders
  <2>2. QED
    BY <2>1 DEF Init
<1>2. UseInv
  BY <1>1, FS_EmptySet DEF Init, UseInv, HeldIsCurrent, UsesCounted, WantsBelow
<1>3. QED
  BY <1>2 DEF Init, SafetyInv, LeaseInv, LeaseShape, OwnersDistinct, LoopInv, CandidateInv,
              OpenInv, None

-----------------------------------------------------------------------------
(* Goroutines in Use.                                                      *)

\* What a step of a goroutine leaves for the kernel: leases can only become
\* drained, and nothing else of theirs changes.
LEMMA UserFrame ==
    ASSUME Inv, op' = op, UNCHANGED <<ownerVars, slotVars, kernelVars>>,
           UNCHANGED <<leaseState, current, terminalDrain>>,
           \A c \in Components :
                /\ drainDone[c] => drainDone'[c] /\ activeUses'[c] = 0
                /\ drainDone'[c] => leaseState[c] = "draining" /\ activeUses'[c] = 0
    PROVE  LeaseInv' /\ LoopInv' /\ CandidateInv' /\ OpenInv'
<1> USE DEF Inv, TypeInv, TypeOK, SafetyInv, LeaseInv, ownerVars, slotVars, kernelVars
<1>1. op.todo \subseteq Components /\ op.changed \subseteq Components
  BY DEF OpRecords
<1>2. LeaseShape'
  BY DEF LeaseShape
<1>3. OwnersDistinct'
  BY DEF OwnersDistinct
<1>4. LoopInv'
  BY <1>1 DEF LoopInv
<1>5. CandidateInv' /\ OpenInv'
  BY <1>1 DEF CandidateInv, OpenInv
<1>6. QED
  BY <1>2, <1>3, <1>4, <1>5

LEMMA UserSafety ==
    ASSUME Inv, NEW u \in Users, UserStep(u)
    PROVE  SafetyInv'
<1> USE DEF Inv
<1>1. CASE AcquireServing(u)
  <2> DEFINE w == want[u]
  <2>1. w \in Components /\ w \notin Holding(u)
    BY <1>1 DEF AcquireServing, TypeInv, WantsComponent, SafetyInv, UseInv, WantsBelow,
                Holding, Components
  <2>2. current[w] # None /\ ~drainDone[w]
    BY <1>1, <2>1 DEF AcquireServing, SafetyInv, LeaseInv, LeaseShape
  <2>3. /\ held' = [held EXCEPT ![u] = [@ EXCEPT ![w] = current[w]]]
        /\ activeUses' = [activeUses EXCEPT ![w] = @ + 1]
        /\ userState' = [userState EXCEPT ![u] = "running"]
        /\ want' = [want EXCEPT ![u] = 0]
        /\ UNCHANGED <<leaseState, current, drainDone, terminalDrain, ownerVars, slotVars,
                       kernelVars, op>>
    BY <1>1 DEF AcquireServing
  <2>4. HeldIsCurrent'
    BY <2>1, <2>3 DEF SafetyInv, UseInv, HeldIsCurrent, TypeInv, TypeOK
  <2>5. UsesCounted'
    <3>1. SUFFICES ASSUME NEW c \in Components
                   PROVE  activeUses'[c] = Cardinality(Holders(c)')
      BY DEF UsesCounted
    <3>2. CASE c = w
      <4>1. Holders(c)' = Holders(c) \cup {u} /\ u \notin Holders(c)
        BY <2>1, <2>2, <2>3, <3>2 DEF Holders, Holding, TypeInv, TypeOK
      <4>2. Cardinality(Holders(c)') = Cardinality(Holders(c)) + 1
        BY <4>1, HoldersFinite, FS_AddElement
      <4>3. QED
        BY <2>1, <2>3, <3>2, <4>2 DEF SafetyInv, UseInv, UsesCounted, TypeInv, TypeOK
    <3>3. CASE c # w
      <4>1. Holders(c)' = Holders(c)
        BY <2>1, <2>3, <3>3 DEF Holders, TypeInv, TypeOK
      <4>2. QED
        BY <2>3, <3>3, <4>1 DEF SafetyInv, UseInv, UsesCounted, TypeInv, TypeOK
    <3>4. QED
      BY <3>2, <3>3
  <2>6. WantsBelow'
    BY <2>1, <2>3 DEF SafetyInv, UseInv, WantsBelow, Holding, TypeInv, TypeOK, UserStates
  <2>7. LeaseInv' /\ LoopInv' /\ CandidateInv' /\ OpenInv'
    <3>1. \A c \in Components :
            /\ drainDone[c] => drainDone'[c] /\ activeUses'[c] = 0
            /\ drainDone'[c] => leaseState[c] = "draining" /\ activeUses'[c] = 0
      BY <2>1, <2>2, <2>3 DEF SafetyInv, LeaseInv, LeaseShape, TypeInv, TypeOK
    <3>2. QED
      BY <2>3, <3>1, UserFrame
  <2>8. QED
    BY <2>4, <2>5, <2>6, <2>7 DEF SafetyInv, UseInv
<1>2. ASSUME NEW c \in Components, Release(u, c) PROVE SafetyInv'
  <2>1. /\ held' = [held EXCEPT ![u] = [@ EXCEPT ![c] = None]]
        /\ activeUses' = [activeUses EXCEPT ![c] = @ - 1]
        /\ drainDone' = [drainDone EXCEPT ![c] =
                            @ \/ (leaseState[c] = "draining" /\ activeUses[c] = 1)]
        /\ UNCHANGED <<leaseState, current, terminalDrain, ownerVars, slotVars, userState,
                       want, kernelVars, op>>
        /\ held[u][c] # None
    BY <1>2 DEF Release
  <2>2. HeldIsCurrent'
    BY <2>1 DEF SafetyInv, UseInv, HeldIsCurrent, TypeInv, TypeOK
  <2>3. UsesCounted'
    <3>1. SUFFICES ASSUME NEW d \in Components
                   PROVE  activeUses'[d] = Cardinality(Holders(d)')
      BY DEF UsesCounted
    <3>2. CASE d = c
      <4>1. Holders(d)' = Holders(d) \ {u} /\ u \in Holders(d)
        BY <2>1, <3>2 DEF Holders, TypeInv, TypeOK
      <4>2. Cardinality(Holders(d)') = Cardinality(Holders(d)) - 1
        BY <4>1, HoldersFinite, FS_RemoveElement
      <4>3. QED
        BY <2>1, <3>2, <4>2 DEF SafetyInv, UseInv, UsesCounted, TypeInv, TypeOK
    <3>3. CASE d # c
      <4>1. Holders(d)' = Holders(d)
        BY <2>1, <3>3 DEF Holders, TypeInv, TypeOK
      <4>2. QED
        BY <2>1, <3>3, <4>1 DEF SafetyInv, UseInv, UsesCounted, TypeInv, TypeOK
    <3>4. QED
      BY <3>2, <3>3
  <2>4. WantsBelow'
    BY <2>1 DEF SafetyInv, UseInv, WantsBelow, Holding, TypeInv, TypeOK
  <2>5. ~drainDone[c]
    BY <2>1, NobodyInside DEF SafetyInv, UseInv, LeaseInv, LeaseShape
  <2>6. LeaseInv' /\ LoopInv' /\ CandidateInv' /\ OpenInv'
    <3>1. \A d \in Components :
            /\ drainDone[d] => drainDone'[d] /\ activeUses'[d] = 0
            /\ drainDone'[d] => leaseState[d] = "draining" /\ activeUses'[d] = 0
      BY <2>1, <2>5 DEF SafetyInv, LeaseInv, LeaseShape, TypeInv, TypeOK
    <3>2. QED
      BY <2>1, <3>1, UserFrame
  <2>7. QED
    BY <2>2, <2>3, <2>4, <2>6 DEF SafetyInv, UseInv
<1>3. ASSUME UNCHANGED <<leaseVars, ownerVars, slotVars, held, kernelVars, op>>,
             WantsBelow'
      PROVE  SafetyInv'
  <2>1. HeldIsCurrent' /\ UsesCounted'
    BY <1>3 DEF SafetyInv, UseInv, HeldIsCurrent, UsesCounted, Holders, leaseVars
  <2>2. LeaseInv' /\ LoopInv' /\ CandidateInv' /\ OpenInv'
    BY <1>3, UserFrame DEF leaseVars, SafetyInv, LeaseInv, LeaseShape
  <2>3. QED
    BY <1>3, <2>1, <2>2 DEF SafetyInv, UseInv
<1>4. ASSUME NEW c \in Components, Request(u, c) PROVE SafetyInv'
  <2>1. WantsBelow'
    BY <1>4 DEF Request, SafetyInv, UseInv, WantsBelow, Holding, TypeInv, TypeOK
  <2>2. QED
    BY <1>3, <1>4, <2>1 DEF Request
<1>5. CASE AcquireWaits(u) \/ AcquireRefused(u) \/ AcquireCancelled(u)
  <2>1. WantsBelow'
    BY <1>5 DEF AcquireWaits, AcquireRefused, AcquireCancelled, SafetyInv, UseInv, WantsBelow,
                Holding, TypeInv, TypeOK
  <2>2. QED
    BY <1>3, <1>5, <2>1 DEF AcquireWaits, AcquireRefused, AcquireCancelled
<1>6. QED
  BY <1>1, <1>2, <1>4, <1>5 DEF UserStep

-----------------------------------------------------------------------------
(* Steps of an operation.                                                  *)

\* The callbacks inside a lease are safe as long as its instance changes only
\* when nobody is inside.
LEMMA UseFrame ==
    ASSUME Inv, UNCHANGED <<held, activeUses, want>>,
           \A u \in Users : userState'[u] # "running" => userState[u] # "running",
           \A c \in Components :
                current'[c] = current[c] \/ current[c] = None \/ activeUses[c] = 0
    PROVE  UseInv'
<1> USE DEF Inv, SafetyInv, UseInv
<1>1. HeldIsCurrent'
  BY NobodyInside DEF HeldIsCurrent
<1>2. UsesCounted'
  BY DEF UsesCounted, Holders
<1>3. WantsBelow'
  BY DEF WantsBelow, Holding
<1>4. QED
  BY <1>1, <1>2, <1>3

LEMMA WakeFrame ==
    ASSUME TypeOK, NEW c, WakeWaiters(c)
    PROVE  \A u \in Users : userState'[u] # "running" => userState[u] # "running"
BY DEF TypeOK, WakeWaiters

\* A step that moves the operation on and touches nothing else.
LEMMA ControlFrame ==
    ASSUME Inv, UNCHANGED <<leaseVars, ownerVars, slotVars, userVars, kernelVars>>
    PROVE  UseInv' /\ LeaseInv'
<1>1. UseInv'
  BY UseFrame DEF leaseVars, userVars
<1>2. LeaseInv'
  BY DEF Inv, SafetyInv, LeaseInv, LeaseShape, OwnersDistinct, leaseVars, ownerVars, slotVars
<1>3. QED
  BY <1>1, <1>2

LEMMA BeginSafety ==
    ASSUME Inv,
           \/ \E config \in Configs : BeginStart(config) \/ BeginReload(config)
           \/ BeginStop
    PROVE  SafetyInv'
<1> USE DEF Inv, SafetyInv, TypeInv
<1>1. ASSUME NEW config \in Configs, BeginStart(config) PROVE SafetyInv'
  <2>1. /\ op'.kind = "start" /\ op'.phase = "prepare" /\ op'.todo = Components
        /\ op'.changed = Components
    BY <1>1, BeginOp DEF BeginStart, TypeOK
  <2>2. /\ op.kind = "none" /\ kernelState = "created" /\ op.phase = "idle"
        /\ UNCHANGED <<leaseVars, ownerVars, slotVars, userVars, kernelVars>>
    BY <1>1 DEF BeginStart, KindOK
  <2>3. LoopInv' /\ CandidateInv' /\ OpenInv'
    BY <2>1, <2>2 DEF LoopInv, CandidateInv, OpenInv, leaseVars, kernelVars
  <2>4. QED
    BY <2>2, <2>3, ControlFrame
<1>2. ASSUME NEW config \in Configs, BeginReload(config) PROVE SafetyInv'
  <2>1. \/ UNCHANGED op
        \/ /\ op'.kind = "reload" /\ op'.phase = "prepare" /\ op'.todo = Changed(config)
           /\ op'.changed = Changed(config)
           /\ \A c \in Components : ~Unresolved(c)
    <3>1. Changed(config) \in SUBSET Components
      BY DEF Changed
    <3>2. QED
      BY <1>2, <3>1, BeginOp DEF BeginReload, TypeOK
  <2>2. /\ kernelState = "running" /\ kernelState' = "running" /\ op.kind = "none"
        /\ op.phase = "idle"
        /\ UNCHANGED <<leaseVars, ownerVars, slotVars, userVars>>
    BY <1>2 DEF BeginReload, KindOK
  <2>3. UseInv' /\ LeaseInv'
    <3>1. LeaseInv'
      BY <2>2 DEF LeaseInv, LeaseShape, OwnersDistinct, leaseVars, ownerVars, slotVars
    <3>2. QED
      BY <2>2, <3>1, UseFrame DEF leaseVars, userVars
  <2>4. LoopInv' /\ CandidateInv' /\ OpenInv'
    BY <2>1, <2>2 DEF LoopInv, CandidateInv, OpenInv, leaseVars, ownerVars, Unresolved, Changed
  <2>5. QED
    BY <2>3, <2>4
<1>3. CASE BeginStop
  <2>1. \/ UNCHANGED op
        \/ /\ op'.kind = "stop" /\ op'.todo = Components /\ op'.changed = Components
           /\ \/ op'.phase = "terminalDrain"
              \/ op'.phase = "release"
    BY <1>3 DEF BeginStop, TypeOK, OpRecords
  <2>2. kernelState' \in {"stopped", "draining", "failed"} /\ op.kind = "none" /\ op.phase = "idle"
    BY <1>3 DEF BeginStop, KindOK
  <2>3. /\ UNCHANGED <<current, activeUses, drainDone, terminalDrain, want, held, ownerVars,
                       slotVars>>
        /\ \A u \in Users : userState'[u] # "running" => userState[u] # "running"
    <3>1. StopPendingLeases \/ UNCHANGED <<leaseVars, userVars>>
      BY <1>3 DEF BeginStop
    <3>2. StopPendingLeases =>
            \A u \in Users : userState'[u] # "running" => userState[u] # "running"
      BY DEF StopPendingLeases, TypeOK
    <3>3. UNCHANGED <<current, activeUses, drainDone, terminalDrain, want, held>>
      BY <3>1 DEF StopPendingLeases, leaseVars, userVars
    <3>4. QED
      BY <1>3, <3>1, <3>2, <3>3 DEF BeginStop, userVars
  <2>4. \A c \in Components :
            \/ leaseState'[c] = leaseState[c]
            \/ leaseState[c] = "pending" /\ leaseState'[c] = "stopped"
    BY <1>3 DEF BeginStop, StopPendingLeases, leaseVars, TypeOK
  <2>5. UseInv'
    BY <2>3, UseFrame
  <2>6. LeaseInv'
    BY <2>3, <2>4 DEF LeaseInv, LeaseShape, OwnersDistinct, ownerVars, slotVars
  <2>7. LoopInv' /\ CandidateInv' /\ OpenInv'
    BY <2>1, <2>2 DEF LoopInv, CandidateInv, OpenInv
  <2>8. QED
    BY <2>5, <2>6, <2>7
<1>4. QED
  BY <1>1, <1>2, <1>3

\* The loops: what holds of the components left behind still holds, and the
\* one just visited joins them.
LEMMA ControlSafety ==
    ASSUME Inv, ControlActions
    PROVE  SafetyInv'
<1> USE DEF Inv, SafetyInv, TypeInv
<1>0. /\ op \in OpRecords /\ op.changed \in SUBSET Components /\ op.todo \in SUBSET Components
      /\ UNCHANGED <<leaseVars, ownerVars, slotVars, userVars, kernelVars>>
  BY DEF TypeOK, OpRecords, ControlActions, ControlOf, CandidateReady, PrepareFails, DrainDone,
         DrainTimeout, TerminalDrainDone, NothingToFinalize, CachedFailure, Prepared, Drained,
         RolledBack, Resumed, TerminallyDrained, StopPrepared, UndoDone
<1>1. UNCHANGED <<leaseState, drainDone, terminalDrain, activeUses, candidate, retired, kernelState>>
  BY <1>0 DEF leaseVars, ownerVars, kernelVars
<1>2. ASSUME LoopInv', CandidateInv', OpenInv' PROVE SafetyInv'
  BY <1>0, <1>2, ControlFrame
<1> USE <1>1 DEF LoopInv, CandidateInv, OpenInv
<1>3. ASSUME NEW c \in Components, CandidateReady(c) PROVE SafetyInv'
  <2>1. /\ op'.kind = op.kind /\ op'.phase = op.phase /\ op'.changed = op.changed
        /\ op'.todo = op.todo \ {c}
    BY <1>0, <1>3, VisitedOp DEF CandidateReady
  <2>2. QED
    BY <1>2, <1>3, <2>1 DEF CandidateReady
<1>4. ASSUME NEW c \in Components, PrepareFails(c) PROVE SafetyInv'
  <2>1. op'.phase = "discard" /\ op'.kind = op.kind
    <3>1. CASE op.kind = "start"
      BY <1>0, <1>4, <3>1 DEF PrepareFails, OpRecords
    <3>2. CASE op.kind = "reload"
      BY <1>0, <1>4, <3>2, EnterFinalizationOp DEF PrepareFails, Phases, Roles
    <3>3. QED
      BY <1>4, <3>1, <3>2 DEF PrepareFails
  <2>2. op.phase = "prepare" /\ op.kind \in {"start", "reload"}
    BY <1>4 DEF PrepareFails
  <2>3. QED
    BY <1>2, <2>1, <2>2
<1>5. ASSUME NEW c \in Components, DrainDone(c) \/ TerminalDrainDone(c) PROVE SafetyInv'
  <2>1. /\ op'.kind = op.kind /\ op'.phase = op.phase /\ op'.changed = op.changed
        /\ op'.todo = op.todo \ {c}
    BY <1>0, <1>5, VisitedOp DEF DrainDone, TerminalDrainDone
  <2>2. drainDone[c] /\ op.phase \in {"drain", "terminalDrain"}
    BY <1>5 DEF DrainDone, TerminalDrainDone
  <2>3. LoopInv' /\ CandidateInv' /\ OpenInv'
    BY <2>1, <2>2
  <2>4. QED
    BY <1>2, <2>3
<1>6. ASSUME NEW c \in Components, DrainTimeout(c) PROVE SafetyInv'
  <2>1. CASE op.kind = "reload"
    <3>1. /\ op'.kind = op.kind /\ op'.phase = "rollback" /\ op'.changed = op.changed
          /\ op'.todo = {d \in op.changed : c <= d}
      BY <1>0, <1>6, <2>1, EnterOp DEF DrainTimeout, Phases
    <3>2. \A d \in op.changed : c <= d => leaseState[d] = "draining"
      <4>1. SUFFICES ASSUME NEW d \in op.changed, c <= d, d # c
                     PROVE  leaseState[d] = "draining"
        BY <1>6 DEF DrainTimeout
      <4>2. d \notin op.todo
        BY <1>0, <1>6, <4>1 DEF DrainTimeout, InReverse, Components
      <4>3. drainDone[d]
        BY <1>6, <4>1, <4>2 DEF DrainTimeout
      <4>4. QED
        BY <1>0, <4>3 DEF LeaseInv, LeaseShape
    <3>3. QED
      BY <1>2, <1>6, <3>1, <3>2 DEF DrainTimeout, KindOK
  <2>2. CASE op.kind = "start"
    <3>1. /\ op'.kind = op.kind /\ op'.phase = "stopPending" /\ op'.todo = {}
      BY <1>0, <1>6, <2>2, EnterOp DEF DrainTimeout, Phases
    <3>2. QED
      BY <1>2, <2>2, <3>1
  <2>3. QED
    BY <1>6, <2>1, <2>2 DEF DrainTimeout
<1>7. ASSUME NEW c \in Components, NothingToFinalize(c) \/ CachedFailure(c) PROVE SafetyInv'
  <2>1. /\ op'.kind = op.kind /\ op'.phase = op.phase /\ op'.changed = op.changed
        /\ op'.todo \subseteq op.todo /\ Finalizing
    BY <1>0, <1>7, NextDutyOp DEF NothingToFinalize, CachedFailure
  <2>2. QED
    BY <1>2, <2>1 DEF Finalizing, KindOK
<1>8. CASE Prepared
  <2>1. /\ op'.kind = op.kind /\ op'.phase = "drain" /\ op'.changed = op.changed
        /\ op'.todo = op.changed
    BY <1>0, <1>8, EnterOp DEF Prepared, Phases
  <2>2. QED
    BY <1>2, <1>8, <2>1 DEF Prepared
<1>9. CASE Drained
  <2>1. \A c \in op.changed : drainDone[c] /\ leaseState[c] = "draining"
    BY <1>0, <1>9 DEF Drained, LeaseInv, LeaseShape
  <2>2. /\ op'.kind = op.kind /\ op'.changed = op.changed /\ op'.todo = op.changed
        /\ \/ op.kind = "reload" /\ op'.phase = "commit"
           \/ op.kind = "start" /\ op'.phase = "prepareStop"
    BY <1>0, <1>9, EnterOp DEF Drained, Phases
  <2>3. QED
    BY <1>2, <1>9, <2>1, <2>2 DEF Drained, KindOK
<1>10. CASE TerminallyDrained
  <2>1. /\ op'.kind = op.kind /\ op'.changed = op.changed /\ op'.todo = op.changed
        /\ op'.phase = "prepareStop"
    BY <1>0, <1>10, EnterOp DEF TerminallyDrained, Phases
  <2>2. QED
    BY <1>2, <1>10, <2>1 DEF TerminallyDrained, KindOK
<1>11. CASE RolledBack \/ Resumed \/ StopPrepared
  <2>1. /\ op'.kind = op.kind /\ op'.changed = op.changed /\ op'.todo = op.changed
        /\ op'.phase \in {"discard", "retire", "release", "undo"}
        /\ op.phase \in {"rollback", "resume", "prepareStop"}
        /\ op'.phase = "discard" => op.phase = "rollback"
    BY <1>0, <1>11, EnterFinalizationOp DEF RolledBack, Resumed, StopPrepared, Phases, Roles
  <2>2. op.phase = "rollback" => kernelState = "running"
    BY DEF KindOK, TypeOK, OpRecords
  <2>3. LoopInv' /\ CandidateInv' /\ OpenInv'
    BY <2>1, <2>2
  <2>4. QED
    BY <1>2, <2>3
<1>12. CASE UndoDone
  <2>1. op'.kind = op.kind /\ op'.phase = "stopPending" /\ op'.todo = {} /\ op.phase = "undo"
    BY <1>0, <1>12, EnterOp DEF UndoDone, Phases
  <2>2. QED
    BY <1>2, <2>1 DEF KindOK
<1>13. QED
  BY <1>3, <1>4, <1>5, <1>6, <1>7, <1>8, <1>9, <1>10, <1>11, <1>12
     DEF ControlActions, ControlOf

LEMMA EndSafety ==
    ASSUME Inv, EndActions \/ DiscardDone
    PROVE  SafetyInv'
<1> USE DEF Inv, SafetyInv, TypeInv
<1>0. op \in OpRecords /\ op.changed \in SUBSET Components
  BY DEF TypeOK, OpRecords
<1>1. CASE EndActions
  <2>1. EndStep
    BY <1>1, EndActionsAreEndSteps
  <2>2. op'.todo = {} /\ op'.changed = {}
    BY <1>0, <1>1, FinishOp
       DEF EndActions, RetireDone, ReleaseDone, StartDone, StartFailed, DiscardDone,
           TerminalDrainTimeout
  <2>3. /\ UNCHANGED <<current, activeUses, drainDone, terminalDrain, want, held>>
        /\ \A u \in Users : userState'[u] # "running" => userState[u] # "running"
        /\ \A c \in Components :
              \/ leaseState'[c] = leaseState[c]
              \/ leaseState[c] = "pending" /\ leaseState'[c] = "stopped"
    <3>1. CASE UNCHANGED <<leaseVars, userVars>>
      BY <3>1 DEF leaseVars, userVars
    <3>2. CASE StopPendingLeases
      BY <3>2 DEF StopPendingLeases, TypeOK
    <3>3. QED
      BY <1>1, <3>1, <3>2 DEF EndActions, RetireDone, ReleaseDone, StartDone, StartFailed,
          DiscardDone, TerminalDrainTimeout
  <2>4. UseInv'
    BY <2>3, UseFrame
  <2>5. LeaseInv'
    BY <2>1, <2>3 DEF EndStep, LeaseInv, LeaseShape, OwnersDistinct, ownerVars, slotVars
  <2>6. LoopInv' /\ CandidateInv'
    BY <2>1, <2>2 DEF EndStep, LoopInv, CandidateInv
  <2>7. OpenInv'
    <3>1. kernelState' = "running" => \A c \in Components : ~terminalDrain[c]
      <4>1. CASE StartDone
        BY <4>1 DEF StartDone, KindOK, OpenInv
      <4>2. CASE ReleaseDone \/ StartFailed
        BY <1>0, <4>2, FinishOp DEF ReleaseDone, StartFailed
      <4>3. CASE ~(StartDone \/ ReleaseDone \/ StartFailed)
        <5>1. kernelState' = kernelState
          BY <1>0, <1>1, <4>3, FinishOp
             DEF EndActions, RetireDone, DiscardDone, TerminalDrainTimeout
        <5>2. QED
          BY <5>1 DEF OpenInv
      <4>4. QED
        BY <4>1, <4>2, <4>3
    <3>2. QED
      BY <2>1, <2>3, <3>1 DEF EndStep, OpenInv
  <2>8. QED
    BY <2>4, <2>5, <2>6, <2>7
<1>2. CASE DiscardDone /\ op.kind = "start"
  <2>1. /\ Enter("drain", op.changed)
        /\ UNCHANGED <<leaseVars, ownerVars, slotVars, userVars, kernelVars>>
    BY <1>2 DEF DiscardDone, kernelVars
  <2>2. /\ op'.kind = "start" /\ op'.phase = "drain" /\ op'.todo = op.changed
        /\ op'.changed = op.changed
    BY <1>0, <1>2, <2>1, EnterOp DEF Phases
  <2>3. LoopInv' /\ CandidateInv' /\ OpenInv'
    BY <1>2, <2>1, <2>2 DEF DiscardDone, KindOK, LoopInv, CandidateInv, OpenInv, leaseVars,
                            kernelVars
  <2>4. QED
    BY <2>1, <2>3, ControlFrame
<1>3. QED
  BY <1>1, <1>2 DEF DiscardDone, EndActions

LEMMA BuildSafety ==
    ASSUME Inv, NEW c \in Components, Build(c)
    PROVE  SafetyInv'
<1> USE DEF Inv, SafetyInv, TypeInv
<1> DEFINE g == nextGeneration[c] + 1
<1>1. /\ nextGeneration' = [nextGeneration EXCEPT ![c] = g]
      /\ candidate' = [candidate EXCEPT ![c] = g]
      /\ slotState' = [slotState EXCEPT ![c] = [@ EXCEPT ![g] = "finalization-pending"]]
      /\ UNCHANGED <<leaseVars, retired, stopping, userVars, kernelVars, op>>
      /\ op.phase = "prepare" /\ c \in op.todo
  BY DEF Build, SetSlot, InOrder
<1>2. nextGeneration[c] \in Nat /\ current[c] # g /\ retired[c] # g /\ stopping[c] # g
  <2>1. nextGeneration[c] \in Nat
    BY PlanAssumption DEF TypeOK, Generations, None
  <2>2. current[c] <= nextGeneration[c] /\ retired[c] <= nextGeneration[c]
        /\ stopping[c] <= nextGeneration[c]
    BY DEF LeaseInv, OwnersDistinct
  <2>3. \A h \in Generations \cup {None} : h \in Int
    BY PlanAssumption DEF Generations, None
  <2>4. current[c] \in Int /\ retired[c] \in Int /\ stopping[c] \in Int
    BY <2>3 DEF TypeOK
  <2>5. QED
    BY <2>1, <2>2, <2>4
<1>3. UseInv'
  BY <1>1, UseFrame DEF leaseVars, userVars
<1>4. LeaseShape'
  BY <1>1, <1>2 DEF LeaseInv, LeaseShape, TypeOK, leaseVars
<1>5. OwnersDistinct'
  <2>1. SUFFICES ASSUME NEW d \in Components
                 PROVE  /\ candidate'[d] # None =>
                              candidate'[d] \notin {current'[d], retired'[d], stopping'[d]}
                        /\ current'[d] # None => current'[d] \notin {retired'[d], stopping'[d]}
                        /\ \A h \in {candidate'[d], current'[d], retired'[d], stopping'[d]} :
                                h <= nextGeneration'[d]
    BY DEF OwnersDistinct
  <2>2. current' = current /\ retired' = retired /\ stopping' = stopping
    BY <1>1 DEF leaseVars
  <2>3. CASE d = c
    <3>1. candidate'[d] = g /\ nextGeneration'[d] = g
      BY <1>1, <2>3 DEF TypeOK
    <3>2. \A h \in Generations \cup {None} : h \in Int
      BY PlanAssumption DEF Generations, None
    <3>3. current[d] \in Int /\ retired[d] \in Int /\ stopping[d] \in Int
      BY <3>2 DEF TypeOK
    <3>4. \A h \in {current[d], retired[d], stopping[d]} : h <= nextGeneration[d]
      BY DEF LeaseInv, OwnersDistinct
    <3>5. \A h \in {current[d], retired[d], stopping[d]} : h <= g
      BY <1>2, <2>3, <3>3, <3>4
    <3>6. QED
      BY <1>2, <2>2, <2>3, <3>1, <3>5 DEF LeaseInv, OwnersDistinct
  <2>4. CASE d # c
    BY <1>1, <2>2, <2>4 DEF LeaseInv, OwnersDistinct, TypeOK
  <2>5. QED
    BY <2>3, <2>4
<1>6. LoopInv' /\ OpenInv'
  BY <1>1 DEF LoopInv, OpenInv, leaseVars, kernelVars
<1>7. CandidateInv'
  <2>1. g # None
    BY <1>2 DEF None
  <2>2. op.changed \subseteq Components
    BY DEF TypeOK, OpRecords
  <2>3. QED
    BY <1>1, <2>1, <2>2 DEF CandidateInv, TypeOK
<1>8. QED
  BY <1>3, <1>4, <1>5, <1>6, <1>7 DEF LeaseInv

LEMMA PublishInitialSafety ==
    ASSUME Inv, NEW c \in Components, PublishInitial(c)
    PROVE  SafetyInv'
<1> USE DEF Inv, SafetyInv, TypeInv
<1>0. /\ op.kind = "start" /\ op.phase = "prepare" /\ c \in op.todo /\ candidate[c] # None
      /\ op'.kind = op.kind /\ op'.phase = op.phase /\ op'.changed = op.changed
      /\ op'.todo = op.todo \ {c}
  BY VisitedOp DEF PublishInitial, InOrder, TypeOK
<1>1. /\ current' = [current EXCEPT ![c] = candidate[c]]
      /\ candidate' = [candidate EXCEPT ![c] = None]
      /\ leaseState' = [leaseState EXCEPT ![c] = "serving"]
      /\ slotState' = [slotState EXCEPT ![c] = [@ EXCEPT ![candidate[c]] = "serving"]]
      /\ UNCHANGED <<activeUses, drainDone, terminalDrain, retired, stopping, nextGeneration,
                     want, held, kernelState>>
  BY DEF PublishInitial, SetSlot, kernelVars
<1>2. leaseState[c] = "pending" /\ current[c] = None /\ ~drainDone[c]
  BY <1>0 DEF LoopInv, LeaseInv, LeaseShape
<1>3. UseInv'
  <2>1. \A u \in Users : userState'[u] # "running" => userState[u] # "running"
    BY WakeFrame DEF PublishInitial
  <2>2. QED
    BY <1>1, <1>2, <2>1, UseFrame DEF TypeOK
<1>4. LeaseShape'
  BY <1>0, <1>1, <1>2 DEF LeaseInv, LeaseShape, TypeOK
<1>5. OwnersDistinct'
  BY <1>0, <1>1, <1>2 DEF LeaseInv, OwnersDistinct, TypeOK
<1>6. LoopInv' /\ CandidateInv' /\ OpenInv'
  BY <1>0, <1>1 DEF LoopInv, CandidateInv, OpenInv, TypeOK, OpRecords
<1>7. QED
  BY <1>3, <1>4, <1>5, <1>6 DEF LeaseInv

LEMMA StartDrainSafety ==
    ASSUME Inv, NEW c \in Components, DrainBegin(c) \/ TerminalDrainBegin(c)
    PROVE  SafetyInv'
<1> USE DEF Inv, SafetyInv, TypeInv
<1>1. PICK terminal \in BOOLEAN :
         /\ StartDrain(c, terminal)
         /\ terminal => op.phase = "terminalDrain"
  BY DEF DrainBegin, TerminalDrainBegin
<1>2. /\ op' = op /\ UNCHANGED <<ownerVars, userVars, kernelVars, current, activeUses>>
      /\ leaseState' = [leaseState EXCEPT ![c] = "draining"]
      /\ slotState' = [slotState EXCEPT ![c] = [@ EXCEPT ![current[c]] = "waiting-for-drain"]]
      /\ terminalDrain' = [terminalDrain EXCEPT ![c] = terminal]
      /\ leaseState[c] = "serving" /\ c \in op.todo /\ op.phase \in {"drain", "terminalDrain"}
  BY <1>1 DEF DrainBegin, TerminalDrainBegin, StartDrain, SetSlot, InReverse
<1>3. \A d \in Components :
         /\ d # c => drainDone'[d] = drainDone[d]
         /\ drainDone'[d] => drainDone[d] \/ (d = c /\ activeUses[d] = 0)
  BY <1>1 DEF StartDrain, TypeOK
<1>4. UseInv'
  BY <1>2, UseFrame DEF userVars
<1>5. LeaseShape'
  BY <1>2, <1>3 DEF LeaseInv, LeaseShape, TypeOK
<1>6. OwnersDistinct'
  BY <1>2 DEF LeaseInv, OwnersDistinct, ownerVars
<1>7. LoopInv'
  BY <1>2, <1>3 DEF LoopInv, TypeOK, OpRecords, kernelVars
<1>8. CandidateInv'
  BY <1>2 DEF CandidateInv, ownerVars
<1>9. OpenInv'
  <2>1. op.phase = "terminalDrain" => kernelState \in {"draining", "failed"}
    BY DEF KindOK, TypeOK, OpRecords
  <2>2. QED
    BY <1>1, <1>2, <2>1 DEF OpenInv, TypeOK, kernelVars
<1>10. QED
  BY <1>4, <1>5, <1>6, <1>7, <1>8, <1>9 DEF LeaseInv

LEMMA ResumeSafety ==
    ASSUME Inv, NEW c \in Components, Rollback(c) \/ Resume(c)
    PROVE  SafetyInv'
<1> USE DEF Inv, SafetyInv, TypeInv
<1>1. /\ op'.kind = op.kind /\ op'.phase = op.phase /\ op'.changed = op.changed
      /\ op'.todo = op.todo \ {c} /\ op.phase \in {"rollback", "resume"} /\ c \in op.todo
  BY VisitedOp DEF Rollback, Resume, InOrder, TypeOK
<1>2. /\ leaseState' = [leaseState EXCEPT ![c] = "serving"]
      /\ drainDone' = [drainDone EXCEPT ![c] = FALSE]
      /\ slotState' = [slotState EXCEPT ![c] = [@ EXCEPT ![current[c]] = "serving"]]
      /\ UNCHANGED <<current, activeUses, terminalDrain, want, held, ownerVars, kernelVars>>
  BY DEF Rollback, Resume, ResumeLease, SetSlot
<1>3. leaseState[c] = "draining"
  BY <1>1 DEF LoopInv
<1>4. UseInv'
  <2>1. \A u \in Users : userState'[u] # "running" => userState[u] # "running"
    BY WakeFrame DEF Rollback, Resume, ResumeLease
  <2>2. QED
    BY <1>2, <2>1, UseFrame
<1>5. LeaseShape'
  BY <1>2, <1>3 DEF LeaseInv, LeaseShape, TypeOK
<1>6. OwnersDistinct'
  BY <1>2 DEF LeaseInv, OwnersDistinct, ownerVars
<1>7. kernelState = "running"
  BY <1>1 DEF KindOK, TypeOK, OpRecords
<1>8. LoopInv' /\ CandidateInv' /\ OpenInv'
  BY <1>1, <1>2, <1>7 DEF LoopInv, CandidateInv, OpenInv, TypeOK, OpRecords, kernelVars
<1>9. QED
  BY <1>4, <1>5, <1>6, <1>8 DEF LeaseInv

LEMMA CommitSafety ==
    ASSUME Inv, NEW c \in Components, Commit(c)
    PROVE  SafetyInv'
<1> USE DEF Inv, SafetyInv, TypeInv
<1>1. /\ op'.kind = op.kind /\ op'.phase = op.phase /\ op'.changed = op.changed
      /\ op'.todo = op.todo \ {c} /\ op.phase = "commit" /\ c \in op.todo
  BY VisitedOp DEF Commit, InOrder, TypeOK
<1>2. /\ retired' = [retired EXCEPT ![c] = current[c]]
      /\ current' = [current EXCEPT ![c] = candidate[c]]
      /\ candidate' = [candidate EXCEPT ![c] = None]
      /\ slotState' = [slotState EXCEPT ![c] =
                          [@ EXCEPT ![current[c]] = "finalization-pending",
                                    ![candidate[c]] = "serving"]]
      /\ UNCHANGED <<leaseState, activeUses, drainDone, terminalDrain, stopping,
                     nextGeneration, userVars, kernelVars>>
  BY DEF Commit
<1>3. /\ drainDone[c] /\ leaseState[c] = "draining" /\ activeUses[c] = 0
      /\ candidate[c] # None /\ current[c] # None
  BY <1>1 DEF LoopInv, CandidateInv, LeaseInv, LeaseShape
<1>4. UseInv'
  BY <1>2, <1>3, UseFrame DEF TypeOK, userVars
<1>5. LeaseShape'
  BY <1>2, <1>3 DEF LeaseInv, LeaseShape, TypeOK
<1>6. OwnersDistinct'
  <2>1. None <= nextGeneration[c]
    BY NoneIsBelow
  <2>2. QED
    BY <1>2, <1>3, <2>1 DEF LeaseInv, OwnersDistinct, TypeOK
<1>7. kernelState = "running"
  BY <1>1 DEF KindOK, TypeOK, OpRecords
<1>8. LoopInv' /\ CandidateInv' /\ OpenInv'
  BY <1>1, <1>2, <1>7 DEF LoopInv, CandidateInv, OpenInv, TypeOK, OpRecords, kernelVars
<1>9. QED
  BY <1>4, <1>5, <1>6, <1>8 DEF LeaseInv

LEMMA CommittedSafety ==
    ASSUME Inv, Committed
    PROVE  SafetyInv'
<1> USE DEF Inv, SafetyInv, TypeInv
<1>1. /\ op'.kind = op.kind /\ op'.phase = "resume" /\ op'.changed = op.changed
      /\ op'.todo = op.changed /\ op.phase = "commit"
  BY EnterOp DEF Committed, TypeOK, OpRecords, Phases
<1>2. UNCHANGED <<leaseVars, ownerVars, slotVars, userVars, kernelState>>
  BY DEF Committed
<1>3. UseInv' /\ LeaseInv'
  <2>1. LeaseInv'
    BY <1>2 DEF LeaseInv, LeaseShape, OwnersDistinct, leaseVars, ownerVars, slotVars
  <2>2. QED
    BY <1>2, <2>1, UseFrame DEF leaseVars, userVars
<1>4. kernelState = "running"
  BY <1>1 DEF KindOK, TypeOK, OpRecords
<1>5. LoopInv' /\ CandidateInv' /\ OpenInv'
  BY <1>1, <1>2, <1>4 DEF LoopInv, CandidateInv, OpenInv, leaseVars
<1>6. QED
  BY <1>3, <1>5

LEMMA PrepareStopSafety ==
    ASSUME Inv, NEW c \in Components, PrepareStop(c)
    PROVE  SafetyInv'
<1> USE DEF Inv, SafetyInv, TypeInv
<1>1. /\ op'.kind = op.kind /\ op'.phase = op.phase /\ op'.changed = op.changed
      /\ op'.todo = op.todo \ {c} /\ op.phase = "prepareStop" /\ c \in op.todo
  BY VisitedOp DEF PrepareStop, InReverse, TypeOK
<1>2. /\ stopping' = [stopping EXCEPT ![c] = current[c]]
      /\ current' = [current EXCEPT ![c] = None]
      /\ leaseState' = [leaseState EXCEPT ![c] = "stopped"]
      /\ drainDone' = [drainDone EXCEPT ![c] = FALSE]
      /\ slotState' = [slotState EXCEPT ![c] =
                          [@ EXCEPT ![current[c]] = "finalization-pending"]]
      /\ UNCHANGED <<activeUses, candidate, retired, nextGeneration, want, held, kernelVars>>
  BY DEF PrepareStop, SetSlot
<1>3. drainDone[c] /\ activeUses[c] = 0 /\ current[c] # None
  BY <1>1 DEF LoopInv, LeaseInv, LeaseShape
<1>4. UseInv'
  <2>1. \A u \in Users : userState'[u] # "running" => userState[u] # "running"
    BY WakeFrame DEF PrepareStop
  <2>2. QED
    BY <1>2, <1>3, <2>1, UseFrame DEF TypeOK
<1>5. LeaseShape'
  BY <1>2, <1>3 DEF LeaseInv, LeaseShape, TypeOK, None
<1>6. OwnersDistinct'
  <2>1. None <= nextGeneration[c]
    BY NoneIsBelow
  <2>2. QED
    BY <1>2, <1>3, <2>1 DEF LeaseInv, OwnersDistinct, TypeOK
<1>7. LoopInv' /\ CandidateInv' /\ OpenInv'
  <2>1. ~(kernelState = "running")
    BY <1>1 DEF KindOK, TypeOK, OpRecords
  <2>2. QED
    BY <1>1, <1>2, <2>1 DEF LoopInv, CandidateInv, OpenInv, TypeOK, OpRecords, KindOK, kernelVars
<1>8. QED
  BY <1>4, <1>5, <1>6, <1>7 DEF LeaseInv

\* The slot being finalized is never the current one.
LEMMA FinalizeSafety ==
    ASSUME Inv, NEW c \in Components,
           FinalizeWithoutCall(c) \/ FinalizerBegins(c) \/ FinalizerReturns(c)
    PROVE  SafetyInv'
<1> USE DEF Inv, SafetyInv, TypeInv
<1> DEFINE g == Owner(op.role, c)
<1>1. /\ op'.kind = op.kind /\ op'.phase = op.phase /\ op'.changed = op.changed
      /\ op'.todo \subseteq op.todo /\ op.phase \in {"discard", "retire", "undo", "release"}
  BY NextDutyOp DEF FinalizeWithoutCall, FinalizerBegins, FinalizerReturns, Finalizing, TypeOK
<1>2. /\ \E state : slotState' = [slotState EXCEPT ![c] = [@ EXCEPT ![g] = state]]
      /\ UNCHANGED <<leaseVars, nextGeneration, userVars, kernelVars>>
      /\ g # None
  BY DEF FinalizeWithoutCall, FinalizerBegins, FinalizerReturns, SetSlot
<1>3. g # current[c]
  <2>1. op.role \in {"candidate", "retired", "stopping"}
    BY DEF TypeOK, OpRecords, Roles
  <2>2. g \in {candidate[c], retired[c], stopping[c]}
    BY <2>1 DEF Owner
  <2>3. QED
    BY <1>2, <2>2 DEF LeaseInv, OwnersDistinct
<1>4. \A d \in Components :
         /\ candidate'[d] \in {candidate[d], None}
         /\ retired'[d] \in {retired[d], None}
         /\ stopping'[d] \in {stopping[d], None}
  BY DEF FinalizeWithoutCall, FinalizerBegins, FinalizerReturns, DropOwner, TypeOK
<1>5. UseInv'
  BY <1>2, UseFrame DEF leaseVars, userVars
<1>6. LeaseShape'
  BY <1>2, <1>3 DEF LeaseInv, LeaseShape, TypeOK, leaseVars
<1>7. OwnersDistinct'
  <2>1. \A d \in Components : None <= nextGeneration[d]
    BY NoneIsBelow
  <2>2. QED
    BY <1>2, <1>4, <2>1 DEF LeaseInv, OwnersDistinct, leaseVars
<1>8. LoopInv' /\ CandidateInv' /\ OpenInv'
  BY <1>1, <1>2 DEF LoopInv, CandidateInv, OpenInv, KindOK, leaseVars, kernelVars
<1>9. QED
  BY <1>5, <1>6, <1>7, <1>8 DEF LeaseInv

-----------------------------------------------------------------------------

LEMMA NextSafety ==
    ASSUME Inv, [Next]_vars
    PROVE  SafetyInv'
<1>1. CASE UNCHANGED vars
  BY <1>1 DEF Inv, SafetyInv, UseInv, HeldIsCurrent, UsesCounted, Holders, WantsBelow, Holding,
      LeaseInv, LeaseShape, OwnersDistinct, LoopInv, CandidateInv, OpenInv, vars, leaseVars,
      ownerVars, slotVars, userVars, kernelVars
<1>2. CASE KernelStep \/ Timeout
  <2>1. ASSUME ControlActions PROVE SafetyInv'
    BY <2>1, ControlSafety
  <2>2. ASSUME NEW c \in Components, ControlOf(c) PROVE SafetyInv'
    BY <2>1, <2>2 DEF ControlActions
  <2>3. ASSUME EndActions \/ DiscardDone PROVE SafetyInv'
    BY <2>3, EndSafety
  <2>4. CASE Preparation
    <3>1. ASSUME NEW c \in Components,
                 Build(c) \/ PublishInitial(c) \/ CandidateReady(c) \/ PrepareFails(c)
          PROVE  SafetyInv'
      BY <2>2, <3>1, BuildSafety, PublishInitialSafety DEF ControlOf
    <3>2. CASE StartDone
      BY <2>3, <3>2 DEF EndActions
    <3>3. CASE Prepared
      BY <2>1, <3>3 DEF ControlActions
    <3>4. QED
      BY <2>4, <3>1, <3>2, <3>3 DEF Preparation
  <2>5. CASE Draining
    <3>1. ASSUME NEW c \in Components, DrainBegin(c) \/ DrainDone(c) \/ Rollback(c)
          PROVE  SafetyInv'
      BY <2>2, <3>1, StartDrainSafety, ResumeSafety DEF ControlOf
    <3>2. CASE Drained \/ RolledBack
      BY <2>1, <3>2 DEF ControlActions
    <3>3. QED
      BY <2>5, <3>1, <3>2 DEF Draining
  <2>6. CASE Timeout
    <3>1. ASSUME NEW c \in Components, TerminalDrainTimeout(c) PROVE SafetyInv'
      BY <2>3, <3>1 DEF EndActions
    <3>2. ASSUME NEW c \in Components, DrainTimeout(c) PROVE SafetyInv'
      BY <2>2, <3>2 DEF ControlOf
    <3>3. QED
      BY <2>6, <3>1, <3>2 DEF Timeout
  <2>7. CASE Switching
    <3>1. ASSUME NEW c \in Components, Commit(c) \/ Resume(c) PROVE SafetyInv'
      BY <3>1, CommitSafety, ResumeSafety
    <3>2. CASE Committed
      BY <3>2, CommittedSafety
    <3>3. CASE Resumed
      BY <2>1, <3>3 DEF ControlActions
    <3>4. QED
      BY <2>7, <3>1, <3>2, <3>3 DEF Switching
  <2>8. CASE Stopping
    <3>1. ASSUME NEW c \in Components,
                 TerminalDrainBegin(c) \/ TerminalDrainDone(c) \/ PrepareStop(c)
          PROVE  SafetyInv'
      BY <2>2, <3>1, StartDrainSafety, PrepareStopSafety DEF ControlOf
    <3>2. CASE TerminallyDrained \/ StopPrepared
      BY <2>1, <3>2 DEF ControlActions
    <3>3. QED
      BY <2>8, <3>1, <3>2 DEF Stopping
  <2>9. CASE Finalization
    <3>1. ASSUME NEW c \in Components, NothingToFinalize(c) \/ CachedFailure(c)
          PROVE  SafetyInv'
      BY <2>2, <3>1 DEF ControlOf
    <3>2. ASSUME NEW c \in Components,
                 FinalizeWithoutCall(c) \/ FinalizerBegins(c) \/ FinalizerReturns(c)
          PROVE  SafetyInv'
      BY <3>2, FinalizeSafety
    <3>3. CASE DiscardDone \/ RetireDone \/ ReleaseDone \/ StartFailed
      BY <2>3, <3>3 DEF EndActions
    <3>4. CASE UndoDone
      BY <2>1, <3>4 DEF ControlActions
    <3>5. QED
      BY <2>9, <3>1, <3>2, <3>3, <3>4 DEF Finalization
  <2>10. QED
    BY <1>2, <2>4, <2>5, <2>6, <2>7, <2>8, <2>9 DEF KernelStep
<1>3. CASE UserNext
  BY <1>3, UserSafety DEF UserNext
<1>4. CASE \/ \E config \in Configs : BeginStart(config) \/ BeginReload(config)
           \/ BeginStop
  BY <1>4, BeginSafety
<1>5. QED
  BY <1>1, <1>2, <1>3, <1>4 DEF Next

LEMMA InvHolds == Spec => []Inv
<1>1. Init => Inv
  BY InitTypeInv, InitSafety DEF Inv
<1>2. Inv /\ [Next]_vars => Inv'
  BY NextTypeInv, NextSafety DEF Inv
<1>3. QED
  BY <1>1, <1>2, PTL DEF Spec

\* The inductive invariant holds in every reachable state of every plan: the
\* lease counts of lease.go, the owner pointers of runtime.go and the loops of
\* kernel.go agree.
THEOREM SafetyInvariant == Spec => []SafetyInv
<1>1. Inv => SafetyInv
  BY DEF Inv
<1>2. QED
  BY <1>1, InvHolds, PTL

\* No callback runs on an instance that has been taken out for finalization.
THEOREM UseIsSafe == Spec => []NoUseAfterFinalization
<1>1. SafetyInv => NoUseAfterFinalization
  BY DEF SafetyInv, UseInv, HeldIsCurrent, LeaseInv, LeaseShape, NoUseAfterFinalization
<1>2. QED
  BY <1>1, SafetyInvariant, PTL

\* No panic of lease.go and runtime.go can fire.
THEOREM NoPanic == Spec => []PanicFree
<1>1. Inv => PanicFree
  <2> SUFFICES ASSUME Inv PROVE PanicFree
    OBVIOUS
  <2> USE DEF Inv, SafetyInv, TypeInv
  <2>1. \A c \in Components : activeUses[c] >= 0
    BY HoldersFinite, FS_CardinalityType DEF UseInv, UsesCounted
  <2>2. op.phase \in {"commit", "rollback", "resume"} =>
            kernelState = "running" /\ \A c \in Components : ~terminalDrain[c]
    BY DEF KindOK, TypeOK, OpRecords, OpenInv
  <2>3. op.todo \subseteq Components /\ op.changed \subseteq Components
    BY DEF TypeOK, OpRecords
  <2>4. op.phase = "commit" => op.todo \subseteq op.changed
    BY DEF LoopInv
  <2>5. op.phase = "prepareStop" =>
            \A c \in op.todo : leaseState[c] = "draining" /\ drainDone[c]
    BY <2>3 DEF LoopInv, LeaseInv, LeaseShape
  <2>6. QED
    BY <2>1, <2>2, <2>3, <2>4, <2>5 DEF PanicFree, LoopInv, CandidateInv
<1>2. QED
  BY <1>1, InvHolds, PTL

-----------------------------------------------------------------------------
(***************************************************************************)
(* Kernel implements UseGate: to its users a component is a gate that is   *)
(* switched only while nobody is inside and never to a closed instance.    *)
(***************************************************************************)

GateStep == [Gate!GateNext]_(Gate!gateVars)

-----------------------------------------------------------------------------
(* What the gate sees of the slots.                                        *)

Ended == {"finalizing", "finalized", "terminal-failed"}

LEMMA ClosedSame ==
    ASSUME \A c \in Components, g \in Generations :
                slotState'[c][g] \in Ended <=> slotState[c][g] \in Ended
    PROVE  Closed' = Closed
BY DEF Closed, Ended

LEMMA ClosedAdds ==
    ASSUME TypeOK, NEW c \in Components, NEW g \in Generations, NEW state \in Ended,
           SetSlot(c, g, state)
    PROVE  Closed' = [Closed EXCEPT ![c] = @ \cup {g}]
<1>1. \A d \in Components, h \in Generations :
        slotState'[d][h] = IF d = c /\ h = g THEN state ELSE slotState[d][h]
  BY DEF TypeOK, SetSlot
<1>2. \A d \in Components : Closed'[d] = IF d = c THEN Closed[d] \cup {g} ELSE Closed[d]
  BY <1>1 DEF Closed, Ended
<1>3. /\ Closed' = [d \in Components |-> Closed'[d]]
      /\ [Closed EXCEPT ![c] = @ \cup {g}] =
            [d \in Components |-> IF d = c THEN Closed[d] \cup {g} ELSE Closed[d]]
  BY DEF Closed
<1>4. QED
  BY <1>2, <1>3

\* Slots move between states of which the gate sees neither.
LEMMA ClosedKept ==
    ASSUME TypeOK, NEW c \in Components, NEW g \in Generations,
           NEW state \in OwnershipStates \ Ended, slotState[c][g] \notin Ended,
           SetSlot(c, g, state)
    PROVE  Closed' = Closed
<1>1. \A d \in Components, h \in Generations :
        slotState'[d][h] = IF d = c /\ h = g THEN state ELSE slotState[d][h]
  BY DEF TypeOK, SetSlot
<1>2. QED
  BY <1>1, ClosedSame

\* An instance that a lease holds is not closed.
LEMMA CurrentIsOpen ==
    ASSUME Inv, NEW c \in Components, current[c] # None
    PROVE  current[c] \in Generations /\ slotState[c][current[c]] \notin Ended
<1>1. current[c] \in Generations
  BY DEF Inv, TypeInv, TypeOK
<1>2. slotState[c][current[c]] \in {"serving", "waiting-for-drain"}
  BY DEF Inv, SafetyInv, LeaseInv, LeaseShape
<1>3. QED
  BY <1>1, <1>2 DEF Ended

LEMMA GateStutters ==
    ASSUME UNCHANGED <<current, held>>, Closed' = Closed
    PROVE  GateStep
BY DEF GateStep, Gate!gateVars

\* A step that touches neither the instances nor their slots.
LEMMA QuietStep ==
    ASSUME GateInv, UNCHANGED <<current, held, ownerVars, slotVars>>,
           MayPublish' => MayPublish \/ NoCandidates,
           kernelState' = "created" /\ op'.kind = "none" =>
                kernelState = "created" /\ op.kind = "none"
    PROVE  GateInv' /\ GateStep
<1>1. FreshInv'
  BY DEF GateInv, FreshInv, ownerVars, slotVars
<1>2. PendingInv'
  BY DEF GateInv, PendingInv, NoCandidates, ownerVars, slotVars
<1>3. Closed' = Closed
  BY DEF Closed, slotVars
<1>4. QED
  BY <1>1, <1>2, <1>3, GateStutters DEF GateInv

-----------------------------------------------------------------------------
(* Goroutines in Use, and the beginning and end of operations.             *)

LEMMA UserGate ==
    ASSUME Inv, GateInv, NEW u \in Users, UserStep(u)
    PROVE  GateInv' /\ GateStep
<1>1. UNCHANGED <<current, ownerVars, slotVars, kernelState, op>>
  BY DEF UserStep, Request, Release, AcquireServing, AcquireWaits, AcquireRefused,
         AcquireCancelled, leaseVars, kernelVars
<1>2. GateInv' /\ Closed' = Closed
  BY <1>1 DEF GateInv, FreshInv, PendingInv, MayPublish, NoCandidates, Closed, ownerVars, slotVars
<1>3. CASE AcquireServing(u)
  <2>1. want[u] \in Components /\ want[u] \notin Holding(u)
    BY <1>3 DEF AcquireServing, Inv, TypeInv, WantsComponent, SafetyInv, UseInv, WantsBelow,
                Holding, Components
  <2>2. held[u][want[u]] = None /\ current[want[u]] # None
    BY <1>3, <2>1 DEF AcquireServing, Holding, Inv, SafetyInv, LeaseInv, LeaseShape
  <2>3. Gate!Enter(u, want[u])
    BY <1>1, <1>2, <1>3, <2>2 DEF Gate!Enter, AcquireServing
  <2>4. QED
    BY <1>2, <2>1, <2>3 DEF GateStep, Gate!GateNext
<1>4. ASSUME NEW c \in Components, Release(u, c) PROVE GateStep
  <2>1. Gate!Leave(u, c)
    BY <1>1, <1>2, <1>4 DEF Gate!Leave, Release
  <2>2. QED
    BY <2>1 DEF GateStep, Gate!GateNext
<1>5. CASE held' = held
  BY <1>1, <1>2, <1>5, GateStutters
<1>6. QED
  BY <1>2, <1>3, <1>4, <1>5 DEF UserStep, Request, AcquireWaits, AcquireRefused,
     AcquireCancelled

LEMMA BeginGate ==
    ASSUME Inv, GateInv,
           \/ \E config \in Configs : BeginStart(config) \/ BeginReload(config)
           \/ BeginStop
    PROVE  GateInv' /\ GateStep
<1> USE DEF Inv, TypeInv
<1>1. UNCHANGED <<current, held, ownerVars, slotVars>>
  BY DEF BeginStart, BeginReload, BeginStop, StopPendingLeases, leaseVars, userVars
<1>2. ASSUME NEW config \in Configs, BeginStart(config) PROVE GateInv' /\ GateStep
  <2>1. op'.kind = "start" /\ NoCandidates
    BY <1>2, BeginOp DEF BeginStart, TypeOK, GateInv, PendingInv
  <2>2. QED
    BY <1>1, <2>1, QuietStep
<1>3. ASSUME NEW config \in Configs, BeginReload(config) PROVE GateInv' /\ GateStep
  <2>1. kernelState' = "running" /\ (op' = op \/ NoCandidates)
    BY <1>3 DEF BeginReload, Unresolved, NoCandidates
  <2>2. QED
    BY <1>1, <2>1, QuietStep DEF MayPublish
<1>4. CASE BeginStop
  <2>1. \/ op' = op
        \/ op'.kind = "stop" /\ op'.phase \in {"terminalDrain", "release"}
    <3>1. op \in OpRecords
      BY DEF TypeOK
    <3>2. QED
      BY <1>4, <3>1 DEF BeginStop, OpRecords
  <2>2. MayPublish' => MayPublish
    BY <2>1 DEF MayPublish
  <2>3. kernelState' = "created" => FALSE
    BY <1>4 DEF BeginStop, KindOK
  <2>4. QED
    BY <1>1, <2>2, <2>3, QuietStep
<1>5. QED
  BY <1>2, <1>3, <1>4

LEMMA ControlKeepsPublishing ==
    ASSUME TypeInv, ControlActions
    PROVE  MayPublish' => MayPublish
<1> USE DEF TypeInv
<1>0. op \in OpRecords
  BY DEF TypeOK
<1>1. ASSUME NEW c \in Components,
             CandidateReady(c) \/ DrainDone(c) \/ TerminalDrainDone(c)
      PROVE  op'.kind = op.kind /\ op'.phase = op.phase
  BY <1>0, <1>1, VisitedOp DEF CandidateReady, DrainDone, TerminalDrainDone
<1>2. ASSUME NEW c \in Components, NothingToFinalize(c) \/ CachedFailure(c)
      PROVE  op'.kind = op.kind /\ op'.phase = op.phase
  BY <1>0, <1>2, NextDutyOp DEF NothingToFinalize, CachedFailure
<1>3. ASSUME NEW c \in Components, PrepareFails(c) PROVE op'.phase = "discard"
  BY <1>0, <1>3 DEF PrepareFails, EnterFinalization, OpRecords
<1>4. ASSUME NEW c \in Components, DrainTimeout(c)
      PROVE  op'.phase \in {"rollback", "stopPending"}
  BY <1>0, <1>4 DEF DrainTimeout, Enter, OpRecords
<1>5. CASE Prepared
  BY <1>0, <1>5 DEF Prepared, MayPublish
<1>6. CASE Drained
  BY <1>0, <1>6 DEF Drained, Enter, OpRecords, MayPublish
<1>7. CASE RolledBack \/ Resumed \/ TerminallyDrained \/ StopPrepared \/ UndoDone
  BY <1>0, <1>7 DEF RolledBack, Resumed, TerminallyDrained, StopPrepared, UndoDone, Enter,
                    EnterFinalization, OpRecords, MayPublish
<1>8. QED
  BY <1>1, <1>2, <1>3, <1>4, <1>5, <1>6, <1>7 DEF ControlActions, ControlOf, MayPublish

LEMMA ControlGate ==
    ASSUME Inv, GateInv, ControlActions
    PROVE  GateInv' /\ GateStep
<1> USE DEF Inv, TypeInv
<1>1. /\ op'.kind # "none"
      /\ UNCHANGED <<current, held, ownerVars, slotVars>>
  BY ControlActionsAreControlSteps DEF ControlStep, SameOperation, leaseVars, userVars
<1>2. QED
  BY <1>1, ControlKeepsPublishing, QuietStep

LEMMA EndGate ==
    ASSUME Inv, GateInv, EndActions \/ DiscardDone
    PROVE  GateInv' /\ GateStep
<1> USE DEF Inv, TypeInv
<1>1. CASE EndActions
  <2>1. EndStep
    BY <1>1, EndActionsAreEndSteps
  <2>2. UNCHANGED <<current, held>>
    BY <1>1 DEF EndActions, RetireDone, ReleaseDone, StartDone, StartFailed, StopPendingLeases,
                DiscardDone, TerminalDrainTimeout, leaseVars, userVars
  <2>3. QED
    BY <2>1, <2>2, QuietStep DEF EndStep, MayPublish
<1>2. CASE DiscardDone /\ op.kind = "start"
  <2>1. Enter("drain", op.changed) /\ op \in OpRecords /\ op.changed \in SUBSET Components
    BY <1>2 DEF DiscardDone, TypeOK, OpRecords
  <2>2. op'.kind = "start" /\ op'.phase = "drain"
    BY <1>2, <2>1, EnterOp DEF Phases
  <2>3. UNCHANGED <<current, held, ownerVars, slotVars>>
    BY <1>2 DEF DiscardDone, leaseVars, userVars
  <2>4. QED
    BY <2>2, <2>3, QuietStep DEF MayPublish
<1>3. QED
  BY <1>1, <1>2 DEF DiscardDone, EndActions

-----------------------------------------------------------------------------
(* Steps that move instances and their slots.                              *)

LEMMA BuildGate ==
    ASSUME Inv, GateInv, NEW c \in Components, Build(c)
    PROVE  GateInv' /\ GateStep
<1> USE DEF Inv, TypeInv
<1> DEFINE g == nextGeneration[c] + 1
<1>1. /\ nextGeneration' = [nextGeneration EXCEPT ![c] = g]
      /\ candidate' = [candidate EXCEPT ![c] = g]
      /\ SetSlot(c, g, "finalization-pending")
      /\ UNCHANGED <<current, held, kernelState, op>>
      /\ op.phase = "prepare" /\ c \in op.todo /\ candidate[c] = None
  BY DEF Build, InOrder, leaseVars, userVars, kernelVars
<1>2. nextGeneration[c] \in Nat /\ g \in Generations
  <2>1. nextGeneration[c] < MaxGeneration
    BY <1>1 DEF RoomToBuild
  <2>2. QED
    BY <2>1, PlanAssumption DEF TypeOK, Generations, None
<1>3. slotState[c][g] = "unbuilt"
  BY <1>2 DEF GateInv, FreshInv
<1>4. \A d \in Components, h \in Generations :
        slotState'[d][h] = IF d = c /\ h = g THEN "finalization-pending" ELSE slotState[d][h]
  BY <1>1 DEF TypeOK, SetSlot
<1>5. FreshInv'
  <2>1. SUFFICES ASSUME NEW d \in Components, NEW h \in Generations, h > nextGeneration'[d]
                 PROVE  slotState'[d][h] = "unbuilt"
    BY DEF FreshInv
  <2>2. CASE d = c
    <3>1. h \in Int /\ h > g
      BY <1>1, <2>1, <2>2, PlanAssumption DEF TypeOK, Generations
    <3>2. QED
      BY <1>2, <1>4, <2>2, <3>1 DEF GateInv, FreshInv
  <2>3. CASE d # c
    BY <1>1, <1>4, <2>1, <2>3 DEF GateInv, FreshInv, TypeOK
  <2>4. QED
    BY <2>2, <2>3
<1>6. PendingInv'
  <2>1. op.kind # "none"
    BY <1>1 DEF KindOK
  <2>2. SUFFICES ASSUME NEW d \in Components, candidate'[d] # None
                 PROVE  slotState'[d][candidate'[d]] = "finalization-pending"
    BY <1>1, <2>1 DEF PendingInv
  <2>3. CASE d = c
    BY <1>1, <1>2, <1>4, <2>3 DEF TypeOK
  <2>4. CASE d # c
    <3>1. candidate'[d] = candidate[d] /\ candidate[d] \in Generations
      BY <1>1, <2>2, <2>4 DEF TypeOK
    <3>2. slotState[d][candidate[d]] = "finalization-pending"
      BY <1>1, <2>2, <3>1 DEF GateInv, PendingInv, MayPublish
    <3>3. QED
      BY <1>4, <2>4, <3>1, <3>2
  <2>5. QED
    BY <2>3, <2>4
<1>7. GateStep
  <2>1. Closed' = Closed
    BY <1>1, <1>2, <1>3, ClosedKept DEF Ended, OwnershipStates
  <2>2. QED
    BY <1>1, <2>1, GateStutters
<1>8. QED
  BY <1>5, <1>6, <1>7 DEF GateInv

\* Only slots that the component owns change, and these have been built.
LEMMA FreshFrame ==
    ASSUME Inv, GateInv, nextGeneration' = nextGeneration, NEW c \in Components,
           \A d \in Components, h \in Generations :
                d # c \/ h \notin {candidate[c], current[c], retired[c], stopping[c]}
                => slotState'[d][h] = slotState[d][h]
    PROVE  FreshInv'
<1>1. SUFFICES ASSUME NEW d \in Components, NEW h \in Generations, h > nextGeneration[d]
               PROVE  slotState'[d][h] = slotState[d][h]
  BY DEF GateInv, FreshInv
<1>2. h \in Int /\ nextGeneration[d] \in Int
  BY PlanAssumption DEF Inv, TypeInv, TypeOK, Generations, None
<1>3. h \notin {candidate[d], current[d], retired[d], stopping[d]}
  BY <1>1, <1>2 DEF Inv, SafetyInv, LeaseInv, OwnersDistinct
<1>4. QED
  BY <1>3

\* Opening an instance that has not been closed, while nobody is inside.
LEMMA GateSwitches ==
    ASSUME Inv, NEW c \in Components, NEW g \in Generations \cup {None},
           current' = [current EXCEPT ![c] = g], held' = held, Closed' = Closed,
           \A u \in Users : held[u][c] = None,
           g # None => slotState[c][g] \notin Ended
    PROVE  GateStep
<1>1. CASE g = None
  <2>1. g \notin Closed[c]
    BY <1>1, PlanAssumption DEF Closed, Generations, None
  <2>2. Gate!Switch(c, g)
    BY <2>1 DEF Gate!Switch, Gate!Empty
  <2>3. QED
    BY <1>1, <2>2 DEF GateStep, Gate!GateNext
<1>2. CASE g # None
  <2>1. g \in Generations /\ g \notin Closed[c]
    BY <1>2 DEF Closed, Ended
  <2>2. Gate!Switch(c, g)
    BY <2>1 DEF Gate!Switch, Gate!Empty
  <2>3. QED
    BY <2>1, <2>2 DEF GateStep, Gate!GateNext
<1>3. QED
  BY <1>1, <1>2

LEMMA PublishInitialGate ==
    ASSUME Inv, GateInv, NEW c \in Components, PublishInitial(c)
    PROVE  GateInv' /\ GateStep
<1> USE DEF Inv, TypeInv
<1> DEFINE g == candidate[c]
<1>0. /\ op.kind = "start" /\ op.phase = "prepare" /\ c \in op.todo /\ g # None
      /\ op'.kind = op.kind
  BY VisitedOp DEF PublishInitial, InOrder, TypeOK
<1>1. /\ current' = [current EXCEPT ![c] = g]
      /\ candidate' = [candidate EXCEPT ![c] = None]
      /\ SetSlot(c, g, "serving")
      /\ UNCHANGED <<nextGeneration, held>>
  BY DEF PublishInitial
<1>2. g \in Generations /\ slotState[c][g] = "finalization-pending"
  BY <1>0 DEF TypeOK, GateInv, PendingInv, MayPublish
<1>3. \A d \in Components, h \in Generations :
        slotState'[d][h] = IF d = c /\ h = g THEN "serving" ELSE slotState[d][h]
  BY <1>1 DEF TypeOK, SetSlot
<1>4. FreshInv'
  BY <1>1, <1>3, FreshFrame
<1>5. PendingInv'
  <2>1. SUFFICES ASSUME NEW d \in Components, candidate'[d] # None
                 PROVE  slotState'[d][candidate'[d]] = "finalization-pending"
    BY <1>0 DEF PendingInv
  <2>2. d # c /\ candidate'[d] = candidate[d] /\ candidate[d] \in Generations
    BY <1>1, <2>1 DEF TypeOK
  <2>3. slotState[d][candidate[d]] = "finalization-pending"
    BY <1>0, <2>1, <2>2 DEF GateInv, PendingInv, MayPublish
  <2>4. QED
    BY <1>3, <2>2, <2>3
<1>6. GateStep
  <2>1. leaseState[c] = "pending" /\ current[c] = None
    BY <1>0 DEF SafetyInv, LoopInv, LeaseInv, LeaseShape
  <2>2. \A u \in Users : held[u][c] = None
    BY <2>1 DEF SafetyInv, UseInv, HeldIsCurrent
  <2>3. Closed' = Closed
    BY <1>1, <1>2, ClosedKept DEF Ended, OwnershipStates
  <2>4. QED
    BY <1>1, <1>2, <2>2, <2>3, GateSwitches DEF Ended
<1>7. QED
  BY <1>4, <1>5, <1>6 DEF GateInv

\* Closing the entry of a lease, or opening it again, changes the slot of its
\* instance between states that the gate does not tell apart.
LEMMA LeaseGate ==
    ASSUME Inv, GateInv, NEW c \in Components,
           DrainBegin(c) \/ TerminalDrainBegin(c) \/ Rollback(c) \/ Resume(c)
    PROVE  GateInv' /\ GateStep
<1> USE DEF Inv, TypeInv
<1>1. /\ op'.kind = op.kind /\ op'.phase = op.phase /\ op.kind # "none"
      /\ c \in op.todo /\ op.phase \in {"drain", "terminalDrain", "rollback", "resume"}
  BY VisitedOp DEF DrainBegin, TerminalDrainBegin, Rollback, Resume, InOrder, InReverse, TypeOK,
     KindOK
<1>2. /\ UNCHANGED <<current, held, ownerVars>>
      /\ \E state \in {"serving", "waiting-for-drain"} : SetSlot(c, current[c], state)
  BY DEF DrainBegin, TerminalDrainBegin, Rollback, Resume, StartDrain, ResumeLease, userVars
<1>3. current[c] # None
  BY <1>1 DEF DrainBegin, TerminalDrainBegin, Rollback, Resume, SafetyInv, LoopInv, LeaseInv,
              LeaseShape
<1>4. current[c] \in Generations /\ slotState[c][current[c]] \notin Ended
  BY <1>3, CurrentIsOpen
<1>5. PICK state \in {"serving", "waiting-for-drain"} :
        \A d \in Components, h \in Generations :
            slotState'[d][h] = IF d = c /\ h = current[c] THEN state ELSE slotState[d][h]
  BY <1>2, <1>4 DEF TypeOK, SetSlot
<1>6. FreshInv'
  BY <1>2, <1>5, FreshFrame DEF ownerVars
<1>7. PendingInv'
  <2>1. SUFFICES ASSUME NEW d \in Components, candidate[d] # None, MayPublish
                 PROVE  slotState'[d][candidate[d]] = "finalization-pending"
    BY <1>1, <1>2 DEF PendingInv, MayPublish, ownerVars
  <2>2. candidate[d] \in Generations /\ candidate[d] # current[d]
    BY <2>1 DEF TypeOK, SafetyInv, LeaseInv, OwnersDistinct
  <2>3. QED
    BY <1>5, <2>1, <2>2 DEF GateInv, PendingInv
<1>8. GateStep
  <2>1. Closed' = Closed
    BY <1>4, <1>5, ClosedSame DEF Ended
  <2>2. QED
    BY <1>2, <2>1, GateStutters
<1>9. QED
  BY <1>6, <1>7, <1>8 DEF GateInv

LEMMA CommitGate ==
    ASSUME Inv, GateInv, NEW c \in Components, Commit(c)
    PROVE  GateInv' /\ GateStep
<1> USE DEF Inv, TypeInv
<1> DEFINE g == candidate[c]
<1>1. /\ op'.kind = op.kind /\ op'.phase = op.phase /\ op.phase = "commit" /\ c \in op.todo
      /\ op.kind # "none"
  BY VisitedOp DEF Commit, InOrder, TypeOK, KindOK
<1>2. /\ current' = [current EXCEPT ![c] = g]
      /\ candidate' = [candidate EXCEPT ![c] = None]
      /\ slotState' = [slotState EXCEPT ![c] =
                          [@ EXCEPT ![current[c]] = "finalization-pending", ![g] = "serving"]]
      /\ UNCHANGED <<nextGeneration, held>>
  BY DEF Commit, userVars
<1>3. /\ drainDone[c] /\ activeUses[c] = 0 /\ g # None /\ current[c] # None
      /\ g # current[c]
  BY <1>1 DEF SafetyInv, LoopInv, CandidateInv, LeaseInv, LeaseShape, OwnersDistinct
<1>4. g \in Generations /\ slotState[c][g] = "finalization-pending"
  BY <1>1, <1>3 DEF TypeOK, GateInv, PendingInv, MayPublish
<1>5. current[c] \in Generations /\ slotState[c][current[c]] \notin Ended
  BY <1>3, CurrentIsOpen
<1>6. \A d \in Components, h \in Generations :
        slotState'[d][h] = IF d = c /\ h = g THEN "serving"
                           ELSE IF d = c /\ h = current[c] THEN "finalization-pending"
                           ELSE slotState[d][h]
  BY <1>2 DEF TypeOK
<1>7. FreshInv'
  BY <1>2, <1>6, FreshFrame
<1>8. PendingInv'
  <2>1. SUFFICES ASSUME NEW d \in Components, candidate'[d] # None
                 PROVE  slotState'[d][candidate'[d]] = "finalization-pending"
    BY <1>1 DEF PendingInv
  <2>2. d # c /\ candidate'[d] = candidate[d] /\ candidate[d] \in Generations
    BY <1>2, <2>1 DEF TypeOK
  <2>3. slotState[d][candidate[d]] = "finalization-pending"
    BY <1>1, <2>1, <2>2 DEF GateInv, PendingInv, MayPublish
  <2>4. QED
    BY <1>6, <2>2, <2>3
<1>9. GateStep
  <2>1. \A u \in Users : held[u][c] = None
    BY <1>3, NobodyInside DEF SafetyInv, UseInv
  <2>2. Closed' = Closed
    BY <1>4, <1>5, <1>6, ClosedSame DEF Ended
  <2>3. QED
    BY <1>2, <1>4, <2>1, <2>2, GateSwitches DEF Ended
<1>10. QED
  BY <1>7, <1>8, <1>9 DEF GateInv

LEMMA CommittedGate ==
    ASSUME Inv, GateInv, Committed
    PROVE  GateInv' /\ GateStep
<1>1. op'.kind = op.kind /\ op'.phase = "resume" /\ op.kind # "none"
  BY EnterOp DEF Committed, Inv, TypeInv, TypeOK, KindOK, OpRecords, Phases
<1>2. UNCHANGED <<current, held, ownerVars, slotVars>>
  BY DEF Committed, leaseVars, userVars
<1>3. QED
  BY <1>1, <1>2, QuietStep DEF MayPublish

LEMMA PrepareStopGate ==
    ASSUME Inv, GateInv, NEW c \in Components, PrepareStop(c)
    PROVE  GateInv' /\ GateStep
<1> USE DEF Inv, TypeInv
<1>1. /\ op'.kind = op.kind /\ op'.phase = "prepareStop" /\ op.phase = "prepareStop"
      /\ c \in op.todo /\ op.kind # "none"
  BY VisitedOp DEF PrepareStop, InReverse, TypeOK, KindOK
<1>2. /\ current' = [current EXCEPT ![c] = None]
      /\ SetSlot(c, current[c], "finalization-pending")
      /\ UNCHANGED <<nextGeneration, held>>
  BY DEF PrepareStop
<1>3. drainDone[c] /\ activeUses[c] = 0 /\ current[c] # None
  BY <1>1 DEF SafetyInv, LoopInv, LeaseInv, LeaseShape
<1>4. current[c] \in Generations /\ slotState[c][current[c]] \notin Ended
  BY <1>3, CurrentIsOpen
<1>5. FreshInv'
  <2>1. \A d \in Components, h \in Generations :
          d # c \/ h # current[c] => slotState'[d][h] = slotState[d][h]
    BY <1>2 DEF TypeOK, SetSlot
  <2>2. QED
    BY <1>2, <2>1, FreshFrame
<1>6. PendingInv'
  BY <1>1 DEF PendingInv, MayPublish
<1>7. GateStep
  <2>1. \A u \in Users : held[u][c] = None
    BY <1>3, NobodyInside DEF SafetyInv, UseInv
  <2>2. Closed' = Closed
    BY <1>2, <1>4, ClosedKept DEF Ended, OwnershipStates
  <2>3. QED
    BY <1>2, <2>1, <2>2, GateSwitches
<1>8. QED
  BY <1>5, <1>6, <1>7 DEF GateInv

LEMMA FinalizeGate ==
    ASSUME Inv, GateInv, NEW c \in Components,
           FinalizeWithoutCall(c) \/ FinalizerBegins(c) \/ FinalizerReturns(c)
    PROVE  GateInv' /\ GateStep
<1> USE DEF Inv, TypeInv
<1> DEFINE g == Owner(op.role, c)
<1>1. /\ op'.kind = op.kind /\ op'.phase = op.phase /\ op.kind # "none"
      /\ op.phase \in {"discard", "retire", "undo", "release"}
  BY NextDutyOp DEF FinalizeWithoutCall, FinalizerBegins, FinalizerReturns, Finalizing, TypeOK,
     KindOK
<1>2. /\ \E state \in Ended : SetSlot(c, g, state)
      /\ UNCHANGED <<current, held, nextGeneration>> /\ g # None
  BY DEF FinalizeWithoutCall, FinalizerBegins, FinalizerReturns, Ended, leaseVars, userVars
<1>3. g \in {candidate[c], retired[c], stopping[c]}
  BY DEF TypeOK, OpRecords, Roles, Owner
<1>4. g \in Generations /\ g # current[c]
  BY <1>2, <1>3 DEF TypeOK, SafetyInv, LeaseInv, OwnersDistinct
<1>5. FreshInv'
  <2>1. \A d \in Components, h \in Generations :
          d # c \/ h # g => slotState'[d][h] = slotState[d][h]
    BY <1>2 DEF TypeOK, SetSlot
  <2>2. QED
    BY <1>2, <1>3, <2>1, FreshFrame
<1>6. PendingInv'
  BY <1>1 DEF PendingInv, MayPublish
<1>7. GateStep
  <2>1. Closed' = [Closed EXCEPT ![c] = @ \cup {g}]
    BY <1>2, <1>4, ClosedAdds
  <2>2. \A u \in Users : held[u][c] # g
    BY <1>2, <1>4 DEF SafetyInv, UseInv, HeldIsCurrent
  <2>3. Gate!Close(c, g)
    BY <1>2, <1>4, <2>1, <2>2 DEF Gate!Close
  <2>4. QED
    BY <1>4, <2>3 DEF GateStep, Gate!GateNext
<1>8. QED
  BY <1>5, <1>6, <1>7 DEF GateInv

-----------------------------------------------------------------------------

LEMMA NextGate ==
    ASSUME Inv, GateInv, [Next]_vars
    PROVE  GateInv' /\ GateStep
<1>1. CASE UNCHANGED vars
  BY <1>1, QuietStep DEF vars, leaseVars, userVars, kernelVars, MayPublish
<1>2. CASE KernelStep \/ Timeout
  <2>1. CASE ControlActions \/ EndActions \/ DiscardDone \/ Committed
    BY <2>1, ControlGate, EndGate, CommittedGate
  <2>2. ASSUME NEW c \in Components,
               \/ Build(c) \/ PublishInitial(c) \/ Commit(c) \/ PrepareStop(c)
               \/ DrainBegin(c) \/ TerminalDrainBegin(c) \/ Rollback(c) \/ Resume(c)
               \/ FinalizeWithoutCall(c) \/ FinalizerBegins(c) \/ FinalizerReturns(c)
        PROVE  GateInv' /\ GateStep
    BY <2>2, BuildGate, PublishInitialGate, CommitGate, PrepareStopGate, LeaseGate, FinalizeGate
  <2>3. QED
    BY <1>2, <2>1, <2>2 DEF KernelStep, Timeout, Preparation, Draining, Switching, Stopping,
       Finalization, ControlActions, ControlOf, EndActions
<1>3. CASE UserNext
  BY <1>3, UserGate DEF UserNext
<1>4. CASE \/ \E config \in Configs : BeginStart(config) \/ BeginReload(config)
           \/ BeginStop
  BY <1>4, BeginGate
<1>5. QED
  BY <1>1, <1>2, <1>3, <1>4 DEF Next

LEMMA InitGate ==
    ASSUME Init
    PROVE  GateInv /\ Gate!GateInit
<1>1. GateInv
  BY DEF Init, GateInv, FreshInv, PendingInv, MayPublish, NoCandidates
<1>2. Closed = [c \in Components |-> {}]
  BY DEF Init, Closed
<1>3. QED
  BY <1>1, <1>2 DEF Init, Gate!GateInit

\* Whatever is prepared, committed, rolled back, abandoned or stopped, in which
\* order and with which failure: to its users a component is a gate that is
\* switched only while nobody is inside (app/lease.go, app/runtime.go).
THEOREM GateIsImplemented == Spec => ImplementsUseGate
<1>1. Init => GateInv /\ Gate!GateInit
  BY InitGate
<1>2. Inv /\ GateInv /\ [Next]_vars => GateInv' /\ [Gate!GateNext]_(Gate!gateVars)
  BY NextGate DEF GateStep
<1>3. QED
  BY <1>1, <1>2, InvHolds, PTL DEF Spec, ImplementsUseGate, Gate!GateSpec

-----------------------------------------------------------------------------
(* Reloads are whole: every instance is owned once or finalized, what is   *)
(* in use was built from the committed snapshot, and between operations a  *)
(* running kernel serves all its components from that snapshot.            *)

KInv == Inv /\ GateInv /\ WholeInv

-----------------------------------------------------------------------------
(* Frames: what the parts of the invariant do not depend on.               *)

LEMMA OwnersFrame ==
    ASSUME WholeInv,
           UNCHANGED <<current, candidate, retired, stopping, nextGeneration, installed, slotState>>
    PROVE  OwnersInv' /\ InstalledInv'
<1>1. \A c \in Components : Pointers(c)' = Pointers(c)
  BY DEF Pointers
<1>2. OwnersInv'
  BY <1>1 DEF WholeInv, OwnersInv
<1>3. InstalledInv'
  BY DEF WholeInv, InstalledInv
<1>4. QED
  BY <1>2, <1>3

LEMMA BuiltFromFrame ==
    ASSUME WholeInv, UNCHANGED <<current, candidate, slotDigest, currentDigest>>,
           MayPublish' => NoCandidates \/ (MayPublish /\ op'.config = op.config)
    PROVE  BuiltFromInv'
BY DEF WholeInv, BuiltFromInv, NoCandidates

\* Callbacks and operations end or begin: leases are refused, none is opened.
LEMMA ServingFrame ==
    ASSUME WholeInv, UNCHANGED <<current, slotState>>,
           \A c \in Components : leaseState'[c] = "serving" => leaseState[c] = "serving"
    PROVE  \A c \in Components : leaseState'[c] = "serving" => slotState'[c][current'[c]] = "serving"
BY DEF WholeInv, ServingInv

\* The instances of a component are those its pointers name, built before the
\* next one.
LEMMA PointersBuilt ==
    ASSUME Inv, NEW c \in Components
    PROVE  /\ nextGeneration[c] \in Nat
           /\ \A g \in Pointers(c) : g \in Nat /\ g <= nextGeneration[c]
<1>1. Generations \cup {None} \subseteq Nat
  BY PlanAssumption DEF Generations, None
<1>2. QED
  BY <1>1 DEF Inv, TypeInv, TypeOK, SafetyInv, LeaseInv, OwnersDistinct, Pointers

-----------------------------------------------------------------------------

LEMMA UserWhole ==
    ASSUME KInv, NEW u \in Users, UserStep(u)
    PROVE  WholeInv'
<1> USE DEF KInv, Inv, TypeInv
<1>1. UNCHANGED <<leaseState, current, terminalDrain, ownerVars, slotVars, kernelVars, op>>
  BY DEF UserStep, Request, Release, AcquireServing, AcquireWaits, AcquireRefused,
         AcquireCancelled, leaseVars
<1>2. \A c \in Components : drainDone[c] => drainDone'[c]
  BY ZenonT(30) DEF UserStep, Request, Release, AcquireServing, AcquireWaits, AcquireRefused,
         AcquireCancelled, leaseVars, TypeOK
<1>3. OwnersInv' /\ InstalledInv'
  BY <1>1, OwnersFrame DEF ownerVars, slotVars
<1>4. BuiltFromInv'
  BY <1>1, BuiltFromFrame DEF ownerVars, slotVars, MayPublish
<1>5. DigestInv'
  BY <1>1 DEF WholeInv, DigestInv, ownerVars, kernelVars
<1>6. ServingInv'
  <2>1. LeftOpen' = LeftOpen
    BY <1>1 DEF LeftOpen, InReverse
  <2>2. op.phase = "commit" => op.changed \subseteq Components
    BY DEF TypeOK, OpRecords
  <2>3. QED
    BY <1>1, <1>2, <2>1, <2>2 DEF WholeInv, ServingInv, slotVars, kernelVars
<1>7. QED
  BY <1>3, <1>4, <1>5, <1>6 DEF WholeInv

LEMMA BeginStartWhole ==
    ASSUME KInv, NEW config \in Configs, BeginStart(config)
    PROVE  WholeInv'
<1> USE DEF KInv, Inv, TypeInv
<1>1. /\ UNCHANGED <<current, ownerVars, slotVars>>
      /\ op \in OpRecords /\ op.kind = "none" /\ op.phase = "idle"
  BY DEF BeginStart, leaseVars, TypeOK, KindOK
<1>2. OwnersInv' /\ InstalledInv'
  BY <1>1, OwnersFrame DEF ownerVars, slotVars
<1>3. /\ op'.kind = "start" /\ op'.phase = "prepare" /\ op'.todo = Components
      /\ op'.changed = Components
  BY BeginOp DEF BeginStart, TypeOK
<1>4. NoCandidates /\ kernelState = "created" /\ kernelState' = "created"
  BY DEF BeginStart, kernelVars, GateInv, PendingInv
<1>5. \A c \in Components : leaseState[c] = "pending" /\ current[c] = None
  BY <1>1, <1>4 DEF SafetyInv, LoopInv, LeaseInv, LeaseShape
<1>6. BuiltFromInv'
  BY <1>1, <1>4 DEF BuiltFromInv, WholeInv, NoCandidates, ownerVars, slotVars
<1>7. DigestInv'
  BY <1>1, <1>3, <1>4, <1>5 DEF BeginStart, kernelVars, WholeInv, DigestInv
<1>8. ServingInv'
  BY <1>3, <1>4, <1>5 DEF BeginStart, leaseVars, ServingInv
<1>9. QED
  BY <1>2, <1>6, <1>7, <1>8 DEF WholeInv

LEMMA BeginReloadWhole ==
    ASSUME KInv, NEW config \in Configs, BeginReload(config)
    PROVE  WholeInv'
<1> USE DEF KInv, Inv, TypeInv
<1>1. /\ UNCHANGED <<current, ownerVars, slotVars>>
      /\ op \in OpRecords /\ op.kind = "none" /\ op.phase = "idle"
  BY DEF BeginReload, leaseVars, TypeOK, KindOK
<1>2. OwnersInv' /\ InstalledInv'
  BY <1>1, OwnersFrame DEF ownerVars, slotVars
<1>3. /\ kernelState = "running" /\ kernelState' = "running"
      /\ UNCHANGED <<leaseVars, ownerVars>>
  BY DEF BeginReload
<1>4. \/ op' = op /\ (snapshot' = snapshot \/ (snapshot' = config /\ Changed(config) = {}))
      \/ /\ op'.kind = "reload" /\ op'.phase = "prepare" /\ op'.config = config
         /\ op'.changed = Changed(config) /\ snapshot' = snapshot /\ NoCandidates
  <2>1. Changed(config) \in SUBSET Components
    BY DEF Changed
  <2>2. (\A c \in Components : ~Unresolved(c)) => NoCandidates
    BY DEF Unresolved, NoCandidates
  <2>3. snapshot' = snapshot \/ (snapshot' = config /\ Changed(config) = {} /\ op' = op)
    BY DEF BeginReload
  <2>4. CASE op' # op
    <3>1. /\ op' = [op EXCEPT !.kind = "reload", !.phase = "prepare",
                              !.todo = Changed(config), !.changed = Changed(config),
                              !.config = config, !.failed = FALSE]
          /\ \A c \in Components : ~Unresolved(c)
      BY <2>4 DEF BeginReload
    <3>2. /\ op'.kind = "reload" /\ op'.phase = "prepare" /\ op'.config = config
          /\ op'.changed = Changed(config)
      BY <1>1, <2>1, <3>1, BeginOp
    <3>3. QED
      BY <2>2, <2>3, <2>4, <3>1, <3>2
  <2>5. QED
    BY <2>3, <2>4
<1>5. BuiltFromInv'
  <2>1. CASE op' = op
    BY <1>1, <2>1, BuiltFromFrame DEF ownerVars, slotVars, MayPublish
  <2>2. CASE NoCandidates
    BY <1>1, <2>2 DEF BuiltFromInv, WholeInv, NoCandidates, ownerVars, slotVars
  <2>3. QED
    BY <1>4, <2>1, <2>2
<1>6. DigestInv'
  <2>1. \A c \in Components \ NoReload : c \notin Changed(config) => config[c] = currentDigest[c]
    BY DEF Changed
  <2>2. \A c \in Components \ NoReload : currentDigest[c] = snapshot[c]
    BY <1>1, <1>3 DEF WholeInv, DigestInv
  <2>3. QED
    BY <1>1, <1>3, <1>4, <2>1, <2>2 DEF DigestInv, ownerVars
<1>7. ServingInv'
  <2>1. \A c \in Components : leaseState'[c] = "serving"
    BY <1>1, <1>3 DEF WholeInv, ServingInv, LeftOpen, leaseVars
  <2>2. LeftOpen' \subseteq Components
    BY <1>1, <1>4 DEF LeftOpen
  <2>3. QED
    BY <1>1, <1>3, <1>4, <2>1, <2>2, ServingFrame DEF ServingInv, slotVars, leaseVars
<1>8. QED
  BY <1>2, <1>5, <1>6, <1>7 DEF WholeInv

LEMMA BeginStopWhole ==
    ASSUME KInv, BeginStop
    PROVE  WholeInv'
<1> USE DEF KInv, Inv, TypeInv
<1>1. /\ UNCHANGED <<current, ownerVars, slotVars>>
      /\ op \in OpRecords /\ op.kind = "none" /\ op.phase = "idle"
  BY DEF BeginStop, StopPendingLeases, leaseVars, TypeOK, KindOK
<1>2. OwnersInv' /\ InstalledInv'
  BY <1>1, OwnersFrame DEF ownerVars, slotVars
<1>3. /\ snapshot' = snapshot
      /\ op' = op \/ (op'.kind = "stop" /\ op'.phase \in {"terminalDrain", "release"})
      /\ kernelState' \in {"stopped", "draining", "failed"}
  <2>1. op' = op \/ (op'.kind = "stop" /\ op'.phase \in {"terminalDrain", "release"})
    BY DEF BeginStop, TypeOK, OpRecords
  <2>2. QED
    BY <2>1 DEF BeginStop
<1>4. BuiltFromInv'
  BY <1>1, <1>3, BuiltFromFrame DEF ownerVars, slotVars, MayPublish
<1>5. DigestInv'
  <2>1. \A c \in Components \ NoReload :
            snapshot # NoConfig /\ current[c] # None => currentDigest[c] = snapshot[c]
    BY <1>1 DEF WholeInv, DigestInv
  <2>2. QED
    BY <1>1, <1>3, <2>1 DEF DigestInv, ownerVars
<1>6. ServingInv'
  <2>1. \A c \in Components : leaseState'[c] = "serving" => leaseState[c] = "serving"
    BY DEF BeginStop, StopPendingLeases, leaseVars, TypeOK
  <2>2. QED
    BY <1>1, <1>3, <2>1, ServingFrame DEF ServingInv, slotVars
<1>7. QED
  BY <1>2, <1>4, <1>5, <1>6 DEF WholeInv

\* What the operation has prepared and where its loops stand, when only the
\* operation moves on.
LEMMA ControlWhole ==
    ASSUME KInv, ControlActions
    PROVE  WholeInv'
<1> USE DEF KInv, Inv, TypeInv
<1>0. /\ op \in OpRecords /\ op.changed \in SUBSET Components /\ op.todo \in SUBSET Components
      /\ UNCHANGED <<leaseVars, ownerVars, slotVars, userVars, kernelVars>>
      /\ op'.kind = op.kind
  BY ControlActionsAreControlSteps DEF ControlStep, SameOperation, TypeOK, OpRecords
<1>1. UNCHANGED <<leaseState, current, drainDone, kernelState, snapshot>>
  BY <1>0 DEF leaseVars, kernelVars
<1>2. OwnersInv' /\ InstalledInv'
  BY <1>0, <1>1, OwnersFrame DEF ownerVars, slotVars
<1>3. ASSUME op'.config = op.config,
             op'.phase = "prepare" => op.phase = "prepare",
             op'.phase \in {"drain", "commit"} /\ op.kind = "reload" =>
                op.phase \in {"prepare", "drain"} /\ op'.changed = op.changed,
             op'.phase = "prepare" => op'.changed = op.changed,
             op'.phase = "commit" => op'.todo = op'.changed,
             op.phase # "commit",
             ServingInv'
      PROVE  WholeInv'
  <2>1. BuiltFromInv'
    BY <1>0, <1>1, <1>3, BuiltFromFrame, ControlKeepsPublishing DEF ownerVars, slotVars
  <2>2. DigestInv'
    BY <1>0, <1>1, <1>3 DEF WholeInv, DigestInv, ownerVars, KindOK
  <2>3. QED
    BY <1>2, <1>3, <2>1, <2>2 DEF WholeInv
<1>4. \A c \in Components : leaseState'[c] = "serving" => slotState'[c][current'[c]] = "serving"
  BY <1>0, <1>1, ServingFrame DEF slotVars
<1>5. ASSUME NEW c \in Components, CandidateReady(c) PROVE WholeInv'
  <2>1. /\ op'.phase = op.phase /\ op'.changed = op.changed /\ op'.config = op.config
        /\ op.phase = "prepare" /\ op.kind = "reload"
    BY <1>0, <1>5, VisitedOp DEF CandidateReady
  <2>2. LeftOpen' = Components /\ LeftOpen = Components
    BY <2>1 DEF LeftOpen
  <2>3. ServingInv'
    BY <1>0, <1>1, <1>4, <2>1, <2>2 DEF WholeInv, ServingInv
  <2>4. QED
    BY <1>3, <2>1, <2>3
<1>6. ASSUME NEW c \in Components, PrepareFails(c) PROVE WholeInv'
  <2>1. op'.phase = "discard" /\ op'.config = op.config /\ op.phase = "prepare"
    BY <1>0, <1>6 DEF PrepareFails, EnterFinalization, OpRecords
  <2>2. LeftOpen' = Components /\ LeftOpen = Components
    BY <2>1 DEF LeftOpen
  <2>3. ServingInv'
    BY <1>0, <1>1, <1>4, <2>1, <2>2 DEF WholeInv, ServingInv
  <2>4. QED
    BY <1>3, <2>1, <2>3
<1>7. ASSUME NEW c \in Components, DrainDone(c) PROVE WholeInv'
  <2>1. /\ op'.phase = "drain" /\ op'.changed = op.changed /\ op'.config = op.config
        /\ op'.todo = op.todo \ {c} /\ op.phase = "drain" /\ InReverse(c)
    BY <1>0, <1>7, VisitedOp DEF DrainDone
  <2>2. LeftOpen' \subseteq LeftOpen
    <3>1. SUFFICES ASSUME NEW d \in Components, d \in op.changed =>
                                d \in op.todo \ {c} /\ ~(\A e \in op.todo \ {c} : e <= d)
                   PROVE  d \in op.changed => d \in op.todo /\ ~(\A e \in op.todo : e <= d)
      BY <2>1 DEF LeftOpen, InReverse
    <3>2. QED
      BY <3>1
  <2>3. \A d \in op.changed \ (op.todo \ {c}), e \in op.todo \ {c} :
            kernelState = "running" => e < d
    <3>1. \A e \in op.todo \ {c} : e < c
      BY <1>0, <2>1 DEF InReverse, Components
    <3>2. QED
      BY <1>0, <2>1, <3>1 DEF WholeInv, ServingInv
  <2>4. ServingInv'
    BY <1>0, <1>1, <1>4, <2>1, <2>2, <2>3 DEF WholeInv, ServingInv
  <2>5. QED
    BY <1>0, <1>3, <2>1, <2>4
<1>8. ASSUME NEW c \in Components, DrainTimeout(c) PROVE WholeInv'
  <2>1. CASE op.kind = "reload"
    <3>1. /\ op'.phase = "rollback" /\ op'.changed = op.changed /\ op'.config = op.config
          /\ op'.todo = {d \in op.changed : c <= d}
          /\ op.phase = "drain" /\ InReverse(c) /\ kernelState = "running"
      BY <1>0, <1>8, <2>1, EnterOp DEF DrainTimeout, Phases, KindOK
    <3>2. \A d \in Components \ op'.todo : d \in op.changed => d \in op.todo /\ d < c
      BY <1>0, <3>1 DEF WholeInv, ServingInv, InReverse, Components
    <3>3. LeftOpen' \subseteq LeftOpen
      <4>1. LeftOpen' = Components \ op'.todo
        BY <3>1 DEF LeftOpen
      <4>2. \A d \in op.todo : d < c => ~InReverse(d)
        BY <1>0, <3>1 DEF InReverse, Components
      <4>3. QED
        BY <3>1, <3>2, <4>1, <4>2 DEF LeftOpen
    <3>4. ServingInv'
      BY <1>0, <1>1, <1>4, <3>1, <3>3 DEF WholeInv, ServingInv
    <3>5. QED
      BY <1>3, <3>1, <3>4
  <2>2. CASE op.kind = "start"
    <3>1. op'.phase = "stopPending" /\ op'.config = op.config /\ op.phase = "drain"
      BY <1>0, <1>8, <2>2, EnterOp DEF DrainTimeout, Phases
    <3>2. ServingInv'
      BY <1>0, <1>1, <1>4, <2>2, <3>1 DEF ServingInv, KindOK
    <3>3. QED
      BY <1>3, <3>1, <3>2
  <2>3. QED
    BY <1>8, <2>1, <2>2 DEF DrainTimeout
<1>9. ASSUME NEW c \in Components, TerminalDrainDone(c) PROVE WholeInv'
  <2>1. op'.phase = op.phase /\ op'.config = op.config /\ op.phase = "terminalDrain"
    BY <1>0, <1>9, VisitedOp DEF TerminalDrainDone
  <2>2. ServingInv'
    BY <1>0, <1>1, <1>4, <2>1 DEF ServingInv, KindOK, OpRecords
  <2>3. QED
    BY <1>3, <2>1, <2>2
<1>10. ASSUME NEW c \in Components, NothingToFinalize(c) \/ CachedFailure(c) PROVE WholeInv'
  <2>1. op'.phase = op.phase /\ op'.config = op.config /\ Finalizing
    BY <1>0, <1>10, NextDutyOp DEF NothingToFinalize, CachedFailure
  <2>2. LeftOpen' = Components /\ LeftOpen = Components
    BY <2>1 DEF LeftOpen, Finalizing
  <2>3. ServingInv'
    BY <1>0, <1>1, <1>4, <2>1, <2>2 DEF WholeInv, ServingInv, Finalizing
  <2>4. QED
    BY <1>3, <2>1, <2>3 DEF Finalizing
<1>11. CASE Prepared
  <2>1. /\ op'.phase = "drain" /\ op'.changed = op.changed /\ op'.config = op.config
        /\ op'.todo = op.changed /\ op.phase = "prepare" /\ op.kind = "reload"
    BY <1>0, <1>11, EnterOp DEF Prepared, Phases
  <2>2. LeftOpen' \subseteq Components /\ LeftOpen = Components
    BY <2>1 DEF LeftOpen
  <2>3. ServingInv'
    BY <1>0, <1>1, <1>4, <2>1, <2>2 DEF WholeInv, ServingInv
  <2>4. QED
    BY <1>3, <2>1, <2>3
<1>12. CASE Drained
  <2>1. /\ op'.changed = op.changed /\ op'.config = op.config /\ op'.todo = op.changed
        /\ op.phase = "drain" /\ op.todo = {}
        /\ \/ op.kind = "reload" /\ op'.phase = "commit"
           \/ op.kind = "start" /\ op'.phase = "prepareStop"
    BY <1>0, <1>12, EnterOp DEF Drained, Phases
  <2>2. op'.phase = "commit" => LeftOpen' \subseteq LeftOpen
    BY <2>1 DEF LeftOpen
  <2>3. \A c \in op.changed : drainDone[c]
    BY <2>1 DEF SafetyInv, LoopInv
  <2>4. ServingInv'
    BY <1>0, <1>1, <1>4, <2>1, <2>2, <2>3 DEF WholeInv, ServingInv, KindOK
  <2>5. QED
    BY <1>0, <1>3, <2>1, <2>4
<1>13. CASE RolledBack \/ Resumed
  <2>1. /\ op'.phase \in {"discard", "retire"} /\ op'.config = op.config /\ op.todo = {}
        /\ op.phase \in {"rollback", "resume"}
    BY <1>0, <1>13, EnterFinalizationOp DEF RolledBack, Resumed, Phases, Roles
  <2>2. LeftOpen' = Components /\ LeftOpen = Components
    BY <2>1 DEF LeftOpen
  <2>3. ServingInv'
    BY <1>0, <1>1, <1>4, <2>1, <2>2 DEF WholeInv, ServingInv
  <2>4. QED
    BY <1>3, <2>1, <2>3
<1>14. CASE TerminallyDrained \/ StopPrepared \/ UndoDone
  <2>1. /\ op'.phase \in {"prepareStop", "release", "undo", "stopPending"}
        /\ op'.config = op.config /\ op.phase \in {"terminalDrain", "prepareStop", "undo"}
    BY <1>0, <1>14, EnterOp, EnterFinalizationOp
       DEF TerminallyDrained, StopPrepared, UndoDone, Phases, Roles
  <2>2. ServingInv'
    BY <1>0, <1>1, <1>4, <2>1 DEF ServingInv, KindOK, TypeOK, OpRecords
  <2>3. QED
    BY <1>3, <2>1, <2>2
<1>15. QED
  BY <1>5, <1>6, <1>7, <1>8, <1>9, <1>10, <1>11, <1>12, <1>13, <1>14
     DEF ControlActions, ControlOf


LEMMA EndWhole ==
    ASSUME KInv, EndActions
    PROVE  WholeInv'
<1> USE DEF KInv, Inv, TypeInv
<1>0. /\ op \in OpRecords /\ EndStep /\ UNCHANGED <<current, ownerVars, slotVars>>
      /\ op'.todo = {} /\ op'.changed = {}
  <2>1. op \in OpRecords
    BY DEF TypeOK
  <2>2. UNCHANGED current /\ \E result, state : Finish(result, state)
    BY DEF EndActions, RetireDone, ReleaseDone, StartDone, StartFailed, DiscardDone,
           TerminalDrainTimeout, StopPendingLeases, leaseVars
  <2>3. QED
    BY <2>1, <2>2, EndActionsAreEndSteps, FinishOp DEF EndStep
<1>1. OwnersInv' /\ InstalledInv'
  BY <1>0, OwnersFrame DEF ownerVars, slotVars
<1>2. BuiltFromInv'
  BY <1>0, BuiltFromFrame DEF ownerVars, slotVars, EndStep, MayPublish
<1>3. \A c \in Components : leaseState'[c] = "serving" => leaseState[c] = "serving"
  BY DEF EndActions, RetireDone, ReleaseDone, StartDone, StartFailed, DiscardDone,
         TerminalDrainTimeout, StopPendingLeases, leaseVars, TypeOK
<1>4. CASE StartDone
  <2>1. /\ op.kind = "start" /\ op.phase = "prepare" /\ op.todo = {} /\ snapshot' = op.config
        /\ kernelState' = "running" /\ UNCHANGED leaseVars
    BY <1>4 DEF StartDone, Finish
  <2>2. \A c \in Components : leaseState[c] = "serving" /\ current[c] # None
    BY <2>1 DEF WholeInv, ServingInv, SafetyInv, LeaseInv, LeaseShape
  <2>3. DigestInv'
    BY <1>0, <2>1, <2>2 DEF WholeInv, DigestInv, ownerVars, EndStep
  <2>4. ServingInv'
    <3>1. \A c \in Components : leaseState'[c] = "serving"
      BY <2>1, <2>2 DEF leaseVars
    <3>2. LeftOpen' = Components
      BY <1>0 DEF LeftOpen, EndStep
    <3>3. QED
      BY <1>0, <1>3, <3>1, <3>2, ServingFrame DEF ServingInv, slotVars, EndStep
  <2>5. QED
    BY <1>1, <1>2, <2>3, <2>4 DEF WholeInv
<1>5. CASE RetireDone \/ (DiscardDone /\ op.kind = "reload")
  <2>1. /\ op.phase \in {"retire", "discard"} /\ op.kind = "reload" /\ kernelState = "running"
        /\ kernelState' = "running" /\ snapshot' = snapshot /\ UNCHANGED leaseVars
    BY <1>0, <1>5 DEF RetireDone, DiscardDone, Finish, KindOK, OpRecords
  <2>2. DigestInv'
    BY <1>0, <2>1 DEF WholeInv, DigestInv, ownerVars, EndStep
  <2>3. ServingInv'
    <3>1. LeftOpen = Components /\ LeftOpen' = Components
      BY <1>0, <2>1 DEF LeftOpen, EndStep
    <3>2. QED
      BY <1>0, <1>3, <2>1, <3>1, ServingFrame DEF WholeInv, ServingInv, slotVars, leaseVars, EndStep
  <2>4. QED
    BY <1>1, <1>2, <2>2, <2>3 DEF WholeInv
<1>6. CASE \/ ReleaseDone \/ StartFailed
           \/ \E c \in Components : TerminalDrainTimeout(c)
  <2>1. /\ kernelState' \notin {"created", "running"} /\ snapshot' = snapshot
        /\ kernelState # "running"
    BY <1>0, <1>6 DEF ReleaseDone, StartFailed, TerminalDrainTimeout, Finish, KindOK, OpRecords
  <2>2. DigestInv'
    BY <1>0, <2>1 DEF WholeInv, DigestInv, ownerVars, EndStep
  <2>3. ServingInv'
    BY <1>0, <1>3, <2>1, ServingFrame DEF ServingInv, slotVars, EndStep
  <2>4. QED
    BY <1>1, <1>2, <2>2, <2>3 DEF WholeInv
<1>7. QED
  BY <1>4, <1>5, <1>6 DEF EndActions

LEMMA DiscardOfStartWhole ==
    ASSUME KInv, DiscardDone, op.kind = "start"
    PROVE  WholeInv'
<1> USE DEF KInv, Inv, TypeInv
<1>1. op \in OpRecords /\ op.changed \in SUBSET Components /\ Enter("drain", op.changed)
  BY DEF DiscardDone, TypeOK, OpRecords
<1>2. /\ op'.kind = "start" /\ op'.phase = "drain" /\ kernelState = "created"
      /\ UNCHANGED <<leaseVars, ownerVars, slotVars, kernelVars>>
  BY <1>1, EnterOp DEF DiscardDone, Phases, KindOK, kernelVars
<1>3. UNCHANGED <<current, leaseState, kernelState, snapshot>>
  BY <1>2 DEF leaseVars, kernelVars
<1>4. OwnersInv' /\ InstalledInv'
  BY <1>2, <1>3, OwnersFrame DEF ownerVars, slotVars
<1>5. BuiltFromInv'
  BY <1>2, <1>3, BuiltFromFrame DEF ownerVars, slotVars, MayPublish
<1>6. DigestInv'
  BY <1>2, <1>3 DEF WholeInv, DigestInv, ownerVars
<1>7. ServingInv'
  BY <1>2, <1>3, ServingFrame DEF ServingInv, slotVars
<1>8. QED
  BY <1>4, <1>5, <1>6, <1>7 DEF WholeInv

-----------------------------------------------------------------------------
(* Steps that move instances and their slots.                              *)

LEMMA BuildWhole ==
    ASSUME KInv, NEW c \in Components, Build(c)
    PROVE  WholeInv'
<1> USE DEF KInv, Inv, TypeInv
<1> DEFINE g == nextGeneration[c] + 1
<1>1. /\ nextGeneration' = [nextGeneration EXCEPT ![c] = g]
      /\ candidate' = [candidate EXCEPT ![c] = g]
      /\ SetSlot(c, g, "finalization-pending")
      /\ slotDigest' = [slotDigest EXCEPT ![c] = [@ EXCEPT ![g] = op.config[c]]]
      /\ UNCHANGED <<leaseState, current, drainDone, retired, stopping, currentDigest, installed,
                     kernelState, snapshot, op>>
      /\ op.phase = "prepare" /\ c \in op.todo /\ candidate[c] = None
  BY DEF Build, InOrder, leaseVars, kernelVars
<1>2. nextGeneration[c] \in Nat /\ g \in Generations
  <2>1. nextGeneration[c] < MaxGeneration
    BY <1>1 DEF RoomToBuild
  <2>2. QED
    BY <2>1, PlanAssumption DEF TypeOK, Generations, None
<1>3. \A h \in Pointers(c) : h # g
  BY <1>2, PointersBuilt
<1>4. /\ \A d \in Components, h \in Generations :
            slotState'[d][h] = IF d = c /\ h = g THEN "finalization-pending" ELSE slotState[d][h]
      /\ \A d \in Components, h \in Generations :
            slotDigest'[d][h] = IF d = c /\ h = g THEN op.config[c] ELSE slotDigest[d][h]
      /\ \A d \in Components : candidate'[d] = IF d = c THEN g ELSE candidate[d]
      /\ \A d \in Components : nextGeneration'[d] = IF d = c THEN g ELSE nextGeneration[d]
  BY <1>1 DEF TypeOK, SetSlot
<1>5. /\ \A d \in Components : current[d] # None => current[d] \in Generations
      /\ \A d \in Components : candidate[d] # None => candidate[d] \in Generations
      /\ \A d \in Components : retired[d] # None => retired[d] \in Generations
      /\ \A d \in Components : stopping[d] # None => stopping[d] \in Generations
  BY DEF TypeOK
<1>6. OwnersInv'
  <2>1. SUFFICES ASSUME NEW d \in Components
                 PROVE  /\ retired[d] # None => retired[d] # stopping[d]
                        /\ \A h \in {candidate'[d], retired[d], stopping[d]} :
                                h # None => slotState'[d][h] # "finalized"
                        /\ \A h \in Generations :
                                h <= nextGeneration'[d] /\ h \notin Pointers(d)' =>
                                    slotState'[d][h] = "finalized"
    BY <1>1 DEF OwnersInv
  <2>2. CASE d = c
    <3>1. ASSUME NEW h \in Generations, h <= g, h \notin Pointers(c)'
          PROVE  slotState'[c][h] = "finalized"
      <4>1. h # g /\ h \notin Pointers(c)
        BY <1>1, <1>4, <3>1, PlanAssumption DEF Pointers, Generations, None
      <4>2. h <= nextGeneration[c]
        BY <1>2, <3>1, <4>1 DEF Generations
      <4>3. QED
        BY <1>4, <4>1, <4>2 DEF WholeInv, OwnersInv
    <3>2. \A h \in {candidate'[c], retired[c], stopping[c]} :
                h # None => slotState'[c][h] # "finalized"
      BY <1>2, <1>3, <1>4, <1>5 DEF WholeInv, OwnersInv, Pointers
    <3>3. QED
      BY <1>4, <2>2, <3>1, <3>2 DEF WholeInv, OwnersInv
  <2>3. CASE d # c
    <3>1. Pointers(d)' = Pointers(d)
      BY <1>1, <1>4, <2>3 DEF Pointers
    <3>2. \A h \in Generations : slotState'[d][h] = slotState[d][h]
      BY <1>4, <2>3
    <3>3. QED
      BY <1>4, <1>5, <2>3, <3>1, <3>2 DEF WholeInv, OwnersInv
  <2>4. QED
    BY <2>2, <2>3
<1>7. InstalledInv'
  BY <1>1, <1>3, <1>4, <1>5 DEF WholeInv, InstalledInv, Pointers
<1>8. BuiltFromInv'
  <2>1. SUFFICES ASSUME NEW d \in Components \ NoReload
                 PROVE  /\ current[d] # None => slotDigest'[d][current[d]] = currentDigest[d]
                        /\ candidate'[d] # None => slotDigest'[d][candidate'[d]] = op.config[d]
    BY <1>1 DEF BuiltFromInv
  <2>2. CASE d = c
    BY <1>2, <1>3, <1>4, <1>5, <2>1, <2>2 DEF WholeInv, BuiltFromInv, Pointers
  <2>3. CASE d # c
    BY <1>1, <1>4, <1>5, <2>1, <2>3 DEF WholeInv, BuiltFromInv, MayPublish
  <2>4. QED
    BY <2>2, <2>3
<1>9. DigestInv'
  BY <1>1 DEF WholeInv, DigestInv
<1>10. ServingInv'
  <2>1. LeftOpen' = LeftOpen
    BY <1>1 DEF LeftOpen, InReverse
  <2>2. \A d \in Components : leaseState[d] = "serving" => slotState'[d][current[d]] = "serving"
    <3>1. \A d \in Components : leaseState[d] = "serving" => current[d] # None
      BY DEF SafetyInv, LeaseInv, LeaseShape
    <3>2. QED
      BY <1>3, <1>4, <1>5, <3>1 DEF WholeInv, ServingInv, Pointers
  <2>3. QED
    BY <1>1, <2>1, <2>2 DEF WholeInv, ServingInv
<1>11. QED
  BY <1>6, <1>7, <1>8, <1>9, <1>10 DEF WholeInv

\* What a step on one component does not do to the others.
LEMMA OthersWhole ==
    ASSUME KInv, NEW c \in Components, NEW d \in Components, d # c,
           candidate'[d] = candidate[d], current'[d] = current[d], retired'[d] = retired[d],
           stopping'[d] = stopping[d], installed'[d] = installed[d], currentDigest'[d] = currentDigest[d],
           nextGeneration'[d] = nextGeneration[d],
           \A h \in Generations : slotState'[d][h] = slotState[d][h] /\ slotDigest'[d][h] = slotDigest[d][h]
    PROVE  /\ retired'[d] # None => retired'[d] # stopping'[d]
           /\ \A h \in {candidate'[d], retired'[d], stopping'[d]} :
                    h # None => slotState'[d][h] # "finalized"
           /\ \A h \in Generations :
                    h <= nextGeneration'[d] /\ h \notin Pointers(d)' => slotState'[d][h] = "finalized"
           /\ installed'[d] # None =>
                    \/ installed'[d] = current'[d]
                    \/ /\ installed'[d] = stopping'[d]
                       /\ slotState'[d][stopping'[d]] = "finalization-pending"
           /\ d \notin NoReload /\ current'[d] # None => slotDigest'[d][current'[d]] = currentDigest'[d]
           /\ d \notin NoReload /\ MayPublish /\ candidate'[d] # None =>
                    slotDigest'[d][candidate'[d]] = op.config[d]
<1>1. /\ current[d] # None => current[d] \in Generations
      /\ candidate[d] # None => candidate[d] \in Generations
      /\ retired[d] # None => retired[d] \in Generations
      /\ stopping[d] # None => stopping[d] \in Generations
      /\ installed[d] # None => installed[d] \in Generations
  BY DEF KInv, Inv, TypeInv, TypeOK
<1>2. Pointers(d)' = Pointers(d)
  BY DEF Pointers
<1>3. QED
  BY <1>1, <1>2 DEF KInv, WholeInv, OwnersInv, InstalledInv, BuiltFromInv

LEMMA PublishInitialWhole ==
    ASSUME KInv, NEW c \in Components, PublishInitial(c)
    PROVE  WholeInv'
<1> USE DEF KInv, Inv, TypeInv
<1> DEFINE g == candidate[c]
<1>1. /\ op.kind = "start" /\ op.phase = "prepare" /\ c \in op.todo /\ g # None
      /\ op'.kind = op.kind /\ op'.phase = op.phase /\ op'.config = op.config
      /\ op'.todo = op.todo \ {c} /\ kernelState = "created"
  BY VisitedOp DEF PublishInitial, InOrder, TypeOK, KindOK
<1>2. /\ current' = [current EXCEPT ![c] = g]
      /\ candidate' = [candidate EXCEPT ![c] = None]
      /\ installed' = [installed EXCEPT ![c] = g]
      /\ leaseState' = [leaseState EXCEPT ![c] = "serving"]
      /\ currentDigest' = [currentDigest EXCEPT ![c] = op.config[c]]
      /\ SetSlot(c, g, "serving")
      /\ UNCHANGED <<nextGeneration, retired, stopping, slotDigest, kernelState, snapshot>>
  BY DEF PublishInitial, kernelVars
<1>3. g \in Generations /\ slotDigest[c][g] = IF c \in NoReload THEN slotDigest[c][g] ELSE op.config[c]
  BY <1>1 DEF TypeOK, WholeInv, BuiltFromInv, MayPublish
<1>4. leaseState[c] = "pending" /\ current[c] = None
  BY <1>1 DEF SafetyInv, LoopInv, LeaseInv, LeaseShape
<1>5. /\ \A d \in Components, h \in Generations :
            slotState'[d][h] = IF d = c /\ h = g THEN "serving" ELSE slotState[d][h]
      /\ \A d \in Components : current'[d] = IF d = c THEN g ELSE current[d]
      /\ \A d \in Components : candidate'[d] = IF d = c THEN None ELSE candidate[d]
      /\ \A d \in Components : installed'[d] = IF d = c THEN g ELSE installed[d]
      /\ \A d \in Components : leaseState'[d] = IF d = c THEN "serving" ELSE leaseState[d]
      /\ \A d \in Components : currentDigest'[d] = IF d = c THEN op.config[c] ELSE currentDigest[d]
  BY <1>2 DEF TypeOK, SetSlot
<1>6. g \notin {retired[c], stopping[c]}
  BY <1>1 DEF SafetyInv, LeaseInv, OwnersDistinct
<1>7. retired[c] # None => retired[c] \in Generations
  BY DEF TypeOK
<1>8. stopping[c] # None => stopping[c] \in Generations
  BY DEF TypeOK
<1>9. OwnersInv'
  <2>1. ASSUME NEW h \in Generations, h <= nextGeneration[c], h \notin Pointers(c)'
        PROVE  slotState'[c][h] = "finalized"
    <3>1. h # None
      BY PlanAssumption DEF Generations, None
    <3>2. h # g /\ h \notin Pointers(c)
      BY <1>2, <1>4, <1>5, <2>1, <3>1 DEF Pointers
    <3>3. QED
      BY <1>5, <2>1, <3>2 DEF WholeInv, OwnersInv
  <2>2. /\ retired[c] # None => retired[c] # stopping[c]
        /\ \A h \in {candidate'[c], retired[c], stopping[c]} :
                h # None => slotState'[c][h] # "finalized"
    BY <1>5, <1>6, <1>7, <1>8 DEF WholeInv, OwnersInv
  <2>3. SUFFICES ASSUME NEW d \in Components
                 PROVE  /\ retired'[d] # None => retired'[d] # stopping'[d]
                        /\ \A h \in {candidate'[d], retired'[d], stopping'[d]} :
                                h # None => slotState'[d][h] # "finalized"
                        /\ \A h \in Generations :
                                h <= nextGeneration'[d] /\ h \notin Pointers(d)' =>
                                    slotState'[d][h] = "finalized"
    BY DEF OwnersInv
  <2>4. CASE d = c
    BY <1>2, <2>1, <2>2, <2>4
  <2>5. CASE d # c
    BY <1>2, <1>5, <2>5, OthersWhole
  <2>6. QED
    BY <2>4, <2>5
<1>10. InstalledInv'
  BY <1>2, <1>5, OthersWhole DEF InstalledInv
<1>11. BuiltFromInv'
  <2>1. SUFFICES ASSUME NEW d \in Components \ NoReload
                 PROVE  /\ current'[d] # None => slotDigest'[d][current'[d]] = currentDigest'[d]
                        /\ candidate'[d] # None => slotDigest'[d][candidate'[d]] = op.config[d]
    BY <1>1 DEF BuiltFromInv
  <2>2. CASE d = c
    BY <1>2, <1>3, <1>5, <2>1, <2>2
  <2>3. CASE d # c
    BY <1>1, <1>2, <1>5, <2>1, <2>3, OthersWhole DEF MayPublish
  <2>4. QED
    BY <2>2, <2>3
<1>12. DigestInv'
  BY <1>1, <1>2, <1>5 DEF WholeInv, DigestInv
<1>13. ServingInv'
  <2>1. \A d \in Components : leaseState'[d] = "serving" => slotState'[d][current'[d]] = "serving"
    <3>1. \A d \in Components : leaseState[d] = "serving" => current[d] \in Generations
      BY DEF TypeOK, SafetyInv, LeaseInv, LeaseShape
    <3>2. QED
      BY <1>3, <1>5, <3>1 DEF WholeInv, ServingInv
  <2>2. QED
    BY <1>1, <1>2, <1>5, <2>1 DEF WholeInv, ServingInv
<1>14. QED
  BY <1>9, <1>10, <1>11, <1>12, <1>13 DEF WholeInv

LEMMA LeaseWhole ==
    ASSUME KInv, NEW c \in Components,
           DrainBegin(c) \/ TerminalDrainBegin(c) \/ Rollback(c) \/ Resume(c)
    PROVE  WholeInv'
<1> USE DEF KInv, Inv, TypeInv
<1>1. /\ op \in OpRecords /\ c \in op.todo
      /\ op'.kind = op.kind /\ op'.phase = op.phase /\ op'.config = op.config
      /\ op'.changed = op.changed
      /\ UNCHANGED <<current, ownerVars, slotDigest, kernelVars>>
  BY VisitedOp DEF DrainBegin, TerminalDrainBegin, Rollback, Resume, InOrder, InReverse, TypeOK,
     StartDrain, ResumeLease
<1>2. /\ kernelState' = kernelState /\ snapshot' = snapshot
      /\ op.phase \in {"drain", "terminalDrain", "rollback", "resume"}
  BY <1>1 DEF DrainBegin, TerminalDrainBegin, Rollback, Resume, kernelVars
<1>3. current[c] # None
  BY <1>1 DEF DrainBegin, TerminalDrainBegin, Rollback, Resume, SafetyInv, LoopInv, LeaseInv,
              LeaseShape
<1>4. current[c] \in Generations /\ current[c] \notin {candidate[c], retired[c], stopping[c]}
  BY <1>3 DEF TypeOK, SafetyInv, LeaseInv, OwnersDistinct
<1>5. PICK state \in {"serving", "waiting-for-drain"} :
        /\ \A d \in Components, h \in Generations :
                slotState'[d][h] = IF d = c /\ h = current[c] THEN state ELSE slotState[d][h]
        /\ \A d \in Components :
                leaseState'[d] = IF d # c THEN leaseState[d]
                                 ELSE IF state = "serving" THEN "serving" ELSE "draining"
        /\ state = "serving" <=> op.phase \in {"rollback", "resume"}
  <2>1. CASE DrainBegin(c) \/ TerminalDrainBegin(c)
    BY <1>4, <2>1 DEF DrainBegin, TerminalDrainBegin, StartDrain, SetSlot, TypeOK
  <2>2. CASE Rollback(c) \/ Resume(c)
    BY <1>4, <2>2 DEF Rollback, Resume, ResumeLease, SetSlot, TypeOK
  <2>3. QED
    BY <2>1, <2>2
<1>6. /\ \A d \in Components : current[d] # None => current[d] \in Generations
      /\ \A d \in Components : candidate[d] # None => candidate[d] \in Generations
      /\ \A d \in Components : retired[d] # None => retired[d] \in Generations
      /\ \A d \in Components : stopping[d] # None => stopping[d] \in Generations
  BY DEF TypeOK
<1>7. OwnersInv' /\ InstalledInv'
  <2>1. \A d \in Components : Pointers(d)' = Pointers(d)
    BY <1>1 DEF Pointers, ownerVars
  <2>2. OwnersInv'
    BY <1>1, <1>4, <1>5, <1>6, <2>1 DEF WholeInv, OwnersInv, Pointers, ownerVars
  <2>3. InstalledInv'
    BY <1>1, <1>4, <1>5, <1>6 DEF WholeInv, InstalledInv, ownerVars
  <2>4. QED
    BY <2>2, <2>3
<1>8. BuiltFromInv'
  BY <1>1, BuiltFromFrame DEF ownerVars, MayPublish
<1>9. DigestInv'
  BY <1>1, <1>2 DEF WholeInv, DigestInv, ownerVars
<1>10. ServingInv'
  <2>1. \A d \in Components : leaseState'[d] = "serving" => slotState'[d][current'[d]] = "serving"
    <3>1. \A d \in Components : leaseState[d] = "serving" => current[d] # None
      BY DEF SafetyInv, LeaseInv, LeaseShape
    <3>2. QED
      BY <1>1, <1>4, <1>5, <1>6, <3>1 DEF WholeInv, ServingInv
  <2>2. CASE DrainBegin(c) \/ TerminalDrainBegin(c)
    <3>1. op' = op
      BY <2>2 DEF DrainBegin, TerminalDrainBegin
    <3>2. kernelState = "running" => c \notin LeftOpen
      <4>1. op.phase = "terminalDrain" => kernelState # "running"
        BY <1>1 DEF KindOK, OpRecords
      <4>2. op.phase = "drain" => InReverse(c) /\ c \in op.changed
        BY <1>1, <1>2, <2>2 DEF DrainBegin, TerminalDrainBegin, SafetyInv, LoopInv
      <4>3. QED
        BY <1>1, <1>2, <2>2, <4>1, <4>2 DEF LeftOpen, DrainBegin, TerminalDrainBegin
    <3>3. LeftOpen' = LeftOpen /\ LeftOpen \subseteq Components
      BY <3>1 DEF LeftOpen, InReverse
    <3>4. QED
      BY <1>1, <1>2, <1>5, <2>1, <3>1, <3>2, <3>3 DEF WholeInv, ServingInv
  <2>3. CASE Rollback(c) \/ Resume(c)
    <3>1. op.phase \in {"rollback", "resume"} /\ op'.todo = op.todo \ {c}
      BY <1>1, <2>3, VisitedOp DEF Rollback, Resume
    <3>2. LeftOpen = Components \ op.todo /\ LeftOpen' = Components \ (op.todo \ {c})
      BY <1>1, <3>1 DEF LeftOpen
    <3>3. QED
      BY <1>1, <1>2, <1>5, <2>1, <3>1, <3>2 DEF WholeInv, ServingInv
  <2>4. QED
    BY <2>2, <2>3
<1>11. QED
  BY <1>7, <1>8, <1>9, <1>10 DEF WholeInv

LEMMA CommitWhole ==
    ASSUME KInv, NEW c \in Components, Commit(c)
    PROVE  WholeInv'
<1> USE DEF KInv, Inv, TypeInv
<1> DEFINE g == candidate[c]
           h0 == current[c]
<1>1. /\ op \in OpRecords /\ op.kind = "reload" /\ op.phase = "commit" /\ c \in op.todo
      /\ op.todo \subseteq op.changed /\ op.changed \in SUBSET Components
      /\ kernelState = "running"
  BY DEF Commit, InOrder, TypeOK, KindOK, OpRecords, SafetyInv, LoopInv
<1>2. /\ op'.kind = op.kind /\ op'.phase = op.phase /\ op'.config = op.config
      /\ op'.changed = op.changed /\ op'.todo = op.todo \ {c}
  BY <1>1, VisitedOp DEF Commit
<1>3. /\ retired' = [retired EXCEPT ![c] = h0]
      /\ current' = [current EXCEPT ![c] = g]
      /\ candidate' = [candidate EXCEPT ![c] = None]
      /\ installed' = [installed EXCEPT ![c] = g]
      /\ currentDigest' = [currentDigest EXCEPT ![c] = op.config[c]]
      /\ slotState' = [slotState EXCEPT ![c] =
                          [@ EXCEPT ![h0] = "finalization-pending", ![g] = "serving"]]
      /\ UNCHANGED <<leaseState, drainDone, nextGeneration, stopping, slotDigest, kernelState, snapshot>>
  BY DEF Commit, kernelVars
<1>4. /\ leaseState[c] = "draining" /\ g # None /\ h0 # None /\ retired[c] = None /\ g # h0
      /\ stopping[c] \notin {g, h0}
  BY <1>1 DEF SafetyInv, LoopInv, CandidateInv, LeaseInv, LeaseShape, OwnersDistinct
<1>5. /\ g \in Generations /\ h0 \in Generations
      /\ slotDigest[c][g] = IF c \in NoReload THEN slotDigest[c][g] ELSE op.config[c]
      /\ stopping[c] # None => stopping[c] \in Generations
  BY <1>1, <1>4 DEF TypeOK, WholeInv, BuiltFromInv, MayPublish
<1>6. /\ \A d \in Components, h \in Generations :
            slotState'[d][h] = IF d = c /\ h = g THEN "serving"
                               ELSE IF d = c /\ h = h0 THEN "finalization-pending"
                               ELSE slotState[d][h]
      /\ \A d \in Components : retired'[d] = IF d = c THEN h0 ELSE retired[d]
      /\ \A d \in Components : current'[d] = IF d = c THEN g ELSE current[d]
      /\ \A d \in Components : candidate'[d] = IF d = c THEN None ELSE candidate[d]
      /\ \A d \in Components : installed'[d] = IF d = c THEN g ELSE installed[d]
      /\ \A d \in Components : currentDigest'[d] = IF d = c THEN op.config[c] ELSE currentDigest[d]
  BY <1>3 DEF TypeOK
<1>7. OwnersInv'
  <2>1. ASSUME NEW h \in Generations, h <= nextGeneration[c], h \notin Pointers(c)'
        PROVE  slotState'[c][h] = "finalized"
    <3>1. h # None
      BY PlanAssumption DEF Generations, None
    <3>2. h \notin {g, h0} /\ h \notin Pointers(c)
      BY <1>3, <1>4, <1>6, <2>1, <3>1 DEF Pointers
    <3>3. QED
      BY <1>6, <2>1, <3>2 DEF WholeInv, OwnersInv
  <2>2. /\ retired'[c] # stopping'[c]
        /\ \A h \in {candidate'[c], retired'[c], stopping'[c]} :
                h # None => slotState'[c][h] # "finalized"
    <3>1. candidate'[c] = None /\ retired'[c] = h0 /\ stopping'[c] = stopping[c]
      BY <1>3, <1>6
    <3>2. slotState'[c][h0] = "finalization-pending"
      BY <1>4, <1>5, <1>6
    <3>3. stopping[c] # None => slotState'[c][stopping[c]] = slotState[c][stopping[c]]
      BY <1>4, <1>5, <1>6
    <3>4. QED
      BY <1>4, <3>1, <3>2, <3>3 DEF WholeInv, OwnersInv
  <2>3. SUFFICES ASSUME NEW d \in Components
                 PROVE  /\ retired'[d] # None => retired'[d] # stopping'[d]
                        /\ \A h \in {candidate'[d], retired'[d], stopping'[d]} :
                                h # None => slotState'[d][h] # "finalized"
                        /\ \A h \in Generations :
                                h <= nextGeneration'[d] /\ h \notin Pointers(d)' =>
                                    slotState'[d][h] = "finalized"
    BY DEF OwnersInv
  <2>4. CASE d = c
    BY ZenonT(30), <1>3, <1>6, <2>1, <2>2, <2>4
  <2>5. CASE d # c
    BY <1>3, <1>6, <2>5, OthersWhole
  <2>6. QED
    BY <2>4, <2>5
<1>8. InstalledInv'
  BY <1>3, <1>6, OthersWhole DEF InstalledInv
<1>9. BuiltFromInv'
  <2>1. SUFFICES ASSUME NEW d \in Components \ NoReload
                 PROVE  /\ current'[d] # None => slotDigest'[d][current'[d]] = currentDigest'[d]
                        /\ candidate'[d] # None => slotDigest'[d][candidate'[d]] = op.config[d]
    BY <1>2 DEF BuiltFromInv
  <2>2. CASE d = c
    BY <1>3, <1>5, <1>6, <2>1, <2>2
  <2>3. CASE d # c
    BY <1>1, <1>3, <1>6, <2>1, <2>3, OthersWhole DEF MayPublish
  <2>4. QED
    BY <2>2, <2>3
<1>10. DigestInv'
  BY <1>1, <1>2, <1>3, <1>6 DEF WholeInv, DigestInv
<1>11. ServingInv'
  <2>1. \A d \in Components : leaseState'[d] = "serving" => slotState'[d][current'[d]] = "serving"
    <3>1. \A d \in Components : leaseState[d] = "serving" => d # c /\ current[d] \in Generations
      BY <1>4 DEF TypeOK, SafetyInv, LeaseInv, LeaseShape
    <3>2. QED
      BY <1>3, <1>6, <3>1 DEF WholeInv, ServingInv
  <2>2. LeftOpen' = LeftOpen
    BY <1>1, <1>2 DEF LeftOpen
  <2>3. QED
    BY <1>1, <1>2, <1>3, <2>1, <2>2 DEF WholeInv, ServingInv
<1>12. QED
  BY <1>7, <1>8, <1>9, <1>10, <1>11 DEF WholeInv

LEMMA CommittedWhole ==
    ASSUME KInv, Committed
    PROVE  WholeInv'
<1> USE DEF KInv, Inv, TypeInv
<1>1. /\ op \in OpRecords /\ op.kind = "reload" /\ op.phase = "commit" /\ op.todo = {}
      /\ op.changed \in SUBSET Components /\ kernelState = "running"
  BY DEF Committed, TypeOK, KindOK, OpRecords
<1>2. /\ op'.kind = op.kind /\ op'.phase = "resume" /\ op'.config = op.config
      /\ op'.changed = op.changed /\ op'.todo = op.changed
  BY <1>1, EnterOp DEF Committed, Phases
<1>3. /\ snapshot' = op.config /\ UNCHANGED <<leaseVars, ownerVars, slotVars, kernelState>>
      /\ UNCHANGED <<leaseState, current>>
  BY DEF Committed, leaseVars
<1>4. OwnersInv' /\ InstalledInv'
  BY <1>3, OwnersFrame DEF ownerVars, slotVars
<1>5. BuiltFromInv'
  BY <1>2, <1>3, BuiltFromFrame DEF ownerVars, slotVars, MayPublish
<1>6. DigestInv'
  <2>1. \A c \in Components \ NoReload : currentDigest[c] = op.config[c]
    BY <1>1 DEF WholeInv, DigestInv
  <2>2. QED
    BY <1>1, <1>2, <1>3, <2>1 DEF DigestInv, ownerVars
<1>7. ServingInv'
  <2>1. LeftOpen' = LeftOpen
    BY <1>1, <1>2 DEF LeftOpen
  <2>2. QED
    BY <1>1, <1>2, <1>3, <2>1, ServingFrame DEF WholeInv, ServingInv, slotVars
<1>8. QED
  BY <1>4, <1>5, <1>6, <1>7 DEF WholeInv

LEMMA PrepareStopWhole ==
    ASSUME KInv, NEW c \in Components, PrepareStop(c)
    PROVE  WholeInv'
<1> USE DEF KInv, Inv, TypeInv
<1> DEFINE g == current[c]
<1>1. /\ op \in OpRecords /\ op.phase = "prepareStop" /\ c \in op.todo /\ kernelState # "running"
      /\ stopping[c] = None
  BY DEF PrepareStop, InReverse, TypeOK, KindOK, OpRecords
<1>2. op'.kind = op.kind /\ op'.phase = op.phase
  BY <1>1, VisitedOp DEF PrepareStop
<1>3. /\ stopping' = [stopping EXCEPT ![c] = g]
      /\ current' = [current EXCEPT ![c] = None]
      /\ leaseState' = [leaseState EXCEPT ![c] = "stopped"]
      /\ SetSlot(c, g, "finalization-pending")
      /\ UNCHANGED <<nextGeneration, candidate, retired, currentDigest, installed, slotDigest,
                     kernelState, snapshot>>
  BY DEF PrepareStop, kernelVars
<1>4. /\ g # None /\ g \in Generations /\ g \notin {candidate[c], retired[c]}
  BY <1>1 DEF SafetyInv, LoopInv, LeaseInv, LeaseShape, OwnersDistinct, TypeOK
<1>5. /\ \A d \in Components, h \in Generations :
            slotState'[d][h] = IF d = c /\ h = g THEN "finalization-pending" ELSE slotState[d][h]
      /\ \A d \in Components : current'[d] = IF d = c THEN None ELSE current[d]
      /\ \A d \in Components : stopping'[d] = IF d = c THEN g ELSE stopping[d]
      /\ \A d \in Components : leaseState'[d] = IF d = c THEN "stopped" ELSE leaseState[d]
  BY <1>3 DEF TypeOK, SetSlot
<1>6. /\ candidate[c] # None => candidate[c] \in Generations
      /\ retired[c] # None => retired[c] \in Generations
  BY DEF TypeOK
<1>7. OwnersInv'
  <2>1. ASSUME NEW h \in Generations, h <= nextGeneration[c], h \notin Pointers(c)'
        PROVE  slotState'[c][h] = "finalized"
    <3>1. h # None
      BY PlanAssumption DEF Generations, None
    <3>2. h # g /\ h \notin Pointers(c)
      BY <1>1, <1>3, <1>5, <2>1, <3>1 DEF Pointers
    <3>3. QED
      BY <1>5, <2>1, <3>2 DEF WholeInv, OwnersInv
  <2>2. /\ retired[c] # g
        /\ \A h \in {candidate[c], retired[c], g} : h # None => slotState'[c][h] # "finalized"
    BY <1>4, <1>5, <1>6 DEF WholeInv, OwnersInv
  <2>3. SUFFICES ASSUME NEW d \in Components
                 PROVE  /\ retired'[d] # None => retired'[d] # stopping'[d]
                        /\ \A h \in {candidate'[d], retired'[d], stopping'[d]} :
                                h # None => slotState'[d][h] # "finalized"
                        /\ \A h \in Generations :
                                h <= nextGeneration'[d] /\ h \notin Pointers(d)' =>
                                    slotState'[d][h] = "finalized"
    BY DEF OwnersInv
  <2>4. CASE d = c
    BY <1>3, <1>5, <2>1, <2>2, <2>4
  <2>5. CASE d # c
    BY <1>3, <1>5, <2>5, OthersWhole
  <2>6. QED
    BY <2>4, <2>5
<1>8. InstalledInv'
  BY <1>1, <1>3, <1>4, <1>5, OthersWhole DEF WholeInv, InstalledInv
<1>9. BuiltFromInv'
  <2>1. ~MayPublish'
    BY <1>1, <1>2 DEF MayPublish
  <2>2. QED
    BY <1>3, <1>5, <2>1, OthersWhole DEF BuiltFromInv
<1>10. DigestInv'
  BY <1>1, <1>2, <1>3, <1>5 DEF WholeInv, DigestInv
<1>11. ServingInv'
  <2>1. \A d \in Components : leaseState'[d] = "serving" => slotState'[d][current'[d]] = "serving"
    <3>1. \A d \in Components : leaseState[d] = "serving" => current[d] \in Generations
      BY DEF TypeOK, SafetyInv, LeaseInv, LeaseShape
    <3>2. QED
      BY <1>5, <3>1 DEF WholeInv, ServingInv
  <2>2. QED
    BY <1>1, <1>2, <1>3, <2>1 DEF ServingInv
<1>12. QED
  BY <1>7, <1>8, <1>9, <1>10, <1>11 DEF WholeInv

LEMMA FinalizeWhole ==
    ASSUME KInv, NEW c \in Components,
           FinalizeWithoutCall(c) \/ FinalizerBegins(c) \/ FinalizerReturns(c)
    PROVE  WholeInv'
<1> USE DEF KInv, Inv, TypeInv
<1> DEFINE g == Owner(op.role, c)
<1>1. /\ op \in OpRecords /\ Finalizing /\ g # None
      /\ UNCHANGED <<leaseVars, currentDigest, nextGeneration, slotDigest, kernelVars>>
      /\ UNCHANGED <<current, leaseState, kernelState, snapshot>>
  BY DEF FinalizeWithoutCall, FinalizerBegins, FinalizerReturns, TypeOK, leaseVars, kernelVars
<1>2. op'.kind = op.kind /\ op'.phase = op.phase
  BY <1>1, NextDutyOp DEF FinalizeWithoutCall, FinalizerBegins, FinalizerReturns
<1>3. op.role \in Roles
  BY <1>1 DEF OpRecords
<1>4. g \in Generations /\ g # current[c]
  BY <1>1, <1>3 DEF TypeOK, Roles, Owner, SafetyInv, LeaseInv, OwnersDistinct
<1>5. PICK state \in Ended :
        /\ SetSlot(c, g, state)
        /\ IF state = "finalized" THEN DropOwner(op.role, c)
           ELSE UNCHANGED <<candidate, retired, stopping>>
  <2>1. CASE FinalizeWithoutCall(c) \/ FinalizerReturns(c)
    BY <2>1 DEF FinalizeWithoutCall, FinalizerReturns, Ended
  <2>2. CASE FinalizerBegins(c)
    BY <2>2 DEF FinalizerBegins, Ended
  <2>3. QED
    BY <2>1, <2>2
<1>6. \A d \in Components, h \in Generations :
        slotState'[d][h] = IF d = c /\ h = g THEN state ELSE slotState[d][h]
  BY <1>5 DEF TypeOK, SetSlot
<1>7. /\ \A d \in Components : candidate'[d] =
            IF d = c /\ state = "finalized" /\ op.role = "candidate" THEN None ELSE candidate[d]
      /\ \A d \in Components : retired'[d] =
            IF d = c /\ state = "finalized" /\ op.role = "retired" THEN None ELSE retired[d]
      /\ \A d \in Components : stopping'[d] =
            IF d = c /\ state = "finalized" /\ op.role = "stopping" THEN None ELSE stopping[d]
  BY <1>5 DEF DropOwner, TypeOK
<1>8. /\ candidate[c] # None => candidate[c] \in Generations /\ candidate[c] \notin {retired[c], stopping[c]}
      /\ retired[c] # None => retired[c] \in Generations /\ retired[c] # stopping[c]
      /\ stopping[c] # None => stopping[c] \in Generations
  BY DEF TypeOK, SafetyInv, LeaseInv, OwnersDistinct, WholeInv, OwnersInv
<1>9. /\ op.role = "candidate" => g = candidate[c]
      /\ op.role = "retired" => g = retired[c]
      /\ op.role = "stopping" => g = stopping[c]
  BY DEF Owner
<1>10. OwnersInv'
  <2>1. ASSUME NEW h \in Generations, h <= nextGeneration[c], h \notin Pointers(c)'
        PROVE  slotState'[c][h] = "finalized"
    <3>1. h # None
      BY PlanAssumption DEF Generations, None
    <3>2. (h = g /\ state = "finalized") \/ h \notin Pointers(c)
      BY <1>1, <1>3, <1>7, <1>9, <2>1, <3>1 DEF Pointers, Roles
    <3>3. QED
      BY <1>3, <1>4, <1>6, <1>9, <2>1, <3>2 DEF WholeInv, OwnersInv, Pointers, Roles
  <2>2. \A h \in {candidate'[c], retired'[c], stopping'[c]} : h # None => slotState'[c][h] # "finalized"
    BY <1>1, <1>3, <1>6, <1>7, <1>8, <1>9 DEF WholeInv, OwnersInv, Roles
  <2>3. SUFFICES ASSUME NEW d \in Components
                 PROVE  /\ retired'[d] # None => retired'[d] # stopping'[d]
                        /\ \A h \in {candidate'[d], retired'[d], stopping'[d]} :
                                h # None => slotState'[d][h] # "finalized"
                        /\ \A h \in Generations :
                                h <= nextGeneration'[d] /\ h \notin Pointers(d)' =>
                                    slotState'[d][h] = "finalized"
    BY DEF OwnersInv
  <2>4. CASE d = c
    BY <1>1, <1>7, <1>8, <2>1, <2>2, <2>4
  <2>5. CASE d # c
    <3>1. installed'[d] = installed[d]
      BY <2>5 DEF FinalizeWithoutCall, FinalizerBegins, FinalizerReturns, Deactivate, TypeOK
    <3>2. QED
      BY <1>1, <1>6, <1>7, <2>5, <3>1, OthersWhole
  <2>6. QED
    BY <2>4, <2>5
<1>11. InstalledInv'
  <2>1. /\ \A d \in Components : d # c => installed'[d] = installed[d]
        /\ installed'[c] # None => installed'[c] = installed[c]
        /\ op.role = "stopping" => installed'[c] = None \/ slotState[c][g] = "finalizing"
    BY DEF FinalizeWithoutCall, FinalizerBegins, FinalizerReturns, Deactivate, TypeOK
  <2>2. \A d \in Components : stopping[d] # None => stopping[d] \in Generations
    BY DEF TypeOK
  <2>3. QED
    BY <1>1, <1>3, <1>4, <1>6, <1>7, <1>8, <1>9, <2>1, <2>2 DEF WholeInv, InstalledInv, Roles
<1>12. BuiltFromInv'
  <2>1. ~MayPublish'
    BY <1>1, <1>2 DEF MayPublish, Finalizing
  <2>2. QED
    BY <1>1, <2>1 DEF WholeInv, BuiltFromInv
<1>13. DigestInv'
  BY <1>1, <1>2 DEF WholeInv, DigestInv, Finalizing
<1>14. ServingInv'
  <2>1. \A d \in Components : leaseState'[d] = "serving" => slotState'[d][current'[d]] = "serving"
    <3>1. \A d \in Components : leaseState[d] = "serving" => current[d] \in Generations
      BY DEF TypeOK, SafetyInv, LeaseInv, LeaseShape
    <3>2. QED
      BY <1>1, <1>4, <1>6, <3>1 DEF WholeInv, ServingInv
  <2>2. LeftOpen' = Components /\ LeftOpen = Components
    BY <1>1, <1>2 DEF LeftOpen, Finalizing
  <2>3. QED
    BY <1>1, <1>2, <2>1, <2>2 DEF WholeInv, ServingInv, Finalizing
<1>15. QED
  BY <1>10, <1>11, <1>12, <1>13, <1>14 DEF WholeInv

-----------------------------------------------------------------------------
(* The invariant is inductive, and what follows from it.                   *)

LEMMA NextWhole ==
    ASSUME KInv, [Next]_vars
    PROVE  WholeInv'
<1>1. CASE UNCHANGED vars
  <2>1. LeftOpen' = LeftOpen /\ MayPublish' = MayPublish
    BY <1>1 DEF LeftOpen, MayPublish, InReverse, vars
  <2>2. \A c \in Components : Pointers(c)' = Pointers(c)
    BY <1>1 DEF Pointers, vars, leaseVars, ownerVars
  <2>3. QED
    BY <1>1, <2>1, <2>2 DEF KInv, WholeInv, OwnersInv, InstalledInv, BuiltFromInv, DigestInv,
       ServingInv, vars, leaseVars, ownerVars, slotVars, kernelVars
<1>2. CASE KernelStep \/ Timeout
  <2>1. CASE ControlActions \/ EndActions \/ Committed
    BY <2>1, ControlWhole, EndWhole, CommittedWhole
  <2>2. CASE DiscardDone
    BY <2>1, <2>2, DiscardOfStartWhole DEF DiscardDone, EndActions
  <2>3. ASSUME NEW c \in Components,
               \/ Build(c) \/ PublishInitial(c) \/ Commit(c) \/ PrepareStop(c)
               \/ DrainBegin(c) \/ TerminalDrainBegin(c) \/ Rollback(c) \/ Resume(c)
               \/ FinalizeWithoutCall(c) \/ FinalizerBegins(c) \/ FinalizerReturns(c)
        PROVE  WholeInv'
    BY <2>3, BuildWhole, PublishInitialWhole, CommitWhole, PrepareStopWhole, LeaseWhole,
       FinalizeWhole
  <2>4. QED
    BY <1>2, <2>1, <2>2, <2>3 DEF KernelStep, Timeout, Preparation, Draining, Switching, Stopping,
       Finalization, ControlActions, ControlOf, EndActions
<1>3. CASE UserNext
  BY <1>3, UserWhole DEF UserNext
<1>4. CASE \/ \E config \in Configs : BeginStart(config) \/ BeginReload(config)
           \/ BeginStop
  BY <1>4, BeginStartWhole, BeginReloadWhole, BeginStopWhole
<1>5. QED
  BY <1>1, <1>2, <1>3, <1>4 DEF Next

LEMMA InitWhole ==
    ASSUME Init
    PROVE  WholeInv
<1>1. OwnersInv
  BY DEF Init, OwnersInv, None, Generations
<1>2. InstalledInv /\ BuiltFromInv
  BY DEF Init, InstalledInv, BuiltFromInv
<1>3. DigestInv /\ ServingInv
  BY DEF Init, DigestInv, ServingInv
<1>4. QED
  BY <1>1, <1>2, <1>3 DEF WholeInv

LEMMA KInvHolds == Spec => []KInv
<1>1. Init => GateInv /\ WholeInv
  BY InitGate, InitWhole
<1>2. KInv /\ Inv' /\ [Next]_vars => KInv'
  BY NextGate, NextWhole DEF KInv
<1>3. Inv /\ GateInv /\ WholeInv <=> KInv
  BY DEF KInv
<1>4. QED
  BY <1>1, <1>2, <1>3, InvHolds, PTL DEF Spec

\* The whole inductive invariant, which the runs check for two components,
\* holds for every plan: leases, loops, candidates, owners and digests agree.
THEOREM KernelInvariantHolds == Spec => []KernelInv
<1>1. KInv => KernelInv
  BY DEF KInv, Inv, KernelInv
<1>2. QED
  BY <1>1, KInvHolds, PTL

\* In the middle of a commit nobody is inside the components it has switched.
LEMMA InUseIsOfTheSnapshot ==
    ASSUME KInv
    PROVE  InUseMatchesSnapshot
<1> USE DEF KInv, Inv, TypeInv, SafetyInv, WholeInv
<1> SUFFICES ASSUME NEW u \in Users, NEW c \in Components \ NoReload,
                    held[u][c] # None, kernelState # "created", snapshot # NoConfig
             PROVE  slotDigest[c][held[u][c]] = snapshot[c]
  BY DEF InUseMatchesSnapshot
<1>1. held[u][c] = current[c] /\ current[c] # None
  BY DEF UseInv, HeldIsCurrent
<1>2. slotDigest[c][current[c]] = currentDigest[c]
  BY <1>1 DEF BuiltFromInv
<1>3. CASE kernelState # "running"
  BY <1>1, <1>2, <1>3 DEF DigestInv
<1>4. CASE kernelState = "running" /\ op.phase = "commit" /\ c \in op.changed
  <2>1. activeUses[c] = 0
    BY <1>4 DEF ServingInv, LeaseInv, LeaseShape
  <2>2. QED
    BY <2>1, NobodyInside DEF UseInv
<1>5. CASE kernelState = "running" /\ ~(op.phase = "commit" /\ c \in op.changed)
  BY <1>1, <1>2, <1>5 DEF DigestInv
<1>6. QED
  BY <1>3, <1>4, <1>5

LEMMA AllOrNothing ==
    ASSUME KInv
    PROVE  ReloadIsAllOrNothing
<1> USE DEF KInv, Inv, TypeInv, SafetyInv, WholeInv
<1> SUFFICES ASSUME kernelState = "running", op.kind = "none", NEW c \in Components
             PROVE  /\ leaseState[c] = "serving"
                    /\ slotState[c][current[c]] = "serving"
                    /\ c \notin NoReload => /\ slotDigest[c][current[c]] = snapshot[c]
                                            /\ currentDigest[c] = snapshot[c]
  BY DEF ReloadIsAllOrNothing
<1>1. op.phase = "idle"
  BY DEF KindOK
<1>2. leaseState[c] = "serving"
  BY <1>1 DEF ServingInv, LeftOpen
<1>3. slotState[c][current[c]] = "serving" /\ current[c] # None
  BY <1>2 DEF ServingInv, LeaseInv, LeaseShape
<1>4. QED
  BY <1>1, <1>2, <1>3 DEF BuiltFromInv, DigestInv

LEMMA InstalledAlive ==
    ASSUME KInv
    PROVE  InstalledIsAlive
BY DEF KInv, Inv, SafetyInv, WholeInv, InstalledInv, InstalledIsAlive, LeaseInv, LeaseShape

\* The pointers of a component name different instances, so the owners of an
\* instance are one pointer, or none when it is finalized.
LEMMA OwnersAccounted ==
    ASSUME KInv
    PROVE  OwnershipIsAccounted
<1> USE DEF KInv, Inv, TypeInv, SafetyInv, WholeInv
<1> SUFFICES ASSUME NEW c \in Components, NEW g \in 1..nextGeneration[c]
             PROVE  LET owners == {p \in {<<"candidate", candidate[c]>>, <<"current", current[c]>>,
                                          <<"retired", retired[c]>>, <<"stopping", stopping[c]>>} :
                                   p[2] = g}
                    IN  Cardinality(owners) = IF slotState[c][g] = "finalized" THEN 0 ELSE 1
  BY DEF OwnershipIsAccounted
<1> DEFINE owners == {p \in {<<"candidate", candidate[c]>>, <<"current", current[c]>>,
                             <<"retired", retired[c]>>, <<"stopping", stopping[c]>>} : p[2] = g}
<1>0. nextGeneration[c] \in Generations \cup {None}
  BY DEF TypeOK
<1>1. g \in Generations /\ g # None /\ g <= nextGeneration[c]
  BY <1>0, PlanAssumption DEF Generations, None
<1>2. candidate[c] # None => candidate[c] \notin {current[c], retired[c], stopping[c]}
  BY DEF LeaseInv, OwnersDistinct
<1>3. current[c] # None => current[c] \notin {retired[c], stopping[c]}
  BY DEF LeaseInv, OwnersDistinct
<1>4. retired[c] # None => retired[c] # stopping[c]
  BY DEF OwnersInv
<1>5. CASE g \notin Pointers(c)
  <2>1. owners = {}
    BY <1>5 DEF Pointers
  <2>2. slotState[c][g] = "finalized"
    BY <1>1, <1>5 DEF OwnersInv
  <2>3. QED
    BY <2>1, <2>2, FS_EmptySet
<1>6. CASE g \in Pointers(c)
  <2>1. slotState[c][g] # "finalized"
    BY <1>1, <1>6 DEF OwnersInv, LeaseInv, LeaseShape, Pointers
  <2>2. \E p : owners = {p}
    <3>1. CASE g = candidate[c]
      <4>1. owners = {<<"candidate", g>>}
        BY <1>1, <1>2, <3>1
      <4>2. QED
        BY <4>1
    <3>2. CASE g = current[c]
      <4>1. owners = {<<"current", g>>}
        BY <1>1, <1>2, <1>3, <3>2
      <4>2. QED
        BY <4>1
    <3>3. CASE g = retired[c]
      <4>1. owners = {<<"retired", g>>}
        BY <1>1, <1>2, <1>3, <1>4, <3>3
      <4>2. QED
        BY <4>1
    <3>4. CASE g = stopping[c]
      <4>1. owners = {<<"stopping", g>>}
        BY <1>1, <1>2, <1>3, <1>4, <3>4
      <4>2. QED
        BY <4>1
    <3>5. QED
      BY <1>6, <3>1, <3>2, <3>3, <3>4 DEF Pointers
  <2>3. QED
    BY <2>1, <2>2, FS_Singleton
<1>7. QED
  BY <1>5, <1>6

\* A reload is whole to everybody: to callbacks in the middle of it, to whoever
\* comes after it, to the activated target and to the kernel that finalizes
\* (kernel.go, app/runtime.go, app/finalization.go).
THEOREM ReloadsAreWholeHolds == Spec => []ReloadsAreWhole
<1>1. KInv => ReloadsAreWhole
  BY InUseIsOfTheSnapshot, AllOrNothing, InstalledAlive, OwnersAccounted
     DEF KInv, Inv, TypeInv, ReloadsAreWhole
<1>2. QED
  BY <1>1, KInvHolds, PTL
=============================================================================

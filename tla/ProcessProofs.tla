---------------------------- MODULE ProcessProofs ----------------------------
(***************************************************************************)
(* Theorems about the two that run a process. The Coordinator over the     *)
(* Kernel: what its diagnostics say agrees with what the Kernel owns, for  *)
(* every plan. The Supervisor, for any number of participants and tasks,   *)
(* whichever of them can be forced: participants are stopped in reverse, a *)
(* forced stop is the last resort, and success means a clean shutdown.     *)
(***************************************************************************)
EXTENDS Coordinator, KernelProofs, Supervisor

-----------------------------------------------------------------------------
(* A step of the coordinator is a step of the kernel or none.              *)

LEMMA KernelStepOrNone ==
    ASSUME [CoordinatorNext]_allVars
    PROVE  [Next]_vars
BY DEF CoordinatorNext, allVars, Start, StartNotLoaded, StartReturns, Reload, ReloadExternal,
       ReloadReturns, Stop, StopEnds, KernelRuns, Next

LEMMA KernelHolds == CoordinatorSpec => []KInv
<1>1. CoordinatorInit => Init
  BY DEF CoordinatorInit
<1>2. [CoordinatorNext]_allVars => [Next]_vars
  BY KernelStepOrNone
<1>3. QED
  BY <1>1, <1>2, KInvHolds, PTL DEF CoordinatorSpec, Spec

-----------------------------------------------------------------------------
(* What the kernel still has to finalize.                                  *)

LEMMA NextDutyTurn ==
    ASSUME op \in OpRecords, NEW c, NEW failed \in BOOLEAN, NextDuty(c, failed)
    PROVE  /\ op'.failed = (op.failed \/ failed)
           /\ op.phase = "release" /\ op.role = "candidate" => op'.role = "retired" /\ op'.todo = op.todo
           /\ op.phase = "release" /\ op.role = "retired" => op'.role = "stopping" /\ op'.todo = op.todo
           /\ op.phase = "release" /\ op.role = "stopping" =>
                    op'.role = "candidate" /\ op'.todo = op.todo \ {c}
           /\ op.phase # "release" => op'.role = op.role /\ op'.todo = op.todo \ {c}
<1>1. CASE op.phase = "release" /\ op.role # "stopping"
  BY <1>1 DEF OpRecords, NextDuty
<1>2. CASE ~(op.phase = "release" /\ op.role # "stopping")
  BY <1>2 DEF OpRecords, NextDuty
<1>3. QED
  BY <1>1, <1>2

LEMMA VisitedFailed ==
    ASSUME op \in OpRecords, NEW c, Visited(c)
    PROVE  op'.failed = op.failed
BY DEF OpRecords, Visited

\* The last component of the loop is one.
LEMMA LastIsOne ==
    ASSUME op \in OpRecords, NEW c, NEW d, InReverse(c), InReverse(d)
    PROVE  c = d
<1>1. op.todo \subseteq Int
  BY DEF OpRecords, Components
<1>2. QED
  BY <1>1 DEF InReverse

LEMMA ControlDuties ==
    ASSUME KInv, DutiesInv, ControlActions
    PROVE  DutiesInv'
<1> USE DEF KInv, Inv, TypeInv
<1>0. /\ op \in OpRecords /\ op.changed \in SUBSET Components /\ op.todo \in SUBSET Components
      /\ UNCHANGED <<candidate, retired, stopping, current, kernelState>>
      /\ op'.kind = op.kind /\ KindOK /\ KindOK' /\ op' \in OpRecords
  BY ControlActionsAreControlSteps
     DEF ControlStep, SameOperation, TypeOK, OpRecords, leaseVars, ownerVars, kernelVars
<1>1. ASSUME op'.phase \notin {"idle", "release", "commit", "resume", "retire", "prepareStop"},
             op'.phase = "prepare" => op.phase = "prepare",
             op'.changed = op.changed \/ (op.kind = "start" /\ op'.phase # "prepare"),
             op'.kind = "start" /\ op'.phase = "prepare" => op'.todo = op.todo
      PROVE  DutiesInv'
  BY <1>0, <1>1 DEF DutiesInv, Vacated, KindOK
<1>5. ASSUME NEW c \in Components, CandidateReady(c) PROVE DutiesInv'
  <2>1. op'.phase = op.phase /\ op'.changed = op.changed /\ op.phase = "prepare" /\ op.kind = "reload"
    BY <1>0, <1>5, VisitedOp DEF CandidateReady
  <2>2. QED
    BY <1>0, <1>1, <2>1
<1>6. ASSUME NEW c \in Components, PrepareFails(c) PROVE DutiesInv'
  <2>1. op'.phase = "discard" /\ (op'.changed = op.changed \/ op.kind = "start")
    BY <1>0, <1>6 DEF PrepareFails, EnterFinalization, OpRecords
  <2>2. QED
    BY <1>0, <1>1, <2>1
<1>7. ASSUME NEW c \in Components, DrainDone(c) \/ TerminalDrainDone(c) PROVE DutiesInv'
  <2>1. op'.phase \in {"drain", "terminalDrain"} /\ op'.changed = op.changed
    BY <1>0, <1>7, VisitedOp DEF DrainDone, TerminalDrainDone
  <2>2. QED
    BY <1>0, <1>1, <2>1
<1>8. ASSUME NEW c \in Components, DrainTimeout(c) PROVE DutiesInv'
  <2>1. op'.phase \in {"rollback", "stopPending"} /\ op'.changed = op.changed
    BY <1>0, <1>8, EnterOp DEF DrainTimeout, Phases
  <2>2. QED
    BY <1>0, <1>1, <2>1
<1>10. ASSUME NEW c \in Components, NothingToFinalize(c) \/ CachedFailure(c) PROVE DutiesInv'
  <2>1. /\ op'.phase = op.phase /\ Finalizing /\ op'.changed = op.changed /\ InReverse(c)
        /\ c \in op.todo
    BY <1>0, <1>10, NextDutyOp DEF NothingToFinalize, CachedFailure, InReverse
  <2>2. CASE op.phase \in {"discard", "undo"}
    BY <1>0, <1>1, <2>1, <2>2
  <2>3. PICK failed \in BOOLEAN : /\ NextDuty(c, failed)
                                  /\ failed \/ Owner(op.role, c) = None
    BY <1>10 DEF NothingToFinalize, CachedFailure
  <2>4. CASE op.phase = "retire"
    <3>1. op'.role = op.role /\ op'.todo = op.todo \ {c} /\ op'.failed = (op.failed \/ failed)
      BY <1>0, <2>3, <2>4, NextDutyTurn
    <3>2. op.role = "retired" => Owner(op.role, c) = retired[c]
      BY DEF Owner
    <3>3. QED
      BY <1>0, <2>1, <2>3, <2>4, <3>1, <3>2 DEF DutiesInv, Vacated, KindOK
  <2>5. CASE op.phase = "release"
    <3>1. /\ op'.failed = (op.failed \/ failed)
          /\ op.role = "candidate" => op'.role = "retired" /\ op'.todo = op.todo
          /\ op.role = "retired" => op'.role = "stopping" /\ op'.todo = op.todo
          /\ op.role = "stopping" => op'.role = "candidate" /\ op'.todo = op.todo \ {c}
      BY <1>0, <2>3, <2>5, NextDutyTurn
    <3>2. /\ op.role = "candidate" => Owner(op.role, c) = candidate[c]
          /\ op.role = "retired" => Owner(op.role, c) = retired[c]
          /\ op.role = "stopping" => Owner(op.role, c) = stopping[c]
          /\ op.role \in Roles
      BY <1>0 DEF Owner, OpRecords
    <3>3. ~op'.failed => ~op.failed /\ Owner(op.role, c) = None
      BY <1>0, <2>3, <3>1 DEF OpRecords
    <3>4. op.kind = "stop"
      BY <1>0, <2>5 DEF KindOK, OpRecords
    <3>5. ASSUME ~op'.failed PROVE \A d \in Components \ op'.todo : ~Unresolved(d)'
      <4>1. \A d \in Components : Unresolved(d)' = Unresolved(d)
        BY <1>0 DEF Unresolved
      <4>2. op.role = "stopping" => ~Unresolved(c)
        BY <2>1, <2>5, <3>2, <3>3, <3>5 DEF DutiesInv, Unresolved
      <4>3. QED
        BY <2>5, <3>1, <3>2, <3>3, <3>5, <4>1, <4>2 DEF DutiesInv, Roles
    <3>6. ASSUME ~op'.failed, NEW d \in op'.todo, InReverse(d)'
          PROVE  /\ op'.role # "candidate" => candidate'[d] = None
                 /\ op'.role = "stopping" => retired'[d] = None
      <4>1. CASE op.role = "stopping"
        BY <3>1, <4>1
      <4>2. CASE op.role # "stopping"
        <5>1. InReverse(d)
          BY <3>1, <3>2, <3>6, <4>2 DEF InReverse, Roles
        <5>2. d = c
          BY <1>0, <2>1, <5>1, LastIsOne
        <5>3. QED
          BY <1>0, <2>1, <2>5, <3>1, <3>2, <3>3, <3>6, <4>2, <5>2 DEF DutiesInv, Roles
      <4>3. QED
        BY <4>1, <4>2
    <3>7. QED
      BY <1>0, <2>1, <2>5, <3>4, <3>5, <3>6 DEF DutiesInv, Vacated
  <2>6. QED
    BY <2>1, <2>2, <2>4, <2>5 DEF Finalizing
<1>11. CASE Prepared \/ RolledBack \/ TerminallyDrained \/ UndoDone
  <2>1. /\ op'.phase \in {"drain", "discard", "prepareStop", "stopPending"}
        /\ op'.changed = op.changed
        /\ op'.phase = "prepareStop" => op'.todo = op.changed /\ op.kind = "stop"
    BY <1>0, <1>11, EnterOp, EnterFinalizationOp
       DEF Prepared, RolledBack, TerminallyDrained, UndoDone, Phases, Roles, KindOK, OpRecords
  <2>2. CASE op'.phase = "prepareStop"
    BY <1>0, <2>1, <2>2 DEF DutiesInv, Vacated
  <2>3. QED
    BY <1>0, <1>1, <2>1, <2>2
<1>12. CASE Drained
  <2>1. /\ op'.changed = op.changed /\ op'.todo = op.changed /\ op.phase = "drain"
        /\ \/ op.kind = "reload" /\ op'.phase = "commit"
           \/ op.kind = "start" /\ op'.phase = "prepareStop"
    BY <1>0, <1>12, EnterOp DEF Drained, Phases
  <2>2. QED
    BY <1>0, <2>1 DEF DutiesInv, Vacated, KindOK
<1>13. CASE Resumed
  <2>1. /\ op'.phase = "retire" /\ op'.changed = op.changed /\ op'.todo = op.changed
        /\ op'.role = "retired" /\ op.phase = "resume" /\ op.kind = "reload"
    BY <1>0, <1>13, EnterFinalizationOp DEF Resumed, Phases, Roles, KindOK, OpRecords
  <2>2. QED
    BY <1>0, <2>1 DEF DutiesInv, Vacated, KindOK
<1>14. CASE StopPrepared
  <2>1. /\ op.phase = "prepareStop" /\ op.todo = {}
        /\ op'.changed = op.changed /\ op'.todo = op.changed
        /\ \/ op.kind = "stop" /\ op'.phase = "release" /\ op'.role = "candidate"
           \/ op.kind = "start" /\ op'.phase = "undo"
    BY <1>0, <1>14, EnterFinalizationOp DEF StopPrepared, Phases, Roles
  <2>2. QED
    BY <1>0, <2>1 DEF DutiesInv, Vacated, KindOK, Unresolved
<1>15. QED
  BY <1>5, <1>6, <1>7, <1>8, <1>10, <1>11, <1>12, <1>13, <1>14 DEF ControlActions, ControlOf

LEMMA EndDuties ==
    ASSUME KInv, DutiesInv, EndActions
    PROVE  DutiesInv'
<1> USE DEF KInv, Inv, TypeInv
<1>0. /\ op \in OpRecords /\ UNCHANGED <<candidate, retired, stopping, current>>
      /\ op'.kind = "none" /\ op'.phase = "idle" /\ kernelState' # "created"
  BY EndActionsAreEndSteps
     DEF EndStep, TypeOK, ownerVars, leaseVars, EndActions, RetireDone, ReleaseDone, StartDone,
         StartFailed, DiscardDone, TerminalDrainTimeout, StopPendingLeases
<1>1. kernelState' = "failed" => op.phase = "release" \/ kernelState = "failed"
  BY <1>0, FinishOp
     DEF EndActions, RetireDone, ReleaseDone, StartDone, StartFailed, DiscardDone, TerminalDrainTimeout
<1>2. QED
  BY <1>0, <1>1 DEF DutiesInv, Vacated

LEMMA BeginDuties ==
    ASSUME KInv, DutiesInv,
           \/ \E config \in Configs : BeginStart(config) \/ BeginReload(config)
           \/ BeginStop
    PROVE  DutiesInv'
<1> USE DEF KInv, Inv, TypeInv
<1>0. /\ op \in OpRecords /\ KindOK /\ op.kind = "none" /\ op.phase = "idle"
      /\ UNCHANGED <<candidate, retired, stopping, current>>
  BY DEF TypeOK, KindOK, BeginStart, BeginReload, BeginStop, StopPendingLeases, ownerVars, leaseVars
<1>1. ASSUME NEW config \in Configs, BeginStart(config) PROVE DutiesInv'
  <2>1. /\ op'.kind = "start" /\ op'.phase = "prepare" /\ op'.todo = Components
        /\ kernelState = "created" /\ kernelState' = kernelState
    BY <1>0, <1>1, BeginOp DEF BeginStart, kernelVars
  <2>2. QED
    BY <1>0, <2>1 DEF DutiesInv, Vacated
<1>2. ASSUME NEW config \in Configs, BeginReload(config) PROVE DutiesInv'
  <2>1. kernelState' = "running" /\ Changed(config) \subseteq Components
    BY <1>2 DEF BeginReload, Changed
  <2>2. \/ UNCHANGED op
        \/ /\ op'.kind = "reload" /\ op'.phase = "prepare"
           /\ \A c \in Components : ~Unresolved(c)
    BY <1>0, <1>2, <2>1, BeginOp DEF BeginReload
  <2>3. QED
    BY <1>0, <2>1, <2>2 DEF DutiesInv, Vacated, Unresolved
<1>3. CASE BeginStop
  <2>1. CASE UNCHANGED op
    BY <1>0, <1>3, <2>1 DEF BeginStop, DutiesInv, Vacated
  <2>2. CASE op' = [op EXCEPT !.kind = "stop", !.phase = "terminalDrain",
                              !.todo = Components, !.changed = Components,
                              !.failed = FALSE]
    <3>1. op'.kind = "stop" /\ op'.phase = "terminalDrain" /\ op'.changed = Components
      BY <1>0, <2>2 DEF OpRecords
    <3>2. kernelState' # "created" /\ (kernelState' = "failed" => kernelState = "failed")
      BY <1>3, <3>1, <1>0 DEF BeginStop
    <3>3. QED
      BY <1>0, <3>1, <3>2 DEF DutiesInv, Vacated
  <2>3. CASE op' = [op EXCEPT !.kind = "stop", !.phase = "release",
                              !.todo = Components, !.changed = Components,
                              !.role = "candidate", !.failed = FALSE]
    <3>1. /\ op'.kind = "stop" /\ op'.phase = "release" /\ op'.changed = Components
          /\ op'.todo = Components /\ op'.role = "candidate"
      BY <1>0, <2>3 DEF OpRecords
    <3>2. kernelState = "failed" /\ kernelState' = "failed"
      <4>1. op' # op
        BY <1>0, <3>1
      <4>2. op'.phase # "terminalDrain"
        BY <3>1
      <4>3. op' # [op EXCEPT !.kind = "stop", !.phase = "terminalDrain",
                             !.todo = Components, !.changed = Components,
                             !.failed = FALSE]
        BY <1>0, <4>2 DEF OpRecords
      <4>4. QED
        BY <1>3, <4>1, <4>3 DEF BeginStop
    <3>3. QED
      BY <1>0, <3>1, <3>2 DEF DutiesInv, Vacated
  <2>4. QED
    BY <1>3, <2>1, <2>2, <2>3 DEF BeginStop
<1>4. QED
  BY <1>1, <1>2, <1>3

\* Steps that leave the operation and the pointers alone, or move it on by one
\* component of a loop that has no duties.
LEMMA PlainDuties ==
    ASSUME KInv, DutiesInv, UNCHANGED <<candidate, retired, stopping, current, kernelState>>,
           \/ op' = op
           \/ /\ op'.kind = op.kind /\ op'.phase = op.phase /\ op'.changed = op.changed
              /\ op.phase \in {"rollback", "resume"}
           \/ \E c : op.phase = "discard" /\ op.kind = "start" /\ Enter("drain", op.changed)
    PROVE  DutiesInv'
<1> USE DEF KInv, Inv, TypeInv
<1>0. op \in OpRecords /\ KindOK /\ op.changed \in SUBSET Components
  BY DEF TypeOK, OpRecords
<1>1. CASE op' = op
  BY <1>1 DEF DutiesInv, Vacated, InReverse, Unresolved
<1>2. CASE /\ op'.kind = op.kind /\ op'.phase = op.phase /\ op'.changed = op.changed
           /\ op.phase \in {"rollback", "resume"}
  BY <1>0, <1>2 DEF DutiesInv, Vacated, KindOK
<1>3. CASE op.phase = "discard" /\ op.kind = "start" /\ Enter("drain", op.changed)
  <2>1. op'.kind = "start" /\ op'.phase = "drain"
    BY <1>0, <1>3, EnterOp DEF Phases
  <2>2. QED
    BY <1>0, <2>1 DEF DutiesInv, Vacated
<1>4. QED
  BY <1>1, <1>2, <1>3

LEMMA BuildDuties ==
    ASSUME KInv, DutiesInv, NEW c \in Components, Build(c)
    PROVE  DutiesInv'
<1> USE DEF KInv, Inv, TypeInv
<1>1. /\ op \in OpRecords /\ KindOK /\ op' = op /\ op.phase = "prepare" /\ c \in op.todo
      /\ op.todo \subseteq op.changed
      /\ UNCHANGED <<retired, stopping, current, kernelState>>
      /\ \A d \in Components : d # c => candidate'[d] = candidate[d]
  BY DEF Build, InOrder, TypeOK, leaseVars, kernelVars, SafetyInv, LoopInv
<1>2. QED
  BY <1>1 DEF DutiesInv, Vacated, KindOK

LEMMA PublishInitialDuties ==
    ASSUME KInv, DutiesInv, NEW c \in Components, PublishInitial(c)
    PROVE  DutiesInv'
<1> USE DEF KInv, Inv, TypeInv
<1>1. /\ op \in OpRecords /\ KindOK /\ op.phase = "prepare" /\ op.kind = "start"
      /\ op'.kind = op.kind /\ op'.phase = op.phase /\ op'.todo = op.todo \ {c}
      /\ UNCHANGED <<retired, stopping, kernelState>>
      /\ kernelState = "created"
      /\ \A d \in Components : candidate'[d] = IF d = c THEN None ELSE candidate[d]
  BY VisitedOp DEF PublishInitial, TypeOK, kernelVars, KindOK
<1>2. QED
  BY <1>1 DEF DutiesInv, Vacated

LEMMA CommitDuties ==
    ASSUME KInv, DutiesInv, NEW c \in Components, Commit(c)
    PROVE  DutiesInv'
<1> USE DEF KInv, Inv, TypeInv
<1>1. /\ op \in OpRecords /\ KindOK /\ op.phase = "commit" /\ op.kind = "reload"
      /\ op'.kind = op.kind /\ op'.phase = op.phase /\ op'.todo = op.todo \ {c}
      /\ op'.changed = op.changed /\ c \in op.todo /\ op.todo \subseteq op.changed
      /\ op.changed \subseteq Components
      /\ UNCHANGED <<stopping, kernelState>>
      /\ kernelState = "running"
      /\ \A d \in Components : candidate'[d] = IF d = c THEN None ELSE candidate[d]
      /\ \A d \in Components : d # c => retired'[d] = retired[d]
  BY VisitedOp DEF Commit, TypeOK, kernelVars, KindOK, OpRecords, InOrder, SafetyInv, LoopInv
<1>2. QED
  BY <1>1 DEF DutiesInv, Vacated

LEMMA CommittedDuties ==
    ASSUME KInv, DutiesInv, Committed
    PROVE  DutiesInv'
<1> USE DEF KInv, Inv, TypeInv
<1>1. op \in OpRecords /\ op.changed \in SUBSET Components /\ Enter("resume", op.changed)
  BY DEF Committed, TypeOK, OpRecords
<1>2. /\ KindOK /\ op.phase = "commit" /\ op.kind = "reload" /\ op.todo = {}
      /\ op'.kind = op.kind /\ op'.phase = "resume" /\ op'.changed = op.changed
      /\ UNCHANGED <<candidate, retired, stopping, current, kernelState>>
      /\ kernelState = "running"
  BY <1>1, EnterOp DEF Committed, kernelVars, ownerVars, leaseVars, KindOK, OpRecords, Phases
<1>3. QED
  BY <1>2 DEF DutiesInv, Vacated

LEMMA PrepareStopDuties ==
    ASSUME KInv, DutiesInv, NEW c \in Components, PrepareStop(c)
    PROVE  DutiesInv'
<1> USE DEF KInv, Inv, TypeInv
<1>1. /\ op \in OpRecords /\ KindOK /\ op.phase = "prepareStop" /\ op.kind \in {"start", "stop"}
      /\ op'.kind = op.kind /\ op'.phase = op.phase /\ op'.todo = op.todo \ {c}
      /\ op'.changed = op.changed
      /\ UNCHANGED <<candidate, retired, kernelState>>
      /\ \A d \in Components : current'[d] = IF d = c THEN None ELSE current[d]
  BY VisitedOp DEF PrepareStop, TypeOK, kernelVars, KindOK, OpRecords
<1>2. QED
  BY <1>1 DEF DutiesInv, Vacated

LEMMA FinalizeDuties ==
    ASSUME KInv, DutiesInv, NEW c \in Components, FinalizeWithoutCall(c) \/ FinalizerReturns(c)
    PROVE  DutiesInv'
<1> USE DEF KInv, Inv, TypeInv
<1>0. /\ op \in OpRecords /\ op.changed \in SUBSET Components /\ op.todo \in SUBSET Components
      /\ UNCHANGED <<current, kernelState>>
      /\ Finalizing /\ InReverse(c) /\ c \in op.todo /\ KindOK
      /\ op.role \in Roles
  BY DEF FinalizeWithoutCall, FinalizerReturns, InReverse, TypeOK, OpRecords, leaseVars, kernelVars
<1>1. PICK failed \in BOOLEAN :
        /\ NextDuty(c, failed)
        /\ IF failed THEN UNCHANGED <<candidate, retired, stopping>> ELSE DropOwner(op.role, c)
  BY DEF FinalizeWithoutCall, FinalizerReturns
<1>2. /\ \A d \in Components : candidate'[d] =
            IF d = c /\ ~failed /\ op.role = "candidate" THEN None ELSE candidate[d]
      /\ \A d \in Components : retired'[d] =
            IF d = c /\ ~failed /\ op.role = "retired" THEN None ELSE retired[d]
      /\ \A d \in Components : stopping'[d] =
            IF d = c /\ ~failed /\ op.role = "stopping" THEN None ELSE stopping[d]
  BY <1>1 DEF DropOwner, TypeOK
<1>3. /\ op'.kind = op.kind /\ op'.phase = op.phase /\ op'.changed = op.changed
      /\ op'.failed = (op.failed \/ failed)
  BY <1>0, <1>1, NextDutyOp, NextDutyTurn
<1>4. CASE op.phase \in {"discard", "undo"}
  BY <1>0, <1>2, <1>3, <1>4 DEF DutiesInv, Vacated, KindOK
<1>5. CASE op.phase = "retire"
  <2>1. op'.role = op.role /\ op'.todo = op.todo \ {c}
    BY <1>0, <1>1, <1>5, NextDutyTurn
  <2>2. op.kind = "reload"
    BY <1>0, <1>5 DEF KindOK, OpRecords
  <2>3. QED
    BY ZenonT(30), <1>0, <1>2, <1>3, <1>5, <2>1, <2>2 DEF DutiesInv, Vacated, KindOK
<1>6. CASE op.phase = "release"
  <2>1. /\ op.role = "candidate" => op'.role = "retired" /\ op'.todo = op.todo
        /\ op.role = "retired" => op'.role = "stopping" /\ op'.todo = op.todo
        /\ op.role = "stopping" => op'.role = "candidate" /\ op'.todo = op.todo \ {c}
    BY <1>0, <1>1, <1>6, NextDutyTurn
  <2>2. op.kind = "stop"
    BY <1>0, <1>6 DEF KindOK, OpRecords
  <2>3. ~op'.failed => ~op.failed /\ ~failed
    BY <1>0, <1>3 DEF OpRecords
  <2>4. ASSUME ~op'.failed PROVE \A d \in Components \ op'.todo : ~Unresolved(d)'
    <3>1. \A d \in Components : ~Unresolved(d) => ~Unresolved(d)'
      BY <1>2 DEF Unresolved
    <3>2. op.role = "stopping" => ~Unresolved(c)'
      BY <1>0, <1>2, <1>6, <2>3, <2>4 DEF DutiesInv, Unresolved
    <3>3. QED
      BY <1>0, <1>6, <2>1, <2>3, <2>4, <3>1, <3>2 DEF DutiesInv, Roles
  <2>5. ASSUME ~op'.failed, NEW d \in op'.todo, InReverse(d)'
        PROVE  /\ op'.role # "candidate" => candidate'[d] = None
               /\ op'.role = "stopping" => retired'[d] = None
    <3>1. CASE op.role = "stopping"
      BY <2>1, <3>1
    <3>2. CASE op.role # "stopping"
      <4>1. InReverse(d)
        BY <1>0, <2>1, <2>5, <3>2 DEF InReverse, Roles
      <4>2. d = c
        BY <1>0, <4>1, LastIsOne
      <4>3. QED
        BY <1>0, <1>2, <1>6, <2>1, <2>3, <2>5, <3>2, <4>2 DEF DutiesInv, Roles
    <3>3. QED
      BY <3>1, <3>2
  <2>6. QED
    BY <1>0, <1>2, <1>3, <1>6, <2>2, <2>4, <2>5 DEF DutiesInv, Vacated
<1>7. QED
  BY <1>0, <1>4, <1>5, <1>6 DEF Finalizing

LEMMA DutiesStep ==
    ASSUME KInv, DutiesInv, [Next]_vars
    PROVE  DutiesInv'
<1> USE DEF KInv, Inv, TypeInv
<1>1. CASE UNCHANGED vars
  BY <1>1, PlainDuties DEF vars, leaseVars, ownerVars, kernelVars
<1>2. CASE KernelStep \/ Timeout
  <2>1. CASE ControlActions \/ EndActions \/ Committed
    BY <2>1, ControlDuties, EndDuties, CommittedDuties
  <2>2. CASE DiscardDone
    <3>1. CASE op.kind = "start"
      <4>1. op.phase = "discard" /\ Enter("drain", op.changed)
        BY <2>2, <3>1 DEF DiscardDone
      <4>2. UNCHANGED <<candidate, retired, stopping, current, kernelState>>
        BY <2>2, <3>1 DEF DiscardDone, ownerVars, leaseVars
      <4>3. QED
        BY <3>1, <4>1, <4>2, PlainDuties
    <3>2. CASE op.kind # "start"
      BY <2>1, <2>2, <3>2 DEF DiscardDone, EndActions
    <3>3. QED
      BY <3>1, <3>2
  <2>3. ASSUME NEW c \in Components, Rollback(c) \/ Resume(c) PROVE DutiesInv'
    <3>1. op \in OpRecords /\ Visited(c) /\ op.phase \in {"rollback", "resume"}
      BY <2>3 DEF Rollback, Resume, TypeOK
    <3>2. op'.kind = op.kind /\ op'.phase = op.phase /\ op'.changed = op.changed
      BY <3>1, VisitedOp
    <3>3. UNCHANGED <<candidate, retired, stopping, current, kernelState>>
      BY <2>3 DEF Rollback, Resume, ResumeLease, ownerVars, kernelVars
    <3>4. QED
      BY <3>1, <3>2, <3>3, PlainDuties
  <2>4. ASSUME NEW c \in Components, DrainBegin(c) \/ TerminalDrainBegin(c) \/ FinalizerBegins(c)
        PROVE  DutiesInv'
    <3>1. UNCHANGED <<candidate, retired, stopping, current, kernelState>> /\ op' = op
      BY <2>4 DEF DrainBegin, TerminalDrainBegin, FinalizerBegins, StartDrain, ownerVars, kernelVars,
                  leaseVars
    <3>2. QED
      BY <3>1, PlainDuties
  <2>5. ASSUME NEW c \in Components,
               \/ Build(c) \/ PublishInitial(c) \/ Commit(c) \/ PrepareStop(c)
               \/ FinalizeWithoutCall(c) \/ FinalizerReturns(c)
        PROVE  DutiesInv'
    BY <2>5, BuildDuties, PublishInitialDuties, CommitDuties, PrepareStopDuties, FinalizeDuties
  <2>6. QED
    BY <1>2, <2>1, <2>2, <2>3, <2>4, <2>5
       DEF KernelStep, Timeout, Preparation, Draining, Switching, Stopping,
           Finalization, ControlActions, ControlOf, EndActions
<1>3. CASE UserNext
  <2>1. UNCHANGED <<candidate, retired, stopping, current, kernelState>> /\ op' = op
    BY <1>3 DEF UserNext, UserStep, Request, Release, AcquireServing, AcquireWaits, AcquireRefused,
                AcquireCancelled, leaseVars, ownerVars, kernelVars
  <2>2. QED
    BY <2>1, PlainDuties
<1>4. CASE \/ \E config \in Configs : BeginStart(config) \/ BeginReload(config)
           \/ BeginStop
  BY <1>4, BeginDuties
<1>5. QED
  BY <1>1, <1>2, <1>3, <1>4 DEF Next

-----------------------------------------------------------------------------
(* What an operation of the kernel comes to, seen by its caller.           *)

SwitchedPhase == {"resume", "retire"}

Goes ==
    /\ op'.kind = op.kind /\ op'.config = op.config /\ kernelState' = kernelState
    /\ \/ snapshot' = snapshot /\ (op'.phase \in SwitchedPhase <=> op.phase \in SwitchedPhase)
       \/ /\ op.kind = "reload" /\ op'.phase \in SwitchedPhase /\ snapshot' = op.config

Ends ==
    \/ /\ op.kind = "start" /\ outcome' = "ok" /\ kernelState' = "running" /\ snapshot' = op.config
       /\ AllResolved'
    \/ op.kind = "start" /\ outcome' = "start-failed" /\ kernelState' = "stopped"
    \/ /\ op.kind = "reload" /\ outcome' \in {"ok", "cleanup-failed"} /\ op.phase \in SwitchedPhase
       /\ kernelState' = kernelState /\ snapshot' = snapshot
       /\ outcome' = "ok" => AllResolved'
    \/ /\ op.kind = "reload" /\ outcome' = "rejected" /\ op.phase \notin SwitchedPhase
       /\ kernelState' = kernelState /\ snapshot' = snapshot
    \/ op.kind = "stop" /\ outcome' = "ok" /\ kernelState' = "stopped" /\ AllResolved' /\ Vacated'
    \/ op.kind = "stop" /\ outcome' = "stop-failed" /\ kernelState' = "failed"
    \/ op.kind = "stop" /\ outcome' = "drain-incomplete" /\ kernelState' = kernelState

Works ==
    /\ op.kind # "none"
    /\ Goes \/ (op'.kind = "none" /\ Ends)
    /\ op.kind = "stop" => UNCHANGED <<nextGeneration, currentDigest>>

LEMMA ControlGoes ==
    ASSUME KInv, ControlActions
    PROVE  Goes
<1> USE DEF KInv, Inv, TypeInv
<1>0. /\ op \in OpRecords /\ op.changed \in SUBSET Components /\ op.todo \in SUBSET Components
      /\ UNCHANGED <<snapshot, kernelState>> /\ op'.kind = op.kind /\ KindOK
  BY ControlActionsAreControlSteps DEF ControlStep, SameOperation, TypeOK, OpRecords, kernelVars
<1>1. ASSUME op'.config = op.config, op'.phase \in SwitchedPhase <=> op.phase \in SwitchedPhase
      PROVE  Goes
  BY <1>0, <1>1 DEF Goes
<1>2. ASSUME NEW c \in Components, CandidateReady(c) \/ DrainDone(c) \/ TerminalDrainDone(c)
      PROVE  Goes
  <2>1. op'.config = op.config /\ op'.phase = op.phase
    BY <1>0, <1>2, VisitedOp DEF CandidateReady, DrainDone, TerminalDrainDone
  <2>2. QED
    BY <1>1, <2>1
<1>3. ASSUME NEW c \in Components, PrepareFails(c) PROVE Goes
  <2>1. op'.config = op.config /\ op'.phase = "discard" /\ op.phase = "prepare"
    BY <1>0, <1>3 DEF PrepareFails, EnterFinalization, OpRecords
  <2>2. QED
    BY <1>1, <2>1 DEF SwitchedPhase
<1>4. ASSUME NEW c \in Components, DrainTimeout(c) PROVE Goes
  <2>1. op'.config = op.config /\ op'.phase \in {"rollback", "stopPending"} /\ op.phase = "drain"
    BY <1>0, <1>4, EnterOp DEF DrainTimeout, Phases
  <2>2. QED
    BY <1>1, <2>1 DEF SwitchedPhase
<1>5. ASSUME NEW c \in Components, NothingToFinalize(c) \/ CachedFailure(c) PROVE Goes
  <2>1. op'.config = op.config /\ op'.phase = op.phase
    BY <1>0, <1>5, NextDutyOp DEF NothingToFinalize, CachedFailure
  <2>2. QED
    BY <1>1, <2>1
<1>6. CASE Prepared \/ Drained \/ TerminallyDrained \/ UndoDone
  <2>1. /\ op'.config = op.config /\ op'.phase \in {"drain", "commit", "prepareStop", "stopPending"}
        /\ op.phase \in {"prepare", "drain", "terminalDrain", "undo"}
    BY <1>0, <1>6, EnterOp DEF Prepared, Drained, TerminallyDrained, UndoDone, Phases
  <2>2. QED
    BY <1>1, <2>1 DEF SwitchedPhase
<1>7. CASE RolledBack \/ StopPrepared
  <2>1. /\ op'.config = op.config /\ op'.phase \in {"discard", "release", "undo"}
        /\ op.phase \in {"rollback", "prepareStop"}
    BY <1>0, <1>7, EnterFinalizationOp DEF RolledBack, StopPrepared, Phases, Roles
  <2>2. QED
    BY <1>1, <2>1 DEF SwitchedPhase
<1>8. CASE Resumed
  <2>1. op'.config = op.config /\ op'.phase = "retire" /\ op.phase = "resume"
    BY <1>0, <1>8, EnterFinalizationOp DEF Resumed, Phases, Roles
  <2>2. QED
    BY <1>1, <2>1 DEF SwitchedPhase
<1>9. QED
  BY <1>2, <1>3, <1>4, <1>5, <1>6, <1>7, <1>8 DEF ControlActions, ControlOf

LEMMA EndEnds ==
    ASSUME KInv, DutiesInv, EndActions
    PROVE  op'.kind = "none" /\ Ends
<1> USE DEF KInv, Inv, TypeInv
<1>0. /\ op \in OpRecords /\ KindOK /\ op'.kind = "none"
      /\ UNCHANGED <<candidate, retired, stopping, current>>
  BY EndActionsAreEndSteps
     DEF EndStep, TypeOK, ownerVars, leaseVars, EndActions, RetireDone, ReleaseDone, StartDone,
         StartFailed, DiscardDone, TerminalDrainTimeout, StopPendingLeases
<1>1. (AllResolved <=> AllResolved') /\ (Vacated <=> Vacated')
  BY <1>0 DEF AllResolved, Vacated, Unresolved
<1>2. CASE RetireDone
  <2>1. /\ op.phase = "retire" /\ op.todo = {} /\ op.kind = "reload"
        /\ outcome' = IF op.failed THEN "cleanup-failed" ELSE "ok"
        /\ UNCHANGED <<kernelState, snapshot>>
    BY <1>0, <1>2 DEF RetireDone, Finish, KindOK, OpRecords
  <2>2. ~op.failed => AllResolved
    BY <2>1 DEF DutiesInv, AllResolved, Unresolved
  <2>3. QED
    BY <1>0, <1>1, <2>1, <2>2 DEF Ends, SwitchedPhase
<1>3. CASE ReleaseDone
  <2>1. /\ op.phase = "release" /\ op.todo = {} /\ op.kind = "stop"
        /\ \/ op.failed /\ outcome' = "stop-failed" /\ kernelState' = "failed"
           \/ ~op.failed /\ outcome' = "ok" /\ kernelState' = "stopped"
    BY <1>0, <1>3 DEF ReleaseDone, Finish, KindOK, OpRecords
  <2>2. Vacated /\ (~op.failed => AllResolved)
    BY <2>1 DEF DutiesInv, AllResolved
  <2>3. QED
    BY <1>0, <1>1, <2>1, <2>2 DEF Ends
<1>4. CASE StartDone
  <2>1. /\ op.phase = "prepare" /\ op.todo = {} /\ op.kind = "start" /\ kernelState = "created"
        /\ outcome' = "ok" /\ kernelState' = "running" /\ snapshot' = op.config
    BY <1>0, <1>4 DEF StartDone, Finish, KindOK
  <2>2. AllResolved
    BY <2>1 DEF DutiesInv, AllResolved, Unresolved
  <2>3. QED
    BY <1>0, <1>1, <2>1, <2>2 DEF Ends
<1>5. CASE StartFailed
  <2>1. op.kind = "start" /\ outcome' = "start-failed" /\ kernelState' = "stopped"
    BY <1>0, <1>5 DEF StartFailed, Finish, KindOK, OpRecords
  <2>2. QED
    BY <1>0, <2>1 DEF Ends
<1>6. CASE DiscardDone /\ op.kind = "reload"
  <2>1. /\ op.phase = "discard" /\ outcome' = "rejected" /\ UNCHANGED <<kernelState, snapshot>>
    BY <1>0, <1>6 DEF DiscardDone, Finish
  <2>2. QED
    BY <1>0, <1>6, <2>1 DEF Ends, SwitchedPhase
<1>7. ASSUME NEW c \in Components, TerminalDrainTimeout(c) PROVE Ends
  <2>1. op.kind = "stop" /\ outcome' = "drain-incomplete" /\ kernelState' = kernelState
    BY <1>0, <1>7 DEF TerminalDrainTimeout, Finish, KindOK, OpRecords
  <2>2. QED
    BY <2>1 DEF Ends
<1>8. QED
  BY <1>0, <1>2, <1>3, <1>4, <1>5, <1>6, <1>7 DEF EndActions

LEMMA KernelWorks ==
    ASSUME KInv, DutiesInv, KernelStep \/ Timeout
    PROVE  Works
<1> USE DEF KInv, Inv, TypeInv
<1>0. op \in OpRecords /\ KindOK /\ op.changed \in SUBSET Components
  BY DEF TypeOK, OpRecords
<1>1. op.kind # "none"
  BY <1>0 DEF KindOK, KernelStep, Timeout, Preparation, Draining, Switching, Stopping, Finalization,
     Build, PublishInitial, CandidateReady, PrepareFails, StartDone, Prepared, DrainBegin, DrainDone,
     Rollback, Drained, RolledBack, Commit, Resume, Committed, Resumed, TerminalDrainBegin,
     TerminalDrainDone, PrepareStop, TerminallyDrained, StopPrepared, NothingToFinalize,
     CachedFailure, FinalizeWithoutCall, FinalizerBegins, FinalizerReturns, DiscardDone, RetireDone,
     ReleaseDone, UndoDone, StartFailed, DrainTimeout, TerminalDrainTimeout, Finalizing
<1>2. op.kind = "stop" => UNCHANGED <<nextGeneration, currentDigest>>
  <2>1. CASE \E c \in Components : Build(c) \/ PublishInitial(c) \/ Commit(c)
    BY <1>0, <2>1 DEF Build, PublishInitial, Commit, KindOK
  <2>2. CASE ~\E c \in Components : Build(c) \/ PublishInitial(c) \/ Commit(c)
    BY <2>2 DEF KernelStep, Timeout, Preparation, Draining, Switching, Stopping, Finalization,
       CandidateReady, PrepareFails, StartDone, Prepared, DrainBegin, DrainDone,
       Rollback, Drained, RolledBack, Resume, Committed, Resumed, TerminalDrainBegin,
       TerminalDrainDone, PrepareStop, TerminallyDrained, StopPrepared, NothingToFinalize,
       CachedFailure, FinalizeWithoutCall, FinalizerBegins, FinalizerReturns, DiscardDone, RetireDone,
       ReleaseDone, UndoDone, StartFailed, DrainTimeout, TerminalDrainTimeout, ownerVars
  <2>3. QED
    BY <2>1, <2>2
<1>3. CASE ControlActions \/ EndActions
  BY <1>1, <1>2, <1>3, ControlGoes, EndEnds DEF Works
<1>4. CASE Committed
  <2>1. /\ op'.kind = op.kind /\ op'.config = op.config /\ op'.phase = "resume" /\ op.phase = "commit"
        /\ kernelState' = kernelState /\ snapshot' = op.config
    BY <1>0, <1>4, EnterOp DEF Committed, Phases
  <2>2. op.kind = "reload"
    BY <1>0, <2>1 DEF KindOK, OpRecords
  <2>3. QED
    BY <1>1, <1>2, <2>1, <2>2 DEF Works, Goes, SwitchedPhase
<1>5. CASE DiscardDone /\ op.kind = "start"
  <2>1. /\ op'.kind = op.kind /\ op'.config = op.config /\ op'.phase = "drain" /\ op.phase = "discard"
        /\ kernelState' = kernelState /\ snapshot' = snapshot
    BY <1>0, <1>5, EnterOp DEF DiscardDone, Phases
  <2>2. QED
    BY <1>1, <1>2, <2>1 DEF Works, Goes, SwitchedPhase
<1>6. ASSUME NEW c \in Components,
             \/ Build(c) \/ PublishInitial(c) \/ Commit(c) \/ PrepareStop(c)
             \/ DrainBegin(c) \/ TerminalDrainBegin(c) \/ Rollback(c) \/ Resume(c)
             \/ FinalizeWithoutCall(c) \/ FinalizerBegins(c) \/ FinalizerReturns(c)
      PROVE  Works
  <2>1. CASE Build(c) \/ DrainBegin(c) \/ TerminalDrainBegin(c) \/ FinalizerBegins(c)
    <3>1. op' = op /\ UNCHANGED <<kernelState, snapshot>>
      BY <2>1 DEF Build, DrainBegin, TerminalDrainBegin, FinalizerBegins, kernelVars
    <3>2. QED
      BY <1>1, <1>2, <3>1 DEF Works, Goes
  <2>2. CASE PublishInitial(c) \/ Commit(c) \/ PrepareStop(c) \/ Rollback(c) \/ Resume(c)
    <3>1. Visited(c) /\ UNCHANGED <<kernelState, snapshot>>
      BY <2>2 DEF PublishInitial, Commit, PrepareStop, Rollback, Resume, kernelVars
    <3>2. QED
      BY <1>0, <1>1, <1>2, <3>1, VisitedOp DEF Works, Goes
  <2>3. CASE FinalizeWithoutCall(c) \/ FinalizerReturns(c)
    <3>1. (\E failed \in BOOLEAN : NextDuty(c, failed)) /\ UNCHANGED <<kernelState, snapshot>>
      BY <2>3 DEF FinalizeWithoutCall, FinalizerReturns, kernelVars
    <3>2. QED
      BY <1>0, <1>1, <1>2, <3>1, NextDutyOp DEF Works, Goes
  <2>4. QED
    BY <1>6, <2>1, <2>2, <2>3
<1>7. QED
  BY <1>3, <1>4, <1>5, <1>6
     DEF KernelStep, Timeout, Preparation, Draining, Switching, Stopping,
         Finalization, ControlActions, ControlOf, EndActions, DiscardDone

-----------------------------------------------------------------------------
(* The two together.                                                       *)

LEMMA IncompleteFrame ==
    ASSUME UNCHANGED <<candidate, retired, stopping, current, slotState>>
    PROVE  IncompleteOwnership' = IncompleteOwnership
BY DEF IncompleteOwnership

LEMMA SettledFrame ==
    ASSUME UNCHANGED <<candidate, retired, stopping, current>>
    PROVE  AllResolved' = AllResolved /\ Vacated' = Vacated
BY DEF AllResolved, Vacated, Unresolved

\* A running kernel between operations, with no responsibility left over, has
\* nothing incomplete: all its instances serve.
LEMMA IdleIsComplete ==
    ASSUME KInv, kernelState = "running", op.kind = "none", AllResolved
    PROVE  ~IncompleteOwnership
<1>1. \A c \in Components : slotState[c][current[c]] = "serving"
  BY AllOrNothing DEF ReloadIsAllOrNothing
<1>2. QED
  BY <1>1 DEF IncompleteOwnership, AllResolved, Unresolved

LEMMA NothingIsComplete ==
    ASSUME AllResolved, Vacated
    PROVE  ~IncompleteOwnership
BY DEF AllResolved, Vacated, Unresolved, IncompleteOwnership

\* A failed finalizer belongs to an instance that a pointer still names.
LEMMA FailedIsIncomplete ==
    ASSUME KInv, NEW c \in Components, NEW g \in Generations, slotState[c][g] = "terminal-failed"
    PROVE  IncompleteOwnership
<1> USE DEF KInv, Inv, TypeInv
<1>1. g # None
  BY PlanAssumption DEF Generations, None
<1>2. g \in Pointers(c)
  <2>1. g <= nextGeneration[c] \/ g > nextGeneration[c]
    BY PointersBuilt DEF Generations
  <2>2. QED
    BY <2>1 DEF GateInv, FreshInv, WholeInv, OwnersInv
<1>3. QED
  BY <1>1, <1>2 DEF Pointers, IncompleteOwnership

LEMMA UserKeeps ==
    ASSUME UserNext
    PROVE  UNCHANGED <<candidate, retired, stopping, current, slotState, kernelState, snapshot,
                       outcome, op, nextGeneration, currentDigest>>
BY DEF UserNext, UserStep, Request, Release, AcquireServing, AcquireWaits, AcquireRefused,
       AcquireCancelled, leaseVars, ownerVars, kernelVars, slotVars

AllInv == KInv /\ AgreementInv

\* Steps that the kernel takes no part in, apart from goroutines in Use.
Aside == UNCHANGED <<candidate, retired, stopping, current, slotState, kernelState, snapshot,
                     outcome, op>>

LEMMA AsideKeeps ==
    ASSUME Aside
    PROVE  /\ IncompleteOwnership' = IncompleteOwnership
           /\ AllResolved' = AllResolved /\ Vacated' = Vacated /\ Switched' = Switched
BY IncompleteFrame, SettledFrame DEF Aside, Switched

LEMMA CoordinatorType ==
    ASSUME AllInv, TypeOK', CoordinatorNext
    PROVE  CoordinatorTypeOK'
<1> USE DEF AllInv, AgreementInv, CoordinatorTypeOK, LifecycleStates
<1>1. ASSUME NEW config \in Configs, Start(config) \/ Reload(config) \/ ReloadExternal(config)
      PROVE  CoordinatorTypeOK'
  BY <1>1 DEF Start, Reload, ReloadExternal
<1>2. CASE StartNotLoaded \/ Stop \/ KernelRuns
  BY <1>2 DEF StartNotLoaded, Stop, KernelRuns, coordinatorVars
<1>3. CASE StartReturns
  <2>1. (cleanupRequired \/ IncompleteOwnership) \in BOOLEAN
    BY DEF IncompleteOwnership
  <2>2. QED
    BY <1>3, <2>1 DEF StartReturns
<1>4. CASE ReloadReturns \/ StopEnds
  BY <1>4 DEF ReloadReturns, StopEnds
<1>5. QED
  BY <1>1, <1>2, <1>3, <1>4 DEF CoordinatorNext

\* What the coordinator keeps besides the kernel's own state.
PartsInv == RunningMeansClean /\ TurnsInv /\ PublishedInv

LEMMA UserAgrees ==
    ASSUME AllInv, Aside, UNCHANGED coordinatorVars
    PROVE  PartsInv'
BY AsideKeeps
   DEF AllInv, AgreementInv, PartsInv, RunningMeansClean, TurnsInv, PublishedInv, Aside, coordinatorVars

LEMMA KernelAgrees ==
    ASSUME AllInv, KernelStep \/ Timeout, UNCHANGED coordinatorVars
    PROVE  PartsInv'
<1> USE DEF AllInv, AgreementInv, coordinatorVars
<1>0. Works
  BY KernelWorks
<1>1. <<lifecycle, op.kind>> \in {<<"starting", "start">>, <<"reloading", "reload">>, <<"draining", "stop">>}
  BY <1>0 DEF TurnsInv, Works
<1>2. lifecycle \in {"starting", "reloading", "draining"}
  BY <1>1
<1>3. RunningMeansClean'
  BY <1>2 DEF RunningMeansClean
<1>4. TurnsInv'
  BY <1>0, <1>1, <1>2 DEF TurnsInv, Works, Goes, Ends
<1>5. KindOK /\ KindOK'
  <2>1. [Next]_vars
    BY DEF Next
  <2>2. QED
    BY <2>1, NextTypeInv DEF KInv, Inv, TypeInv
<1>6. PublishedInv'
  <2>1. CASE Goes
    <3>1. op'.kind # "none" /\ (Switched' <=> op'.phase \in SwitchedPhase) /\ (Switched <=> op.phase \in SwitchedPhase)
      BY <1>0, <2>1 DEF Works, Goes, Switched, SwitchedPhase
    <3>2. lifecycle = "reloading" => snapshot' = IF Switched' THEN loaded ELSE configDigest
      BY <1>1, <2>1, <3>1 DEF Goes, PublishedInv
    <3>3. kernelState' # "stopped"
      BY <1>1, <1>5, <2>1, <3>1 DEF KindOK, Goes
    <3>4. QED
      BY <1>1, <1>2, <2>1, <3>1, <3>2, <3>3 DEF PublishedInv, Goes
  <2>2. CASE op'.kind = "none" /\ Ends
    <3>1. op'.phase = "idle"
      BY <1>5, <2>2 DEF KindOK
    <3>2. Switched' <=> outcome' \in {"ok", "cleanup-failed"}
      BY <2>2, <3>1 DEF Switched
    <3>3. Switched <=> op.phase \in SwitchedPhase
      BY <1>0 DEF Works, Switched, SwitchedPhase
    <3>4. CASE op.kind = "start"
      BY <1>1, <1>5, <2>2, <3>4 DEF PublishedInv, Ends, KindOK
    <3>5. CASE op.kind = "reload"
      BY <1>1, <1>5, <2>2, <3>2, <3>3, <3>5 DEF PublishedInv, Ends, KindOK
    <3>6. CASE op.kind = "stop"
      BY <1>1, <1>5, <2>2, <3>6 DEF PublishedInv, Ends, KindOK
    <3>7. QED
      BY <1>1, <3>4, <3>5, <3>6
  <2>3. QED
    BY <1>0, <2>1, <2>2 DEF Works
<1>7. QED
  BY <1>3, <1>4, <1>6 DEF PartsInv

LEMMA StartAgrees ==
    ASSUME AllInv, NEW config \in Configs, Start(config)
    PROVE  PartsInv'
<1> USE DEF AllInv, AgreementInv, KInv, Inv, TypeInv
<1>1. /\ op'.kind = "start" /\ op'.config = config /\ kernelState' = "created"
      /\ lifecycle = "new" /\ lifecycle' = "starting" /\ loaded' = config
      /\ UNCHANGED <<serviceReady, cleanupRequired, configDigest>>
  BY BeginOp DEF Start, BeginStart, kernelVars, TypeOK
<1>2. QED
  BY <1>1 DEF PartsInv, RunningMeansClean, TurnsInv, PublishedInv

LEMMA ReloadAgrees ==
    ASSUME AllInv, NEW config \in Configs, Reload(config)
    PROVE  PartsInv'
<1> USE DEF AllInv, AgreementInv, KInv, Inv, TypeInv
<1>1. /\ op.kind = "none" /\ op.phase = "idle" /\ kernelState = "running" /\ kernelState' = "running"
      /\ lifecycle = "running" /\ lifecycle' = "reloading" /\ loaded' = config
      /\ ~cleanupRequired /\ UNCHANGED <<cleanupRequired, configDigest>>
      /\ snapshot = configDigest
      /\ UNCHANGED <<candidate, retired, stopping, current>>
  BY DEF Reload, ReloadAdmitted, BeginReload, RunningMeansClean, KindOK, ownerVars, leaseVars
<1>2. AllResolved' = AllResolved
  BY <1>1, SettledFrame
<1>3. RunningMeansClean'
  BY <1>1 DEF RunningMeansClean
<1>4. CASE op' = op
  <2>1. \/ outcome' = "rejected" /\ snapshot' = snapshot
        \/ outcome' = "restart-required" /\ snapshot' = snapshot /\ AllResolved
        \/ outcome' = "ok" /\ snapshot' = config /\ AllResolved
        \/ op'.kind = "reload"
    <3>1. op \in OpRecords /\ Changed(config) \in SUBSET Components
      BY DEF TypeOK, Changed
    <3>2. QED
      BY <3>1, BeginOp DEF Reload, BeginReload, AllResolved
  <2>2. op'.kind = "none" /\ op'.phase = "idle"
    BY <1>1, <1>4
  <2>3. Switched' <=> outcome' = "ok" \/ outcome' = "cleanup-failed"
    BY <2>2 DEF Switched
  <2>4. QED
    BY <1>1, <1>2, <1>3, <2>1, <2>2, <2>3 DEF PartsInv, TurnsInv, PublishedInv
<1>5. CASE op' # op
  <2>1. op \in OpRecords /\ Changed(config) \in SUBSET Components
    BY DEF TypeOK, Changed
  <2>2. op'.kind = "reload" /\ op'.phase = "prepare" /\ op'.config = config /\ snapshot' = snapshot
    BY <1>5, <2>1, BeginOp DEF Reload, BeginReload
  <2>3. ~Switched'
    BY <2>2 DEF Switched
  <2>4. QED
    BY <1>1, <1>3, <2>2, <2>3 DEF PartsInv, TurnsInv, PublishedInv
<1>6. QED
  BY <1>4, <1>5

LEMMA StopAgrees ==
    ASSUME AllInv, Stop
    PROVE  PartsInv'
<1> USE DEF AllInv, AgreementInv, KInv, Inv, TypeInv
<1>1. /\ op.kind = "none" /\ lifecycle' = "draining" /\ ~serviceReady'
      /\ UNCHANGED <<cleanupRequired, configDigest>>
      /\ UNCHANGED <<candidate, retired, stopping, current, snapshot>>
  BY DEF Stop, BeginStop, StopPendingLeases, ownerVars, leaseVars
<1>2. /\ op'.kind = "none" \/ op'.kind = "stop"
      /\ op'.kind = "none" => kernelState \in {"stopped", "created"} /\ kernelState' = "stopped"
      /\ kernelState' = "stopped" => kernelState \in {"stopped", "created"}
      /\ kernelState' # "created"
  <2>1. op \in OpRecords
    BY DEF TypeOK
  <2>2. CASE kernelState \in {"stopped", "created"}
    BY <1>1, <2>2 DEF Stop, BeginStop
  <2>3. CASE kernelState \in {"running", "draining"}
    <3>1. /\ op' = [op EXCEPT !.kind = "stop", !.phase = "terminalDrain",
                              !.todo = Components, !.changed = Components,
                              !.failed = FALSE]
          /\ kernelState' = "draining"
      BY <2>3 DEF Stop, BeginStop
    <3>2. op'.kind = "stop"
      BY <2>1, <3>1 DEF OpRecords
    <3>3. QED
      BY <3>1, <3>2
  <2>4. CASE kernelState = "failed"
    <3>1. /\ op' = [op EXCEPT !.kind = "stop", !.phase = "release",
                              !.todo = Components, !.changed = Components,
                              !.role = "candidate", !.failed = FALSE]
          /\ kernelState' = kernelState
      BY <2>4 DEF Stop, BeginStop
    <3>2. op'.kind = "stop"
      BY <2>1, <3>1 DEF OpRecords
    <3>3. QED
      BY <2>4, <3>1, <3>2
  <2>5. QED
    BY <2>2, <2>3, <2>4 DEF TypeOK, KernelStates
<1>3. AllResolved' = AllResolved /\ Vacated' = Vacated
  BY <1>1, SettledFrame
<1>4. QED
  BY <1>1, <1>2, <1>3 DEF PartsInv, RunningMeansClean, TurnsInv, PublishedInv

LEMMA ReturnsAgree ==
    ASSUME AllInv,
           \/ StartNotLoaded \/ StartReturns \/ ReloadReturns \/ StopEnds
           \/ \E config \in Configs : ReloadExternal(config)
    PROVE  PartsInv'
<1> USE DEF AllInv, AgreementInv
<1>0. Aside
  BY DEF StartNotLoaded, StartReturns, ReloadReturns, StopEnds, ReloadExternal, Aside, vars,
         leaseVars, ownerVars, slotVars, kernelVars
<1>1. /\ IncompleteOwnership' = IncompleteOwnership
      /\ AllResolved' = AllResolved /\ Vacated' = Vacated /\ Switched' = Switched
      /\ UNCHANGED <<kernelState, snapshot, outcome, op>>
  BY <1>0, AsideKeeps DEF Aside
<1>2. CASE StartNotLoaded
  BY <1>1, <1>2 DEF StartNotLoaded, PartsInv, RunningMeansClean, TurnsInv, PublishedInv
<1>3. ASSUME NEW config \in Configs, ReloadExternal(config) PROVE PartsInv'
  BY <1>1, <1>3 DEF ReloadExternal, PartsInv, RunningMeansClean, TurnsInv, PublishedInv
<1>4. CASE StartReturns
  <2>1. lifecycle = "starting" /\ op.kind = "none" /\ ~cleanupRequired
    BY <1>4 DEF StartReturns, TurnsInv
  <2>2. CASE outcome = "ok"
    <3>1. kernelState = "running" /\ snapshot = loaded /\ ~IncompleteOwnership
      BY <2>1, <2>2, IdleIsComplete DEF PublishedInv
    <3>2. QED
      BY <1>1, <1>4, <2>1, <2>2, <3>1 DEF StartReturns, PartsInv, RunningMeansClean, TurnsInv, PublishedInv
  <2>3. CASE outcome = "start-failed"
    BY <1>1, <1>4, <2>1, <2>3 DEF StartReturns, PartsInv, RunningMeansClean, TurnsInv, PublishedInv
  <2>4. QED
    BY <1>4, <2>2, <2>3 DEF StartReturns
<1>5. CASE ReloadReturns
  <2>1. /\ lifecycle = "reloading" /\ op.kind = "none" /\ ~cleanupRequired
        /\ kernelState = "running" /\ op.phase = "idle"
    BY <1>5 DEF ReloadReturns, TurnsInv, PublishedInv, KInv, Inv, TypeInv, KindOK
  <2>2. /\ snapshot = IF outcome \in {"ok", "cleanup-failed"} THEN loaded ELSE configDigest
        /\ outcome \in {"ok", "restart-required"} => AllResolved
    BY <2>1 DEF PublishedInv, Switched
  <2>3. outcome \in {"ok", "restart-required"} => ~IncompleteOwnership
    BY <2>1, <2>2, IdleIsComplete
  <2>4. QED
    BY <1>1, <1>5, <2>1, <2>2, <2>3 DEF ReloadReturns, PartsInv, RunningMeansClean, TurnsInv, PublishedInv
<1>6. CASE StopEnds
  BY <1>1, <1>6 DEF StopEnds, PartsInv, RunningMeansClean, TurnsInv, PublishedInv
<1>7. QED
  BY <1>2, <1>3, <1>4, <1>5, <1>6

LEMMA AgreementStep ==
    ASSUME AllInv, KInv', [CoordinatorNext]_allVars
    PROVE  AgreementInv'
<1>1. DutiesInv'
  BY KernelStepOrNone, DutiesStep DEF AllInv, AgreementInv
<1>2. TypeOK'
  BY DEF KInv, Inv, TypeInv
<1>3. CASE UNCHANGED allVars
  <2>1. Aside /\ UNCHANGED coordinatorVars
    BY <1>3 DEF allVars, Aside, vars, leaseVars, ownerVars, slotVars, kernelVars
  <2>2. CoordinatorTypeOK'
    BY <1>2, <2>1 DEF AllInv, AgreementInv, CoordinatorTypeOK, coordinatorVars
  <2>3. QED
    BY <1>1, <2>1, <2>2, UserAgrees DEF AgreementInv, PartsInv
<1>4. CASE CoordinatorNext
  <2>1. CoordinatorTypeOK'
    BY <1>2, <1>4, CoordinatorType
  <2>2. CASE KernelRuns
    <3>1. UserNext => Aside
      BY UserKeeps DEF Aside
    <3>2. PartsInv'
      BY <2>2, <3>1, UserAgrees, KernelAgrees DEF KernelRuns
    <3>3. QED
      BY <1>1, <2>1, <3>2 DEF AgreementInv, PartsInv
  <2>3. CASE ~KernelRuns
    <3>1. PartsInv'
      BY <1>4, <2>3, StartAgrees, ReloadAgrees, StopAgrees, ReturnsAgree DEF CoordinatorNext
    <3>2. QED
      BY <1>1, <2>1, <3>1 DEF AgreementInv, PartsInv
  <2>4. QED
    BY <2>2, <2>3
<1>5. QED
  BY <1>3, <1>4

LEMMA AgreementInit ==
    ASSUME CoordinatorInit, TypeOK
    PROVE  AgreementInv
<1>1. AllResolved /\ Vacated
  BY DEF CoordinatorInit, Init, AllResolved, Vacated, Unresolved
<1>2. ~IncompleteOwnership
  BY <1>1, NothingIsComplete
<1>3. CoordinatorTypeOK /\ RunningMeansClean
  BY DEF CoordinatorInit, CoordinatorTypeOK, LifecycleStates, RunningMeansClean
<1>4. DutiesInv
  BY DEF CoordinatorInit, Init, DutiesInv, Vacated
<1>5. TurnsInv /\ PublishedInv
  BY <1>2 DEF CoordinatorInit, Init, TurnsInv, PublishedInv
<1>6. QED
  BY <1>3, <1>4, <1>5 DEF AgreementInv

LEMMA AgreementHolds == CoordinatorSpec => []AllInv
<1>1. CoordinatorInit /\ KInv => AllInv
  BY AgreementInit DEF AllInv, KInv, Inv, TypeInv
<1>2. AllInv /\ KInv' /\ [CoordinatorNext]_allVars => AllInv'
  BY AgreementStep DEF AllInv
<1>3. QED
  BY <1>1, <1>2, KernelHolds, PTL DEF CoordinatorSpec

\* Whichever step of the kernel fails, the diagnostics that other goroutines
\* read agree with what the kernel owns (coordinator.go: Start, Reload, Stop).
THEOREM DiagnosticsAreHonestHolds == CoordinatorSpec => []DiagnosticsAreHonest
<1>1. ASSUME AllInv PROVE DiagnosticsAreHonest
  <2> USE <1>1 DEF AllInv, AgreementInv
  <2>1. FailedFinalizerIsReported
    <3>1. SUFFICES ASSUME NEW c \in Components, NEW g \in Generations,
                          slotState[c][g] = "terminal-failed"
                   PROVE  \/ cleanupRequired /\ ~serviceReady
                          \/ lifecycle \in {"starting", "reloading", "draining", "stopped"}
      BY DEF FailedFinalizerIsReported
    <3>2. IncompleteOwnership
      BY <3>1, FailedIsIncomplete
    <3>3. QED
      BY <3>2 DEF RunningMeansClean, TurnsInv, CoordinatorTypeOK, LifecycleStates
  <2>2. StoppedAfterRunMeansFinalized
    BY NothingIsComplete DEF StoppedAfterRunMeansFinalized, PublishedInv
  <2>3. QED
    BY <2>1, <2>2 DEF DiagnosticsAreHonest
<1>2. QED
  BY <1>1, AgreementHolds, PTL

\* From the moment debt is recorded until a Stop, the kernel builds no instance
\* and commits none, whatever is loaded (coordinator.go: Reload's guard).
THEOREM DebtBlocksReloadHolds == CoordinatorSpec => DebtBlocksReload
<1>1. ASSUME AllInv, [CoordinatorNext]_allVars
      PROVE  [cleanupRequired /\ lifecycle' # "stopped" =>
                /\ cleanupRequired'
                /\ UNCHANGED <<nextGeneration, currentDigest>>]_allVars
  <2> USE DEF AllInv, AgreementInv
  <2>1. SUFFICES ASSUME CoordinatorNext, cleanupRequired, lifecycle' # "stopped"
                 PROVE  cleanupRequired' /\ UNCHANGED <<nextGeneration, currentDigest>>
    BY <1>1
  <2>2. lifecycle \in {"failed", "degraded", "cleanup-pending", "draining"}
    BY <1>1, <2>1 DEF TurnsInv
  <2>3. CASE KernelRuns
    <3>1. CASE UserNext
      BY <2>1, <2>3, <3>1, UserKeeps DEF KernelRuns, coordinatorVars
    <3>2. CASE KernelStep \/ Timeout
      <4>1. Works
        BY <1>1, <3>2, KernelWorks
      <4>2. op.kind = "stop"
        BY <1>1, <2>2, <4>1 DEF TurnsInv, Works
      <4>3. QED
        BY <2>1, <2>3, <4>1, <4>2 DEF KernelRuns, coordinatorVars, Works
    <3>3. QED
      BY <2>3, <3>1, <3>2 DEF KernelRuns
  <2>4. CASE ~KernelRuns
    BY <2>1, <2>2, <2>4
       DEF CoordinatorNext, Start, Reload, ReloadAdmitted, ReloadExternal, StartNotLoaded, StartReturns,
           ReloadReturns, Stop, BeginStop, StopEnds, vars, ownerVars
  <2>5. QED
    BY <2>3, <2>4
<1>2. QED
  BY <1>1, AgreementHolds, PTL DEF CoordinatorSpec, DebtBlocksReload

-----------------------------------------------------------------------------
(* The supervisor.                                                         *)

BeforeShutdown == {"new", "start", "starting", "readiness", "running", "operating", "drain"}
AfterStops == {"force", "forcing", "collect", "waiting", "complete", "done"}

\* Where the goroutine of Run is in its loops.
RunLoopInv ==
    /\ pc = "new" => started = 0 /\ ~launched
    /\ pc = "start" => at = started + 1 /\ ~launched
    /\ pc = "starting" => at = started + 1 /\ at <= P /\ ~launched
    /\ pc \in {"readiness", "running", "operating", "drain"} => started = P
    /\ pc = "readiness" => at >= 1
    /\ pc \in {"stop", "force", "collect"} => at <= started
    /\ pc \in {"stopping", "forcing"} => at >= 1 /\ at <= started

\* The loop over Stop: what is behind it was stopped, what is ahead was not.
StopInv ==
    /\ \A p \in Participants : p > started => stopCall[p] = "none"
    /\ pc \in BeforeShutdown =>
            /\ \A p \in Participants : stopCall[p] = "none"
            /\ clock = "open"
    /\ pc = "stop" => \A p \in Participants : p <= at => stopCall[p] = "none"
    /\ pc = "stopping" =>
            /\ \A p \in Participants : p < at => stopCall[p] = "none"
            /\ stopCall[at] # "none"
    /\ pc \in {"stop", "stopping"} => \A p \in StartedOnes : p > at => stopCall[p] # "none"
    /\ pc \in AfterStops => \A p \in StartedOnes : stopCall[p] # "none"
    /\ clock = "open" =>
         \A p \in StartedOnes : (pc \in {"stop", "stopping"} => p > at) /\ pc \notin BeforeShutdown
            => Resolved(p)

\* A candidate that the loop over ForceStop has still to visit.
Ahead(p) ==
    \/ pc \in {"stop", "stopping"}
    \/ pc = "force" /\ p <= at
    \/ pc = "forcing" /\ p < at

CandidatesInv ==
    /\ pc \in BeforeShutdown => candidates = {}
    /\ \A p \in candidates : p \in StartedOnes /\ stopCall[p] # "none"
    /\ pc = "stop" => \A p \in candidates : p > at
    /\ pc = "stopping" => \A p \in candidates : p > at
    /\ \A p \in Participants : pending[p] = "stop" => clock # "open" /\ stopCall[p] # "none"
    /\ \A p \in candidates : Ahead(p) => pending[p] = "stop" \/ stopCall[p] = "error"
    /\ \A p \in Participants : Ahead(p) => pending[p] # "force"

\* No error of the shutdown means that nothing was forced or left behind.
CleanInv ==
    /\ pc \in BeforeShutdown => ~stopErr
    /\ pc \in BeforeShutdown \cup {"stop", "stopping"} =>
            \A p \in Participants : forceCall[p] = "none"
    /\ ~stopErr =>
            /\ candidates = {}
            /\ \A p \in Participants : forceCall[p] = "none" /\ pending[p] = "no"
            /\ \A p \in StartedOnes :
                 (pc \in {"stop", "stopping"} => p > at) /\ pc \notin BeforeShutdown
                   => stopCall[p] = "nil"

\* What ended the run, and what became of the tasks.
RunInv ==
    /\ ~launched => completed = {}
    /\ operation => ~launched
    /\ launched => \A t \in AllTasks : task[t] # "idle"
    /\ pc \in {"readiness", "running"} => launched /\ completed = {}
    /\ pc = "operating" => operation
    /\ pc = "drain" => launched /\ runErr # "none"
    /\ \A t \in completed : task[t] \in {"nil", "cancel", "error"}
    /\ \A t \in completed : task[t] = "error" => stopErr \/ runErr = "error"
    /\ pc \notin BeforeShutdown /\ ~operation =>
            /\ ~launched => runErr # "none"
            /\ launched /\ runErr = "none" => ctx = "canceled"
    /\ pc \in {"complete", "done"} /\ ~stopErr => Unfinished = {}
    /\ result # "none" => pc = "done"

SupervisorInv == SupervisorTypeOK /\ RunLoopInv /\ StopInv /\ CandidatesInv /\ CleanInv /\ RunInv /\ CleanMeansClean

-----------------------------------------------------------------------------

\* The loops stay within their bounds.
LEMMA LoopStep ==
    ASSUME SupervisorTypeOK, RunLoopInv, SupervisorNext
    PROVE  RunLoopInv'
<1> USE SupervisorAssumption DEF SupervisorTypeOK, Participants, AllTasks, Errors, Calls, UnitStates,
        InShutdown, RunLoopInv
<1>1. CASE Cancel
  BY <1>1 DEF Cancel, others, callVars
<1>2. CASE Tick
  BY <1>2 DEF Tick, others, callVars
<1>3. CASE BeginRun
  BY <1>3 DEF BeginRun, shutdownVars
<1>4. CASE CallStart
  BY <1>4 DEF CallStart, shutdownVars, Mark
<1>5. CASE Started
  BY <1>5 DEF Started, shutdownVars, Mark
<1>6. CASE LaunchTasks
  BY <1>6 DEF LaunchTasks, shutdownVars
<1>7. ASSUME NEW t \in AllTasks, TaskIsReady(t) PROVE RunLoopInv'
  BY <1>7 DEF TaskIsReady, shutdownVars, MarkTask, Awaited
<1>8. CASE Ready
  BY <1>8 DEF Ready, shutdownVars
<1>9. CASE ContextEnds
  BY <1>9 DEF ContextEnds, shutdownVars, Waiting
<1>10. CASE Drain
  BY <1>10 DEF Drain, shutdownVars, Normalized
<1>11. CASE CallStop
  BY <1>11 DEF CallStop, unchangedStop, runVars, Mark
<1>12. CASE StopTakes
  BY <1>12 DEF StopTakes, unchangedStop, runVars, Mark, Candidate
<1>13. CASE StopTimesOut
  BY <1>13 DEF StopTimesOut, unchangedStop, runVars, Mark, Leave, Candidate
<1>14. CASE StopsDone
  BY <1>14 DEF StopsDone, unchangedForce, runVars
<1>15. CASE NotForced
  BY <1>15 DEF NotForced, unchangedForce, runVars
<1>16. CASE ForceReaps
  BY <1>16 DEF ForceReaps, unchangedForce, runVars, Mark, Leave
<1>17. CASE CallForceStop
  BY <1>17 DEF CallForceStop, unchangedForce, runVars, Mark
<1>18. CASE ForceTakes
  BY <1>18 DEF ForceTakes, unchangedForce, runVars, Mark, Leave
<1>19. CASE ForceTimesOut
  BY <1>19 DEF ForceTimesOut, unchangedForce, runVars, Mark, Leave
<1>20. CASE ForcesDone
  BY <1>20 DEF ForcesDone, unchangedCollect, runVars
<1>21. CASE Collect
  BY <1>21 DEF Collect, unchangedCollect, runVars, Mark, Leave, LeftCall
<1>22. CASE CollectNothing
  BY <1>22 DEF CollectNothing, unchangedCollect, runVars
<1>23. CASE CollectDone
  BY <1>23 DEF CollectDone, unchangedCollect, runVars, Unfinished, Launched, Tasks
<1>24. CASE WaitDone
  BY <1>24 DEF WaitDone, unchangedCollect, runVars, Unfinished, Launched, Tasks
<1>25. CASE Complete
  BY <1>25 DEF Complete, callVars, RunError, Normalized, Clean
<1>26. CASE Done
  BY <1>26 DEF Done, supervisorVars, callVars
<1>27. ASSUME NEW t \in AllTasks, TaskAcknowledges(t) PROVE RunLoopInv'
  BY <1>27 DEF TaskAcknowledges, others, callVars
<1>28. ASSUME NEW t \in AllTasks, TaskReturns(t) PROVE RunLoopInv'
  BY <1>28 DEF TaskReturns, others, callVars
<1>29. ASSUME NEW t \in AllTasks, TaskEnds(t) PROVE RunLoopInv'
  BY <1>29 DEF TaskEnds, shutdownVars, MarkTask, Waiting
<1>30. ASSUME NEW t \in AllTasks, TaskReaped(t) PROVE RunLoopInv'
  BY <1>30 DEF TaskReaped, unchangedCollect, runVars, MarkTask
<1>31. ASSUME NEW p \in Participants, StopReturns(p) PROVE RunLoopInv'
  BY <1>31 DEF StopReturns, others, callVars
<1>32. ASSUME NEW p \in Participants, ForceReturns(p) PROVE RunLoopInv'
  BY <1>32 DEF ForceReturns, others, callVars
<1>33. ASSUME NEW answer \in Errors, StartFails(answer) PROVE RunLoopInv'
  BY <1>33 DEF StartFails, shutdownVars, Settled
<1>34. ASSUME NEW answer \in Errors, OperationReturns(answer) PROVE RunLoopInv'
  BY <1>34 DEF OperationReturns, shutdownVars
<1> HIDE DEF SupervisorTypeOK, Participants, AllTasks, Errors, Calls, UnitStates,
        InShutdown, RunLoopInv
<1>35. QED
  BY <1>1, <1>2, <1>3, <1>4, <1>5, <1>6, <1>7, <1>8, <1>9, <1>10, <1>11, <1>12, <1>13, <1>14,
     <1>15, <1>16, <1>17, <1>18, <1>19, <1>20, <1>21, <1>22, <1>23, <1>24, <1>25, <1>26, <1>27,
     <1>28, <1>29, <1>30, <1>31, <1>32, <1>33, <1>34 DEF SupervisorNext, Environment, Starts, Operates,
     Supervises

\* Every step keeps the types.
LEMMA TypeStep ==
    ASSUME SupervisorTypeOK, RunLoopInv, SupervisorNext
    PROVE  SupervisorTypeOK'
<1> USE SupervisorAssumption DEF SupervisorTypeOK, Participants, AllTasks, Errors, Calls, UnitStates,
        InShutdown, RunLoopInv
<1>1. CASE Cancel
  BY <1>1 DEF Cancel, others, callVars
<1>2. CASE Tick
  BY <1>2 DEF Tick, others, callVars
<1>3. CASE BeginRun
  BY <1>3 DEF BeginRun, shutdownVars
<1>4. CASE CallStart
  BY <1>4 DEF CallStart, shutdownVars, Mark
<1>5. CASE Started
  BY <1>5 DEF Started, shutdownVars, Mark
<1>6. CASE LaunchTasks
  BY <1>6 DEF LaunchTasks, shutdownVars
<1>7. ASSUME NEW t \in AllTasks, TaskIsReady(t) PROVE SupervisorTypeOK'
  BY <1>7 DEF TaskIsReady, shutdownVars, MarkTask, Awaited
<1>8. CASE Ready
  BY <1>8 DEF Ready, shutdownVars
<1>9. CASE ContextEnds
  BY <1>9 DEF ContextEnds, shutdownVars, Waiting
<1>10. CASE Drain
  <2>1. runErr' \in Errors
    BY <1>10 DEF Drain, Normalized
  <2>2. ready' \in BOOLEAN
    BY <1>10 DEF Drain
  <2>3. at' \in 0..(P + T + 1)
    BY <1>10 DEF Drain
  <2> QED
    BY <1>10, <2>1, <2>2, <2>3 DEF Drain, shutdownVars
<1>11. CASE CallStop
  BY <1>11 DEF CallStop, unchangedStop, runVars, Mark
<1>12. CASE StopTakes
  <2>1. stopErr' \in BOOLEAN
    BY <1>12 DEF StopTakes
  <2>2. candidates' \subseteq Forceable
    BY <1>12 DEF StopTakes, Candidate
  <2>3. unit' \in [Participants -> {"start", "ready", "stop", "force"} \X UnitStates]
    <3>1. \/ unit' = [unit EXCEPT ![at] = <<"stop", "stopped">>]
          \/ unit' = [unit EXCEPT ![at] = <<"stop", "failed">>]
      BY <1>12 DEF StopTakes, Mark
    <3>2. \A u \in UnitStates :
             [unit EXCEPT ![at] = <<"stop", u>>]
                \in [Participants -> {"start", "ready", "stop", "force"} \X UnitStates]
      OBVIOUS
    <3> QED
      BY <3>1, <3>2
  <2> QED
    BY <1>12, <2>1, <2>2, <2>3 DEF StopTakes, unchangedStop, runVars
<1>13. CASE StopTimesOut
  BY <1>13 DEF StopTimesOut, unchangedStop, runVars, Mark, Leave, Candidate
<1>14. CASE StopsDone
  BY <1>14 DEF StopsDone, unchangedForce, runVars
<1>15. CASE NotForced
  BY <1>15 DEF NotForced, unchangedForce, runVars
<1>16. CASE ForceReaps
  <2>1. stopErr' \in BOOLEAN
    BY <1>16 DEF ForceReaps
  <2>2. at' \in 0..(P + T + 1)
    BY <1>16 DEF ForceReaps
  <2>3. unit' \in [Participants -> {"start", "ready", "stop", "force"} \X UnitStates]
    <3>1. \/ unit' = [unit EXCEPT ![at] = <<"stop", "stopped">>]
          \/ unit' = [unit EXCEPT ![at] = <<"stop", "failed">>]
      BY <1>16 DEF ForceReaps, Mark
    <3>2. \A u \in UnitStates :
             [unit EXCEPT ![at] = <<"stop", u>>]
                \in [Participants -> {"start", "ready", "stop", "force"} \X UnitStates]
      OBVIOUS
    <3> QED
      BY <3>1, <3>2
  <2> QED
    BY <1>16, <2>1, <2>2, <2>3 DEF ForceReaps, unchangedForce, runVars, Leave
<1>17. CASE CallForceStop
  BY <1>17 DEF CallForceStop, unchangedForce, runVars, Mark
<1>18. CASE ForceTakes
  BY <1>18 DEF ForceTakes, unchangedForce, runVars, Mark, Leave
<1>19. CASE ForceTimesOut
  BY <1>19 DEF ForceTimesOut, unchangedForce, runVars, Mark, Leave
<1>20. CASE ForcesDone
  BY <1>20 DEF ForcesDone, unchangedCollect, runVars
<1>21. CASE Collect
  BY <1>21 DEF Collect, unchangedCollect, runVars, Mark, Leave, LeftCall
<1>22. CASE CollectNothing
  BY <1>22 DEF CollectNothing, unchangedCollect, runVars
<1>23. CASE CollectDone
  BY <1>23 DEF CollectDone, unchangedCollect, runVars, Unfinished, Launched, Tasks
<1>24. CASE WaitDone
  BY <1>24 DEF WaitDone, unchangedCollect, runVars, Unfinished, Launched, Tasks
<1>25. CASE Complete
  BY <1>25 DEF Complete, callVars, RunError, Normalized, Clean
<1>26. CASE Done
  BY <1>26 DEF Done, supervisorVars, callVars
<1>27. ASSUME NEW t \in AllTasks, TaskAcknowledges(t) PROVE SupervisorTypeOK'
  BY <1>27 DEF TaskAcknowledges, others, callVars
<1>28. ASSUME NEW t \in AllTasks, TaskReturns(t) PROVE SupervisorTypeOK'
  BY <1>28 DEF TaskReturns, others, callVars
<1>29. ASSUME NEW t \in AllTasks, TaskEnds(t) PROVE SupervisorTypeOK'
  BY <1>29 DEF TaskEnds, shutdownVars, MarkTask, Waiting
<1>30. ASSUME NEW t \in AllTasks, TaskReaped(t) PROVE SupervisorTypeOK'
  BY <1>30 DEF TaskReaped, unchangedCollect, runVars, MarkTask
<1>31. ASSUME NEW p \in Participants, StopReturns(p) PROVE SupervisorTypeOK'
  BY <1>31 DEF StopReturns, others, callVars
<1>32. ASSUME NEW p \in Participants, ForceReturns(p) PROVE SupervisorTypeOK'
  BY <1>32 DEF ForceReturns, others, callVars
<1>33. ASSUME NEW answer \in Errors, StartFails(answer) PROVE SupervisorTypeOK'
  BY <1>33 DEF StartFails, shutdownVars, Settled
<1>34. ASSUME NEW answer \in Errors, OperationReturns(answer) PROVE SupervisorTypeOK'
  <2>1. ready' \in BOOLEAN
    BY <1>34 DEF OperationReturns
  <2>2. at' \in 0..(P + T + 1)
    BY <1>34 DEF OperationReturns
  <2> QED
    BY <1>34, <2>1, <2>2 DEF OperationReturns, shutdownVars
<1> HIDE DEF SupervisorTypeOK, Participants, AllTasks, Errors, Calls, UnitStates,
        InShutdown, RunLoopInv
<1>35. QED
  BY <1>1, <1>2, <1>3, <1>4, <1>5, <1>6, <1>7, <1>8, <1>9, <1>10, <1>11, <1>12, <1>13, <1>14,
     <1>15, <1>16, <1>17, <1>18, <1>19, <1>20, <1>21, <1>22, <1>23, <1>24, <1>25, <1>26, <1>27,
     <1>28, <1>29, <1>30, <1>31, <1>32, <1>33, <1>34 DEF SupervisorNext, Environment, Starts, Operates,
     Supervises

\* Stop is called in reverse order, once on each participant that was started.
LEMMA StopStep ==
    ASSUME SupervisorTypeOK, RunLoopInv, StopInv, SupervisorNext
    PROVE  StopInv'
<1> USE SupervisorAssumption DEF SupervisorTypeOK, Participants, AllTasks, Errors, Calls, UnitStates,
        InShutdown, RunLoopInv, StopInv, BeforeShutdown, AfterStops, StartedOnes, Resolved
<1>1. CASE Cancel
  BY <1>1 DEF Cancel, others, callVars
<1>2. CASE Tick
  BY <1>2 DEF Tick, others, callVars
<1>3. CASE BeginRun
  BY <1>3 DEF BeginRun, shutdownVars
<1>4. CASE CallStart
  BY <1>4 DEF CallStart, shutdownVars, Mark
<1>5. CASE Started
  BY <1>5 DEF Started, shutdownVars, Mark
<1>6. CASE LaunchTasks
  BY <1>6 DEF LaunchTasks, shutdownVars
<1>7. ASSUME NEW t \in AllTasks, TaskIsReady(t) PROVE StopInv'
  BY <1>7 DEF TaskIsReady, shutdownVars, MarkTask, Awaited
<1>8. CASE Ready
  BY <1>8 DEF Ready, shutdownVars
<1>9. CASE ContextEnds
  BY <1>9 DEF ContextEnds, shutdownVars, Waiting
<1>10. CASE Drain
  BY <1>10 DEF Drain, shutdownVars, Normalized
<1>11. CASE CallStop
  BY <1>11 DEF CallStop, unchangedStop, runVars, Mark
<1>12. CASE StopTakes
  BY <1>12 DEF StopTakes, unchangedStop, runVars, Mark, Candidate
<1>13. CASE StopTimesOut
  BY <1>13 DEF StopTimesOut, unchangedStop, runVars, Mark, Leave, Candidate
<1>14. CASE StopsDone
  BY <1>14 DEF StopsDone, unchangedForce, runVars
<1>15. CASE NotForced
  BY <1>15 DEF NotForced, unchangedForce, runVars
<1>16. CASE ForceReaps
  BY <1>16 DEF ForceReaps, unchangedForce, runVars, Mark, Leave
<1>17. CASE CallForceStop
  BY <1>17 DEF CallForceStop, unchangedForce, runVars, Mark
<1>18. CASE ForceTakes
  BY <1>18 DEF ForceTakes, unchangedForce, runVars, Mark, Leave
<1>19. CASE ForceTimesOut
  BY <1>19 DEF ForceTimesOut, unchangedForce, runVars, Mark, Leave
<1>20. CASE ForcesDone
  BY <1>20 DEF ForcesDone, unchangedCollect, runVars
<1>21. CASE Collect
  BY <1>21 DEF Collect, unchangedCollect, runVars, Mark, Leave, LeftCall
<1>22. CASE CollectNothing
  BY <1>22 DEF CollectNothing, unchangedCollect, runVars
<1>23. CASE CollectDone
  BY <1>23 DEF CollectDone, unchangedCollect, runVars, Unfinished, Launched, Tasks
<1>24. CASE WaitDone
  BY <1>24 DEF WaitDone, unchangedCollect, runVars, Unfinished, Launched, Tasks
<1>25. CASE Complete
  BY <1>25 DEF Complete, callVars, RunError, Normalized, Clean
<1>26. CASE Done
  BY <1>26 DEF Done, supervisorVars, callVars
<1>27. ASSUME NEW t \in AllTasks, TaskAcknowledges(t) PROVE StopInv'
  BY <1>27 DEF TaskAcknowledges, others, callVars
<1>28. ASSUME NEW t \in AllTasks, TaskReturns(t) PROVE StopInv'
  BY <1>28 DEF TaskReturns, others, callVars
<1>29. ASSUME NEW t \in AllTasks, TaskEnds(t) PROVE StopInv'
  BY <1>29 DEF TaskEnds, shutdownVars, MarkTask, Waiting
<1>30. ASSUME NEW t \in AllTasks, TaskReaped(t) PROVE StopInv'
  BY <1>30 DEF TaskReaped, unchangedCollect, runVars, MarkTask
<1>31. ASSUME NEW p \in Participants, StopReturns(p) PROVE StopInv'
  BY <1>31 DEF StopReturns, others, callVars
<1>32. ASSUME NEW p \in Participants, ForceReturns(p) PROVE StopInv'
  BY <1>32 DEF ForceReturns, others, callVars
<1>33. ASSUME NEW answer \in Errors, StartFails(answer) PROVE StopInv'
  BY <1>33 DEF StartFails, shutdownVars, Settled
<1>34. ASSUME NEW answer \in Errors, OperationReturns(answer) PROVE StopInv'
  BY <1>34 DEF OperationReturns, shutdownVars
<1> HIDE DEF SupervisorTypeOK, Participants, AllTasks, Errors, Calls, UnitStates,
        InShutdown, RunLoopInv, StopInv, BeforeShutdown, AfterStops, StartedOnes, Resolved
<1>35. QED
  BY <1>1, <1>2, <1>3, <1>4, <1>5, <1>6, <1>7, <1>8, <1>9, <1>10, <1>11, <1>12, <1>13, <1>14,
     <1>15, <1>16, <1>17, <1>18, <1>19, <1>20, <1>21, <1>22, <1>23, <1>24, <1>25, <1>26, <1>27,
     <1>28, <1>29, <1>30, <1>31, <1>32, <1>33, <1>34 DEF SupervisorNext, Environment, Starts, Operates,
     Supervises

\* Only participants whose Stop failed or was left behind are candidates to be forced.
LEMMA CandidateStep ==
    ASSUME SupervisorTypeOK, RunLoopInv, StopInv, CandidatesInv, CleanInv, SupervisorNext
    PROVE  CandidatesInv'
<1> USE SupervisorAssumption DEF SupervisorTypeOK, Participants, AllTasks, Errors, Calls, UnitStates,
        InShutdown, RunLoopInv, StopInv, CandidatesInv, Ahead, BeforeShutdown, AfterStops,
        StartedOnes, Resolved
<1>1. CASE Cancel
  BY <1>1 DEF Cancel, others, callVars
<1>2. CASE Tick
  BY <1>2 DEF Tick, others, callVars
<1>3. CASE BeginRun
  BY <1>3 DEF BeginRun, shutdownVars
<1>4. CASE CallStart
  BY <1>4 DEF CallStart, shutdownVars, Mark
<1>5. CASE Started
  BY <1>5 DEF Started, shutdownVars, Mark
<1>6. CASE LaunchTasks
  BY <1>6 DEF LaunchTasks, shutdownVars
<1>7. ASSUME NEW t \in AllTasks, TaskIsReady(t) PROVE CandidatesInv'
  BY <1>7 DEF TaskIsReady, shutdownVars, MarkTask, Awaited
<1>8. CASE Ready
  BY <1>8 DEF Ready, shutdownVars
<1>9. CASE ContextEnds
  BY <1>9 DEF ContextEnds, shutdownVars, Waiting
<1>10. CASE Drain
  BY <1>10 DEF Drain, shutdownVars, Normalized, CleanInv
<1>11. CASE CallStop
  BY <1>11 DEF CallStop, unchangedStop, runVars, Mark
<1>12. CASE StopTakes
  <2>1. CASE stopCall[at] = "nil"
    <3>1. UNCHANGED <<stopErr, candidates>>
      BY <1>12, <2>1 DEF StopTakes
    <3>2. /\ pc = "stopping" /\ pc' = "stop" /\ at' = at - 1
          /\ UNCHANGED <<unchangedStop, stopCall, pending>>
      BY <1>12 DEF StopTakes
    <3> QED
      BY <2>1, <3>1, <3>2 DEF unchangedStop, runVars
  <2>2. CASE stopCall[at] = "error"
    <3>1. candidates' \subseteq candidates \cup {at}
      BY <1>12, <2>2 DEF StopTakes, Candidate
    <3> QED
      BY <1>12, <2>2, <3>1 DEF StopTakes, unchangedStop, runVars
  <2> QED
    BY <1>12, <2>1, <2>2 DEF StopTakes
<1>13. CASE StopTimesOut
  BY <1>13 DEF StopTimesOut, unchangedStop, runVars, Mark, Leave, Candidate
<1>14. CASE StopsDone
  BY <1>14 DEF StopsDone, unchangedForce, runVars
<1>15. CASE NotForced
  BY <1>15 DEF NotForced, unchangedForce, runVars
<1>16. CASE ForceReaps
  BY <1>16 DEF ForceReaps, unchangedForce, runVars, Mark, Leave
<1>17. CASE CallForceStop
  BY <1>17 DEF CallForceStop, unchangedForce, runVars, Mark
<1>18. CASE ForceTakes
  BY <1>18 DEF ForceTakes, unchangedForce, runVars, Mark, Leave
<1>19. CASE ForceTimesOut
  BY <1>19 DEF ForceTimesOut, unchangedForce, runVars, Mark, Leave
<1>20. CASE ForcesDone
  BY <1>20 DEF ForcesDone, unchangedCollect, runVars
<1>21. CASE Collect
  BY <1>21 DEF Collect, unchangedCollect, runVars, Mark, Leave, LeftCall
<1>22. CASE CollectNothing
  BY <1>22 DEF CollectNothing, unchangedCollect, runVars
<1>23. CASE CollectDone
  BY <1>23 DEF CollectDone, unchangedCollect, runVars, Unfinished, Launched, Tasks
<1>24. CASE WaitDone
  BY <1>24 DEF WaitDone, unchangedCollect, runVars, Unfinished, Launched, Tasks
<1>25. CASE Complete
  BY <1>25 DEF Complete, callVars, RunError, Normalized, Clean
<1>26. CASE Done
  BY <1>26 DEF Done, supervisorVars, callVars
<1>27. ASSUME NEW t \in AllTasks, TaskAcknowledges(t) PROVE CandidatesInv'
  BY <1>27 DEF TaskAcknowledges, others, callVars
<1>28. ASSUME NEW t \in AllTasks, TaskReturns(t) PROVE CandidatesInv'
  BY <1>28 DEF TaskReturns, others, callVars
<1>29. ASSUME NEW t \in AllTasks, TaskEnds(t) PROVE CandidatesInv'
  BY <1>29 DEF TaskEnds, shutdownVars, MarkTask, Waiting
<1>30. ASSUME NEW t \in AllTasks, TaskReaped(t) PROVE CandidatesInv'
  BY <1>30 DEF TaskReaped, unchangedCollect, runVars, MarkTask
<1>31. ASSUME NEW p \in Participants, StopReturns(p) PROVE CandidatesInv'
  BY <1>31 DEF StopReturns, others, callVars
<1>32. ASSUME NEW p \in Participants, ForceReturns(p) PROVE CandidatesInv'
  BY <1>32 DEF ForceReturns, others, callVars
<1>33. ASSUME NEW answer \in Errors, StartFails(answer) PROVE CandidatesInv'
  BY <1>33 DEF StartFails, shutdownVars, Settled, CleanInv
<1>34. ASSUME NEW answer \in Errors, OperationReturns(answer) PROVE CandidatesInv'
  BY <1>34 DEF OperationReturns, shutdownVars, CleanInv
<1> HIDE DEF SupervisorTypeOK, Participants, AllTasks, Errors, Calls, UnitStates,
        InShutdown, RunLoopInv, StopInv, CandidatesInv, Ahead, BeforeShutdown, AfterStops,
        StartedOnes, Resolved
<1>35. QED
  BY <1>1, <1>2, <1>3, <1>4, <1>5, <1>6, <1>7, <1>8, <1>9, <1>10, <1>11, <1>12, <1>13, <1>14,
     <1>15, <1>16, <1>17, <1>18, <1>19, <1>20, <1>21, <1>22, <1>23, <1>24, <1>25, <1>26, <1>27,
     <1>28, <1>29, <1>30, <1>31, <1>32, <1>33, <1>34 DEF SupervisorNext, Environment, Starts, Operates,
     Supervises

\* A shutdown without an error forces nothing and leaves nothing behind.
LEMMA CleanStep ==
    ASSUME SupervisorTypeOK, RunLoopInv, StopInv, CandidatesInv, CleanInv, SupervisorNext
    PROVE  CleanInv'
<1> USE SupervisorAssumption DEF SupervisorTypeOK, Participants, AllTasks, Errors, Calls, UnitStates,
        InShutdown, RunLoopInv, StopInv, CandidatesInv, CleanInv, Ahead, BeforeShutdown, AfterStops,
        StartedOnes, Resolved
<1>1. CASE Cancel
  BY <1>1 DEF Cancel, others, callVars
<1>2. CASE Tick
  BY <1>2 DEF Tick, others, callVars
<1>3. CASE BeginRun
  BY <1>3 DEF BeginRun, shutdownVars
<1>4. CASE CallStart
  BY <1>4 DEF CallStart, shutdownVars, Mark
<1>5. CASE Started
  BY <1>5 DEF Started, shutdownVars, Mark
<1>6. CASE LaunchTasks
  BY <1>6 DEF LaunchTasks, shutdownVars
<1>7. ASSUME NEW t \in AllTasks, TaskIsReady(t) PROVE CleanInv'
  BY <1>7 DEF TaskIsReady, shutdownVars, MarkTask, Awaited
<1>8. CASE Ready
  BY <1>8 DEF Ready, shutdownVars
<1>9. CASE ContextEnds
  BY <1>9 DEF ContextEnds, shutdownVars, Waiting
<1>10. CASE Drain
  BY <1>10 DEF Drain, shutdownVars, Normalized
<1>11. CASE CallStop
  BY <1>11 DEF CallStop, unchangedStop, runVars, Mark
<1>12. CASE StopTakes
  <2>1. CASE stopCall[at] = "nil"
    <3>1. UNCHANGED <<stopErr, candidates>>
      BY <1>12, <2>1 DEF StopTakes
    <3>2. /\ pc = "stopping" /\ pc' = "stop" /\ at' = at - 1
          /\ UNCHANGED <<unchangedStop, stopCall, pending>>
      BY <1>12 DEF StopTakes
    <3> QED
      BY <2>1, <3>1, <3>2 DEF unchangedStop, runVars
  <2>2. CASE stopCall[at] = "error"
    BY <1>12, <2>2 DEF StopTakes, unchangedStop, runVars
  <2> QED
    BY <1>12, <2>1, <2>2 DEF StopTakes
<1>13. CASE StopTimesOut
  BY <1>13 DEF StopTimesOut, unchangedStop, runVars, Mark, Leave, Candidate
<1>14. CASE StopsDone
  BY <1>14 DEF StopsDone, unchangedForce, runVars
<1>15. CASE NotForced
  BY <1>15 DEF NotForced, unchangedForce, runVars
<1>16. CASE ForceReaps
  BY <1>16 DEF ForceReaps, unchangedForce, runVars, Mark, Leave
<1>17. CASE CallForceStop
  BY <1>17 DEF CallForceStop, unchangedForce, runVars, Mark
<1>18. CASE ForceTakes
  BY <1>18 DEF ForceTakes, unchangedForce, runVars, Mark, Leave
<1>19. CASE ForceTimesOut
  BY <1>19 DEF ForceTimesOut, unchangedForce, runVars, Mark, Leave
<1>20. CASE ForcesDone
  BY <1>20 DEF ForcesDone, unchangedCollect, runVars
<1>21. CASE Collect
  BY <1>21 DEF Collect, unchangedCollect, runVars, Mark, Leave, LeftCall
<1>22. CASE CollectNothing
  BY <1>22 DEF CollectNothing, unchangedCollect, runVars
<1>23. CASE CollectDone
  BY <1>23 DEF CollectDone, unchangedCollect, runVars, Unfinished, Launched, Tasks
<1>24. CASE WaitDone
  BY <1>24 DEF WaitDone, unchangedCollect, runVars, Unfinished, Launched, Tasks
<1>25. CASE Complete
  BY <1>25 DEF Complete, callVars, RunError, Normalized, Clean
<1>26. CASE Done
  BY <1>26 DEF Done, supervisorVars, callVars
<1>27. ASSUME NEW t \in AllTasks, TaskAcknowledges(t) PROVE CleanInv'
  BY <1>27 DEF TaskAcknowledges, others, callVars
<1>28. ASSUME NEW t \in AllTasks, TaskReturns(t) PROVE CleanInv'
  BY <1>28 DEF TaskReturns, others, callVars
<1>29. ASSUME NEW t \in AllTasks, TaskEnds(t) PROVE CleanInv'
  BY <1>29 DEF TaskEnds, shutdownVars, MarkTask, Waiting
<1>30. ASSUME NEW t \in AllTasks, TaskReaped(t) PROVE CleanInv'
  BY <1>30 DEF TaskReaped, unchangedCollect, runVars, MarkTask
<1>31. ASSUME NEW p \in Participants, StopReturns(p) PROVE CleanInv'
  BY <1>31 DEF StopReturns, others, callVars
<1>32. ASSUME NEW p \in Participants, ForceReturns(p) PROVE CleanInv'
  BY <1>32 DEF ForceReturns, others, callVars
<1>33. ASSUME NEW answer \in Errors, StartFails(answer) PROVE CleanInv'
  BY <1>33 DEF StartFails, shutdownVars, Settled
<1>34. ASSUME NEW answer \in Errors, OperationReturns(answer) PROVE CleanInv'
  BY <1>34 DEF OperationReturns, shutdownVars
<1> HIDE DEF SupervisorTypeOK, Participants, AllTasks, Errors, Calls, UnitStates,
        InShutdown, RunLoopInv, StopInv, CandidatesInv, CleanInv, Ahead, BeforeShutdown, AfterStops,
        StartedOnes, Resolved
<1>35. QED
  BY <1>1, <1>2, <1>3, <1>4, <1>5, <1>6, <1>7, <1>8, <1>9, <1>10, <1>11, <1>12, <1>13, <1>14,
     <1>15, <1>16, <1>17, <1>18, <1>19, <1>20, <1>21, <1>22, <1>23, <1>24, <1>25, <1>26, <1>27,
     <1>28, <1>29, <1>30, <1>31, <1>32, <1>33, <1>34 DEF SupervisorNext, Environment, Starts, Operates,
     Supervises

\* What ended the run is remembered until it is reported.
LEMMA RunStep ==
    ASSUME SupervisorTypeOK, RunLoopInv, CleanInv, RunInv, SupervisorNext
    PROVE  RunInv'
<1> USE SupervisorAssumption DEF SupervisorTypeOK, Participants, AllTasks, Errors, Calls, UnitStates,
        InShutdown, RunLoopInv, CleanInv, RunInv, BeforeShutdown, Unfinished, Launched, Tasks
<1>1. CASE Cancel
  BY <1>1 DEF Cancel, others, callVars
<1>2. CASE Tick
  BY <1>2 DEF Tick, others, callVars
<1>3. CASE BeginRun
  BY <1>3 DEF BeginRun, shutdownVars
<1>4. CASE CallStart
  BY <1>4 DEF CallStart, shutdownVars, Mark
<1>5. CASE Started
  BY <1>5 DEF Started, shutdownVars, Mark
<1>6. CASE LaunchTasks
  BY <1>6 DEF LaunchTasks, shutdownVars
<1>7. ASSUME NEW t \in AllTasks, TaskIsReady(t) PROVE RunInv'
  BY <1>7 DEF TaskIsReady, shutdownVars, MarkTask, Awaited
<1>8. CASE Ready
  BY <1>8 DEF Ready, shutdownVars
<1>9. CASE ContextEnds
  BY <1>9 DEF ContextEnds, shutdownVars, Waiting
<1>10. CASE Drain
  BY <1>10 DEF Drain, shutdownVars, Normalized
<1>11. CASE CallStop
  BY <1>11 DEF CallStop, unchangedStop, runVars, Mark
<1>12. CASE StopTakes
  BY <1>12 DEF StopTakes, unchangedStop, runVars, Mark, Candidate
<1>13. CASE StopTimesOut
  BY <1>13 DEF StopTimesOut, unchangedStop, runVars, Mark, Leave, Candidate
<1>14. CASE StopsDone
  BY <1>14 DEF StopsDone, unchangedForce, runVars
<1>15. CASE NotForced
  BY <1>15 DEF NotForced, unchangedForce, runVars
<1>16. CASE ForceReaps
  BY <1>16 DEF ForceReaps, unchangedForce, runVars, Mark, Leave
<1>17. CASE CallForceStop
  BY <1>17 DEF CallForceStop, unchangedForce, runVars, Mark
<1>18. CASE ForceTakes
  BY <1>18 DEF ForceTakes, unchangedForce, runVars, Mark, Leave
<1>19. CASE ForceTimesOut
  BY <1>19 DEF ForceTimesOut, unchangedForce, runVars, Mark, Leave
<1>20. CASE ForcesDone
  BY <1>20 DEF ForcesDone, unchangedCollect, runVars
<1>21. CASE Collect
  BY <1>21 DEF Collect, unchangedCollect, runVars, Mark, Leave, LeftCall
<1>22. CASE CollectNothing
  BY <1>22 DEF CollectNothing, unchangedCollect, runVars
<1>23. CASE CollectDone
  BY <1>23 DEF CollectDone, unchangedCollect, runVars, Unfinished, Launched, Tasks
<1>24. CASE WaitDone
  BY <1>24 DEF WaitDone, unchangedCollect, runVars, Unfinished, Launched, Tasks
<1>25. CASE Complete
  BY <1>25 DEF Complete, callVars, RunError, Normalized, Clean
<1>26. CASE Done
  BY <1>26 DEF Done, supervisorVars, callVars
<1>27. ASSUME NEW t \in AllTasks, TaskAcknowledges(t) PROVE RunInv'
  BY <1>27 DEF TaskAcknowledges, others, callVars
<1>28. ASSUME NEW t \in AllTasks, TaskReturns(t) PROVE RunInv'
  <2>1. \A u \in completed : u # t /\ task'[u] = task[u]
    BY <1>28 DEF TaskReturns
  <2> QED
    BY <1>28, <2>1 DEF TaskReturns, others
<1>29. ASSUME NEW t \in AllTasks, TaskEnds(t) PROVE RunInv'
  BY <1>29 DEF TaskEnds, shutdownVars, MarkTask, Waiting
<1>30. ASSUME NEW t \in AllTasks, TaskReaped(t) PROVE RunInv'
  <2>1. stopErr => stopErr'
    BY <1>30 DEF TaskReaped
  <2>2. task[t] = "error" => stopErr'
    BY <1>30 DEF TaskReaped
  <2>3. task[t] \in {"nil", "cancel", "error"}
    <3>1. task[t] # "idle"
      BY <1>30 DEF TaskReaped
    <3> QED
      BY <1>30, <3>1 DEF TaskReaped
  <2> QED
    BY <1>30, <2>1, <2>2, <2>3 DEF TaskReaped, unchangedCollect, runVars
<1>31. ASSUME NEW p \in Participants, StopReturns(p) PROVE RunInv'
  BY <1>31 DEF StopReturns, others, callVars
<1>32. ASSUME NEW p \in Participants, ForceReturns(p) PROVE RunInv'
  BY <1>32 DEF ForceReturns, others, callVars
<1>33. ASSUME NEW answer \in Errors, StartFails(answer) PROVE RunInv'
  BY <1>33 DEF StartFails, shutdownVars, Settled
<1>34. ASSUME NEW answer \in Errors, OperationReturns(answer) PROVE RunInv'
  BY <1>34 DEF OperationReturns, shutdownVars
<1> HIDE DEF SupervisorTypeOK, Participants, AllTasks, Errors, Calls, UnitStates,
        InShutdown, RunLoopInv, CleanInv, RunInv, BeforeShutdown, Unfinished, Launched, Tasks
<1>35. QED
  BY <1>1, <1>2, <1>3, <1>4, <1>5, <1>6, <1>7, <1>8, <1>9, <1>10, <1>11, <1>12, <1>13, <1>14,
     <1>15, <1>16, <1>17, <1>18, <1>19, <1>20, <1>21, <1>22, <1>23, <1>24, <1>25, <1>26, <1>27,
     <1>28, <1>29, <1>30, <1>31, <1>32, <1>33, <1>34 DEF SupervisorNext, Environment, Starts, Operates,
     Supervises

\* Run returns nil only when the shutdown was clean, and nothing changes that.
LEMMA CleanMeansCleanStep ==
    ASSUME SupervisorInv, SupervisorNext
    PROVE  CleanMeansClean'
<1> USE SupervisorAssumption DEF SupervisorTypeOK, Participants, AllTasks, Errors, Calls, UnitStates,
        InShutdown, SupervisorInv, RunLoopInv, StopInv, CleanInv, RunInv, CleanMeansClean, BeforeShutdown,
        AfterStops, StartedOnes, Unfinished, Launched, Tasks
<1>1. CASE Cancel
  BY <1>1 DEF Cancel, others, callVars
<1>2. CASE Tick
  BY <1>2 DEF Tick, others, callVars
<1>3. CASE BeginRun
  BY <1>3 DEF BeginRun, shutdownVars
<1>4. CASE CallStart
  BY <1>4 DEF CallStart, shutdownVars, Mark
<1>5. CASE Started
  BY <1>5 DEF Started, shutdownVars, Mark
<1>6. CASE LaunchTasks
  BY <1>6 DEF LaunchTasks, shutdownVars
<1>7. ASSUME NEW t \in AllTasks, TaskIsReady(t) PROVE CleanMeansClean'
  BY <1>7 DEF TaskIsReady, shutdownVars, MarkTask, Awaited
<1>8. CASE Ready
  BY <1>8 DEF Ready, shutdownVars
<1>9. CASE ContextEnds
  BY <1>9 DEF ContextEnds, shutdownVars, Waiting
<1>10. CASE Drain
  BY <1>10 DEF Drain, shutdownVars, Normalized
<1>11. CASE CallStop
  BY <1>11 DEF CallStop, unchangedStop, runVars, Mark
<1>12. CASE StopTakes
  BY <1>12 DEF StopTakes, unchangedStop, runVars, Mark, Candidate
<1>13. CASE StopTimesOut
  BY <1>13 DEF StopTimesOut, unchangedStop, runVars, Mark, Leave, Candidate
<1>14. CASE StopsDone
  BY <1>14 DEF StopsDone, unchangedForce, runVars
<1>15. CASE NotForced
  BY <1>15 DEF NotForced, unchangedForce, runVars
<1>16. CASE ForceReaps
  BY <1>16 DEF ForceReaps, unchangedForce, runVars, Mark, Leave
<1>17. CASE CallForceStop
  BY <1>17 DEF CallForceStop, unchangedForce, runVars, Mark
<1>18. CASE ForceTakes
  BY <1>18 DEF ForceTakes, unchangedForce, runVars, Mark, Leave
<1>19. CASE ForceTimesOut
  BY <1>19 DEF ForceTimesOut, unchangedForce, runVars, Mark, Leave
<1>20. CASE ForcesDone
  BY <1>20 DEF ForcesDone, unchangedCollect, runVars
<1>21. CASE Collect
  BY <1>21 DEF Collect, unchangedCollect, runVars, Mark, Leave, LeftCall
<1>22. CASE CollectNothing
  BY <1>22 DEF CollectNothing, unchangedCollect, runVars
<1>23. CASE CollectDone
  BY <1>23 DEF CollectDone, unchangedCollect, runVars, Unfinished, Launched, Tasks
<1>24. CASE WaitDone
  BY <1>24 DEF WaitDone, unchangedCollect, runVars, Unfinished, Launched, Tasks
<1>25. CASE Complete
  <2>1. CASE RunError = "none" /\ ~stopErr
    <3>1. runErr # "error" /\ (ctx = "canceled" \/ operation)
      BY <1>25, <2>1 DEF Complete, RunError, Normalized
    <3>2. \A t \in Launched : task[t] \in {"nil", "cancel"}
      BY <1>25, <2>1, <3>1 DEF Complete
    <3> QED
      BY <1>25, <2>1, <3>1, <3>2 DEF Complete, callVars
  <2>2. CASE ~(RunError = "none" /\ ~stopErr)
    BY <1>25, <2>2 DEF Complete
  <2> QED
    BY <2>1, <2>2
<1>26. CASE Done
  BY <1>26 DEF Done, supervisorVars, callVars
<1>27. ASSUME NEW t \in AllTasks, TaskAcknowledges(t) PROVE CleanMeansClean'
  BY <1>27 DEF TaskAcknowledges, others, callVars
<1>28. ASSUME NEW t \in AllTasks, TaskReturns(t) PROVE CleanMeansClean'
  BY <1>28 DEF TaskReturns, others, callVars
<1>29. ASSUME NEW t \in AllTasks, TaskEnds(t) PROVE CleanMeansClean'
  BY <1>29 DEF TaskEnds, shutdownVars, MarkTask, Waiting
<1>30. ASSUME NEW t \in AllTasks, TaskReaped(t) PROVE CleanMeansClean'
  BY <1>30 DEF TaskReaped, unchangedCollect, runVars, MarkTask
<1>31. ASSUME NEW p \in Participants, StopReturns(p) PROVE CleanMeansClean'
  BY <1>31 DEF StopReturns, others, callVars
<1>32. ASSUME NEW p \in Participants, ForceReturns(p) PROVE CleanMeansClean'
  BY <1>32 DEF ForceReturns, others, callVars
<1>33. ASSUME NEW answer \in Errors, StartFails(answer) PROVE CleanMeansClean'
  BY <1>33 DEF StartFails, shutdownVars, Settled
<1>34. ASSUME NEW answer \in Errors, OperationReturns(answer) PROVE CleanMeansClean'
  BY <1>34 DEF OperationReturns, shutdownVars
<1> HIDE DEF SupervisorTypeOK, Participants, AllTasks, Errors, Calls, UnitStates,
        InShutdown, SupervisorInv, RunLoopInv, StopInv, CleanInv, RunInv, CleanMeansClean, BeforeShutdown,
        AfterStops, StartedOnes, Unfinished, Launched, Tasks
<1>35. QED
  BY <1>1, <1>2, <1>3, <1>4, <1>5, <1>6, <1>7, <1>8, <1>9, <1>10, <1>11, <1>12, <1>13, <1>14,
     <1>15, <1>16, <1>17, <1>18, <1>19, <1>20, <1>21, <1>22, <1>23, <1>24, <1>25, <1>26, <1>27,
     <1>28, <1>29, <1>30, <1>31, <1>32, <1>33, <1>34 DEF SupervisorNext, Environment, Starts, Operates,
     Supervises

-----------------------------------------------------------------------------

\* The invariant holds when Run is called and is kept by every step.
LEMMA Invariance == SupervisorSpec => []SupervisorInv
<1>1. SupervisorInit => SupervisorInv
  <2> SUFFICES ASSUME SupervisorInit PROVE SupervisorInv
    OBVIOUS
  <2> USE SupervisorAssumption DEF SupervisorInit, Participants, AllTasks
  <2>1. SupervisorTypeOK
    <3>1. at \in 0..(P + T + 1) /\ started \in 0..P
      OBVIOUS
    <3>2. unit \in [Participants -> {"start", "ready", "stop", "force"} \X UnitStates]
      BY DEF UnitStates
    <3>3. taskUnit \in [AllTasks -> {"run", "stop"} \X UnitStates]
      BY DEF UnitStates
    <3> QED
      BY <3>1, <3>2, <3>3 DEF SupervisorTypeOK, Errors, Calls, InShutdown
  <2>2. RunLoopInv /\ StopInv /\ CandidatesInv
    BY DEF RunLoopInv, StopInv, CandidatesInv, Ahead, BeforeShutdown, AfterStops, StartedOnes
  <2>3. CleanInv /\ RunInv /\ CleanMeansClean
    BY DEF CleanInv, RunInv, CleanMeansClean, BeforeShutdown, StartedOnes
  <2> QED
    BY <2>1, <2>2, <2>3 DEF SupervisorInv
<1>2. SupervisorInv /\ [SupervisorNext]_supervisorVars => SupervisorInv'
  <2>1. ASSUME SupervisorInv, SupervisorNext PROVE SupervisorInv'
    BY <2>1, TypeStep, LoopStep, StopStep, CandidateStep, CleanStep, RunStep, CleanMeansCleanStep DEF SupervisorInv
  <2>2. ASSUME SupervisorInv, UNCHANGED supervisorVars PROVE SupervisorInv'
    BY <2>2 DEF SupervisorInv, supervisorVars, callVars, SupervisorTypeOK, RunLoopInv, StopInv, CandidatesInv, CleanInv, RunInv,
                CleanMeansClean, Ahead, StartedOnes, Resolved, Unfinished, Launched, Tasks
  <2> QED
    BY <2>1, <2>2
<1> QED
  BY <1>1, <1>2, PTL DEF SupervisorSpec

\* The records, sets and counters of the supervisor stay within their types.
THEOREM SupervisorTypeCorrect == SupervisorSpec => []SupervisorTypeOK
<1>1. SupervisorInv => SupervisorTypeOK
  BY DEF SupervisorInv
<1> QED
  BY <1>1, Invariance, PTL

\* shutdown stops what was started, last started first, and goes on to the next
\* only when a Stop has returned or the graceful deadline has passed.
THEOREM StopsInReverseHolds == SupervisorSpec => []StopsInReverse
<1>1. SupervisorInv => StopsInReverse
  <2> SUFFICES ASSUME SupervisorInv, NEW p \in Participants, stopCall[p] # "none"
               PROVE  /\ p <= started
                      /\ clock = "open" => \A q \in StartedOnes : q > p => Resolved(q)
    BY DEF StopsInReverse
  <2> QED
    BY SupervisorAssumption DEF SupervisorInv, SupervisorTypeOK, RunLoopInv, StopInv, BeforeShutdown, AfterStops,
       Participants, StartedOnes, InShutdown
<1> QED
  BY <1>1, Invariance, PTL

\* Run reports success only for a run whose participants and tasks have all
\* ended by themselves without an error.
THEOREM CleanMeansCleanHolds == SupervisorSpec => []CleanMeansClean
<1>1. SupervisorInv => CleanMeansClean
  BY DEF SupervisorInv
<1> QED
  BY <1>1, Invariance, PTL

\* ForceStop is called only after every Stop was begun, on a participant that
\* offers it and whose Stop failed or was left behind at the graceful deadline.
THEOREM ForceIsLastResortHolds == SupervisorSpec => ForceIsLastResort
<1> DEFINE LastResort ==
             \A p \in Participants : forceCall[p] = "none" /\ forceCall'[p] # "none" =>
                /\ p \in Forceable
                /\ stopCall[p] = "error" \/ (stopCall[p] = "running" /\ clock # "open")
                /\ \A q \in StartedOnes : stopCall[q] # "none"
<1>1. ASSUME SupervisorInv, SupervisorNext PROVE LastResort
  <2>1. ASSUME CallForceStop PROVE LastResort
    BY <1>1, <2>1, SupervisorAssumption
       DEF CallForceStop, SupervisorInv, SupervisorTypeOK, StopInv, CandidatesInv, Ahead, AfterStops, Participants, StartedOnes
  <2>2. ASSUME NEW p \in Participants, ForceReturns(p) PROVE LastResort
    BY <1>1, <2>2 DEF ForceReturns, SupervisorInv, SupervisorTypeOK
  <2>3. \/ UNCHANGED forceCall
        \/ CallForceStop
        \/ \E p \in Participants : ForceReturns(p)
    BY <1>1 DEF SupervisorNext, Environment, Starts, Operates, Supervises, others, shutdownVars, unchangedStop,
                runVars, unchangedForce, unchangedCollect, callVars, supervisorVars,
                Cancel, Tick, BeginRun, CallStart, Started, LaunchTasks, TaskIsReady, Ready,
                ContextEnds, Drain, CallStop, StopTakes, StopTimesOut, StopsDone, NotForced,
                ForceReaps, ForceTakes, ForceTimesOut, ForcesDone, Collect, CollectNothing,
                CollectDone, WaitDone, Complete, Done, TaskAcknowledges, TaskReturns, TaskEnds,
                TaskReaped, StopReturns, StartFails, OperationReturns
  <2> QED
    BY <2>1, <2>2, <2>3
<1>2. SupervisorInv /\ [SupervisorNext]_supervisorVars => [LastResort]_supervisorVars
  BY <1>1
<1> QED
  BY <1>2, Invariance, PTL DEF SupervisorSpec, ForceIsLastResort
=============================================================================

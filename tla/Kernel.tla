------------------------------- MODULE Kernel -------------------------------
(***************************************************************************)
(* The component runtime of internal/kernel: leases (app/lease.go),        *)
(* instance slots (app/finalization.go), managed components                *)
(* (app/runtime.go) and the transactions that Kernel runs over a frozen    *)
(* plan (kernel.go): startCandidate, reloadCandidate and Stop.             *)
(*                                                                         *)
(* One kernel operation runs at a time (Kernel.operationMu); its steps are *)
(* the critical sections of the component and lease mutexes it takes, and  *)
(* between them any number of goroutines enter and leave Use.              *)
(***************************************************************************)
EXTENDS Integers, FiniteSets

CONSTANTS
    N,              \* the frozen plan has components 1..N, in plan order
    Users,          \* goroutines that call Use
    Digests,        \* the contents a configuration section can have
    NoReload,       \* components without a configuration section
    RestartRequired,\* components whose policy is RestartRequired
    Closable,       \* components with a terminal finalizer (DrainThenTerminalClose)
    MaxGeneration   \* bound: instances one component builds

Components  == 1..N
Sections    == 0..N          \* section 0 belongs to no kernel component
Configs     == [Sections -> Digests]
Generations == 1..MaxGeneration
None        == 0             \* the nil pointer among instance generations
NoDigest    == "none"        \* the empty digest of a component never built
NoConfig    == [s \in Sections |-> NoDigest]  \* the zero config.Snapshot

ASSUME PlanAssumption ==
    /\ N \in Nat \ {0}
    /\ MaxGeneration \in Nat \ {0}
    /\ NoReload \subseteq Components
    /\ RestartRequired \subseteq Components
    /\ Closable \subseteq Components
    /\ NoDigest \notin Digests

ASSUME UsersAssumption == IsFiniteSet(Users)

VARIABLES
    \* lease[I], one per component
    leaseState, current, activeUses, drainDone, terminalDrain,
    \* managedComponent[C, D, I]
    candidate, retired, stopping, currentDigest, nextGeneration,
    installed,      \* the instance handed to activate() and not yet to deactivate()
    \* instanceSlot[I], indexed by component and instance generation
    slotState, slotDigest,
    \* goroutines in Use
    userState, want, held,
    \* Kernel and the operation that holds operationMu
    kernelState, snapshot, op, outcome

leaseVars  == <<leaseState, current, activeUses, drainDone, terminalDrain>>
ownerVars  == <<candidate, retired, stopping, currentDigest, nextGeneration, installed>>
slotVars   == <<slotState, slotDigest>>
userVars   == <<userState, want, held>>
kernelVars == <<kernelState, snapshot, outcome>>
vars == <<leaseVars, ownerVars, slotVars, userVars, kernelVars, op>>

LeaseStates == {"pending", "serving", "draining", "stopped"}
OwnershipStates ==
    {"unbuilt", "finalization-pending", "serving", "waiting-for-drain",
     "finalizing", "finalized", "terminal-failed"}
UserStates   == {"running", "acquire", "blocked"}
KernelStates == {"created", "running", "draining", "failed", "stopped"}
Roles        == {"candidate", "retired", "stopping"}
Phases ==
    {"idle", "prepare", "drain", "rollback", "commit", "resume", "discard",
     "retire", "terminalDrain", "prepareStop", "undo", "release", "stopPending"}
Outcomes ==
    {"ok", "start-failed", "restart-required", "rejected", "cleanup-failed",
     "drain-incomplete", "stop-failed"}

OpRecords ==
    [kind: {"none", "start", "reload", "stop"}, phase: Phases,
     todo: SUBSET Components,     \* components the current loop still has to visit
     changed: SUBSET Components,  \* components the operation works on
     role: Roles,                 \* the slot pointer being finalized
     config: Configs \cup {NoConfig},   \* the candidate snapshot
     failed: BOOLEAN]             \* an error is joined to the result

TypeOK ==
    /\ leaseState \in [Components -> LeaseStates]
    /\ current \in [Components -> Generations \cup {None}]
    /\ activeUses \in [Components -> Int]
    /\ drainDone \in [Components -> BOOLEAN]
    /\ terminalDrain \in [Components -> BOOLEAN]
    /\ candidate \in [Components -> Generations \cup {None}]
    /\ retired \in [Components -> Generations \cup {None}]
    /\ stopping \in [Components -> Generations \cup {None}]
    /\ currentDigest \in [Components -> Digests \cup {NoDigest}]
    /\ nextGeneration \in [Components -> Generations \cup {None}]
    /\ installed \in [Components -> Generations \cup {None}]
    /\ slotState \in [Components -> [Generations -> OwnershipStates]]
    /\ slotDigest \in [Components -> [Generations -> Digests \cup {NoDigest}]]
    /\ userState \in [Users -> UserStates]
    /\ want \in [Users -> Components \cup {0}]
    /\ held \in [Users -> [Components -> Generations \cup {None}]]
    /\ kernelState \in KernelStates
    /\ snapshot \in Configs \cup {NoConfig}
    /\ op \in OpRecords
    /\ outcome \in Outcomes

-----------------------------------------------------------------------------
(* Lease and slot operations.                                              *)

Holders(c) == {u \in Users : held[u][c] # None}

\* close(l.transition): every goroutine that waits on the channel looks again.
WakeWaiters(c) ==
    userState' = [u \in Users |->
        IF userState[u] = "blocked" /\ want[u] = c THEN "acquire" ELSE userState[u]]

SetSlot(c, g, state) ==
    slotState' = [slotState EXCEPT ![c] = [@ EXCEPT ![g] = state]]

\* acquire on a lease in one of these states returns ErrStopped.
Refuses(c) ==
    \/ leaseState[c] = "stopped"
    \/ leaseState[c] = "draining" /\ terminalDrain[c]

\* beginOrContinueDrain from the serving state.
StartDrain(c, terminal) ==
    /\ leaseState' = [leaseState EXCEPT ![c] = "draining"]
    /\ terminalDrain' = [terminalDrain EXCEPT ![c] = terminal]
    /\ drainDone' = [drainDone EXCEPT ![c] = (activeUses[c] = 0)]
    /\ SetSlot(c, current[c], "waiting-for-drain")
    /\ UNCHANGED <<current, activeUses, slotDigest>>

\* Two faulty forms of resume: the drained signal of the last drain stays
\* set; the goroutines that wait for the transition are not woken.
ResumeStaleSignal(c) ==
    /\ leaseState' = [leaseState EXCEPT ![c] = "serving"]
    /\ SetSlot(c, current[c], "serving")
    /\ WakeWaiters(c)
    /\ UNCHANGED <<current, activeUses, drainDone, terminalDrain, slotDigest, want, held>>

ResumeSilently(c) ==
    /\ leaseState' = [leaseState EXCEPT ![c] = "serving"]
    /\ drainDone' = [drainDone EXCEPT ![c] = FALSE]
    /\ SetSlot(c, current[c], "serving")
    /\ UNCHANGED <<current, activeUses, terminalDrain, slotDigest, userVars>>

\* resume: reopen the lease for whatever instance it now holds.
ResumeLease(c) ==
    /\ leaseState' = [leaseState EXCEPT ![c] = "serving"]
    /\ drainDone' = [drainDone EXCEPT ![c] = FALSE]
    /\ SetSlot(c, current[c], "serving")
    /\ WakeWaiters(c)
    /\ UNCHANGED <<current, activeUses, terminalDrain, slotDigest, want, held>>

-----------------------------------------------------------------------------
(* Goroutines in Use. A callback may call Use of another component, of     *)
(* which it can only know the ones its own component declared as inputs,   *)
(* earlier in the plan: nested uses go down the plan.                      *)

Holding(u) == {c \in Components : held[u][c] # None}

Request(u, c) ==
    /\ userState[u] = "running"
    /\ \A d \in Holding(u) : c < d
    /\ userState' = [userState EXCEPT ![u] = "acquire"]
    /\ want' = [want EXCEPT ![u] = c]
    /\ UNCHANGED <<leaseVars, ownerVars, slotVars, held, kernelVars, op>>

AcquireServing(u) ==
    /\ userState[u] = "acquire"
    /\ leaseState[want[u]] = "serving"
    /\ activeUses' = [activeUses EXCEPT ![want[u]] = @ + 1]
    /\ held' = [held EXCEPT ![u] = [@ EXCEPT ![want[u]] = current[want[u]]]]
    /\ userState' = [userState EXCEPT ![u] = "running"]
    /\ want' = [want EXCEPT ![u] = 0]
    /\ UNCHANGED <<leaseState, current, drainDone, terminalDrain,
                   ownerVars, slotVars, kernelVars, op>>

AcquireWaits(u) ==
    /\ userState[u] = "acquire"
    /\ \/ leaseState[want[u]] = "pending"
       \/ leaseState[want[u]] = "draining" /\ ~terminalDrain[want[u]]
    /\ userState' = [userState EXCEPT ![u] = "blocked"]
    /\ UNCHANGED <<leaseVars, ownerVars, slotVars, want, held, kernelVars, op>>

AcquireRefused(u) ==
    /\ userState[u] = "acquire"
    /\ Refuses(want[u])
    /\ userState' = [userState EXCEPT ![u] = "running"]
    /\ want' = [want EXCEPT ![u] = 0]
    /\ UNCHANGED <<leaseVars, ownerVars, slotVars, held, kernelVars, op>>

\* ctx.Done() while the goroutine waits for a transition.
AcquireCancelled(u) ==
    /\ userState[u] = "blocked"
    /\ userState' = [userState EXCEPT ![u] = "running"]
    /\ want' = [want EXCEPT ![u] = 0]
    /\ UNCHANGED <<leaseVars, ownerVars, slotVars, held, kernelVars, op>>

\* The innermost callback returns and its deferred release runs.
Release(u, c) ==
    /\ userState[u] = "running"
    /\ held[u][c] # None
    /\ \A d \in Holding(u) : c <= d
    /\ held' = [held EXCEPT ![u] = [@ EXCEPT ![c] = None]]
    /\ activeUses' = [activeUses EXCEPT ![c] = @ - 1]
    /\ drainDone' = [drainDone EXCEPT ![c] =
                        @ \/ (leaseState[c] = "draining" /\ activeUses[c] = 1)]
    /\ UNCHANGED <<leaseState, current, terminalDrain, ownerVars, slotVars,
                   userState, want, kernelVars, op>>

UserStep(u) ==
    \/ \E c \in Components : Request(u, c) \/ Release(u, c)
    \/ AcquireServing(u) \/ AcquireWaits(u) \/ AcquireRefused(u)
    \/ AcquireCancelled(u)

-----------------------------------------------------------------------------
(* The loops of an operation visit op.todo in plan order or in reverse.    *)

InOrder(c) == c \in op.todo /\ \A d \in op.todo : c <= d
InReverse(c) == c \in op.todo /\ \A d \in op.todo : d <= c

Visited(c) == op' = [op EXCEPT !.todo = @ \ {c}]
Enter(phase, todo) == op' = [op EXCEPT !.phase = phase, !.todo = todo]
EnterFinalization(phase, role, todo) ==
    op' = [op EXCEPT !.phase = phase, !.role = role, !.todo = todo]

Finish(result, state) ==
    /\ op' = [op EXCEPT !.kind = "none", !.phase = "idle", !.todo = {},
                        !.changed = {}, !.role = "candidate", !.config = NoConfig,
                        !.failed = FALSE]
    /\ outcome' = result
    /\ kernelState' = state

\* Stage reports a change: the section digest differs; a fixed component
\* changes only before its first build, so never in a reload.
Changed(config) ==
    {c \in Components \ NoReload : config[c] # currentDigest[c]}

MustRestart(config) == Changed(config) \cap RestartRequired

Unresolved(c) == candidate[c] # None \/ retired[c] # None \/ stopping[c] # None

-----------------------------------------------------------------------------
(* startCandidate, reloadCandidate and Stop up to their first wait.        *)

BeginStart(config) ==
    /\ op.kind = "none"
    /\ kernelState = "created"
    /\ op' = [op EXCEPT !.kind = "start", !.phase = "prepare",
                        !.todo = Components, !.changed = Components,
                        !.config = config, !.failed = FALSE]
    /\ UNCHANGED <<leaseVars, ownerVars, slotVars, userVars, kernelVars>>

\* Every component is staged before any is built: an unresolved
\* responsibility, a RestartRequired change or no change at all ends the
\* reload with no effect on a component.
BeginReload(config) ==
    /\ op.kind = "none"
    /\ kernelState = "running"
    /\ \A c \in Components : nextGeneration[c] < MaxGeneration
    /\ UNCHANGED <<leaseVars, ownerVars, slotVars, userVars, kernelState>>
    /\ \/ /\ \E c \in Components : Unresolved(c)
          /\ outcome' = "rejected"
          /\ UNCHANGED <<snapshot, op>>
       \/ /\ \A c \in Components : ~Unresolved(c)
          /\ MustRestart(config) # {}
          /\ outcome' = "restart-required"
          /\ UNCHANGED <<snapshot, op>>
       \/ /\ \A c \in Components : ~Unresolved(c)
          /\ Changed(config) = {}
          /\ snapshot' = config
          /\ outcome' = "ok"
          /\ UNCHANGED op
       \/ /\ \A c \in Components : ~Unresolved(c)
          /\ Changed(config) # {}
          /\ MustRestart(config) = {}
          /\ op' = [op EXCEPT !.kind = "reload", !.phase = "prepare",
                              !.todo = Changed(config), !.changed = Changed(config),
                              !.config = config, !.failed = FALSE]
          /\ UNCHANGED <<snapshot, outcome>>

\* stopPending on every component.
StopPendingLeases ==
    /\ leaseState' = [c \in Components |->
                        IF leaseState[c] = "pending" THEN "stopped" ELSE leaseState[c]]
    /\ userState' = [u \in Users |->
                        IF userState[u] = "blocked" /\ leaseState[want[u]] = "pending"
                        THEN "acquire" ELSE userState[u]]
    /\ UNCHANGED <<current, activeUses, drainDone, terminalDrain, want, held>>

BeginStop ==
    /\ op.kind = "none"
    /\ UNCHANGED <<ownerVars, slotVars, snapshot>>
    /\ \/ /\ kernelState = "stopped"
          /\ outcome' = "ok"
          /\ UNCHANGED <<leaseVars, userVars, kernelState, op>>
       \/ /\ kernelState = "created"
          /\ kernelState' = "stopped"
          /\ outcome' = "ok"
          /\ StopPendingLeases
          /\ UNCHANGED op
       \/ /\ kernelState \in {"running", "draining"}
          /\ kernelState' = "draining"
          /\ op' = [op EXCEPT !.kind = "stop", !.phase = "terminalDrain",
                              !.todo = Components, !.changed = Components,
                              !.failed = FALSE]
          /\ UNCHANGED <<leaseVars, userVars, outcome>>
       \/ /\ kernelState = "failed"
          /\ op' = [op EXCEPT !.kind = "stop", !.phase = "release",
                              !.todo = Components, !.changed = Components,
                              !.role = "candidate", !.failed = FALSE]
          /\ UNCHANGED <<leaseVars, userVars, kernelState, outcome>>

-----------------------------------------------------------------------------
(* Preparing candidates: Build, then Start and Ready, in plan order.       *)

Build(c) ==
    /\ op.phase = "prepare" /\ InOrder(c) /\ candidate[c] = None
    /\ nextGeneration' = [nextGeneration EXCEPT ![c] = @ + 1]
    /\ candidate' = [candidate EXCEPT ![c] = nextGeneration[c] + 1]
    /\ SetSlot(c, nextGeneration[c] + 1, "finalization-pending")
    /\ slotDigest' = [slotDigest EXCEPT
                        ![c] = [@ EXCEPT ![nextGeneration[c] + 1] = op.config[c]]]
    /\ UNCHANGED <<leaseVars, retired, stopping, currentDigest, installed,
                   userVars, kernelVars, op>>

\* PublishInitial, once Start and Ready have succeeded.
PublishInitial(c) ==
    /\ op.kind = "start" /\ op.phase = "prepare" /\ InOrder(c) /\ candidate[c] # None
    /\ SetSlot(c, candidate[c], "serving")
    /\ current' = [current EXCEPT ![c] = candidate[c]]
    /\ leaseState' = [leaseState EXCEPT ![c] = "serving"]
    /\ WakeWaiters(c)
    /\ installed' = [installed EXCEPT ![c] = candidate[c]]
    /\ currentDigest' = [currentDigest EXCEPT ![c] = op.config[c]]
    /\ candidate' = [candidate EXCEPT ![c] = None]
    /\ Visited(c)
    /\ UNCHANGED <<activeUses, drainDone, terminalDrain, retired, stopping,
                   nextGeneration, slotDigest, want, held, kernelVars>>

\* A reload keeps the ready candidate aside and prepares the next one.
CandidateReady(c) ==
    /\ op.kind = "reload" /\ op.phase = "prepare" /\ InOrder(c) /\ candidate[c] # None
    /\ Visited(c)
    /\ UNCHANGED <<leaseVars, ownerVars, slotVars, userVars, kernelVars>>

\* Build (no candidate yet), Start or Ready (a candidate exists) fails. A
\* start discards this candidate and takes down the components it started;
\* a reload discards what it has prepared, this one included.
PrepareFails(c) ==
    /\ op.phase = "prepare" /\ InOrder(c)
    /\ \/ /\ op.kind = "start"
          /\ op' = [op EXCEPT !.phase = "discard", !.role = "candidate",
                              !.todo = {c}, !.changed = {d \in Components : d < c}]
       \/ /\ op.kind = "reload"
          /\ EnterFinalization("discard", "candidate", {d \in op.changed : d <= c})
    /\ UNCHANGED <<leaseVars, ownerVars, slotVars, userVars, kernelVars>>

StartDone ==
    /\ op.kind = "start" /\ op.phase = "prepare" /\ op.todo = {}
    /\ snapshot' = op.config
    /\ Finish("ok", "running")
    /\ UNCHANGED <<leaseVars, ownerVars, slotVars, userVars>>

Prepared ==
    /\ op.kind = "reload" /\ op.phase = "prepare" /\ op.todo = {}
    /\ Enter("drain", op.changed)
    /\ UNCHANGED <<leaseVars, ownerVars, slotVars, userVars, kernelVars>>

-----------------------------------------------------------------------------
(* drainReverse: close the entry of a component, wait for its callbacks,   *)
(* then go on to the one before it.                                        *)

DrainBegin(c) ==
    /\ op.phase = "drain" /\ InReverse(c) /\ leaseState[c] = "serving"
    /\ StartDrain(c, FALSE)
    /\ UNCHANGED <<ownerVars, userVars, kernelVars, op>>

\* Faulty wait: goes on as soon as the entry is closed.
DrainNotAwaited(c) ==
    /\ op.phase = "drain" /\ InReverse(c) /\ leaseState[c] = "draining"
    /\ Visited(c)
    /\ UNCHANGED <<leaseVars, ownerVars, slotVars, userVars, kernelVars>>

DrainDone(c) ==
    /\ op.phase = "drain" /\ InReverse(c) /\ drainDone[c]
    /\ Visited(c)
    /\ UNCHANGED <<leaseVars, ownerVars, slotVars, userVars, kernelVars>>

\* Faulty roll-back: only of the component whose drain timed out.
RollbackLast(c) ==
    /\ op.phase = "drain" /\ InReverse(c) /\ leaseState[c] = "draining"
    /\ \/ op.kind = "reload" /\ Enter("rollback", {c})
       \/ op.kind = "start" /\ Enter("stopPending", {})
    /\ UNCHANGED <<leaseVars, ownerVars, slotVars, userVars, kernelVars>>

\* The operation context ends first. A reload rolls back the leases it has
\* closed; the take-down of a failed start gives up as it stands.
DrainTimeout(c) ==
    /\ op.phase = "drain" /\ InReverse(c) /\ leaseState[c] = "draining"
    /\ \/ op.kind = "reload" /\ Enter("rollback", {d \in op.changed : c <= d})
       \/ op.kind = "start" /\ Enter("stopPending", {})
    /\ UNCHANGED <<leaseVars, ownerVars, slotVars, userVars, kernelVars>>

Drained ==
    /\ op.phase = "drain" /\ op.todo = {}
    /\ \/ op.kind = "reload" /\ Enter("commit", op.changed)
       \/ op.kind = "start" /\ Enter("prepareStop", op.changed)
    /\ UNCHANGED <<leaseVars, ownerVars, slotVars, userVars, kernelVars>>

Rollback(c) ==
    /\ op.phase = "rollback" /\ InOrder(c)
    /\ ResumeLease(c)
    /\ Visited(c)
    /\ UNCHANGED <<ownerVars, kernelVars>>

RolledBack ==
    /\ op.phase = "rollback" /\ op.todo = {}
    /\ EnterFinalization("discard", "candidate", op.changed)
    /\ UNCHANGED <<leaseVars, ownerVars, slotVars, userVars, kernelVars>>

-----------------------------------------------------------------------------
(* Commit, resume and retirement of the previous generation.               *)

Commit(c) ==
    /\ op.phase = "commit" /\ InOrder(c)
    /\ retired' = [retired EXCEPT ![c] = current[c]]
    /\ current' = [current EXCEPT ![c] = candidate[c]]
    /\ slotState' = [slotState EXCEPT ![c] =
                        [@ EXCEPT ![current[c]] = "finalization-pending",
                                  ![candidate[c]] = "serving"]]
    /\ installed' = [installed EXCEPT ![c] = candidate[c]]
    /\ currentDigest' = [currentDigest EXCEPT ![c] = op.config[c]]
    /\ candidate' = [candidate EXCEPT ![c] = None]
    /\ Visited(c)
    /\ UNCHANGED <<leaseState, activeUses, drainDone, terminalDrain, stopping,
                   nextGeneration, slotDigest, userVars, kernelVars>>

Committed ==
    /\ op.phase = "commit" /\ op.todo = {}
    /\ snapshot' = op.config
    /\ Enter("resume", op.changed)
    /\ UNCHANGED <<leaseVars, ownerVars, slotVars, userVars, kernelState, outcome>>

Resume(c) ==
    /\ op.phase = "resume" /\ InOrder(c)
    /\ ResumeLease(c)
    /\ Visited(c)
    /\ UNCHANGED <<ownerVars, kernelVars>>

Resumed ==
    /\ op.phase = "resume" /\ op.todo = {}
    /\ EnterFinalization("retire", "retired", op.changed)
    /\ UNCHANGED <<leaseVars, ownerVars, slotVars, userVars, kernelVars>>

-----------------------------------------------------------------------------
(* Stop: terminal drain in reverse, then PrepareStop in reverse.           *)

TerminalDrainBegin(c) ==
    /\ op.phase = "terminalDrain" /\ InReverse(c) /\ ~terminalDrain[c]
    /\ leaseState[c] = "serving"
    /\ StartDrain(c, TRUE)
    /\ UNCHANGED <<ownerVars, userVars, kernelVars, op>>

TerminalDrainDone(c) ==
    /\ op.phase = "terminalDrain" /\ InReverse(c) /\ terminalDrain[c] /\ drainDone[c]
    /\ Visited(c)
    /\ UNCHANGED <<leaseVars, ownerVars, slotVars, userVars, kernelVars>>

\* DrainIncompleteError: the kernel stays in draining and Stop may be retried.
TerminalDrainTimeout(c) ==
    /\ op.phase = "terminalDrain" /\ InReverse(c) /\ terminalDrain[c]
    /\ Finish("drain-incomplete", kernelState)
    /\ UNCHANGED <<leaseVars, ownerVars, slotVars, userVars, snapshot>>

TerminallyDrained ==
    /\ op.phase = "terminalDrain" /\ op.todo = {}
    /\ Enter("prepareStop", op.changed)
    /\ UNCHANGED <<leaseVars, ownerVars, slotVars, userVars, kernelVars>>

PrepareStop(c) ==
    /\ op.phase = "prepareStop" /\ InReverse(c) /\ stopping[c] = None
    /\ stopping' = [stopping EXCEPT ![c] = current[c]]
    /\ current' = [current EXCEPT ![c] = None]
    /\ leaseState' = [leaseState EXCEPT ![c] = "stopped"]
    /\ terminalDrain' = [terminalDrain EXCEPT ![c] = TRUE]
    /\ drainDone' = [drainDone EXCEPT ![c] = FALSE]
    /\ SetSlot(c, current[c], "finalization-pending")
    /\ WakeWaiters(c)
    /\ Visited(c)
    /\ UNCHANGED <<activeUses, candidate, retired, currentDigest, nextGeneration,
                   installed, slotDigest, want, held, kernelVars>>

StopPrepared ==
    /\ op.phase = "prepareStop" /\ op.todo = {}
    /\ \/ op.kind = "stop" /\ EnterFinalization("release", "candidate", op.changed)
       \/ op.kind = "start" /\ EnterFinalization("undo", "stopping", op.changed)
    /\ UNCHANGED <<leaseVars, ownerVars, slotVars, userVars, kernelVars>>

-----------------------------------------------------------------------------
(* Terminal finalization: DiscardCandidate, StopPrevious and StopCurrent   *)
(* share finalizeSlot, which runs a finalizer at most once per instance.   *)

Finalizing == op.phase \in {"discard", "retire", "undo", "release"}

Owner(role, c) ==
    CASE role = "candidate" -> candidate[c]
      [] role = "retired"   -> retired[c]
      [] role = "stopping"  -> stopping[c]

\* Stop visits the three pointers of one component before the next component.
NextDuty(c, failed) ==
    op' = IF op.phase = "release" /\ op.role # "stopping"
          THEN [op EXCEPT !.role = IF @ = "candidate" THEN "retired" ELSE "stopping",
                          !.failed = @ \/ failed]
          ELSE [op EXCEPT !.role = IF op.phase = "release" THEN "candidate" ELSE @,
                          !.todo = @ \ {c},
                          !.failed = @ \/ failed]

DropOwner(role, c) ==
    /\ candidate' = IF role = "candidate" THEN [candidate EXCEPT ![c] = None] ELSE candidate
    /\ retired' = IF role = "retired" THEN [retired EXCEPT ![c] = None] ELSE retired
    /\ stopping' = IF role = "stopping" THEN [stopping EXCEPT ![c] = None] ELSE stopping

\* StopCurrent calls deactivate before the finalizer, once.
Deactivate(role, c) ==
    installed' = IF role = "stopping" THEN [installed EXCEPT ![c] = None] ELSE installed

NothingToFinalize(c) ==
    /\ Finalizing /\ InReverse(c) /\ Owner(op.role, c) = None
    /\ NextDuty(c, FALSE)
    /\ UNCHANGED <<leaseVars, ownerVars, slotVars, userVars, kernelVars>>

\* A finalizer that failed is not run again: its error is returned again.
CachedFailure(c) ==
    /\ Finalizing /\ InReverse(c) /\ Owner(op.role, c) # None
    /\ slotState[c][Owner(op.role, c)] = "terminal-failed"
    /\ NextDuty(c, TRUE)
    /\ UNCHANGED <<leaseVars, ownerVars, slotVars, userVars, kernelVars>>

\* NoFinalization: the responsibility ends without a call.
FinalizeWithoutCall(c) ==
    /\ Finalizing /\ InReverse(c) /\ Owner(op.role, c) # None
    /\ c \notin Closable
    /\ SetSlot(c, Owner(op.role, c), "finalized")
    /\ DropOwner(op.role, c)
    /\ Deactivate(op.role, c)
    /\ NextDuty(c, FALSE)
    /\ UNCHANGED <<leaseVars, currentDigest, nextGeneration, slotDigest,
                   userVars, kernelVars>>

FinalizerBegins(c) ==
    /\ Finalizing /\ InReverse(c) /\ Owner(op.role, c) # None
    /\ c \in Closable
    /\ slotState[c][Owner(op.role, c)] \notin {"finalizing", "terminal-failed", "finalized"}
    /\ SetSlot(c, Owner(op.role, c), "finalizing")
    /\ Deactivate(op.role, c)
    /\ UNCHANGED <<leaseVars, candidate, retired, stopping, currentDigest,
                   nextGeneration, slotDigest, userVars, kernelVars, op>>

FinalizerReturns(c) ==
    /\ Finalizing /\ InReverse(c) /\ Owner(op.role, c) # None
    /\ slotState[c][Owner(op.role, c)] = "finalizing"
    /\ \/ /\ SetSlot(c, Owner(op.role, c), "finalized")
          /\ DropOwner(op.role, c)
          /\ NextDuty(c, FALSE)
       \/ /\ SetSlot(c, Owner(op.role, c), "terminal-failed")
          /\ NextDuty(c, TRUE)
          /\ UNCHANGED <<candidate, retired, stopping>>
    /\ UNCHANGED <<leaseVars, currentDigest, nextGeneration, installed, slotDigest,
                   userVars, kernelVars>>

\* What each operation does when its finalization loop ends.
DiscardDone ==
    /\ op.phase = "discard" /\ op.todo = {}
    /\ UNCHANGED <<leaseVars, ownerVars, slotVars, userVars, snapshot>>
    /\ \/ op.kind = "reload" /\ Finish("rejected", kernelState)
       \/ op.kind = "start" /\ Enter("drain", op.changed) /\ UNCHANGED <<kernelState, outcome>>

RetireDone ==
    /\ op.phase = "retire" /\ op.todo = {}
    /\ Finish(IF op.failed THEN "cleanup-failed" ELSE "ok", kernelState)
    /\ UNCHANGED <<leaseVars, ownerVars, slotVars, userVars, snapshot>>

ReleaseDone ==
    /\ op.phase = "release" /\ op.todo = {}
    /\ IF op.failed THEN Finish("stop-failed", "failed") ELSE Finish("ok", "stopped")
    /\ UNCHANGED <<leaseVars, ownerVars, slotVars, userVars, snapshot>>

UndoDone ==
    /\ op.phase = "undo" /\ op.todo = {}
    /\ Enter("stopPending", {})
    /\ UNCHANGED <<leaseVars, ownerVars, slotVars, userVars, kernelVars>>

StartFailed ==
    /\ op.phase = "stopPending"
    /\ StopPendingLeases
    /\ Finish("start-failed", "stopped")
    /\ UNCHANGED <<ownerVars, slotVars, snapshot>>

-----------------------------------------------------------------------------

Init ==
    /\ leaseState = [c \in Components |-> "pending"]
    /\ current = [c \in Components |-> None]
    /\ activeUses = [c \in Components |-> 0]
    /\ drainDone = [c \in Components |-> FALSE]
    /\ terminalDrain = [c \in Components |-> FALSE]
    /\ candidate = [c \in Components |-> None]
    /\ retired = [c \in Components |-> None]
    /\ stopping = [c \in Components |-> None]
    /\ currentDigest = [c \in Components |-> NoDigest]
    /\ nextGeneration = [c \in Components |-> 0]
    /\ installed = [c \in Components |-> None]
    /\ slotState = [c \in Components |-> [g \in Generations |-> "unbuilt"]]
    /\ slotDigest = [c \in Components |-> [g \in Generations |-> NoDigest]]
    /\ userState = [u \in Users |-> "running"]
    /\ want = [u \in Users |-> 0]
    /\ held = [u \in Users |-> [c \in Components |-> None]]
    /\ kernelState = "created"
    /\ snapshot = NoConfig
    /\ op = [kind |-> "none", phase |-> "idle", todo |-> {}, changed |-> {},
             role |-> "candidate", config |-> NoConfig, failed |-> FALSE]
    /\ outcome = "ok"

Preparation ==
    \/ \E c \in Components : Build(c) \/ PublishInitial(c) \/ CandidateReady(c) \/ PrepareFails(c)
    \/ StartDone \/ Prepared

Draining ==
    \/ \E c \in Components : DrainBegin(c) \/ DrainDone(c) \/ Rollback(c)
    \/ Drained \/ RolledBack

Switching ==
    \/ \E c \in Components : Commit(c) \/ Resume(c)
    \/ Committed \/ Resumed

Stopping ==
    \/ \E c \in Components : TerminalDrainBegin(c) \/ TerminalDrainDone(c) \/ PrepareStop(c)
    \/ TerminallyDrained \/ StopPrepared

Finalization ==
    \/ \E c \in Components :
        \/ NothingToFinalize(c) \/ CachedFailure(c) \/ FinalizeWithoutCall(c)
        \/ FinalizerBegins(c) \/ FinalizerReturns(c)
    \/ DiscardDone \/ RetireDone \/ ReleaseDone \/ UndoDone \/ StartFailed

Timeout == \E c \in Components : DrainTimeout(c) \/ TerminalDrainTimeout(c)

\* What the goroutine that holds operationMu does by itself.
KernelStep == Preparation \/ Draining \/ Switching \/ Stopping \/ Finalization

UserNext == \E u \in Users : UserStep(u)

Next ==
    \/ \E config \in Configs : BeginStart(config) \/ BeginReload(config)
    \/ BeginStop
    \/ KernelStep
    \/ Timeout
    \/ UserNext

Spec == Init /\ [][Next]_vars

-----------------------------------------------------------------------------
(* Safety.                                                                 *)

\* A callback never runs on an instance whose terminal finalizer has begun,
\* and not even on one that has been taken out for finalization: the lease
\* gives out the current instance only, and an instance leaves the lease
\* only after the drain has seen the last callback return.
NoUseAfterFinalization ==
    \A u \in Users, c \in Components :
        held[u][c] # None =>
            slotState[c][held[u][c]] \in {"serving", "waiting-for-drain"}

\* A goroutine that nests Use of several components sees one configuration:
\* once startup is over, every instance in use was built from the section
\* that the committed snapshot holds, also in the middle of a reload that
\* swaps several of them one after the other.
InUseMatchesSnapshot ==
    \A u \in Users, c \in Components \ NoReload :
        held[u][c] # None /\ kernelState # "created" /\ snapshot # NoConfig =>
            slotDigest[c][held[u][c]] = snapshot[c]

\* When no operation is under way on a running kernel, every component
\* serves an instance of the committed snapshot, whether the last reload
\* was applied, rejected half way or rolled back: all components or none.
ReloadIsAllOrNothing ==
    kernelState = "running" /\ op.kind = "none" =>
        \A c \in Components :
            /\ leaseState[c] = "serving"
            /\ slotState[c][current[c]] = "serving"
            /\ c \notin NoReload => /\ slotDigest[c][current[c]] = snapshot[c]
                                    /\ currentDigest[c] = snapshot[c]

\* The instance that was given to activate (the process logger's target) is
\* never finalized before deactivate or the next activate has replaced it.
InstalledIsAlive ==
    \A c \in Components :
        installed[c] # None =>
            slotState[c][installed[c]] \notin {"finalizing", "finalized", "terminal-failed"}

\* No instance is lost or owned twice: one that is not finalized is the
\* candidate, the current, the retired or the stopping one of its
\* component, and exactly one of these.
OwnershipIsAccounted ==
    \A c \in Components : \A g \in 1..nextGeneration[c] :
        LET owners == {p \in {<<"candidate", candidate[c]>>, <<"current", current[c]>>,
                              <<"retired", retired[c]>>, <<"stopping", stopping[c]>>} : p[2] = g}
        IN  Cardinality(owners) = IF slotState[c][g] = "finalized" THEN 0 ELSE 1

\* A reload, whatever becomes of it, is whole to everybody who can see it: to
\* callbacks in the middle of it, to whoever comes after it, to the target that
\* the process logger writes to, and to the kernel that still has to finalize.
ReloadsAreWhole ==
    TypeOK /\ InUseMatchesSnapshot /\ ReloadIsAllOrNothing /\ InstalledIsAlive /\ OwnershipIsAccounted

\* The panics of lease.go and runtime.go cannot fire: the lease and the
\* slot pointers are in the state that publishInitial, replaceWhileDraining,
\* resume, takeWhileDraining, release and Commit demand when they are called.
PanicFree ==
    /\ \A c \in Components : activeUses[c] >= 0
    /\ op.phase = "prepare" /\ op.kind = "start" =>
            \A c \in op.todo : leaseState[c] = "pending"
    /\ op.phase = "commit" =>
            \A c \in op.todo : /\ leaseState[c] = "draining" /\ drainDone[c]
                               /\ ~terminalDrain[c]
                               /\ candidate[c] # None /\ retired[c] = None
    /\ op.phase \in {"rollback", "resume"} =>
            \A c \in op.todo : leaseState[c] = "draining" /\ ~terminalDrain[c]
    /\ op.phase = "prepareStop" =>
            \A c \in op.todo : stopping[c] = None => leaseState[c] = "draining" /\ drainDone[c]

-----------------------------------------------------------------------------
(* Liveness. The goroutine of an operation keeps running, a goroutine that *)
(* is not blocked looks at the lease again, and a callback returns: it is  *)
(* left infinitely often able to return only if it never does.             *)

Acquire(u) == AcquireServing(u) \/ AcquireWaits(u) \/ AcquireRefused(u)

Fairness ==
    /\ WF_vars(KernelStep)
    /\ \A u \in Users : WF_vars(Acquire(u))
    /\ \A u \in Users, c \in Components : SF_vars(Release(u, c))

\* No context ends: neither the reload timeout nor the caller of Use.
PatientNext ==
    \/ \E config \in Configs : BeginStart(config) \/ BeginReload(config)
    \/ BeginStop
    \/ KernelStep
    \/ \E u \in Users :
        \/ \E c \in Components : Request(u, c) \/ Release(u, c)
        \/ Acquire(u)

PatientSpec == Init /\ [][PatientNext]_vars /\ Fairness

\* Draining the later components first cannot deadlock with nested uses:
\* even if no context ever ends, every operation ends.
OperationsEnd == op.kind # "none" ~> op.kind = "none"

\* With the timeouts that bound every drain.
FairSpec == Spec /\ Fairness /\ WF_vars(Timeout)

\* A goroutine that a reload holds off gets through or is refused, whatever
\* becomes of the reload.
WaitersProceed ==
    \A u \in Users :
        userState[u] = "blocked" /\ kernelState = "running" ~> userState[u] # "blocked"
=============================================================================

---------------------------- MODULE Coordinator ----------------------------
(***************************************************************************)
(* Coordinator (internal/kernel/coordinator.go): the only caller of the    *)
(* Kernel's operations. It loads one configuration per operation, decides  *)
(* from its diagnostics whether the operation may run, and turns the       *)
(* Kernel's result into the next diagnostics, which other goroutines read  *)
(* at any time. Coordinator.operationMu makes its operations sequential.   *)
(***************************************************************************)
EXTENDS Kernel

VARIABLES
    lifecycle,        \* CoordinatorDiagnostics.State
    serviceReady,            \* .Ready
    restartRequired,  \* .RestartRequired
    cleanupRequired,  \* .CleanupRequired
    configDigest,     \* .ConfigDigest: the configuration published last
    loaded            \* the snapshot that the operation under way has loaded

coordinatorVars ==
    <<lifecycle, serviceReady, restartRequired, cleanupRequired, configDigest, loaded>>
allVars == <<vars, coordinatorVars>>

LifecycleStates ==
    {"new", "starting", "running", "reloading", "draining", "cleanup-pending",
     "degraded", "failed", "stopped"}

CoordinatorTypeOK ==
    /\ TypeOK
    /\ lifecycle \in LifecycleStates
    /\ serviceReady \in BOOLEAN
    /\ restartRequired \in BOOLEAN
    /\ cleanupRequired \in BOOLEAN
    /\ configDigest \in Configs \cup {NoConfig}
    /\ loaded \in Configs \cup {NoConfig}

\* hasIncompleteOwnership over the slots that Ownerships reports.
IncompleteOwnership ==
    \E c \in Components :
        \E g \in {candidate[c], retired[c], stopping[c], current[c]} \ {None} :
            slotState[c][g] \in {"waiting-for-drain", "finalization-pending",
                                 "finalizing", "terminal-failed"}

-----------------------------------------------------------------------------

\* Start. Load or ValidateCandidate may fail before the Kernel is called.
Start(config) ==
    /\ lifecycle = "new"
    /\ lifecycle' = "starting"
    /\ loaded' = config
    /\ BeginStart(config)
    /\ UNCHANGED <<serviceReady, restartRequired, cleanupRequired, configDigest>>

StartNotLoaded ==
    /\ lifecycle = "new"
    /\ lifecycle' = "failed"
    /\ UNCHANGED <<vars, serviceReady, restartRequired, cleanupRequired, configDigest, loaded>>

StartReturns ==
    /\ lifecycle = "starting" /\ op.kind = "none"
    /\ loaded' = NoConfig
    /\ \/ /\ outcome = "ok"
          /\ lifecycle' = "running"
          /\ serviceReady' = TRUE
          /\ configDigest' = loaded
          /\ UNCHANGED cleanupRequired
       \/ /\ outcome = "start-failed"
          /\ lifecycle' = "failed"
          /\ serviceReady' = FALSE
          /\ cleanupRequired' = (cleanupRequired \/ IncompleteOwnership)
          /\ UNCHANGED configDigest
    /\ UNCHANGED <<vars, restartRequired>>

\* Reload. A load that fails changes nothing but the last failure type. A
\* change of a section that no component owns asks for a restart before the
\* Kernel is called.
ReloadAdmitted == lifecycle = "running" /\ ~cleanupRequired

ReloadExternal(config) ==
    /\ ReloadAdmitted
    /\ config[0] # configDigest[0]
    /\ restartRequired' = TRUE
    /\ UNCHANGED <<vars, lifecycle, serviceReady, cleanupRequired, configDigest, loaded>>

Reload(config) ==
    /\ ReloadAdmitted
    /\ config[0] = configDigest[0]
    /\ lifecycle' = "reloading"
    /\ serviceReady' = TRUE
    /\ loaded' = config
    /\ BeginReload(config)
    /\ UNCHANGED <<restartRequired, cleanupRequired, configDigest>>

\* Faulty return of Reload: a rejected candidate is taken to be cleaned up.
RejectedMeansClean ==
    /\ lifecycle = "reloading" /\ op.kind = "none"
    /\ outcome = "rejected"
    /\ loaded' = NoConfig
    /\ lifecycle' = "running" /\ serviceReady' = TRUE
    /\ UNCHANGED <<vars, restartRequired, cleanupRequired, configDigest>>

ReloadReturns ==
    /\ lifecycle = "reloading" /\ op.kind = "none"
    /\ loaded' = NoConfig
    /\ \/ /\ outcome = "ok"                            \* completeReload
          /\ lifecycle' = "running" /\ serviceReady' = TRUE
          /\ restartRequired' = FALSE
          /\ configDigest' = loaded
          /\ UNCHANGED cleanupRequired
       \/ /\ outcome = "cleanup-failed"
          /\ lifecycle' = "degraded" /\ serviceReady' = FALSE
          /\ restartRequired' = TRUE /\ cleanupRequired' = TRUE
          /\ configDigest' = loaded
       \/ /\ outcome = "restart-required"
          /\ lifecycle' = "running" /\ serviceReady' = TRUE
          /\ restartRequired' = TRUE
          /\ UNCHANGED <<cleanupRequired, configDigest>>
       \/ /\ outcome = "rejected" /\ ~IncompleteOwnership
          /\ lifecycle' = "running" /\ serviceReady' = TRUE
          /\ UNCHANGED <<restartRequired, cleanupRequired, configDigest>>
       \/ /\ outcome = "rejected" /\ IncompleteOwnership
          /\ lifecycle' = "degraded" /\ serviceReady' = FALSE
          /\ restartRequired' = TRUE /\ cleanupRequired' = TRUE
          /\ UNCHANGED configDigest
    /\ UNCHANGED vars

\* Stop is accepted in every state once no operation holds the mutex.
Stop ==
    /\ lifecycle \notin {"starting", "reloading", "draining"}
    /\ lifecycle' = "draining"
    /\ serviceReady' = FALSE
    /\ BeginStop
    /\ UNCHANGED <<restartRequired, cleanupRequired, configDigest, loaded>>

\* Faulty return of Stop: only a failed finalizer counts as debt.
StopOverwritesDebt ==
    /\ lifecycle = "draining" /\ op.kind = "none"
    /\ lifecycle' = CASE outcome = "drain-incomplete" -> "cleanup-pending"
                      [] outcome = "stop-failed" -> "failed"
                      [] OTHER -> "stopped"
    /\ cleanupRequired' = (outcome = "stop-failed")
    /\ UNCHANGED <<vars, serviceReady, restartRequired, configDigest, loaded>>

StopEnds ==
    /\ lifecycle = "draining" /\ op.kind = "none"
    /\ \/ /\ outcome = "drain-incomplete"
          /\ lifecycle' = "cleanup-pending" /\ cleanupRequired' = TRUE
       \/ /\ outcome = "stop-failed"
          /\ lifecycle' = "failed" /\ cleanupRequired' = TRUE
       \/ /\ outcome = "ok"
          /\ lifecycle' = "stopped" /\ cleanupRequired' = FALSE
    /\ UNCHANGED <<vars, serviceReady, restartRequired, configDigest, loaded>>

-----------------------------------------------------------------------------

CoordinatorInit ==
    /\ Init
    /\ lifecycle = "new"
    /\ serviceReady = FALSE
    /\ restartRequired = FALSE
    /\ cleanupRequired = FALSE
    /\ configDigest = NoConfig
    /\ loaded = NoConfig

KernelRuns == (KernelStep \/ Timeout \/ UserNext) /\ UNCHANGED coordinatorVars

CoordinatorNext ==
    \/ \E config \in Configs : Start(config) \/ Reload(config) \/ ReloadExternal(config)
    \/ StartNotLoaded \/ StartReturns \/ ReloadReturns
    \/ Stop \/ StopEnds
    \/ KernelRuns

CoordinatorSpec == CoordinatorInit /\ [][CoordinatorNext]_allVars

-----------------------------------------------------------------------------

\* Readiness is never reported over cleanup debt: while the coordinator is
\* running and not in an operation, no instance waits for its drain or its
\* finalizer, and the published configuration is the one the Kernel serves.
RunningMeansClean ==
    lifecycle = "running" =>
        /\ serviceReady /\ ~cleanupRequired /\ ~IncompleteOwnership
        /\ kernelState = "running"
        /\ configDigest = snapshot

\* An instance whose terminal finalizer has failed keeps the process out of
\* service: it is reported, not ready and in debt, until the process stops.
FailedFinalizerIsReported ==
    (\E c \in Components, g \in Generations : slotState[c][g] = "terminal-failed")
        => \/ cleanupRequired /\ ~serviceReady
           \/ lifecycle \in {"starting", "reloading", "draining", "stopped"}

\* A clean stop after a start that succeeded has finalized every instance.
StoppedAfterRunMeansFinalized ==
    lifecycle = "stopped" /\ configDigest # NoConfig => ~IncompleteOwnership

\* The diagnostics that other goroutines read between two operations agree with
\* what the Kernel owns, whichever of its steps have failed.
DiagnosticsAreHonest ==
    CoordinatorTypeOK /\ RunningMeansClean /\ FailedFinalizerIsReported /\ StoppedAfterRunMeansFinalized

\* Debt blocks every further reload: from the moment it is recorded until a
\* Stop, no instance is built and none is committed, whatever is loaded.
DebtBlocksReload ==
    [][cleanupRequired /\ lifecycle' # "stopped" =>
         /\ cleanupRequired'
         /\ UNCHANGED <<nextGeneration, currentDigest>>]_allVars

-----------------------------------------------------------------------------
(* Why: what the two of them have done when they have come so far.         *)

AllResolved == \A c \in Components : ~Unresolved(c)
Vacated == \A c \in Components : current[c] = None

\* What the kernel still has to finalize, as far as its operation has come.
DutiesInv ==
    /\ kernelState = "created" /\ op.phase \in {"idle", "prepare"} =>
            \A c \in Components : retired[c] = None /\ stopping[c] = None
    /\ op.kind = "start" /\ op.phase = "prepare" =>
            \A c \in Components \ op.todo : candidate[c] = None
    /\ op.kind = "reload" => \A c \in Components :
            /\ stopping[c] = None
            /\ c \notin op.changed => candidate[c] = None /\ retired[c] = None
    /\ op.phase = "commit" => \A c \in op.changed \ op.todo : candidate[c] = None
    /\ op.phase \in {"resume", "retire"} => \A c \in Components : candidate[c] = None
    /\ op.phase = "retire" =>
            /\ op.role = "retired"
            /\ ~op.failed => \A c \in op.changed \ op.todo : retired[c] = None
    /\ op.kind = "stop" => op.changed = Components
    /\ op.kind = "stop" /\ op.phase = "prepareStop" => \A c \in Components \ op.todo : current[c] = None
    /\ op.phase = "release" \/ kernelState = "failed" => Vacated
    /\ op.phase = "release" /\ ~op.failed =>
            /\ \A c \in Components \ op.todo : ~Unresolved(c)
            /\ \A c \in op.todo : InReverse(c) =>
                    /\ op.role # "candidate" => candidate[c] = None
                    /\ op.role = "stopping" => retired[c] = None

\* One is at work for the other, and debt ends the reloads.
TurnsInv ==
    /\ op.kind # "none" =>
            <<lifecycle, op.kind>> \in {<<"starting", "start">>, <<"reloading", "reload">>, <<"draining", "stop">>}
    /\ cleanupRequired => lifecycle \in {"failed", "degraded", "cleanup-pending", "draining"}
    /\ lifecycle \in {"degraded", "cleanup-pending"} => cleanupRequired
    /\ lifecycle \in {"new", "failed", "degraded", "cleanup-pending", "draining"} => ~serviceReady
    /\ lifecycle \in {"new", "failed"} /\ ~cleanupRequired => ~IncompleteOwnership

\* The reload under way, or just ended, has put its configuration in the snapshot.
Switched ==
    \/ op.phase \in {"resume", "retire"}
    \/ op.kind = "none" /\ outcome \in {"ok", "cleanup-failed"}

\* A configuration is published when the kernel serves it.
PublishedInv ==
    /\ kernelState = "created" \/ lifecycle \in {"new", "starting"} => configDigest = NoConfig
    /\ op.kind \in {"start", "reload"} => op.config = loaded
    /\ lifecycle = "starting" /\ op.kind = "none" /\ outcome = "ok" =>
            kernelState = "running" /\ snapshot = loaded /\ AllResolved
    /\ lifecycle = "reloading" =>
            /\ kernelState = "running"
            /\ snapshot = IF Switched THEN loaded ELSE configDigest
            /\ op.kind = "none" /\ outcome \in {"ok", "restart-required"} => AllResolved
    /\ lifecycle = "draining" /\ op.kind = "none" /\ outcome = "ok" => kernelState = "stopped"
    /\ lifecycle = "stopped" => kernelState = "stopped"
    /\ kernelState = "stopped" /\ configDigest # NoConfig => AllResolved /\ Vacated

\* With the kernel's own invariant, what the diagnostics rest on.
AgreementInv ==
    CoordinatorTypeOK /\ RunningMeansClean /\ DutiesInv /\ TurnsInv /\ PublishedInv
=============================================================================

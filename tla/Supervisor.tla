----------------------------- MODULE Supervisor -----------------------------
(***************************************************************************)
(* Supervisor (pkg/supervisor): starts the participants of a process in    *)
(* order, runs its tasks until the context ends or one of them does, and   *)
(* stops the participants in reverse within two absolute deadlines, the    *)
(* second of which leaves time to force the ones that support it.          *)
(*                                                                         *)
(* A step is what the goroutine of Run does between two waits; what it     *)
(* calls (Start, Stop, ForceStop, a task) returns in steps of its own.     *)
(***************************************************************************)
EXTENDS Naturals

CONSTANTS
    P,             \* participants, in the order they are started
    T,             \* tasks, in the order they were added
    Forceable,     \* participants that are a ForceStopper
    Acknowledged   \* tasks with a Ready channel

Participants == 1..P
AllTasks == 1..T

ASSUME SupervisorAssumption ==
    /\ P \in Nat \ {0} /\ T \in Nat
    /\ Forceable \subseteq Participants /\ Acknowledged \subseteq AllTasks

VARIABLES
    operation,     \* RunOperation was called, not Run
    ctx,           \* the caller's context
    clock,         \* which deadlines of the shutdown have passed
    pc, at,        \* the goroutine of Run, and the owner it is at
    started,       \* how many participants were started
    launched,      \* the tasks were started
    state, ready,  \* Snapshot.State, .Ready
    unit, taskUnit \* Snapshot.Units: phase and state of each owner

VARIABLES
    stopCall, forceCall,  \* the calls of Stop and ForceStop and what they returned
    task, acked,          \* the goroutine of each task; its Ready channel is closed
    completed,            \* tasks whose result was received
    pending,              \* shutdown's pending: the call that was left behind
    candidates,           \* forceCandidates
    runErr, stopErr,      \* what ended the run; shutdown has joined an error
    result                \* of Run

callVars == <<stopCall, forceCall, task, acked>>
supervisorVars == <<operation, ctx, clock, pc, at, started, launched, state, ready, unit, taskUnit,
          callVars, completed, pending, candidates, runErr, stopErr, result>>

Tasks == IF operation THEN {} ELSE AllTasks
Errors == {"none", "cancel", "error"}   \* cancel: isOnlyCancellation
Calls == {"none", "running", "nil", "error"}
UnitStates == {"pending", "running", "ready", "stopped", "forced", "failed"}
InShutdown == {"stop", "stopping", "force", "forcing", "collect", "waiting", "complete"}

SupervisorTypeOK ==
    /\ operation \in BOOLEAN /\ ctx \in {"live", "canceled"}
    /\ clock \in {"open", "graceful", "final"}
    /\ pc \in InShutdown \cup {"new", "start", "starting", "readiness", "running",
                               "operating", "drain", "done"}
    /\ at \in 0..(P + T + 1) /\ started \in 0..P /\ launched \in BOOLEAN
    /\ state \in {"new", "starting", "running", "draining", "stopping", "failed", "stopped"}
    /\ ready \in BOOLEAN
    /\ unit \in [Participants -> {"start", "ready", "stop", "force"} \X UnitStates]
    /\ taskUnit \in [AllTasks -> {"run", "stop"} \X UnitStates]
    /\ stopCall \in [Participants -> Calls] /\ forceCall \in [Participants -> Calls]
    /\ task \in [AllTasks -> {"idle", "running", "nil", "cancel", "error"}]
    /\ acked \subseteq Acknowledged /\ completed \subseteq AllTasks
    /\ pending \in [Participants -> {"no", "stop", "force"}]
    /\ candidates \subseteq Forceable
    /\ runErr \in Errors /\ stopErr \in BOOLEAN
    /\ result \in {"none", "nil", "error"}

-----------------------------------------------------------------------------
(* What the supervisor calls, and time.                                    *)

others == <<operation, pc, at, started, launched, state, ready, unit, taskUnit, completed,
            pending, candidates, runErr, stopErr, result>>

Cancel ==
    /\ ctx = "live" /\ pc # "done"
    /\ ctx' = "canceled"
    /\ UNCHANGED <<others, clock, callVars>>

\* The graceful deadline passes, and later the final one.
Tick ==
    /\ pc \in InShutdown /\ clock # "final"
    /\ clock' = IF clock = "open" THEN "graceful" ELSE "final"
    /\ UNCHANGED <<others, ctx, callVars>>

TaskAcknowledges(t) ==
    /\ task[t] = "running" /\ t \in Acknowledged \ acked
    /\ acked' = acked \cup {t}
    /\ UNCHANGED <<others, ctx, clock, stopCall, forceCall, task>>

TaskReturns(t) ==
    /\ task[t] = "running"
    /\ \E outcome \in {"nil", "cancel", "error"} : task' = [task EXCEPT ![t] = outcome]
    /\ UNCHANGED <<others, ctx, clock, stopCall, forceCall, acked>>

StopReturns(p) ==
    /\ stopCall[p] = "running"
    /\ \E outcome \in {"nil", "error"} : stopCall' = [stopCall EXCEPT ![p] = outcome]
    /\ UNCHANGED <<others, ctx, clock, forceCall, task, acked>>

ForceReturns(p) ==
    /\ forceCall[p] = "running"
    /\ \E outcome \in {"nil", "error"} : forceCall' = [forceCall EXCEPT ![p] = outcome]
    /\ UNCHANGED <<others, ctx, clock, stopCall, task, acked>>

Environment ==
    \/ Cancel
    \/ \E t \in AllTasks : TaskAcknowledges(t) \/ TaskReturns(t)
    \/ \E p \in Participants : StopReturns(p) \/ ForceReturns(p)

-----------------------------------------------------------------------------
(* Run and RunOperation up to the shutdown.                                *)

shutdownVars == <<clock, stopCall, forceCall, pending, candidates, stopErr>>

Mark(p, phase, to) == unit' = [unit EXCEPT ![p] = <<phase, to>>]
MarkTask(t, phase, to) == taskUnit' = [taskUnit EXCEPT ![t] = <<phase, to>>]

BeginRun ==
    /\ pc = "new"
    /\ state' = "starting"
    /\ pc' = "start" /\ at' = 1
    /\ UNCHANGED <<operation, ctx, started, launched, ready, unit, taskUnit, task, acked,
                   completed, runErr, result, shutdownVars>>

CallStart ==
    /\ pc = "start" /\ at \in Participants
    /\ Mark(at, "start", "running")
    /\ pc' = "starting"
    /\ UNCHANGED <<operation, ctx, at, started, launched, state, ready, taskUnit, task, acked,
                   completed, runErr, result, shutdownVars>>

Started ==
    /\ pc = "starting"
    /\ Mark(at, "ready", "ready")
    /\ started' = at /\ at' = at + 1 /\ pc' = "start"
    /\ UNCHANGED <<operation, ctx, launched, state, ready, taskUnit, task, acked, completed,
                   runErr, result, shutdownVars>>

\* settleUnstartedUnits: nothing is to be done for owners that were not begun.
Settled(units) ==
    [o \in DOMAIN units |-> IF units[o][2] = "pending" THEN <<units[o][1], "stopped">> ELSE units[o]]

StartFails(outcome) ==
    /\ pc = "starting" /\ outcome # "none"
    /\ unit' = Settled([unit EXCEPT ![at] = <<"start", "failed">>])
    /\ taskUnit' = Settled(taskUnit)
    /\ state' = "draining"
    /\ runErr' = outcome
    /\ pc' = "stop" /\ at' = started
    /\ UNCHANGED <<operation, ctx, started, launched, ready, task, acked, completed, result,
                   shutdownVars>>

LaunchTasks ==
    /\ pc = "start" /\ at > P /\ ~operation
    /\ launched' = TRUE
    /\ task' = [t \in AllTasks |-> "running"]
    /\ taskUnit' = [t \in AllTasks |-> <<"run", "running">>]
    /\ pc' = "readiness" /\ at' = 1
    /\ UNCHANGED <<operation, ctx, started, state, ready, unit, acked, completed, runErr,
                   result, shutdownVars>>

\* waitForReadiness waits for the tasks that acknowledge, one after the other.
Awaited == {t \in Acknowledged : t >= at}

TaskIsReady(t) ==
    /\ pc = "readiness" /\ t \in Awaited \cap acked /\ \A u \in Awaited : t <= u
    /\ MarkTask(t, "run", "ready")
    /\ at' = t + 1
    /\ UNCHANGED <<operation, ctx, pc, started, launched, state, ready, unit, task, acked,
                   completed, runErr, result, shutdownVars>>

Ready ==
    /\ \/ pc = "readiness" /\ Awaited = {} /\ pc' = "running"
       \/ pc = "start" /\ at > P /\ operation /\ pc' = "operating"
    /\ state' = "running" /\ ready' = TRUE
    /\ UNCHANGED <<operation, ctx, at, started, launched, unit, taskUnit, task, acked,
                   completed, runErr, result, shutdownVars>>

Waiting == (pc = "readiness" /\ Awaited # {}) \/ pc = "running"

ContextEnds ==
    /\ Waiting /\ ctx = "canceled"
    /\ runErr' = "cancel"
    /\ pc' = "drain"
    /\ UNCHANGED <<operation, ctx, at, started, launched, state, ready, unit, taskUnit, task,
                   acked, completed, result, shutdownVars>>

\* A task ends while the others go on: unless the context has ended, that is
\* a failure, whatever it returned.
TaskEnds(t) ==
    LET wanted == ctx = "canceled" /\ task[t] # "error"
    IN  /\ Waiting
        /\ task[t] \in {"nil", "cancel", "error"} /\ t \notin completed
        /\ completed' = completed \cup {t}
        /\ MarkTask(t, "run", IF wanted THEN "stopped" ELSE "failed")
        /\ runErr' = IF wanted \/ task[t] = "cancel" THEN "cancel" ELSE "error"
        /\ pc' = "drain"
        /\ UNCHANGED <<operation, ctx, at, started, launched, state, ready, unit, task, acked,
                       result, shutdownVars>>

\* normalizeCancellation: a cancellation that was asked for is no error.
Normalized(err) == IF ctx = "canceled" /\ err = "cancel" THEN "none" ELSE err

Drain ==
    /\ pc = "drain"
    /\ runErr' = Normalized(runErr)
    /\ state' = "draining" /\ ready' = FALSE
    /\ pc' = "stop" /\ at' = started
    /\ UNCHANGED <<operation, ctx, started, launched, unit, taskUnit, task, acked, completed,
                   result, shutdownVars>>

OperationReturns(outcome) ==
    /\ pc = "operating"
    /\ runErr' = outcome
    /\ state' = "draining" /\ ready' = FALSE
    /\ pc' = "stop" /\ at' = started
    /\ UNCHANGED <<operation, ctx, started, launched, unit, taskUnit, task, acked, completed,
                   result, shutdownVars>>

-----------------------------------------------------------------------------
(* shutdown: Stop in reverse order under the graceful deadline.            *)

runVars == <<operation, ctx, clock, started, launched, task, acked, runErr, result>>
unchangedStop == <<runVars, ready, taskUnit, completed, forceCall>>

Leave(p, phase) == pending' = [pending EXCEPT ![p] = phase]
Candidate(p) == candidates' = candidates \cup ({p} \cap Forceable)

CallStop ==
    /\ pc = "stop" /\ at > 0
    /\ state' = "stopping"
    /\ Mark(at, "stop", "running")
    /\ stopCall' = [stopCall EXCEPT ![at] = "running"]
    /\ pc' = "stopping"
    /\ UNCHANGED <<unchangedStop, at, pending, candidates, stopErr>>

StopTakes ==
    /\ pc = "stopping" /\ stopCall[at] \in {"nil", "error"}
    /\ \/ stopCall[at] = "nil" /\ Mark(at, "stop", "stopped") /\ UNCHANGED <<stopErr, candidates>>
       \/ stopCall[at] = "error" /\ Mark(at, "stop", "failed") /\ stopErr' = TRUE /\ Candidate(at)
    /\ pc' = "stop" /\ at' = at - 1
    /\ UNCHANGED <<unchangedStop, state, stopCall, pending>>

\* Faulty shutdown: a Stop that has not returned is not waited for.
StopGivesUp ==
    /\ pc = "stopping"
    /\ Mark(at, "stop", "pending")
    /\ stopErr' = TRUE /\ Leave(at, "stop") /\ Candidate(at)
    /\ pc' = "stop" /\ at' = at - 1
    /\ UNCHANGED <<unchangedStop, state, stopCall>>

\* The select may take the deadline though the result is there as well.
StopTimesOut ==
    /\ pc = "stopping" /\ clock # "open"
    /\ Mark(at, "stop", "pending")
    /\ stopErr' = TRUE /\ Leave(at, "stop") /\ Candidate(at)
    /\ pc' = "stop" /\ at' = at - 1
    /\ UNCHANGED <<unchangedStop, state, stopCall>>

-----------------------------------------------------------------------------
(* shutdown: ForceStop for those that offer it, up to the final deadline.  *)

unchangedForce == <<runVars, ready, taskUnit, completed, stopCall, candidates>>

StopsDone ==
    /\ pc = "stop" /\ at = 0
    /\ state' = "stopping"
    /\ pc' = "force" /\ at' = started
    /\ UNCHANGED <<unchangedForce, unit, forceCall, pending, stopErr>>

NotForced ==
    /\ pc = "force" /\ at > 0 /\ at \notin candidates
    /\ at' = at - 1
    /\ UNCHANGED <<unchangedForce, pc, state, unit, forceCall, pending, stopErr>>

\* The Stop left behind has returned in the meantime; after an error the
\* participant is still forced.
ForceReaps ==
    /\ pc = "force" /\ at \in candidates
    /\ pending[at] = "stop" /\ stopCall[at] # "running"
    /\ Leave(at, "no")
    /\ \/ stopCall[at] = "nil" /\ Mark(at, "stop", "stopped") /\ at' = at - 1 /\ UNCHANGED stopErr
       \/ stopCall[at] = "error" /\ Mark(at, "stop", "failed") /\ stopErr' = TRUE /\ UNCHANGED at
    /\ UNCHANGED <<unchangedForce, pc, state, forceCall>>

\* Faulty shutdown: forces without looking for the late result.
ForceBlindly ==
    /\ pc = "force" /\ at \in candidates
    /\ Mark(at, "force", "running")
    /\ forceCall' = [forceCall EXCEPT ![at] = "running"]
    /\ pc' = "forcing"
    /\ UNCHANGED <<unchangedForce, at, state, pending, stopErr>>

CallForceStop ==
    /\ pc = "force" /\ at \in candidates
    /\ pending[at] = "stop" => stopCall[at] = "running"
    /\ Mark(at, "force", "running")
    /\ forceCall' = [forceCall EXCEPT ![at] = "running"]
    /\ pc' = "forcing"
    /\ UNCHANGED <<unchangedForce, at, state, pending, stopErr>>

\* Faulty shutdown: a successful ForceStop counts as a graceful stop.
ForceForgives ==
    /\ pc = "forcing" /\ forceCall[at] \in {"nil", "error"}
    /\ Mark(at, "force", IF forceCall[at] = "nil" THEN "stopped" ELSE "failed")
    /\ stopErr' = (forceCall[at] = "error") /\ Leave(at, "no")
    /\ pc' = "force" /\ at' = at - 1
    /\ UNCHANGED <<unchangedForce, state, forceCall>>

\* The Stop that was left behind may still run: nobody waits for it any more.
ForceTakes ==
    /\ pc = "forcing" /\ forceCall[at] \in {"nil", "error"}
    /\ Mark(at, "force", IF forceCall[at] = "nil" THEN "forced" ELSE "failed")
    /\ stopErr' = TRUE /\ Leave(at, "no")
    /\ pc' = "force" /\ at' = at - 1
    /\ UNCHANGED <<unchangedForce, state, forceCall>>

ForceTimesOut ==
    /\ pc = "forcing" /\ clock = "final"
    /\ Mark(at, "force", "pending")
    /\ stopErr' = TRUE /\ Leave(at, "force")
    /\ pc' = "force" /\ at' = at - 1
    /\ UNCHANGED <<unchangedForce, state, forceCall>>

-----------------------------------------------------------------------------
(* shutdown: the calls and tasks left behind, and the end of the run.      *)

unchangedCollect == <<runVars, ready, stopCall, forceCall, candidates>>

ForcesDone ==
    /\ pc = "force" /\ at = 0
    /\ pc' = "collect" /\ at' = started
    /\ UNCHANGED <<unchangedCollect, state, unit, taskUnit, completed, pending, stopErr>>

LeftCall(p) == IF pending[p] = "force" THEN forceCall[p] ELSE stopCall[p]

Collect ==
    /\ pc = "collect" /\ at > 0 /\ pending[at] # "no"
    /\ LeftCall(at) # "running"
    /\ Mark(at, pending[at], IF LeftCall(at) = "error" THEN "failed"
                         ELSE IF pending[at] = "force" THEN "forced" ELSE "stopped")
    /\ stopErr' = (stopErr \/ LeftCall(at) = "error")
    /\ Leave(at, "no")
    /\ at' = at - 1
    /\ UNCHANGED <<unchangedCollect, pc, state, taskUnit, completed>>

CollectNothing ==
    /\ pc = "collect" /\ at > 0
    /\ pending[at] = "no" \/ clock = "final"
    /\ at' = at - 1
    /\ UNCHANGED <<unchangedCollect, pc, state, unit, taskUnit, completed, pending, stopErr>>

Launched == IF launched THEN Tasks ELSE {}
Unfinished == Launched \ completed

CollectDone ==
    /\ pc = "collect" /\ at = 0
    /\ taskUnit' = [t \in AllTasks |->
                       IF t \in Unfinished THEN <<"stop", "pending">> ELSE taskUnit[t]]
    /\ pc' = "waiting"
    /\ UNCHANGED <<unchangedCollect, at, state, unit, completed, pending, stopErr>>

TaskReaped(t) ==
    /\ pc = "waiting" /\ t \in Unfinished /\ task[t] # "running"
    /\ completed' = completed \cup {t}
    /\ MarkTask(t, "stop", IF task[t] = "error" THEN "failed" ELSE "stopped")
    /\ stopErr' = (stopErr \/ task[t] = "error")
    /\ UNCHANGED <<unchangedCollect, pc, at, state, unit, pending>>

\* Faulty waitTasksUntil: it has no deadline.
TasksWaitedFor ==
    /\ pc = "waiting" /\ Unfinished = {}
    /\ pc' = "complete"
    /\ UNCHANGED <<unchangedCollect, at, state, unit, taskUnit, completed, pending, stopErr>>

\* All tasks have ended, or those that have not stay pending.
WaitDone ==
    /\ pc = "waiting"
    /\ Unfinished = {} \/ clock = "final"
    /\ stopErr' = (stopErr \/ Unfinished # {})
    /\ pc' = "complete"
    /\ UNCHANGED <<unchangedCollect, at, state, unit, taskUnit, completed, pending>>

\* A cancellation that Start returned is normalised only here, and only by Run.
RunError == IF operation \/ launched THEN runErr ELSE Normalized(runErr)
Clean ==
    /\ \A p \in Participants : unit[p][2] = "stopped"
    /\ \A t \in Tasks : taskUnit[t][2] = "stopped"

Complete ==
    /\ pc = "complete"
    /\ result' = IF RunError = "none" /\ ~stopErr /\ Clean THEN "nil" ELSE "error"
    /\ state' = IF result' = "nil" THEN "stopped" ELSE "failed"
    /\ ready' = FALSE
    /\ pc' = "done"
    /\ UNCHANGED <<operation, ctx, clock, at, started, launched, unit, taskUnit, callVars,
                   completed, pending, candidates, runErr, stopErr>>

-----------------------------------------------------------------------------
SupervisorInit ==
    /\ operation \in BOOLEAN /\ ctx = "live" /\ clock = "open"
    /\ pc = "new" /\ at = 0 /\ started = 0 /\ launched = FALSE
    /\ state = "new" /\ ready = FALSE
    /\ unit = [p \in Participants |-> <<"start", "pending">>]
    /\ taskUnit = [t \in AllTasks |-> <<"run", "pending">>]
    /\ stopCall = [p \in Participants |-> "none"]
    /\ forceCall = [p \in Participants |-> "none"]
    /\ task = [t \in AllTasks |-> "idle"]
    /\ acked = {} /\ completed = {}
    /\ pending = [p \in Participants |-> "no"]
    /\ candidates = {} /\ runErr = "none" /\ stopErr = FALSE /\ result = "none"

Starts == Started \/ \E outcome \in Errors : StartFails(outcome)
Operates == \E outcome \in Errors : OperationReturns(outcome)

Supervises ==
    \/ BeginRun \/ CallStart \/ LaunchTasks \/ Ready \/ ContextEnds
    \/ \E t \in AllTasks : TaskIsReady(t) \/ TaskEnds(t) \/ TaskReaped(t)
    \/ Drain \/ CallStop \/ StopTakes \/ StopTimesOut \/ StopsDone
    \/ NotForced \/ ForceReaps \/ CallForceStop \/ ForceTakes \/ ForceTimesOut
    \/ ForcesDone \/ Collect \/ CollectNothing \/ CollectDone \/ WaitDone \/ Complete

Done == pc = "done" /\ UNCHANGED supervisorVars

SupervisorNext == Environment \/ Tick \/ Starts \/ Operates \/ Supervises \/ Done

SupervisorSpec == SupervisorInit /\ [][SupervisorNext]_supervisorVars

\* The goroutine of Run runs and time passes. Start and an operation are
\* called without a deadline, so they are relied upon to return; Stop,
\* ForceStop and the tasks are not.
SupervisorFairSpec ==
    /\ SupervisorSpec
    /\ WF_supervisorVars(Supervises) /\ WF_supervisorVars(Tick)
    /\ WF_supervisorVars(Starts) /\ WF_supervisorVars(Operates)

-----------------------------------------------------------------------------
(* Properties.                                                             *)

StartedOnes == 1..started
Resolved(p) == stopCall[p] \in {"nil", "error"}

\* A participant is stopped only when it was started and when everything that
\* started after it has been stopped, unless the graceful deadline passed
\* while waiting (shutdown, supervisor.go:355-383): what depends on it is gone.
StopsInReverse ==
    \A p \in Participants : stopCall[p] # "none" =>
        /\ p <= started
        /\ clock = "open" => \A q \in StartedOnes : q > p => Resolved(q)

\* ForceStop is only called on a participant that offers it and that has not
\* stopped by itself, and never before every Stop was begun; one that stopped
\* late, while others were being forced, is left alone (390-431).
ForceIsLastResort ==
    [][\A p \in Participants : forceCall[p] = "none" /\ forceCall'[p] # "none" =>
            /\ p \in Forceable
            /\ stopCall[p] = "error" \/ (stopCall[p] = "running" /\ clock # "open")
            /\ \A q \in StartedOnes : stopCall[q] # "none"]_supervisorVars

\* Run returns nil only after a shutdown in which nothing was left behind,
\* forced or lost: every Stop and every task has returned, with no error
\* (complete, 567-586; unitsClean, diagnostics.go:145-152).
CleanMeansClean ==
    result = "nil" =>
        /\ \A p \in StartedOnes : stopCall[p] = "nil" /\ forceCall[p] = "none"
        /\ \A t \in Launched : task[t] \in {"nil", "cancel"}
        /\ ctx = "canceled" \/ operation

\* Once the context is cancelled or a task has ended, Run returns within its
\* two deadlines, whatever Stop, ForceStop and the tasks do.
RunEnds ==
    ctx = "canceled" \/ (\E t \in Tasks : task[t] \notin {"idle", "running"}) ~> pc = "done"
=============================================================================

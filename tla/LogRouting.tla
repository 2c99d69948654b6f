----------------------------- MODULE LogRouting -----------------------------
(***************************************************************************)
(* Where a log line goes: the process has a logging manager, and so has    *)
(* each logger component of a generation, whose fallback is the view of    *)
(* the process's manager. A hand-over redirects the process's manager to   *)
(* the component of the new generation; lines are written all the while,   *)
(* through either, and hold the read locks of the managers they pass.      *)
(* (internal/kernel/logging/manager.go, app/logger/logger.go,              *)
(*  internal/composition/generation.go and generation_resources.go)        *)
(***************************************************************************)
EXTENDS Naturals, Sequences, FiniteSets

CONSTANTS
    Locals,     \* the managers of the logger components that are ever started
    Writers,    \* goroutines that write lines
    Process     \* the manager of the process

\* The process's manager is none of a component's, and neither is a place to write to.
ASSUME ManagersAssumption ==
    /\ IsFiniteSet(Locals) /\ Process \notin Locals
    /\ {"baseline", "resource"} \cap (Locals \cup {Process}) = {}

VARIABLES
    target,     \* per manager: where it writes: "baseline", "resource" (its own) or a manager
    resource,   \* per component: "none", "open" or "closed"
    users,      \* who has which component: the candidate, the current and the retiring generation
    steps,      \* what the operation under way has still to do; operations come one at a time
    passed      \* per writer: the managers whose read lock it holds, in its order

logVars == <<target, resource, users, steps, passed>>

Managers == Locals \cup {Process}
Roles == {"candidate", "current", "retiring"}

LogInit ==
    /\ target = [m \in Managers |-> IF m = Process THEN "baseline" ELSE Process]
    /\ resource = [m \in Locals |-> "none"]
    /\ users = [g \in Roles |-> {}]
    /\ steps = << >>
    /\ passed = [w \in Writers |-> << >>]

-----------------------------------------------------------------------------
(* Operations of the generation coordinator, as what they do to the loggers. *)
To(m, place) == [does |-> "switch", manager |-> m, to |-> place]
Closing(m) == [does |-> "close", manager |-> m, to |-> "none"]

\* The component of the last user is stopped: deactivate, then the finalizer.
LetGo(g) ==
    LET m == CHOOSE l \in users[g] : TRUE IN
    IF \E o \in Roles \ {g} : m \in users[o] THEN << >> ELSE <<To(m, Process), Closing(m)>>

NothingUnderWay == steps = << >>
Writing == UNCHANGED <<target, resource, passed>>

(* A generation takes the component that has its configuration, if one is in use, or *)
(* starts one, which is activated when it has been built. It is not prepared while   *)
(* the generation before the current one is not retired.                             *)
TakeLogger(m) ==
    /\ NothingUnderWay /\ users["candidate"] = {} /\ users["retiring"] = {}
    /\ \/ /\ m \in users["current"] /\ steps' = << >>
          /\ UNCHANGED resource
       \/ /\ resource[m] = "none" /\ steps' = <<To(m, "resource")>>
          /\ resource' = [resource EXCEPT ![m] = "open"]
    /\ users' = [users EXCEPT !["candidate"] = {m}]
    /\ UNCHANGED <<target, passed>>

AbortCandidate ==
    /\ NothingUnderWay /\ users["candidate"] # {}
    /\ steps' = LetGo("candidate")
    /\ users' = [users EXCEPT !["candidate"] = {}]
    /\ Writing

(* The last step of a commit. The generation before is retired afterwards. *)
CommitGeneration(m) ==
    /\ NothingUnderWay /\ m \in users["candidate"]
    /\ steps' = <<To(Process, m)>>
    /\ users' = [candidate |-> {}, current |-> {m}, retiring |-> users["current"]]
    /\ Writing

RetirePrevious ==
    /\ NothingUnderWay /\ users["retiring"] # {}
    /\ steps' = LetGo("retiring")
    /\ users' = [users EXCEPT !["retiring"] = {}]
    /\ Writing

\* Faulty: the resources go before the process's manager is restored.
LetGoFirst(g) == LetGo(g) \o <<To(Process, "baseline")>>

\* The current generation restores the process's manager, then releases its resources.
RestoredFirst(g) == <<To(Process, "baseline")>> \o LetGo(g)

(* A stop or a forced stop of the current generation that got as far as its resources. *)
StopCurrent ==
    /\ NothingUnderWay /\ users["current"] # {} /\ users["candidate"] = {}
    /\ steps' = RestoredFirst("current")
    /\ users' = [users EXCEPT !["current"] = {}]
    /\ Writing

-----------------------------------------------------------------------------
Locking(m) == steps # << >> /\ Head(steps).does = "switch" /\ Head(steps).manager = m
Holds(w, m) == \E i \in 1..Len(passed[w]) : passed[w][i] = m

(* Replace and Restore lock the manager: they wait for the lines that pass it. *)
Switch ==
    /\ steps # << >> /\ Locking(Head(steps).manager)
    /\ \A w \in Writers : ~Holds(w, Head(steps).manager)
    /\ target' = [target EXCEPT ![Head(steps).manager] = Head(steps).to]
    /\ steps' = Tail(steps)
    /\ UNCHANGED <<resource, users, passed>>

CloseResource ==
    /\ steps # << >> /\ Head(steps).does = "close"
    /\ resource' = [resource EXCEPT ![Head(steps).manager] = "closed"]
    /\ steps' = Tail(steps)
    /\ UNCHANGED <<target, users, passed>>

(* write: the read lock of a manager, which a waiting switch holds off, then that of *)
(* the manager it is directed to, and so on; the locks are held until the line is    *)
(* written. Whoever was given the view of a component may still have it.             *)
Line(w, m) ==
    /\ passed[w] = << >> /\ ~Locking(m)
    /\ m \in Locals => resource[m] # "none"
    /\ passed' = [passed EXCEPT ![w] = <<m>>]
    /\ UNCHANGED <<target, resource, users, steps>>

Place(w) == target[passed[w][Len(passed[w])]]

CanPassOn(w) ==
    passed[w] # << >> /\ Place(w) \in Managers /\ ~Locking(Place(w)) /\ ~Holds(w, Place(w))

PassOn(w) ==
    /\ CanPassOn(w)
    /\ passed' = [passed EXCEPT ![w] = Append(@, Place(w))]
    /\ UNCHANGED <<target, resource, users, steps>>

HasArrived(w) == passed[w] # << >> /\ Place(w) \notin Managers

Written(w) ==
    /\ HasArrived(w)
    /\ passed' = [passed EXCEPT ![w] = << >>]
    /\ UNCHANGED <<target, resource, users, steps>>

LogNext ==
    \/ AbortCandidate \/ RetirePrevious \/ StopCurrent \/ Switch \/ CloseResource
    \/ \E m \in Locals : TakeLogger(m) \/ CommitGeneration(m)
    \/ \E w \in Writers : PassOn(w) \/ Written(w) \/ \E m \in Managers : Line(w, m)

LogSpec == LogInit /\ [][LogNext]_logVars

-----------------------------------------------------------------------------
LogTypeOK ==
    /\ target \in [Managers -> {"baseline", "resource"} \cup Managers]
    /\ resource \in [Locals -> {"none", "open", "closed"}]
    /\ \A g \in Roles : users[g] \subseteq Locals /\ Cardinality(users[g]) <= 1
    /\ \A w \in Writers : Len(passed[w]) <= Cardinality(Managers)

(* A line that has reached its place is written to an open logger, however the      *)
(* generations change while it is on its way.                                       *)
OnlyOpenIsWritten ==
    \A w \in Writers :
       passed[w] # << >> /\ Place(w) = "resource" => resource[passed[w][Len(passed[w])]] = "open"

(* A line never comes to a manager a second time, where it would go round for ever  *)
(* or wait behind a switch that waits for it: the manager of the process is never   *)
(* directed to a component that falls back to it.                                   *)
NoLineGoesRound ==
    \A w \in Writers : passed[w] # << >> => ~Holds(w, Place(w))

(* Whoever waits for a lock waits for lines that are not waiting themselves.        *)
NoLockInCircles ==
    steps # << >> /\ Head(steps).does = "switch" =>
       \A w \in Writers : Holds(w, Head(steps).manager) => CanPassOn(w) \/ HasArrived(w)

(* When no operation is under way, the process writes to the current generation's   *)
(* logger, or to the baseline if there is none.                                     *)
ProcessFollowsCurrent ==
    NothingUnderWay => target[Process] = IF users["current"] = {} THEN "baseline" ELSE CHOOSE m \in users["current"] : TRUE

LinesAreWritten ==
    LogTypeOK /\ OnlyOpenIsWritten /\ NoLineGoesRound /\ NoLockInCircles /\ ProcessFollowsCurrent
=============================================================================

------------------------------ MODULE MCProcess ------------------------------
(* What runs a process: the coordinator over its kernel, and the supervisor  *)
(* of participants and tasks, side by side. They share no state, so each     *)
(* behaviour is one of them.                                                 *)
EXTENDS Coordinator, Supervisor

\* Three components, one of each policy: 1 has no section, 2 is swapped and 3
\* needs a restart; 2 and 3 have a finalizer.
FixedComponent == {1}
RestartComponent == {3}
ClosableComponents == {2, 3}

\* Two participants, of which the one stopped last can be forced, and two
\* tasks, of which one acknowledges that it is running.
MCForceable == {1}
MCAcknowledged == {1}

VARIABLE part
processVars == <<part, allVars, supervisorVars>>

ProcessInit ==
    /\ part \in {"coordinator", "supervisor"}
    /\ CoordinatorInit
    /\ SupervisorInit /\ (part = "coordinator" => operation)

Coordinates == part = "coordinator" /\ UNCHANGED <<part, supervisorVars>>
Supervising == part = "supervisor" /\ UNCHANGED <<part, allVars>>

ProcessNext ==
    \/ Coordinates /\ CoordinatorNext
    \/ Supervising /\ SupervisorNext

\* As in SupervisorFairSpec.
ProcessSpec ==
    /\ ProcessInit /\ [][ProcessNext]_processVars
    /\ WF_processVars(Supervising /\ Supervises)
    /\ WF_processVars(Supervising /\ Tick)
    /\ WF_processVars(Supervising /\ Starts)
    /\ WF_processVars(Supervising /\ Operates)
=============================================================================

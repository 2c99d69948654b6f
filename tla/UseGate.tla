------------------------------- MODULE UseGate -------------------------------
(***************************************************************************)
(* What a component promises to those who use it, without its leases,      *)
(* drains and transactions: a component has at most one open instance, a   *)
(* callback enters the open one and keeps it until it returns, another     *)
(* instance is opened, or none, only while nobody is inside, and an        *)
(* instance that is closed for good is never opened or entered again.      *)
(***************************************************************************)
CONSTANTS Components, Users, Generations, None

VARIABLES
    open,    \* the instance of each component that callbacks enter, or None
    inside,  \* the instance of each component that each user is in, or None
    closed   \* the instances of each component that were closed for good

gateVars == <<open, inside, closed>>

Empty(c) == \A u \in Users : inside[u][c] = None

GateInit ==
    /\ open = [c \in Components |-> None]
    /\ inside = [u \in Users |-> [c \in Components |-> None]]
    /\ closed = [c \in Components |-> {}]

Enter(u, c) ==
    /\ open[c] # None /\ inside[u][c] = None
    /\ inside' = [inside EXCEPT ![u] = [@ EXCEPT ![c] = open[c]]]
    /\ UNCHANGED <<open, closed>>

Leave(u, c) ==
    /\ inside[u][c] # None
    /\ inside' = [inside EXCEPT ![u] = [@ EXCEPT ![c] = None]]
    /\ UNCHANGED <<open, closed>>

Switch(c, g) ==
    /\ Empty(c) /\ g \notin closed[c]
    /\ open' = [open EXCEPT ![c] = g]
    /\ UNCHANGED <<inside, closed>>

Close(c, g) ==
    /\ open[c] # g /\ \A u \in Users : inside[u][c] # g
    /\ closed' = [closed EXCEPT ![c] = @ \cup {g}]
    /\ UNCHANGED <<open, inside>>

GateNext ==
    \/ \E u \in Users, c \in Components : Enter(u, c) \/ Leave(u, c)
    \/ \E c \in Components : \E g \in Generations : Switch(c, g) \/ Close(c, g)
    \/ \E c \in Components : Switch(c, None)

GateSpec == GateInit /\ [][GateNext]_gateVars
=============================================================================

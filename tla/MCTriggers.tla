----------------------------- MODULE MCTriggers -----------------------------
(* What starts work by itself: the two halves of the scheduler, the time     *)
(* windows of its leaders and the watch of the configuration file, side by   *)
(* side. They share no state, so each behaviour is one of them.              *)
EXTENDS Leadership, TaskSlots, LeaseWindow, ConfigWatch, TLC

CONSTANTS i1, i2, i3, i4

MCTaskOf == i1 :> "serial" @@ i2 :> "report" @@ i3 :> "report" @@ i4 :> "report"
MCConcurrency ==
    "serial" :> [max |-> 1, congestion |-> "skip", queue |-> 0] @@
    "report" :> [max |-> 2, congestion |-> "wait", queue |-> 2]

Declared(mode, unavailable, override) == [mode |-> mode, unavailable |-> unavailable, override |-> override]

\* As the module has it or otherwise; a strict task that is to be weakened, a
\* local one that is to be coordinated.
MCDeclarations ==
    {Declared(Strict, "pause", ""), Declared(Strict, "skip", "fail"), Declared(BestEffort, "pause", "local"),
     Declared(Strict, "pause", "local"), Declared(Local, "", "pause"), Declared(Local, "", "")}

\* The times of a file, safe and unsafe; a product that overflows among them.
MCTimes == [lease : {0, 3, 6, 7, 9}, renew : {0, 1, 2, 3, 11}, acquire : {-1, 1, 2, 5, 9}]
SafeTimes == [lease |-> 9, renew |-> 3, acquire |-> 1]

VARIABLE part
vars == <<part, leadVars, slotVars, windowVars, watchVars>>

Init ==
    /\ part \in {"leadership", "slots", "windows", "watch"}
    /\ SlotsInit /\ WatchInit
    /\ LeadershipInit /\ (part # "leadership" => policy = <<Strict, "pause">>)
    /\ WindowInit /\ (part # "windows" => times = SafeTimes)

Leads == part = "leadership" /\ UNCHANGED <<part, slotVars, windowVars, watchVars>>
Admits == part = "slots" /\ UNCHANGED <<part, leadVars, windowVars, watchVars>>
KeepsTime == part = "windows" /\ UNCHANGED <<part, leadVars, slotVars, watchVars>>
WatchesFile == part = "watch" /\ UNCHANGED <<part, leadVars, slotVars, windowVars>>

Next ==
    \/ Leads /\ LeadershipNext
    \/ Admits /\ SlotsNext
    \/ KeepsTime /\ WindowNext
    \/ WatchesFile /\ WatchNext

\* A lease that is not renewed lapses; Redis answers again and again, and a
\* replica that keeps asking does not always ask at the wrong moment; a business
\* function ends, by itself or when its context does; an event of the file
\* arrives, the timer fires and a load that began goes on. A behaviour stays in
\* its part, so one condition serves an action of each.
Spec ==
    /\ Init /\ [][Next]_vars
    /\ WF_vars((Leads /\ Expire) \/ (WatchesFile /\ (Register \/ TakeEvent)))
    /\ \A r \in Replicas : WF_vars(Leads /\ Coordinates(r)) /\ SF_vars(Leads /\ AcquireWins(r))
    /\ WF_vars((Admits /\ Acquires(i1)) \/ (WatchesFile /\ Fire))
    /\ WF_vars((Admits /\ Acquires(i2)) \/ (WatchesFile /\ Reloads))
    /\ \A i \in {i3, i4} : WF_vars(Admits /\ Acquires(i))
    /\ \A i \in Invocations : WF_vars(Admits /\ Finish(i))

\* A job that fires has the right to, and a run that begins has its slot: a
\* leader admits under its authority, and the slots of the tasks are counted
\* exactly, whatever is given up half way.
AdmissionIsSound ==
    LeadershipInv /\ SlotsInv /\ WindowInv /\ WatchInv
=============================================================================

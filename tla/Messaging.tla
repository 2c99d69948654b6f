------------------------------ MODULE Messaging ------------------------------
(***************************************************************************)
(* The hand-over of message consumption between application generations:   *)
(* the Hub closes the admission of the old generation before it opens the  *)
(* new one, while each generation has a monitor that closes and opens its  *)
(* admission as the health of the execution store changes.                 *)
(* (internal/kernel/app/messaging/hub.go and messaging.go)                 *)
(***************************************************************************)
EXTENDS Naturals, FiniteSets

CONSTANTS
    Generations,    \* 1..n, committed in that order
    InFlight        \* bound: handlers of a generation that run at once

ASSUME MessagingAssumption == Generations \subseteq Nat \ {0} /\ InFlight \in Nat \ {0}

VARIABLES
    current,     \* Hub.current, 0 for none
    hub,         \* what the Hub does: [stage, cand]
    healthy,     \* executionHealthy
    open,        \* per generation: the providers deliver
    handlers,    \* per generation: business handlers that run
    consuming,   \* resource.consuming
    admitted,    \* resource.admitted, and active of every consumer
    monitor,     \* goroutines of monitorExecution: [at, ready, canceled]
    setting      \* setConsumerAdmission, per caller: [at, enable]; the one at "call" or "undo" holds admissionMu

messagingVars == <<current, hub, healthy, open, handlers, consuming, admitted, monitor, setting>>

\* A generation that is restored gets a second monitor while the first leaves.
Monitors == Generations \X {1, 2}
Of(g) == {m \in Monitors : m[1] = g}
Hub == <<0, 0>>
Callers == {Hub} \cup Monitors
Quiet == [at |-> "none", enable |-> FALSE]

MessagingTypeOK ==
    /\ current \in {0} \cup Generations
    /\ hub \in [stage : {"idle", "closing", "restoring", "opening", "withdrawing", "retiring", "stopped"},
                cand : {0} \cup Generations]
    /\ healthy \in BOOLEAN
    /\ open \in [Generations -> BOOLEAN] /\ handlers \in [Generations -> 0..InFlight]
    /\ consuming \in [Generations -> BOOLEAN] /\ admitted \in [Generations -> BOOLEAN]
    /\ monitor \in [Monitors -> [at : {"none", "ticking", "setting"}, ready : BOOLEAN, canceled : BOOLEAN]]
    /\ setting \in [Callers -> [at : {"none", "lock", "call", "undo", "ok", "failed"}, enable : BOOLEAN]]

\* The generation that a caller of setConsumerAdmission is working on.
Subject(a) ==
    IF a # Hub THEN a[1]
    ELSE CASE hub.stage \in {"closing", "restoring", "retiring"} -> current
           [] hub.stage \in {"opening", "withdrawing"} -> IF hub.cand = 0 THEN current ELSE hub.cand
           [] OTHER -> 0

Set(a, at, enable) == setting' = [setting EXCEPT ![a] = [at |-> at, enable |-> enable]]
Stage(s) == hub' = [hub EXCEPT !.stage = s]

-----------------------------------------------------------------------------
(* setConsumerAdmission, one caller at a time per generation.              *)

\* Faulty setConsumerAdmission: what is wanted is not looked at again.
NeededUnchecked(a) == admitted[Subject(a)] # setting[a].enable

\* Under the lock: a generation that is no longer to consume is not opened.
Needed(a) ==
    /\ admitted[Subject(a)] # setting[a].enable
    /\ setting[a].enable => consuming[Subject(a)]

SetterBegins(a) ==
    /\ setting[a].at = "lock"
    /\ \A b \in Callers \ {a} : setting[b].at \in {"call", "undo"} => Subject(b) # Subject(a)
    /\ IF Needed(a)
       THEN /\ Set(a, "call", setting[a].enable)
            /\ open' = [open EXCEPT ![Subject(a)] = setting[a].enable]
       ELSE Set(a, "ok", setting[a].enable) /\ UNCHANGED open
    /\ UNCHANGED <<current, hub, healthy, handlers, consuming, admitted, monitor>>

OpenSucceeds(a) ==
    /\ setting[a].at = "call" /\ setting[a].enable
    /\ Set(a, "ok", TRUE) /\ admitted' = [admitted EXCEPT ![Subject(a)] = TRUE]
    /\ UNCHANGED <<current, hub, healthy, open, handlers, consuming, monitor>>

\* A provider cannot be activated: all are closed again, without a deadline.
OpenBreaks(a) ==
    /\ setting[a].at = "call" /\ setting[a].enable
    /\ Set(a, "undo", TRUE) /\ open' = [open EXCEPT ![Subject(a)] = FALSE]
    /\ UNCHANGED <<current, hub, healthy, handlers, consuming, admitted, monitor>>

Undone(a) ==
    /\ setting[a].at = "undo" /\ handlers[Subject(a)] = 0
    /\ Set(a, "failed", setting[a].enable)
    /\ UNCHANGED <<current, hub, healthy, open, handlers, consuming, admitted, monitor>>

Patient(a) == IF a = Hub THEN FALSE ELSE ~monitor[a].canceled

\* The providers wait for the handlers until the caller's context ends: that of
\* the Hub has a deadline, that of the monitor ends when it is canceled.
CloseReturns(a) ==
    LET g == Subject(a) IN
    /\ setting[a].at = "call" /\ ~setting[a].enable
    /\ \/ handlers[g] = 0 /\ Set(a, "ok", FALSE)
       \/ ~Patient(a) /\ Set(a, "failed", FALSE)
    /\ admitted' = [admitted EXCEPT ![g] = FALSE]
    /\ UNCHANGED <<current, hub, healthy, open, handlers, consuming, monitor>>

-----------------------------------------------------------------------------
(* The Hub. activate and deactivate of a generation are called by it only. *)

Canceled(g) == [m \in Monitors |-> [monitor[m] EXCEPT !.canceled = @ \/ (m[1] = g /\ monitor[m].at # "none")]]

\* deactivate, up to its call of setConsumerAdmission.
Deactivates(g) ==
    /\ consuming' = [consuming EXCEPT ![g] = FALSE]
    /\ monitor' = Canceled(g)
    /\ Set(Hub, IF consuming[g] THEN "lock" ELSE "ok", FALSE)

\* activate, up to its call of setConsumerAdmission.
Activates(g) ==
    /\ consuming' = [consuming EXCEPT ![g] = TRUE]
    /\ Set(Hub, IF healthy THEN "lock" ELSE "ok", healthy)
    /\ UNCHANGED monitor

\* Bound: two monitors of a generation at most, so the next hand-over waits
\* until the monitor of a restored generation's earlier turn is gone.
OneMonitor(g) == g = 0 \/ \E m \in Of(g) : monitor[m].at = "none"

Commit(c) ==
    /\ hub.stage = "idle" /\ c = current + 1 /\ OneMonitor(current) /\ OneMonitor(c)
    /\ hub' = [stage |-> IF current = 0 THEN "opening" ELSE "closing", cand |-> c]
    /\ IF current = 0 THEN Activates(c) ELSE Deactivates(current)
    /\ UNCHANGED <<current, healthy, open, handlers, admitted>>

Answered(s, r) == hub.stage = s /\ setting[Hub].at = r
HubDone(stage) == hub' = [stage |-> stage, cand |-> 0] /\ setting' = [setting EXCEPT ![Hub] = Quiet]

CloseFails ==
    /\ Answered("closing", "failed")
    /\ hub' = [stage |-> "restoring", cand |-> 0] /\ Activates(current)
    /\ UNCHANGED <<current, healthy, open, handlers, admitted>>

Closed ==
    /\ Answered("closing", "ok")
    /\ Stage("opening") /\ Activates(hub.cand)
    /\ UNCHANGED <<current, healthy, open, handlers, admitted>>

\* activate returns and leaves a monitor behind; the generation is current.
Opened ==
    LET g == Subject(Hub) IN
    /\ hub.stage \in {"opening", "restoring"} /\ setting[Hub].at = "ok"
    /\ \E m \in Of(g) :
        /\ monitor[m].at = "none"
        /\ monitor' = [monitor EXCEPT ![m] =
              [at |-> "ticking", ready |-> setting[Hub].enable, canceled |-> FALSE]]
    /\ current' = g
    /\ HubDone("idle")
    /\ UNCHANGED <<healthy, open, handlers, consuming, admitted>>

\* activate withdraws what it could not open, whatever that brings.
OpenFails ==
    /\ hub.stage \in {"opening", "restoring"} /\ setting[Hub].at = "failed"
    /\ Stage("withdrawing") /\ Deactivates(Subject(Hub))
    /\ UNCHANGED <<current, healthy, open, handlers, admitted>>

\* Then the previous generation is opened again, unless it was the one.
Withdrawn ==
    /\ hub.stage = "withdrawing" /\ setting[Hub].at \in {"ok", "failed"}
    /\ IF hub.cand # 0 /\ current # 0
       THEN hub' = [stage |-> "restoring", cand |-> 0] /\ Activates(current)
       ELSE HubDone("idle") /\ UNCHANGED <<consuming, monitor>>
    /\ UNCHANGED <<current, healthy, open, handlers, admitted>>

\* Retire, the last thing the Hub does, withdraws the current generation.
Retire ==
    /\ hub.stage = "idle" /\ current # 0
    /\ Stage("retiring") /\ Deactivates(current)
    /\ UNCHANGED <<current, healthy, open, handlers, admitted>>

Retired ==
    /\ hub.stage = "retiring" /\ setting[Hub].at \in {"ok", "failed"}
    /\ current' = 0
    /\ HubDone("stopped")
    /\ UNCHANGED <<healthy, open, handlers, consuming, admitted, monitor>>

-----------------------------------------------------------------------------
(* The monitor of a generation, the deliveries, the execution store.       *)

HealthChanges ==
    /\ healthy' = ~healthy
    /\ UNCHANGED <<current, hub, open, handlers, consuming, admitted, monitor, setting>>

MonitorTicks(m) ==
    /\ monitor[m].at = "ticking" /\ healthy # monitor[m].ready
    /\ monitor' = [monitor EXCEPT ![m].at = "setting"]
    /\ Set(m, "lock", healthy)
    /\ UNCHANGED <<current, hub, healthy, open, handlers, consuming, admitted>>

\* Faulty monitor: a change that failed is taken for done.
MonitorForgets(m) ==
    /\ monitor[m].at = "setting" /\ setting[m].at \in {"ok", "failed"}
    /\ monitor' = [monitor EXCEPT ![m].at = "ticking", ![m].ready = setting[m].enable]
    /\ setting' = [setting EXCEPT ![m] = Quiet]
    /\ UNCHANGED <<current, hub, healthy, open, handlers, consuming, admitted>>

\* A change that failed is tried again at the next tick, unless the turn is over.
MonitorSet(m) ==
    /\ monitor[m].at = "setting" /\ setting[m].at \in {"ok", "failed"}
    /\ monitor' = [monitor EXCEPT ![m].at = "ticking",
                                  ![m].ready = IF setting[m].at = "ok" \/ monitor[m].canceled
                                                 THEN setting[m].enable ELSE @]
    /\ setting' = [setting EXCEPT ![m] = Quiet]
    /\ UNCHANGED <<current, hub, healthy, open, handlers, consuming, admitted>>

MonitorEnds(m) ==
    /\ monitor[m].at = "ticking" /\ monitor[m].canceled
    /\ monitor' = [monitor EXCEPT ![m] = [at |-> "none", ready |-> FALSE, canceled |-> FALSE]]
    /\ UNCHANGED <<current, hub, healthy, open, handlers, consuming, admitted, setting>>

\* handle: a delivery to a consumer that is not active is deferred.
HandlerStarts(g) ==
    /\ open[g] /\ admitted[g] /\ handlers[g] < InFlight
    /\ handlers' = [handlers EXCEPT ![g] = @ + 1]
    /\ UNCHANGED <<current, hub, healthy, open, consuming, admitted, monitor, setting>>

HandlerEnds(g) ==
    /\ handlers[g] > 0
    /\ handlers' = [handlers EXCEPT ![g] = @ - 1]
    /\ UNCHANGED <<current, hub, healthy, open, consuming, admitted, monitor, setting>>

-----------------------------------------------------------------------------
MessagingInit ==
    /\ current = 0 /\ hub = [stage |-> "idle", cand |-> 0] /\ healthy = TRUE
    /\ open = [g \in Generations |-> FALSE] /\ handlers = [g \in Generations |-> 0]
    /\ consuming = [g \in Generations |-> FALSE] /\ admitted = [g \in Generations |-> FALSE]
    /\ monitor = [m \in Monitors |-> [at |-> "none", ready |-> FALSE, canceled |-> FALSE]]
    /\ setting = [a \in Callers |-> Quiet]

Sets(a) == SetterBegins(a) \/ OpenSucceeds(a) \/ Undone(a) \/ CloseReturns(a)
Hands == CloseFails \/ Closed \/ Opened \/ OpenFails \/ Withdrawn \/ Retired
Watches(m) == MonitorTicks(m) \/ MonitorSet(m) \/ MonitorEnds(m)

MessagingNext ==
    \/ \E c \in Generations : Commit(c)
    \/ Retire \/ Hands \/ HealthChanges
    \/ \E a \in Callers : Sets(a) \/ OpenBreaks(a)
    \/ \E m \in Monitors : Watches(m)
    \/ \E g \in Generations : HandlerStarts(g) \/ HandlerEnds(g)

MessagingSpec == MessagingInit /\ [][MessagingNext]_messagingVars

-----------------------------------------------------------------------------
(* Properties.                                                             *)

\* At no moment are two generations admitted, whatever the monitors do while the
\* Hub hands over, and nothing is admitted behind the Hub's back: a monitor never
\* opens a generation that the Hub has closed (setConsumerAdmission,
\* messaging.go:462-502).
OneGenerationAdmits ==
    /\ MessagingTypeOK
    /\ \A g, q \in Generations : admitted[g] /\ admitted[q] => g = q
    /\ hub.stage \in {"idle", "stopped"} => \A g \in Generations : admitted[g] => g = current

\* Why: the generation that is to consume is the one whose turn it is; what is
\* admitted or being opened is to consume, or the Hub is still about to close it;
\* and one caller at a time opens or closes a generation.
Turn == CASE hub.stage = "idle" -> current
          [] hub.stage \in {"restoring", "opening"} -> Subject(Hub)
          [] OTHER -> 0

Closing(g) ==
    /\ hub.stage \in {"closing", "withdrawing", "retiring"} /\ Subject(Hub) = g
    /\ setting[Hub].at \in {"lock", "call"}

Opening(a) == setting[a].at = "call" /\ setting[a].enable
Locked(a) == setting[a].at \in {"call", "undo"}

AdmissionInv ==
    /\ MessagingTypeOK
    /\ hub.stage \in {"closing", "restoring", "opening", "withdrawing", "retiring"} =>
            Subject(Hub) \in Generations
    /\ hub.stage = "closing" => hub.cand # 0
    /\ hub.stage = "restoring" => hub.cand = 0
    /\ hub.stage \in {"idle", "stopped"} => setting[Hub].at = "none"
    /\ hub.stage \in {"closing", "withdrawing", "retiring"} => ~setting[Hub].enable
    /\ \A g \in Generations : consuming[g] => g = Turn
    /\ \A g \in Generations : admitted[g] => consuming[g] \/ Closing(g)
    /\ \A a \in Callers : Opening(a) => consuming[Subject(a)] \/ Closing(Subject(a))
    /\ \A a, b \in Callers : Locked(a) /\ Locked(b) /\ Subject(a) = Subject(b) => a = b

\* The monitor of an earlier turn of g, withdrawn and restored since, is still in
\* a change that closes g: it may come behind the new monitor, which took over
\* that g is open and only looks for changes of the health.
LeftBehind(g) ==
    /\ consuming[g]
    /\ \E m \in Of(g) : monitor[m].canceled /\ monitor[m].at = "setting" /\ ~setting[m].enable

\* If handlers end: a generation that is to consume, the successor after a
\* hand-over as well as the one a failed hand-over restored, does so once the
\* execution store is healthy for good: its monitor misses no change. What the
\* code leaves open is a generation restored while its old monitor is in a change
\* (activate and monitorExecution, messaging.go:385-426, 504-530).
PauseIsLifted ==
    (\A g \in Generations : WF_messagingVars(HandlerEnds(g)))
    => \A g \in Generations :
        []~LeftBehind(g) =>
        [](consuming[g] /\ hub.stage = "idle" /\ []healthy => <>(admitted[g] \/ hub.stage # "idle"))

\* A hand-over ends even if a handler never does, unless an opening is undone: it
\* never waits for a monitor that waits for handlers (Commit, hub.go:24-53).
HandOverEnds ==
    hub.stage # "idle" ~> hub.stage \in {"idle", "stopped"} \/ \E a \in Callers : setting[a].at = "undo"

\* Both: a hand-over ends, and what it or the monitor has paused goes on.
HandOversSettle == HandOverEnds /\ PauseIsLifted
=============================================================================

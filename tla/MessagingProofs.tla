--------------------------- MODULE MessagingProofs ---------------------------
(***************************************************************************)
(* Theorems about the hand-over of message consumption, for any number of  *)
(* generations and of handlers that run at once; about a session and what  *)
(* its publishers are told, for any number of messages; and about the      *)
(* copies of a message that are dead-lettered, under any configuration.    *)
(***************************************************************************)
EXTENDS Messaging, RabbitSession, Delivery, SequenceTheorems, TLAPS

LEMMA CallerFacts ==
    /\ Hub \in Callers /\ Hub \notin Monitors
    /\ \A m \in Monitors : m \in Callers /\ m # Hub /\ Subject(m) = m[1] /\ m[1] \in Generations
    /\ \A a \in Callers : a = Hub \/ a \in Monitors
    /\ 0 \notin Generations
<1>1. 0 \notin Generations
  BY MessagingAssumption
<1>2. \A m \in Monitors : m[1] \in Generations
  BY DEF Monitors
<1>3. \A m \in Monitors : m # Hub
  BY <1>1, <1>2 DEF Hub
<1>4. QED
  BY <1>1, <1>2, <1>3 DEF Callers, Subject

\* The stages in which the Hub works on a generation.
Working == {"closing", "restoring", "opening", "withdrawing", "retiring"}

LEMMA HubSubject ==
    /\ hub.stage \in {"closing", "restoring", "retiring"} => Subject(Hub) = current
    /\ hub.stage \in {"opening", "withdrawing"} =>
          Subject(Hub) = IF hub.cand = 0 THEN current ELSE hub.cand
    /\ hub.stage \notin Working => Subject(Hub) = 0
BY DEF Subject, Working

\* Steps of one caller of setConsumerAdmission: the Hub stays where it is.
LEMMA SubjectFrame ==
    ASSUME UNCHANGED <<current, hub>>
    PROVE  Turn' = Turn /\ \A a : Subject(a)' = Subject(a)
BY DEF Turn, Subject

LEMMA SetterPreserves ==
    ASSUME AdmissionInv, NEW a \in Callers, Sets(a) \/ OpenBreaks(a)
    PROVE  AdmissionInv'
<1> DEFINE g == Subject(a)
<1>0. /\ UNCHANGED <<current, hub, healthy, handlers, consuming, monitor>>
      /\ Turn' = Turn /\ \A b : Subject(b)' = Subject(b)
      /\ setting[a].at \in {"lock", "call", "undo"}
  <2>1. UNCHANGED <<current, hub, healthy, handlers, consuming, monitor>>
    BY DEF Sets, SetterBegins, OpenSucceeds, Undone, CloseReturns, OpenBreaks
  <2>2. setting[a].at \in {"lock", "call", "undo"}
    BY DEF Sets, SetterBegins, OpenSucceeds, Undone, CloseReturns, OpenBreaks
  <2>3. QED
    BY <2>1, <2>2, SubjectFrame
<1>1. /\ \A b \in Callers : b # a => setting'[b] = setting[b]
      /\ setting'[a].enable = setting[a].enable
      /\ setting'[a].at \in {"call", "undo", "ok", "failed"}
      /\ setting' \in [Callers -> [at : {"none", "lock", "call", "undo", "ok", "failed"}, enable : BOOLEAN]]
  <2>1. PICK step \in {"call", "undo", "ok", "failed"}, enable \in BOOLEAN :
            Set(a, step, enable) /\ enable = setting[a].enable
    <3>1. setting[a].enable \in BOOLEAN
      BY DEF AdmissionInv, MessagingTypeOK
    <3>2. CASE SetterBegins(a)
      BY <3>1, <3>2 DEF SetterBegins
    <3>3. CASE OpenSucceeds(a) \/ OpenBreaks(a)
      BY <3>1, <3>3 DEF OpenSucceeds, OpenBreaks
    <3>4. CASE Undone(a)
      BY <3>1, <3>4 DEF Undone
    <3>5. CASE CloseReturns(a)
      BY <3>1, <3>5 DEF CloseReturns
    <3>6. QED
      BY <3>2, <3>3, <3>4, <3>5 DEF Sets
  <2>2. QED
    BY <2>1 DEF Set, AdmissionInv, MessagingTypeOK
<1>2. MessagingTypeOK'
  <2>1. open' \in [Generations -> BOOLEAN] /\ admitted' \in [Generations -> BOOLEAN]
    BY DEF Sets, SetterBegins, OpenSucceeds, Undone, CloseReturns, OpenBreaks, AdmissionInv,
           MessagingTypeOK
  <2>2. QED
    BY <1>0, <1>1, <2>1 DEF AdmissionInv, MessagingTypeOK
<1>3. g \in Generations
  <2>1. a = Hub => hub.stage \in Working
    BY <1>0 DEF AdmissionInv, MessagingTypeOK, Working
  <2>2. QED
    BY <2>1, CallerFacts DEF AdmissionInv, Working
<1>4. \A h \in Generations : h # g => admitted'[h] = admitted[h]
  BY DEF Sets, SetterBegins, OpenSucceeds, Undone, CloseReturns, OpenBreaks, AdmissionInv,
         MessagingTypeOK
<1>5. \A b, c \in Callers : Locked(b)' /\ Locked(c)' /\ Subject(b)' = Subject(c)' => b = c
  <2>1. Locked(a)' => \A b \in Callers \ {a} : Locked(b) => Subject(b) # g
    <3>1. CASE SetterBegins(a)
      BY <3>1 DEF SetterBegins, Locked
    <3>2. CASE ~SetterBegins(a)
      <4>1. Locked(a)
        BY <3>2 DEF Sets, OpenSucceeds, Undone, CloseReturns, OpenBreaks, Locked
      <4>2. QED
        BY <4>1 DEF AdmissionInv
    <3>3. QED
      BY <3>1, <3>2
  <2>2. \A b \in Callers \ {a} : Locked(b)' <=> Locked(b)
    BY <1>1 DEF Locked
  <2>3. QED
    BY <1>0, <2>1, <2>2 DEF AdmissionInv
\* What another caller has opened, or is opening, stays entitled: the Hub has not
\* come back from closing it, since one of them holds the lock.
<1>6. ASSUME NEW h \in Generations, Closing(h), admitted'[h] \/ \E b \in Callers : Opening(b)' /\ Subject(b) = h
      PROVE  Closing(h)'
  <2>1. CASE a # Hub
    BY <1>0, <1>1, <1>6, <2>1, CallerFacts DEF Closing
  <2>2. CASE a = Hub
    <3>1. g = h /\ ~setting[a].enable /\ setting[a].at \in {"lock", "call"}
          /\ hub.stage \in {"closing", "withdrawing", "retiring"}
      BY <1>6, <2>2 DEF Closing, AdmissionInv
    <3>2. CASE SetterBegins(a)
      <4>1. CASE Needed(a)
        <5>1. setting'[a].at = "call"
          BY <1>0, <3>2, <4>1 DEF SetterBegins, Set, AdmissionInv, MessagingTypeOK
        <5>2. QED
          BY <1>0, <1>6, <2>2, <5>1 DEF Closing
      <4>2. CASE ~Needed(a)
        <5>1. ~admitted'[h]
          BY <3>1, <3>2, <4>2 DEF SetterBegins, Needed, AdmissionInv, MessagingTypeOK
        <5>2. setting'[a].at = "ok"
          BY <1>0, <3>2, <4>2 DEF SetterBegins, Set, AdmissionInv, MessagingTypeOK
        <5>3. \A b \in Callers : Opening(b)' => Subject(b) # h
          BY <1>1, <3>1, <3>2, <5>2 DEF SetterBegins, Opening
        <5>4. QED
          BY <1>6, <5>1, <5>3
      <4>3. QED
        BY <4>1, <4>2
    <3>3. CASE CloseReturns(a)
      <4>1. ~admitted'[h]
        BY <1>3, <3>1, <3>3 DEF CloseReturns, AdmissionInv, MessagingTypeOK
      <4>2. setting'[a].at \in {"ok", "failed"} /\ Locked(a)
        BY <1>1, <3>3 DEF CloseReturns, Set, AdmissionInv, MessagingTypeOK, Locked
      <4>3. \A b \in Callers : Opening(b)' => Subject(b) # h
        BY <1>1, <3>1, <4>2 DEF Opening, Locked, AdmissionInv
      <4>4. QED
        BY <1>6, <4>1, <4>3
    <3>4. QED
      BY <3>1, <3>2, <3>3 DEF Sets, OpenSucceeds, Undone, OpenBreaks
  <2>3. QED
    BY <2>1, <2>2
<1>7. ASSUME NEW h \in Generations, admitted'[h] PROVE (consuming[h] \/ Closing(h)')
  <2>1. admitted[h] \/ (Opening(a) /\ h = g)
    <3>1. CASE OpenSucceeds(a)
      BY <1>4, <1>7, <3>1 DEF OpenSucceeds, Opening
    <3>2. CASE CloseReturns(a)
      BY <1>4, <1>7, <3>2 DEF CloseReturns, AdmissionInv, MessagingTypeOK
    <3>3. CASE SetterBegins(a) \/ Undone(a) \/ OpenBreaks(a)
      BY <1>7, <3>3 DEF SetterBegins, Undone, OpenBreaks
    <3>4. QED
      BY <3>1, <3>2, <3>3 DEF Sets
  <2>2. consuming[h] \/ Closing(h)
    BY <2>1 DEF AdmissionInv
  <2>3. QED
    BY <1>6, <1>7, <2>2
<1>8. ASSUME NEW b \in Callers, Opening(b)' PROVE (consuming[Subject(b)] \/ Closing(Subject(b))')
  <2>1. Opening(b) \/ (b = a /\ consuming[g])
    BY <1>1, <1>8 DEF Sets, SetterBegins, OpenSucceeds, Undone, CloseReturns, OpenBreaks, Opening,
                      Set, Needed, AdmissionInv, MessagingTypeOK
  <2>2. consuming[Subject(b)] \/ Closing(Subject(b))
    BY <2>1 DEF AdmissionInv
  <2>3. Closing(Subject(b)) => Subject(b) \in Generations
    BY DEF Closing, AdmissionInv
  <2>4. Closing(Subject(b)) => Closing(Subject(b))'
    BY <1>0, <1>6, <1>8, <2>3 DEF Closing
  <2>5. QED
    BY <2>2, <2>4
<1>9. Hub \in Callers
  BY CallerFacts
<1>10. /\ hub.stage \in {"idle", "stopped"} => setting'[Hub].at = "none"
       /\ hub.stage \in {"closing", "withdrawing", "retiring"} => ~setting'[Hub].enable
  BY <1>0, <1>1, <1>9 DEF AdmissionInv
<1>11. QED
  BY <1>0, <1>2, <1>5, <1>7, <1>8, <1>10 DEF AdmissionInv

-----------------------------------------------------------------------------
(* The Hub.                                                                *)

\* What the Hub does to the others when it takes up a generation: nothing is
\* opened or admitted, and no other caller gets further.
LEMMA HubLeavesCallers ==
    ASSUME AdmissionInv, NEW step, NEW enable, Set(Hub, step, enable), step \in {"none", "lock", "ok"}
    PROVE  /\ \A a \in Callers : Opening(a)' => Opening(a) /\ a # Hub /\ Subject(a)' = Subject(a)
           /\ \A a \in Callers : Locked(a)' => Locked(a) /\ a # Hub /\ Subject(a)' = Subject(a)
           /\ \A a, b \in Callers : Locked(a)' /\ Locked(b)' /\ Subject(a)' = Subject(b)' => a = b
           /\ setting'[Hub].at = step /\ setting'[Hub].enable = enable
<1>1. /\ setting'[Hub] = [at |-> step, enable |-> enable]
      /\ \A a \in Callers : a # Hub => setting'[a] = setting[a]
  BY CallerFacts DEF Set, AdmissionInv, MessagingTypeOK
<1>2. \A a \in Callers : a # Hub => Subject(a)' = Subject(a)
  BY DEF Subject
<1>3. \A a \in Callers : Opening(a)' => Opening(a) /\ a # Hub /\ Subject(a)' = Subject(a)
  BY <1>1, <1>2 DEF Opening
<1>4. \A a \in Callers : Locked(a)' => Locked(a) /\ a # Hub /\ Subject(a)' = Subject(a)
  BY <1>1, <1>2 DEF Locked
<1>5. QED
  BY <1>1, <1>3, <1>4 DEF AdmissionInv

\* The Hub begins to withdraw g: what is admitted or being opened is of g, and
\* only if g was to consume, in which case the Hub goes for its lock.
LEMMA DeactivatesStep ==
    ASSUME AdmissionInv, NEW g \in Generations, Deactivates(g),
           \A h \in Generations : consuming[h] => h = g,
           hub.stage \in {"idle", "opening", "restoring"},
           hub' \in [stage : {"closing", "withdrawing", "retiring"}, cand : {0} \cup Generations],
           hub'.stage = "closing" => hub'.cand # 0,
           Subject(Hub)' = g,
           UNCHANGED <<current, healthy, open, handlers, admitted>>
    PROVE  AdmissionInv'
<1>1. /\ Set(Hub, IF consuming[g] THEN "lock" ELSE "ok", FALSE)
      /\ consuming' = [consuming EXCEPT ![g] = FALSE]
      /\ monitor' = Canceled(g)
  BY DEF Deactivates
<1>2. MessagingTypeOK'
  <2>1. monitor' \in [Monitors -> [at : {"none", "ticking", "setting"}, ready : BOOLEAN, canceled : BOOLEAN]]
    <3>1. \A m \in Monitors : (monitor[m].canceled \/ (m[1] = g /\ monitor[m].at # "none")) \in BOOLEAN
      BY DEF AdmissionInv, MessagingTypeOK
    <3>2. \A m \in Monitors : \A c \in BOOLEAN :
            [monitor[m] EXCEPT !.canceled = c] \in
                [at : {"none", "ticking", "setting"}, ready : BOOLEAN, canceled : BOOLEAN]
      BY DEF AdmissionInv, MessagingTypeOK
    <3>3. QED
      BY <1>1, <3>1, <3>2, Zenon DEF Canceled
  <2>2. setting' \in [Callers -> [at : {"none", "lock", "call", "undo", "ok", "failed"}, enable : BOOLEAN]]
    BY <1>1 DEF Set, AdmissionInv, MessagingTypeOK
  <2>3. QED
    BY <1>1, <2>1, <2>2 DEF AdmissionInv, MessagingTypeOK
<1>3. /\ \A a \in Callers : Opening(a)' => Opening(a) /\ a # Hub /\ Subject(a)' = Subject(a)
      /\ \A a, b \in Callers : Locked(a)' /\ Locked(b)' /\ Subject(a)' = Subject(b)' => a = b
      /\ setting'[Hub].at = IF consuming[g] THEN "lock" ELSE "ok"
      /\ ~setting'[Hub].enable
  BY <1>1, HubLeavesCallers
<1>4. \A h \in Generations : ~consuming'[h]
  BY <1>1 DEF AdmissionInv, MessagingTypeOK
<1>5. \A h \in Generations : ~Closing(h)
  BY DEF Closing
<1>6. consuming[g] => Closing(g)'
  BY <1>3 DEF Closing
<1>7. \A h \in Generations : admitted'[h] => Closing(h)'
  BY <1>5, <1>6 DEF AdmissionInv
<1>8. \A a \in Callers : Opening(a)' => Closing(Subject(a))'
  <2>1. \A a \in Monitors : Subject(a) = a[1] /\ a[1] \in Generations
    BY CallerFacts
  <2>2. ASSUME NEW a \in Callers, Opening(a)' PROVE Closing(Subject(a))'
    <3>1. Opening(a) /\ Subject(a)' = Subject(a) /\ Subject(a) \in Generations
      BY <1>3, <2>1, <2>2, CallerFacts
    <3>2. Subject(a) = g /\ consuming[g]
      BY <1>5, <3>1 DEF AdmissionInv
    <3>3. QED
      BY <1>6, <3>1, <3>2 DEF Closing
  <2>3. QED
    BY <2>2
<1>9. QED
  BY <1>2, <1>3, <1>4, <1>7, <1>8 DEF AdmissionInv

\* The Hub begins to open g, at a moment when nothing else is to consume and
\* nothing is still being closed.
LEMMA ActivatesStep ==
    ASSUME AdmissionInv, NEW g \in Generations, Activates(g),
           \A h \in Generations : ~consuming[h] /\ ~Closing(h),
           hub' \in [stage : {"opening", "restoring"}, cand : {0} \cup Generations],
           hub'.stage = "restoring" => hub'.cand = 0,
           Subject(Hub)' = g,
           UNCHANGED <<current, healthy, open, handlers, admitted>>
    PROVE  AdmissionInv'
<1>1. /\ Set(Hub, IF healthy THEN "lock" ELSE "ok", healthy)
      /\ consuming' = [consuming EXCEPT ![g] = TRUE] /\ UNCHANGED monitor
  BY DEF Activates
<1>2. MessagingTypeOK'
  BY <1>1 DEF Set, AdmissionInv, MessagingTypeOK
<1>3. /\ \A a \in Callers : Opening(a)' => Opening(a) /\ a # Hub /\ Subject(a)' = Subject(a)
      /\ \A a, b \in Callers : Locked(a)' /\ Locked(b)' /\ Subject(a)' = Subject(b)' => a = b
  BY <1>1, HubLeavesCallers
<1>4. \A h \in Generations : consuming'[h] => h = Turn'
  BY <1>1 DEF Turn, AdmissionInv, MessagingTypeOK
<1>5. \A h \in Generations : ~admitted[h]
  BY DEF AdmissionInv
<1>6. \A a \in Callers : ~Opening(a)'
  <2>1. \A a \in Callers : Opening(a) /\ a # Hub => Subject(a) \in Generations
    BY CallerFacts
  <2>2. QED
    BY <1>3, <2>1 DEF AdmissionInv
<1>7. QED
  BY <1>2, <1>3, <1>4, <1>5, <1>6 DEF AdmissionInv

\* The Hub has come back and is idle, or has stopped.
LEMMA HubRestsStep ==
    ASSUME AdmissionInv,
           hub.stage \in Working, setting[Hub].at \in {"ok", "failed"},
           hub' \in [stage : {"idle", "stopped"}, cand : {0}],
           Set(Hub, "none", FALSE),
           current' \in {0} \cup Generations,
           \A h \in Generations : consuming[h] => h = Turn',
           monitor' \in [Monitors -> [at : {"none", "ticking", "setting"}, ready : BOOLEAN, canceled : BOOLEAN]],
           UNCHANGED <<healthy, open, handlers, consuming, admitted>>
    PROVE  AdmissionInv'
<1>1. MessagingTypeOK'
  BY DEF Set, AdmissionInv, MessagingTypeOK
<1>2. /\ \A a \in Callers : Opening(a)' => Opening(a) /\ a # Hub /\ Subject(a)' = Subject(a)
      /\ \A a, b \in Callers : Locked(a)' /\ Locked(b)' /\ Subject(a)' = Subject(b)' => a = b
      /\ setting'[Hub].at = "none"
  BY HubLeavesCallers
<1>3. \A h : ~Closing(h)
  BY DEF Closing
<1>4. \A h \in Generations : admitted[h] => consuming[h]
  BY <1>3 DEF AdmissionInv
<1>5. \A a \in Callers : Opening(a)' => consuming[Subject(a)]'
  BY <1>2, <1>3 DEF AdmissionInv
<1>6. QED
  BY <1>1, <1>2, <1>4, <1>5 DEF AdmissionInv, Working

LEMMA HubPreserves ==
    ASSUME AdmissionInv, (\E c \in Generations : Commit(c)) \/ Retire \/ Hands
    PROVE  AdmissionInv'
<1>0. /\ hub \in [stage : {"idle", "closing", "restoring", "opening", "withdrawing", "retiring", "stopped"},
                  cand : {0} \cup Generations]
      /\ current \in {0} \cup Generations
      /\ hub = [stage |-> hub.stage, cand |-> hub.cand] /\ hub.cand \in {0} \cup Generations
  BY DEF AdmissionInv, MessagingTypeOK
<1>1. ASSUME NEW c \in Generations, Commit(c) PROVE AdmissionInv'
  <2>1. CASE current = 0
    <3>1. Activates(c) /\ hub' = [stage |-> "opening", cand |-> c] /\ UNCHANGED <<current, healthy, open, handlers, admitted>>
      BY <1>1, <2>1 DEF Commit
    <3>2. Subject(Hub)' = c
      BY <3>1, CallerFacts DEF Subject
    <3>3. \A h \in Generations : ~consuming[h] /\ ~Closing(h)
      BY <1>1, <2>1, CallerFacts DEF Commit, AdmissionInv, Turn, Closing
    <3>4. QED
      BY <3>1, <3>2, <3>3, ActivatesStep
  <2>2. CASE current # 0
    <3>1. Deactivates(current) /\ hub' = [stage |-> "closing", cand |-> c] /\ UNCHANGED <<current, healthy, open, handlers, admitted>>
      BY <1>1, <2>2 DEF Commit
    <3>2. Subject(Hub)' = current
      BY <3>1 DEF Subject
    <3>3. \A h \in Generations : consuming[h] => h = current
      BY <1>1 DEF Commit, AdmissionInv, Turn
    <3>4. QED
      BY <1>0, <1>1, <2>2, <3>1, <3>2, <3>3, CallerFacts, DeactivatesStep DEF Commit
  <2>3. QED
    BY <2>1, <2>2
<1>2. CASE Retire
  <2>1. Deactivates(current) /\ hub' = [stage |-> "retiring", cand |-> hub.cand] /\ UNCHANGED <<current, healthy, open, handlers, admitted>>
    BY <1>0, <1>2 DEF Retire, Stage
  <2>2. Subject(Hub)' = current
    BY <2>1 DEF Subject
  <2>3. \A h \in Generations : consuming[h] => h = current
    BY <1>2 DEF Retire, AdmissionInv, Turn
  <2>4. QED
    BY <1>0, <1>2, <2>1, <2>2, <2>3, DeactivatesStep DEF Retire
<1>3. CASE CloseFails
  <2>1. Activates(current) /\ hub' = [stage |-> "restoring", cand |-> 0] /\ UNCHANGED <<current, healthy, open, handlers, admitted>>
    BY <1>3 DEF CloseFails
  <2>2. Subject(Hub)' = current /\ current \in Generations
    BY <1>3, <2>1, HubSubject DEF CloseFails, Answered, AdmissionInv, Subject
  <2>3. \A h \in Generations : ~consuming[h] /\ ~Closing(h)
    BY <1>3, CallerFacts DEF CloseFails, Answered, AdmissionInv, Turn, Closing
  <2>4. QED
    BY <2>1, <2>2, <2>3, ActivatesStep
<1>4. CASE Closed
  <2>1. Activates(hub.cand) /\ hub' = [stage |-> "opening", cand |-> hub.cand] /\ UNCHANGED <<current, healthy, open, handlers, admitted>>
    BY <1>0, <1>4 DEF Closed, Stage
  <2>2. hub.cand # 0
    BY <1>4 DEF AdmissionInv, Closed, Answered
  <2>3. Subject(Hub)' = hub.cand /\ hub.cand \in Generations
    BY <1>0, <2>1, <2>2 DEF Subject
  <2>4. \A h \in Generations : ~consuming[h] /\ ~Closing(h)
    BY <1>4, CallerFacts DEF Closed, Answered, AdmissionInv, Turn, Closing
  <2>5. QED
    BY <1>0, <2>1, <2>3, <2>4, ActivatesStep
<1>5. CASE Opened
  <2>1. /\ hub.stage \in {"opening", "restoring"} /\ setting[Hub].at = "ok"
        /\ hub' = [stage |-> "idle", cand |-> 0] /\ Set(Hub, "none", FALSE)
        /\ current' = Subject(Hub)
        /\ UNCHANGED <<healthy, open, handlers, consuming, admitted>>
    BY <1>5 DEF Opened, HubDone, Set, Quiet
  <2>2. Subject(Hub) \in Generations
    BY <2>1 DEF AdmissionInv
  <2>3. monitor' \in [Monitors -> [at : {"none", "ticking", "setting"}, ready : BOOLEAN, canceled : BOOLEAN]]
    <3>1. setting[Hub].enable \in BOOLEAN
      BY CallerFacts DEF AdmissionInv, MessagingTypeOK
    <3>2. [at |-> "ticking", ready |-> setting[Hub].enable, canceled |-> FALSE] \in
            [at : {"none", "ticking", "setting"}, ready : BOOLEAN, canceled : BOOLEAN]
      BY <3>1
    <3>3. PICK m : monitor' = [monitor EXCEPT ![m] =
              [at |-> "ticking", ready |-> setting[Hub].enable, canceled |-> FALSE]]
      BY <1>5 DEF Opened
    <3>4. QED
      BY <3>2, <3>3 DEF AdmissionInv, MessagingTypeOK
  <2>4. \A h \in Generations : consuming[h] => h = Turn'
    BY <2>1 DEF AdmissionInv, Turn
  <2>5. QED
    BY <2>1, <2>2, <2>3, <2>4, HubRestsStep DEF Working
<1>6. CASE OpenFails
  <2>1. Deactivates(Subject(Hub)) /\ hub' = [stage |-> "withdrawing", cand |-> hub.cand] /\ UNCHANGED <<current, healthy, open, handlers, admitted>>
        /\ hub.stage \in {"opening", "restoring"}
    BY <1>0, <1>6 DEF OpenFails, Stage
  <2>2. Subject(Hub)' = Subject(Hub) /\ Subject(Hub) \in Generations
    BY <2>1, HubSubject DEF AdmissionInv, Subject
  <2>3. \A h \in Generations : consuming[h] => h = Subject(Hub)
    BY <2>1 DEF AdmissionInv, Turn
  <2>4. QED
    BY <1>0, <2>1, <2>2, <2>3, DeactivatesStep
<1>7. CASE Withdrawn
  <2>0. \A h \in Generations : ~consuming[h] /\ ~Closing(h)
    BY <1>7, CallerFacts DEF Withdrawn, AdmissionInv, Turn, Closing
  <2>1. CASE hub.cand # 0 /\ current # 0
    <3>1. Activates(current) /\ hub' = [stage |-> "restoring", cand |-> 0] /\ UNCHANGED <<current, healthy, open, handlers, admitted>>
      BY <1>7, <2>1 DEF Withdrawn
    <3>2. Subject(Hub)' = current /\ current \in Generations
      BY <1>0, <2>1, <3>1 DEF Subject
    <3>3. QED
      BY <2>0, <3>1, <3>2, ActivatesStep
  <2>2. CASE ~(hub.cand # 0 /\ current # 0)
    <3>1. /\ hub' = [stage |-> "idle", cand |-> 0] /\ Set(Hub, "none", FALSE)
          /\ UNCHANGED <<current, healthy, open, handlers, admitted, consuming, monitor>>
          /\ hub.stage = "withdrawing" /\ setting[Hub].at \in {"ok", "failed"}
      BY <1>7, <2>2 DEF Withdrawn, HubDone, Set, Quiet
    <3>2. QED
      BY <1>0, <2>0, <3>1, HubRestsStep DEF Working, AdmissionInv, MessagingTypeOK
  <2>3. QED
    BY <2>1, <2>2
<1>8. CASE Retired
  <2>1. /\ hub' = [stage |-> "stopped", cand |-> 0] /\ Set(Hub, "none", FALSE) /\ current' = 0
        /\ UNCHANGED <<healthy, open, handlers, admitted, consuming, monitor>>
        /\ hub.stage = "retiring" /\ setting[Hub].at \in {"ok", "failed"}
    BY <1>8 DEF Retired, HubDone, Set, Quiet
  <2>2. \A h \in Generations : ~consuming[h]
    BY <2>1, CallerFacts DEF AdmissionInv, Turn
  <2>3. QED
    BY <2>1, <2>2, HubRestsStep DEF Working, AdmissionInv, MessagingTypeOK
<1>9. QED
  BY <1>1, <1>2, <1>3, <1>4, <1>5, <1>6, <1>7, <1>8 DEF Hands

-----------------------------------------------------------------------------
(* The monitors, the handlers and the execution store.                     *)

\* A monitor's own moves between its calls of setConsumerAdmission.
LEMMA MonitorPreserves ==
    ASSUME AdmissionInv, NEW m \in Monitors, Watches(m)
    PROVE  AdmissionInv'
<1>1. PICK step \in {"none", "lock"}, enable \in BOOLEAN :
            \/ Set(m, step, enable) /\ monitor[m].at \in {"ticking", "setting"}
            \/ UNCHANGED setting
  BY DEF Watches, MonitorTicks, MonitorSet, MonitorEnds, Set, Quiet, AdmissionInv, MessagingTypeOK
<1>2. /\ UNCHANGED <<current, hub, healthy, open, handlers, consuming, admitted>>
      /\ m \in Callers /\ m # Hub /\ Hub \in Callers
      /\ Turn' = Turn /\ \A b : Subject(b)' = Subject(b)
  BY CallerFacts, SubjectFrame DEF Watches, MonitorTicks, MonitorSet, MonitorEnds
<1>3. monitor' \in [Monitors -> [at : {"none", "ticking", "setting"}, ready : BOOLEAN, canceled : BOOLEAN]]
  <2>1. setting[m].enable \in BOOLEAN
    BY <1>2 DEF AdmissionInv, MessagingTypeOK
  <2>2. /\ monitor \in [Monitors -> [at : {"none", "ticking", "setting"}, ready : BOOLEAN, canceled : BOOLEAN]]
        /\ monitor[m] \in [at : {"none", "ticking", "setting"}, ready : BOOLEAN, canceled : BOOLEAN]
    BY DEF AdmissionInv, MessagingTypeOK
  <2>3. CASE MonitorTicks(m)
    BY <2>2, <2>3 DEF MonitorTicks
  <2>4. CASE MonitorEnds(m)
    BY <2>2, <2>4 DEF MonitorEnds
  <2>5. CASE MonitorSet(m)
    <3>1. PICK enabled \in BOOLEAN :
            monitor' = [monitor EXCEPT ![m].at = "ticking", ![m].ready = enabled]
      <4>1. setting[m].at = "ok" \/ setting[m].at # "ok"
        OBVIOUS
      <4>2. QED
        BY <2>1, <2>2, <2>5, <4>1 DEF MonitorSet
    <3>2. QED
      BY <2>2, <3>1
  <2>6. QED
    BY <2>3, <2>4, <2>5 DEF Watches
<1>4. /\ setting' \in [Callers -> [at : {"none", "lock", "call", "undo", "ok", "failed"}, enable : BOOLEAN]]
      /\ setting'[Hub] = setting[Hub]
      /\ \A a \in Callers : Opening(a)' => Opening(a)
      /\ \A a \in Callers : Locked(a)' => Locked(a)
  <2>1. setting \in [Callers -> [at : {"none", "lock", "call", "undo", "ok", "failed"}, enable : BOOLEAN]]
    BY DEF AdmissionInv, MessagingTypeOK
  <2>2. CASE UNCHANGED setting
    BY <2>1, <2>2 DEF Opening, Locked
  <2>3. CASE Set(m, step, enable)
    <3>1. /\ setting'[m] = [at |-> step, enable |-> enable]
          /\ \A a \in Callers : a # m => setting'[a] = setting[a]
          /\ setting' \in [Callers -> [at : {"none", "lock", "call", "undo", "ok", "failed"}, enable : BOOLEAN]]
      BY <1>2, <2>1, <2>3 DEF Set
    <3>2. QED
      BY <1>2, <3>1 DEF Opening, Locked
  <2>4. QED
    BY <1>1, <2>2, <2>3
<1>5. MessagingTypeOK'
  BY <1>2, <1>3, <1>4 DEF AdmissionInv, MessagingTypeOK
<1>6. \A h : Closing(h)' = Closing(h)
  BY <1>2, <1>4 DEF Closing
<1>7. \A a \in Callers : Opening(a)' => (consuming[Subject(a)] \/ Closing(Subject(a)))'
  <2>1. ASSUME NEW a \in Callers, Opening(a)' PROVE (consuming[Subject(a)] \/ Closing(Subject(a)))'
    <3>1. consuming[Subject(a)] \/ Closing(Subject(a))
      BY <1>4, <2>1 DEF AdmissionInv
    <3>2. Closing(Subject(a)) => Closing(Subject(a))'
      BY <1>2, <1>4 DEF Closing
    <3>3. QED
      BY <1>2, <3>1, <3>2
  <2>2. QED
    BY <2>1
<1>8. QED
  BY <1>2, <1>4, <1>5, <1>6, <1>7 DEF AdmissionInv

\* Steps that admission does not depend on.
LEMMA OthersPreserve ==
    ASSUME AdmissionInv,
           \/ HealthChanges \/ UNCHANGED messagingVars
           \/ \E g \in Generations : HandlerStarts(g) \/ HandlerEnds(g)
    PROVE  AdmissionInv'
<1>1. UNCHANGED <<current, hub, open, consuming, admitted, monitor, setting>>
  BY DEF HealthChanges, messagingVars, HandlerStarts, HandlerEnds
<1>2. healthy' \in BOOLEAN
  BY DEF HealthChanges, messagingVars, HandlerStarts, HandlerEnds, AdmissionInv, MessagingTypeOK
<1>3. handlers' \in [Generations -> 0..InFlight]
  <2>1. InFlight \in Nat /\ handlers \in [Generations -> 0..InFlight]
    BY MessagingAssumption DEF AdmissionInv, MessagingTypeOK
  <2>2. CASE HealthChanges \/ UNCHANGED messagingVars
    BY <2>1, <2>2 DEF HealthChanges, messagingVars
  <2>3. ASSUME NEW g \in Generations, HandlerStarts(g) \/ HandlerEnds(g)
        PROVE  handlers' \in [Generations -> 0..InFlight]
    <3>1. handlers[g] \in 0..InFlight
      BY <2>1
    <3>2. CASE HandlerStarts(g)
      BY <2>1, <3>1, <3>2 DEF HandlerStarts
    <3>3. CASE HandlerEnds(g)
      BY <2>1, <3>1, <3>3 DEF HandlerEnds
    <3>4. QED
      BY <2>3, <3>2, <3>3
  <2>4. QED
    BY <2>2, <2>3
<1>4. MessagingTypeOK'
  BY <1>1, <1>2, <1>3 DEF AdmissionInv, MessagingTypeOK
<1>5. QED
  BY <1>1, <1>4 DEF AdmissionInv, Turn, Subject, Closing, Opening, Locked

-----------------------------------------------------------------------------
(* The theorem.                                                            *)

LEMMA InitEstablishes ==
    ASSUME MessagingInit
    PROVE  AdmissionInv
<1>1. 0 \in 0..InFlight
  BY MessagingAssumption
<1>2. MessagingTypeOK
  BY <1>1 DEF MessagingInit, MessagingTypeOK, Quiet
<1>3. Hub \in Callers
  BY CallerFacts
<1>4. QED
  BY <1>2, <1>3 DEF MessagingInit, AdmissionInv, Quiet, Opening, Locked

LEMMA NextPreserves ==
    ASSUME AdmissionInv, [MessagingNext]_messagingVars
    PROVE  AdmissionInv'
BY SetterPreserves, HubPreserves, MonitorPreserves, OthersPreserve DEF MessagingNext

LEMMA InvImpliesOne ==
    ASSUME AdmissionInv
    PROVE  OneGenerationAdmits
<1>1. ASSUME NEW g \in Generations, NEW q \in Generations, admitted[g], admitted[q]
      PROVE  g = q
  <2>1. (consuming[g] \/ Closing(g)) /\ (consuming[q] \/ Closing(q))
    BY <1>1 DEF AdmissionInv
  <2>2. Closing(g) \/ Closing(q) => Turn = 0
    BY DEF Closing, Turn
  <2>3. QED
    BY <2>1, <2>2, CallerFacts DEF AdmissionInv, Closing
<1>2. ASSUME hub.stage \in {"idle", "stopped"}, NEW g \in Generations, admitted[g]
      PROVE  g = current
  <2>1. ~Closing(g)
    BY <1>2 DEF Closing
  <2>2. QED
    BY <1>2, <2>1, CallerFacts DEF AdmissionInv, Turn
<1>3. QED
  BY <1>1, <1>2 DEF AdmissionInv, OneGenerationAdmits

\* For any number of generations, and whatever their monitors do meanwhile: at
\* most one generation is admitted at any moment, and while the Hub rests it is
\* the one the Hub calls current (Commit, hub.go:24-53; setConsumerAdmission,
\* messaging.go:462-502).
THEOREM OneGenerationAdmitsHolds == MessagingSpec => []OneGenerationAdmits
<1>1. MessagingInit => AdmissionInv
  BY InitEstablishes
<1>2. AdmissionInv /\ [MessagingNext]_messagingVars => AdmissionInv'
  BY NextPreserves
<1>3. AdmissionInv => OneGenerationAdmits
  BY InvImpliesOne
<1>4. QED
  BY <1>1, <1>2, <1>3, PTL DEF MessagingSpec

-----------------------------------------------------------------------------
(* A session of the provider.                                              *)

\* While the run loop is between sessions there is none, and a consumer that is
\* off has no handlers left. A loop that ended over its session did so before it
\* built a consumer, after the provider was canceled; Close breaks the connection
\* next if it has not done so.
SessionInv ==
    /\ RabbitTypeOK
    /\ shared <=> link # "none"
    /\ loop \in {"connect", "dialing", "failed"} => link = "none"
    /\ link = "none" => loop \in {"connect", "dialing", "failed", "ended"}
    /\ link = "none" \/ loop \in {"bound", "ended"} => consumption = "off"
    /\ consumption = "off" => inHand = 0
    /\ canceled => stopped /\ control \in {"canceling", "closed"}
    /\ loop = "ended" => canceled
    /\ loop \in {"bound", "ended"} /\ link = "up" => control # "closed"
    /\ loop = "stop" => fate = "retry" \/ fate = "fail" \/ (fate = "end" /\ canceled)

LEMMA BeginStopFacts ==
    ASSUME RabbitTypeOK, NEW keep \in BOOLEAN, BeginStop(keep)
    PROVE  /\ consumption' \in {"off", "on", "stopping", "draining"} /\ reset' \in BOOLEAN
           /\ consumption' = "off" <=> consumption = "off"
BY DEF BeginStop, RabbitTypeOK

LEMMA SessionStep == ASSUME SessionInv, [RabbitNext]_sessionVars PROVE SessionInv'
<1> USE SessionAssumption DEF SessionInv, RabbitTypeOK, Over, outside
<1>1. CASE RunBegins \/ Connect \/ Connected \/ ConnectFails \/ ConnectCanceled \/ DecideToStart
  <2>1. CASE RunBegins \/ Connect
    BY <2>1 DEF RunBegins, Connect
  <2>4. CASE Connected
    BY <2>4 DEF Connected
  <2>6. CASE ConnectFails
    <3>1. loop' = "connect" \/ loop' = "failed"
      BY <2>6 DEF ConnectFails
    <3>2. QED
      BY <2>6, <3>1 DEF ConnectFails
  <2>2. CASE ConnectCanceled
    BY <2>2 DEF ConnectCanceled
  <2>3. CASE DecideToStart
    BY <2>3 DEF DecideToStart
  <2>5. QED
    BY <1>1, <2>1, <2>2, <2>3, <2>4, <2>6
<1>2. CASE StartConsumers \/ StartFails
  <2>1. CASE StartConsumers
    BY <2>1 DEF StartConsumers
  <2>2. CASE StartFails
    <3>1. fate' = "retry" \/ fate' = "fail"
      BY <2>2 DEF StartFails
    <3>2. QED
      BY <2>2, <3>1 DEF StartFails
  <2>3. QED
    BY <1>2, <2>1, <2>2
<1>3. CASE GivenUp
  BY <1>3 DEF GivenUp
<1>4. CASE TakeSignal
  BY <1>4 DEF TakeSignal
<1>5. CASE TakeFailure \/ TakeCancel
  <2>1. CASE TakeFailure
    <3>1. fate' = "retry" \/ fate' = "fail"
      BY <2>1 DEF TakeFailure
    <3>2. QED
      BY <2>1, <3>1, BeginStopFacts DEF TakeFailure
  <2>2. CASE TakeCancel
    BY <2>2, BeginStopFacts DEF TakeCancel
  <2>3. QED
    BY <1>5, <2>1, <2>2
<1>6. CASE FinishStop
  BY <1>6 DEF FinishStop
<1>7. CASE Calls
  <2>1. CASE Activate
    BY <2>1 DEF Activate
  <2>2. CASE Deactivate
    BY <2>2 DEF Deactivate, Withdraw
  <2>3. CASE Close
    BY <2>3 DEF Close, Withdraw
  <2>4. QED
    BY <1>7, <2>1, <2>2, <2>3 DEF Calls
<1>8. CASE StopCurrent
  <2>1. /\ consumption' \in {"off", "on", "stopping", "draining"} /\ reset' \in BOOLEAN
        /\ consumption' = "off" <=> consumption = "off"
    BY <1>8, BeginStopFacts DEF StopCurrent
  <2>2. QED
    BY <1>8, <2>1 DEF StopCurrent
<1>9. CASE DeactivateReturns \/ CloseCancels \/ CloseBreaks
  <2>1. CASE DeactivateReturns
    BY <2>1 DEF DeactivateReturns
  <2>2. CASE CloseCancels
    BY <2>2 DEF CloseCancels
  <2>3. CASE CloseBreaks
    BY <2>3 DEF CloseBreaks
  <2>4. QED
    BY <1>9, <2>1, <2>2, <2>3
<1>10. CASE Break \/ Handle \/ ConsumersLeave \/ Handled
  BY <1>10 DEF Break, Handle, ConsumersLeave, Handled
<1>11. CASE UNCHANGED sessionVars
  BY <1>11 DEF sessionVars
<1>12. QED
  BY <1>1, <1>2, <1>3, <1>4, <1>5, <1>6, <1>7, <1>8, <1>9, <1>10, <1>11
  DEF RabbitNext, Runs, Reacts, Replies

\* When the run loop of a provider has ended, it has left no consumer and no handler,
\* and no connection but one that Close is about to break, for any number of
\* handlers: the safety half of SessionIsSound (run and Close, rabbitmq.go).
THEOREM SessionLeavesNothingHolds == RabbitSpec => [](RabbitTypeOK /\ EndedMeansClosed)
<1>1. RabbitInit => SessionInv
  <2>1. ASSUME RabbitInit PROVE RabbitTypeOK
    <3>1. 0 \in 0..MaxHandlers
      BY SessionAssumption
    <3>2. loop \in {"connect", "bound"} /\ link \in {"none", "up"} /\ shared \in BOOLEAN
      BY <2>1 DEF RabbitInit
    <3>3. {shared, reset, active, signal, canceled, stopped} \subseteq BOOLEAN
      BY <2>1, <3>2, Zenon DEF RabbitInit
    <3>4. QED
      BY <2>1, <3>1, <3>2, <3>3 DEF RabbitInit, RabbitTypeOK
  <2>2. QED
    BY <2>1 DEF RabbitInit, SessionInv
<1>2. SessionInv /\ [RabbitNext]_sessionVars => SessionInv'
  BY SessionStep
<1>3. SessionInv => RabbitTypeOK /\ EndedMeansClosed
  BY DEF SessionInv, EndedMeansClosed, Over
<1>4. QED
  BY <1>1, <1>2, <1>3, PTL DEF RabbitSpec

-----------------------------------------------------------------------------
(* Publishing.                                                             *)

Frame(m, k) == [m |-> m, kind |-> k]

\* What is under way between a publisher whose turn began in an empty session
\* and the broker: the message, one of the answers, or both parts of one.
Undecided ==
    /\ sent = <<turn>> /\ answers = <<>>
    /\ returnSlot = <<>> /\ confirmSlot = <<>> /\ ~returned

\* The confirmation of kind k is in the connection or in its channel.
ConfirmationOf(k) ==
    \/ answers = <<Frame(turn, k)>> /\ confirmSlot = <<>>
    \/ answers = <<>> /\ confirmSlot = <<Frame(turn, k)>>

\* The return comes before the confirmation, and has been read or not.
ReturnPassed ==
    \/ returnSlot = <<turn>> /\ ~returned
    \/ returnSlot = <<>> /\ returned

Replied ==
    /\ sent = <<>>
    /\ \/ verdict[turn] = "taken" /\ ConfirmationOf("ack") /\ returnSlot = <<>> /\ ~returned
       \/ verdict[turn] = "refused" /\ ConfirmationOf("nack") /\ returnSlot = <<>> /\ ~returned
       \/ /\ verdict[turn] = "unroutable"
          /\ \/ /\ answers = <<Frame(turn, "return"), Frame(turn, "ack")>>
                /\ returnSlot = <<>> /\ confirmSlot = <<>> /\ ~returned
             \/ ConfirmationOf("ack") /\ ReturnPassed

\* The channel closed: a confirmation that is left belongs to the turn.
CutOff ==
    /\ sent = <<>> /\ answers = <<>>
    /\ confirmSlot # <<>> => verdict[turn] # "unknown"

TurnInv ==
    /\ turn = None => ~returned
    /\ turn # None => reported[turn] = "none"
    /\ turn # None /\ clean => IF alive THEN Undecided \/ Replied ELSE CutOff

PublishInv == PublishTypeOK /\ TurnInv

LEMMA Slots ==
    ASSUME NEW S
    PROVE  /\ <<>> \in BoundedSeq(S, 1)
           /\ \A x \in S : <<x>> \in BoundedSeq(S, 1)
           /\ \A s \in BoundedSeq(S, 1) : s # <<>> => s[1] \in S /\ s = <<s[1]>>
<1> DEFINE Q == BoundedSeq(S, 1)
<1>1. BoundedSeq(S, 1) = UNION {[1..n -> S] : n \in 0..1}
  BY DEF BoundedSeq, SeqOf
<1>2. 0 \in 0..1 /\ 1 \in 0..1 /\ \A n \in 0..1 : n = 0 \/ n = 1
  BY SMT
<1>3. \A s : s \in Q <=> s \in [1..0 -> S] \/ s \in [1..1 -> S]
  BY <1>1, <1>2
<1>4. <<>> \in [1..0 -> S]
  BY SMT
<1>5. \A x \in S : <<x>> \in [1..1 -> S]
  BY SMT
<1>6. \A s \in [1..0 -> S] : s = <<>>
  BY SMT
<1>7. \A s \in [1..1 -> S] : s[1] \in S /\ s = <<s[1]>>
  BY SMT
<1>8. QED
  BY <1>3, <1>4, <1>5, <1>6, <1>7

LEMMA PublishTypeInit == ASSUME PublishInit PROVE PublishTypeOK
BY Slots, EmptySeq DEF PublishInit, PublishTypeOK, Outcomes

LEMMA PublishTypeStep == ASSUME PublishTypeOK, [PublishNext]_publishVars PROVE PublishTypeOK'
<1> USE DEF PublishTypeOK
<1>0. \A m \in Messages, o \in Outcomes : Report(m, o) => reported' \in [Messages -> Outcomes]
  BY DEF Report
<1>1. ASSUME NEW m \in Messages, Publish(m) PROVE PublishTypeOK'
  <2>1. turn' \in Messages \cup {None} /\ sent' \in Seq(Messages)
    <3>1. CASE ready /\ alive
      <4>1. turn' = m /\ sent' = Append(sent, m)
        BY <1>1, <3>1, Zenon DEF Publish
      <4>2. QED
        BY <4>1
    <3>2. CASE ~(ready /\ alive)
      <4>1. turn' = turn /\ sent' = sent
        BY <1>1, <3>2, Zenon DEF Publish
      <4>2. QED
        BY <4>1
    <3>3. QED
      BY <3>1, <3>2
  <2>2. reported' \in [Messages -> Outcomes]
    <3>1. ~(ready /\ alive) => \E o \in Outcomes : Report(m, o)
      <4>1. "ambiguous" \in Outcomes /\ "unavailable" \in Outcomes
        BY DEF Outcomes
      <4>2. QED
        BY <1>1, <4>1 DEF Publish
    <3>2. QED
      BY <1>1, <1>0, <3>1 DEF Publish
  <2>3. clean' \in BOOLEAN
    <3>1. CASE ready /\ alive
      <4>1. clean' = (sent = <<>> /\ answers = <<>> /\ returnSlot = <<>> /\ confirmSlot = <<>>)
        BY <1>1, <3>1, Zenon DEF Publish
      <4>2. QED
        BY <4>1
    <3>2. CASE ~(ready /\ alive)
      BY <1>1, <3>2 DEF Publish
    <3>3. QED
      BY <3>1, <3>2
  <2>4. QED
    BY <1>1, <2>1, <2>2, <2>3 DEF Publish
<1>2. CASE GiveUp
  BY <1>0, <1>2 DEF GiveUp, Done, channels, Outcomes
<1>3. CASE TakeReturn
  BY <1>3, Slots DEF TakeReturn
<1>4. CASE TakeConfirm
  <2>1. \A b : Answer(b) \in Outcomes
    BY DEF Answer, Outcomes
  <2>2. turn \in Messages
    BY <1>4 DEF TakeConfirm
  <2>3. reported' \in [Messages -> Outcomes]
    BY <1>4, <1>0, <2>1, <2>2 DEF TakeConfirm, Done
  <2>4. QED
    BY <1>4, <2>3, Slots DEF TakeConfirm, Done
<1>5. CASE ChannelCloses
  BY <1>5, EmptySeq DEF ChannelCloses
<1>6. CASE SessionEnds \/ NewSession
  BY <1>6, Slots DEF SessionEnds, NewSession, channels
<1>7. CASE BrokerDecides
  <2> DEFINE m == Head(sent)  Frames == Seq([m : Messages, kind : Kinds])
  <2>1. m \in Messages /\ sent' \in Seq(Messages)
    BY <1>7, HeadTailProperties DEF BrokerDecides
  <2>2. PICK v \in {"taken", "refused", "unroutable"} :
          /\ verdict' = [verdict EXCEPT ![m] = v]
          /\ answers' = answers \o
                CASE v = "taken" -> <<Frame(m, "ack")>>
                  [] v = "refused" -> <<Frame(m, "nack")>>
                  [] OTHER -> <<Frame(m, "return"), Frame(m, "ack")>>
    BY <1>7 DEF BrokerDecides, Frame
  <2>3. \A k \in Kinds : Frame(m, k) \in [m : Messages, kind : Kinds]
    BY <2>1 DEF Frame
  <2>4. /\ <<Frame(m, "ack")>> \in Frames /\ <<Frame(m, "nack")>> \in Frames
        /\ <<Frame(m, "return"), Frame(m, "ack")>> \in Frames
    BY <2>3 DEF Kinds
  <2>5. answers' \in Frames
    <3> HIDE DEF Frames, m
    <3>1. answers \in Frames
      BY DEF Frames
    <3>2. \A s, t \in Frames : s \o t \in Frames
      BY DEF Frames
    <3>3. QED
      BY <2>2, <2>4, <3>1, <3>2
  <2>6. QED
    BY <1>7, <2>1, <2>2, <2>5 DEF BrokerDecides
<1>8. CASE FrameArrives
  <2>1. Head(answers) \in [m : Messages, kind : Kinds] /\ answers' \in Seq([m : Messages, kind : Kinds])
    BY <1>8, HeadTailProperties DEF FrameArrives
  <2>2. returnSlot' \in BoundedSeq(Messages, 1)
    BY <1>8, <2>1, Slots DEF FrameArrives
  <2>3. confirmSlot' \in BoundedSeq([m : Messages, kind : {"ack", "nack"}], 1)
    <3>1. CASE Head(answers).kind = "return"
      BY <1>8, <3>1 DEF FrameArrives
    <3>2. CASE Head(answers).kind # "return"
      <4>1. Head(answers) \in [m : Messages, kind : {"ack", "nack"}]
        BY <2>1, <3>2 DEF Kinds
      <4>2. confirmSlot' = <<Head(answers)>>
        BY <1>8, <3>2 DEF FrameArrives
      <4>3. QED
        BY <4>1, <4>2, Slots
    <3>3. QED
      BY <3>1, <3>2
  <2>4. QED
    BY <1>8, <2>1, <2>2, <2>3 DEF FrameArrives
<1>9. CASE UNCHANGED publishVars
  BY <1>9 DEF publishVars
<1>10. QED
  BY <1>1, <1>2, <1>3, <1>4, <1>5, <1>6, <1>7, <1>8, <1>9 DEF PublishNext

\* One answer to a publisher: what it is told when its turn ends here.
LEMMA TurnStep == ASSUME PublishInv, [PublishNext]_publishVars PROVE TurnInv'
<1> USE PublishAssumption
<1>1. ASSUME NEW m \in Messages, Publish(m) PROVE TurnInv'
  <2>1. CASE ~(ready /\ alive)
    BY <1>1, <2>1 DEF Publish, PublishInv, TurnInv
  <2>2. CASE ready /\ alive
    <3>1. /\ turn' = m /\ alive' /\ ~returned' /\ reported' = reported /\ reported[m] = "none"
          /\ sent' = Append(sent, m)
          /\ answers' = answers /\ returnSlot' = returnSlot /\ confirmSlot' = confirmSlot
          /\ clean' => sent = <<>> /\ answers = <<>> /\ returnSlot = <<>> /\ confirmSlot = <<>>
      BY <1>1, <2>2 DEF Publish, PublishInv, TurnInv
    <3>2. Append(<<>>, m) = <<m>>
      OBVIOUS
    <3>3. clean' => Undecided'
      BY <3>1, <3>2 DEF Undecided
    <3>4. QED
      BY <3>1, <3>3 DEF TurnInv
  <2>3. QED
    BY <2>1, <2>2
<1>2. CASE GiveUp
  BY <1>2 DEF GiveUp, Done, TurnInv
<1>3. CASE TakeReturn
  <2>1. turn # None /\ turn' = turn /\ alive' = alive /\ reported' = reported /\ clean' = clean
    BY <1>3 DEF TakeReturn
  <2>4. ASSUME clean, ~alive PROVE CutOff'
    BY <1>3, <2>4 DEF TakeReturn, PublishInv, TurnInv, CutOff
  <2>2. ASSUME clean, alive PROVE Replied'
    <3>1. returnSlot # <<>> /\ returnSlot' = <<>> /\ returned' = TRUE
          /\ sent' = sent /\ answers' = answers /\ verdict' = verdict /\ confirmSlot' = confirmSlot
      BY <1>3 DEF TakeReturn
    <3>2. verdict[turn] = "unroutable" /\ ConfirmationOf("ack") /\ sent = <<>>
      BY <2>1, <2>2, <3>1 DEF PublishInv, TurnInv, Undecided, Replied
    <3>3. QED
      BY <2>1, <3>1, <3>2 DEF Replied, ConfirmationOf, ReturnPassed
  <2>3. QED
    BY <2>1, <2>2, <2>4 DEF PublishInv, TurnInv
<1>4. CASE TakeConfirm
  BY <1>4 DEF TakeConfirm, Done, TurnInv
<1>5. CASE ChannelCloses
  <2>1. /\ turn' = turn /\ reported' = reported /\ clean' = clean /\ returned' = returned
        /\ alive /\ alive' = FALSE
    BY <1>5 DEF ChannelCloses
  <2>2. ASSUME turn # None, clean PROVE CutOff'
    <3>1. confirmSlot' = confirmSlot /\ verdict' = verdict /\ sent' = <<>> /\ answers' = <<>>
      BY <1>5 DEF ChannelCloses
    <3>2. confirmSlot # <<>> => verdict[turn] # "unknown"
      BY <2>1, <2>2 DEF PublishInv, TurnInv, Undecided, Replied
    <3>3. QED
      BY <2>1, <3>1, <3>2 DEF CutOff
  <2>3. QED
    BY <2>1, <2>2 DEF PublishInv, TurnInv
<1>6. CASE SessionEnds \/ NewSession
  <2>1. CASE SessionEnds
    BY <2>1 DEF SessionEnds, channels, PublishInv, TurnInv, Undecided, Replied, ConfirmationOf, ReturnPassed, CutOff
  <2>2. CASE NewSession
    BY <2>2 DEF NewSession, PublishInv, TurnInv
  <2>3. QED
    BY <1>6, <2>1, <2>2
<1>7. CASE BrokerDecides
  <2> DEFINE m == Head(sent)
  <2>1. /\ turn' = turn /\ alive' = alive /\ reported' = reported /\ clean' = clean /\ returned' = returned
        /\ sent # <<>> /\ sent' = Tail(sent)
        /\ returnSlot' = returnSlot /\ confirmSlot' = confirmSlot
    BY <1>7 DEF BrokerDecides
  <2>4. ASSUME turn # None, clean PROVE alive
    BY <2>1, <2>4 DEF PublishInv, TurnInv, CutOff
  <2>2. ASSUME turn # None, clean PROVE Replied'
    <3>1. Undecided
      BY <2>1, <2>2, <2>4 DEF PublishInv, TurnInv, Replied
    <3>2. m = turn /\ sent' = <<>>
      BY <2>1, <3>1 DEF Undecided
    <3>3. turn \in Messages
      BY <2>2 DEF PublishInv, PublishTypeOK
    <3>4. PICK v \in {"taken", "refused", "unroutable"} :
            /\ verdict' = [verdict EXCEPT ![m] = v]
            /\ answers' = answers \o
                  CASE v = "taken" -> <<Frame(m, "ack")>>
                    [] v = "refused" -> <<Frame(m, "nack")>>
                    [] OTHER -> <<Frame(m, "return"), Frame(m, "ack")>>
      BY <1>7 DEF BrokerDecides, Frame
    <3>5. verdict'[turn] = v
      BY <3>2, <3>3, <3>4 DEF PublishInv, PublishTypeOK
    <3>6. /\ v = "taken" => answers' = <<Frame(turn, "ack")>>
          /\ v = "refused" => answers' = <<Frame(turn, "nack")>>
          /\ v = "unroutable" => answers' = <<Frame(turn, "return"), Frame(turn, "ack")>>
      <4> DEFINE S == {Frame(turn, k) : k \in Kinds}
      <4>1. /\ <<Frame(turn, "ack")>> \in Seq(S) /\ <<Frame(turn, "nack")>> \in Seq(S)
            /\ <<Frame(turn, "return"), Frame(turn, "ack")>> \in Seq(S)
        BY DEF Kinds
      <4>2. \A s \in Seq(S) : <<>> \o s = s
        BY ConcatEmptySeq
      <4>3. answers = <<>>
        BY <3>1 DEF Undecided
      <4> HIDE DEF S
      <4>4. QED
        BY <3>2, <3>4, <4>1, <4>2, <4>3
    <3>7. returnSlot' = <<>> /\ confirmSlot' = <<>> /\ ~returned'
      BY <2>1, <3>1 DEF Undecided
    <3>8. QED
      BY <2>1, <3>2, <3>5, <3>6, <3>7 DEF Replied, ConfirmationOf
  <2>3. QED
    BY <2>1, <2>2, <2>4 DEF PublishInv, TurnInv
<1>8. CASE FrameArrives
  <2>1. /\ turn' = turn /\ alive' = alive /\ reported' = reported /\ clean' = clean /\ returned' = returned
        /\ sent' = sent /\ verdict' = verdict
        /\ answers # <<>> /\ answers' = Tail(answers)
    BY <1>8 DEF FrameArrives
  <2>4. ASSUME turn # None, clean PROVE alive
    BY <2>1, <2>4 DEF PublishInv, TurnInv, CutOff
  <2>2. ASSUME turn # None, clean PROVE Replied'
    <3>1. Replied
      BY <2>1, <2>2, <2>4 DEF PublishInv, TurnInv, Undecided
    <3>2. /\ Frame(turn, "return").kind = "return" /\ Frame(turn, "return").m = turn
          /\ Frame(turn, "ack").kind = "ack" /\ Frame(turn, "nack").kind = "nack"
      BY DEF Frame
    <3>3. \A k : answers = <<Frame(turn, k)>> => Head(answers) = Frame(turn, k) /\ Tail(answers) = <<>>
      OBVIOUS
    <3>4. answers = <<Frame(turn, "return"), Frame(turn, "ack")>> =>
             Head(answers) = Frame(turn, "return") /\ Tail(answers) = <<Frame(turn, "ack")>>
      OBVIOUS
    <3>5. CASE answers = <<Frame(turn, "return"), Frame(turn, "ack")>>
      <4>1. verdict[turn] = "unroutable" /\ returnSlot = <<>> /\ confirmSlot = <<>> /\ ~returned /\ sent = <<>>
        <5>1. \A k : answers # <<Frame(turn, k)>>
          BY <3>5
        <5>2. QED
          BY <2>1, <3>1, <3>5, <5>1 DEF Replied, ConfirmationOf
      <4>2. returnSlot' = <<turn>> /\ confirmSlot' = <<>> /\ answers' = <<Frame(turn, "ack")>>
        BY <1>8, <2>1, <3>2, <3>4, <3>5, <4>1 DEF FrameArrives
      <4>3. QED
        BY <2>1, <4>1, <4>2 DEF Replied, ConfirmationOf, ReturnPassed
    <3>6. CASE answers # <<Frame(turn, "return"), Frame(turn, "ack")>>
      <4>1. PICK k \in {"ack", "nack"} :
              /\ answers = <<Frame(turn, k)>> /\ confirmSlot = <<>>
              /\ \/ verdict[turn] = "taken" /\ k = "ack" /\ returnSlot = <<>> /\ ~returned
                 \/ verdict[turn] = "refused" /\ k = "nack" /\ returnSlot = <<>> /\ ~returned
                 \/ verdict[turn] = "unroutable" /\ k = "ack" /\ ReturnPassed
        BY <2>1, <3>1, <3>6 DEF Replied, ConfirmationOf
      <4>2. Head(answers) = Frame(turn, k) /\ Head(answers).kind # "return" /\ answers' = <<>>
        BY <2>1, <3>2, <3>3, <4>1
      <4>3. confirmSlot' = <<Frame(turn, k)>> /\ returnSlot' = returnSlot
        BY <1>8, <4>2 DEF FrameArrives
      <4>4. sent = <<>>
        BY <3>1 DEF Replied
      <4>5. QED
        BY <2>1, <4>1, <4>2, <4>3, <4>4 DEF Replied, ConfirmationOf, ReturnPassed
    <3>7. QED
      BY <3>5, <3>6
  <2>3. QED
    BY <2>1, <2>2, <2>4 DEF PublishInv, TurnInv
<1>9. CASE UNCHANGED publishVars
  BY <1>9 DEF publishVars, PublishInv, TurnInv, Undecided, Replied, ConfirmationOf, ReturnPassed, CutOff
<1>10. QED
  BY <1>1, <1>2, <1>3, <1>4, <1>5, <1>6, <1>7, <1>8, <1>9 DEF PublishNext

\* What the publisher whose turn ends is told.
OwnAnswer(m) ==
    turn = m /\ clean /\ Told(m)' =>
        /\ verdict[m] # "unknown"
        /\ reported'[m] = Truth[verdict[m]] \/ (~alive /\ reported'[m] = "unroutable")

LEMMA OwnAnswerStep ==
    ASSUME PublishInv, [PublishNext]_publishVars, NEW m \in Messages
    PROVE  OwnAnswer(m)
<1> SUFFICES ASSUME turn = m, clean, Told(m)'
             PROVE  /\ verdict[m] # "unknown"
                    /\ reported'[m] = Truth[verdict[m]] \/ (~alive /\ reported'[m] = "unroutable")
  BY DEF OwnAnswer
<1>0. m # None /\ turn # None /\ reported[m] = "none"
  BY PublishAssumption DEF PublishInv, TurnInv
<1>1. reported'[m] \in {"confirmed", "rejected", "unroutable"}
  BY DEF Told
<1>2. reported'[m] # reported[m]
  BY <1>0, <1>1
<1>3. TakeConfirm
  <2>1. ASSUME reported' = reported PROVE FALSE
    BY <1>2, <2>1
  <2>2. ASSUME Done("ambiguous") PROVE FALSE
    BY <1>1, <2>2 DEF Done, Report, PublishInv, PublishTypeOK
  <2>3. \A n \in Messages : ~Publish(n)
    BY <1>0, <2>1 DEF Publish
  <2>4. ~GiveUp /\ ~ChannelCloses
    BY <1>0, <2>1, <2>2 DEF GiveUp, ChannelCloses
  <2>5. ~TakeReturn /\ ~SessionEnds /\ ~NewSession /\ ~BrokerDecides /\ ~FrameArrives /\ ~UNCHANGED publishVars
    BY <2>1 DEF TakeReturn, SessionEnds, NewSession, BrokerDecides, FrameArrives, publishVars
  <2>6. QED
    BY <2>3, <2>4, <2>5 DEF PublishNext
<1>4. confirmSlot # <<>> /\ reported'[m] = Answer(returned \/ returnSlot # <<>> \/ ~alive)
  BY <1>3 DEF TakeConfirm, Done, Report, PublishInv, PublishTypeOK
<1>11. ASSUME ~alive PROVE verdict[m] # "unknown" /\ reported'[m] = "unroutable"
  <2>1. verdict[m] # "unknown"
    BY <1>0, <1>4, <1>11 DEF PublishInv, TurnInv, CutOff
  <2>2. Answer(TRUE) = "unroutable"
    BY DEF Answer
  <2>3. (returned \/ returnSlot # <<>> \/ ~alive) = TRUE
    BY <1>11
  <2>4. QED
    BY <1>4, <2>1, <2>2, <2>3
<1> SUFFICES ASSUME alive PROVE verdict[m] # "unknown" /\ reported'[m] = Truth[verdict[m]]
  BY <1>11
<1>5. Replied
  BY <1>0, <1>4 DEF PublishInv, TurnInv, Undecided
<1>6. /\ \A k : confirmSlot = <<Frame(m, k)>> => confirmSlot[1].kind = k
  BY DEF Frame
<1>7. CASE verdict[m] = "taken"
  <2>1. confirmSlot = <<Frame(m, "ack")>> /\ ~(returned \/ returnSlot # <<>> \/ ~alive)
    BY <1>4, <1>5, <1>7 DEF Replied, ConfirmationOf
  <2>2. QED
    BY <1>4, <1>6, <1>7, <2>1 DEF Answer, Truth
<1>8. CASE verdict[m] = "refused"
  <2>1. confirmSlot = <<Frame(m, "nack")>> /\ ~(returned \/ returnSlot # <<>> \/ ~alive)
    BY <1>4, <1>5, <1>8 DEF Replied, ConfirmationOf
  <2>2. QED
    BY <1>4, <1>6, <1>8, <2>1 DEF Answer, Truth
<1>9. CASE verdict[m] = "unroutable"
  <2>1. returned \/ returnSlot # <<>> \/ ~alive
    BY <1>4, <1>5, <1>9 DEF Replied, ReturnPassed
  <2>2. QED
    BY <1>4, <1>9, <2>1 DEF Answer, Truth
<1>10. QED
  BY <1>5, <1>7, <1>8, <1>9 DEF Replied

\* What a publisher is told over a session in which no earlier answer was
\* outstanding is what the broker did with its message, unless the channel closed
\* over a confirmation, for any number of publishers (AnswersAreOwn; Publish of
\* rabbitmq.go).
THEOREM AnswersAreOwnHolds == PublishSpec => AnswersAreOwn
<1>1. PublishInit => PublishInv
  BY PublishTypeInit DEF PublishInit, PublishInv, TurnInv
<1>2. PublishInv /\ [PublishNext]_publishVars => PublishInv'
  BY PublishTypeStep, TurnStep DEF PublishInv
<1>3. PublishInv => PublishTypeOK
  BY DEF PublishInv
<1>4. PublishInv /\ [PublishNext]_publishVars =>
        [\A m \in Messages : turn = m /\ clean /\ Told(m)' =>
            /\ verdict[m] # "unknown"
            /\ reported'[m] = Truth[verdict[m]] \/ (~alive /\ reported'[m] = "unroutable")]_publishVars
  BY OwnAnswerStep DEF OwnAnswer
<1>5. QED
  BY <1>1, <1>2, <1>3, <1>4, PTL DEF PublishSpec, AnswersAreOwn

-----------------------------------------------------------------------------
(* The copies of a message.                                                *)

DeliveryShapes ==
    /\ setup \in Setups /\ Accepted(setup)
    /\ place \in [Copies -> {"none", "queue", "out", "acked", "dead"}]
    /\ at \in [Copies -> {"none", "begin", "claim", "flight", "decided"}]
    /\ count \in [Copies -> Nat] /\ incoming \in [Copies -> Nat] /\ failed \in [Copies -> Nat]
    /\ disposition \in [Copies -> Dispositions] /\ permanent \in [Copies -> BOOLEAN]
    /\ store \in {"free", "running", "done"} /\ flight \subseteq Copies

\* A copy that is being handled is out, with the count it was delivered with; what
\* has not been given up has been counted once per failure, and what was decided
\* keeps to the budget.
CopyInv(c) ==
    /\ at[c] # "none" => place[c] = "out" /\ incoming[c] = count[c]
    /\ c \in flight => at[c] = "flight"
    /\ incoming[c] <= count[c]
    /\ place[c] # "dead" => count[c] < MaxDeliveries /\ failed[c] = count[c]
    /\ place[c] = "dead" => permanent[c] \/ failed[c] = MaxDeliveries
    /\ count[c] <= MaxDeliveries /\ failed[c] <= MaxDeliveries
    /\ at[c] = "decided" =>
        /\ disposition[c] # "none"
        /\ disposition[c] = "retry" => incoming[c] + 1 < MaxDeliveries
        /\ disposition[c] = "dead" => permanent[c] \/ incoming[c] + 1 >= MaxDeliveries

DeliveryInv == DeliveryShapes /\ \A c \in Copies : CopyInv(c)

\* The budget of the setup in force, and the limit that the broker was given.
LEMMA BudgetFacts ==
    ASSUME setup \in Setups, Accepted(setup)
    PROVE  /\ MaxDeliveries \in Nat /\ MaxDeliveries > 0
           /\ TheRoute.reliable => TheRoute.limit \in Int /\ TheRoute.limit + 1 = MaxDeliveries
<1>1. TheConsumer \in All(setup.modules, "consumers")
  BY SetupsAssumption DEF TheConsumer
<1>2. MaxDeliveries \in Int /\ MaxDeliveries > 0
  <2>1. ConsumerValid(TheConsumer)
    BY <1>1 DEF Accepted, BuildCatalog
  <2>2. TheConsumer.delivery.max \in Int
    BY <1>1, SetupsAssumption
  <2>3. QED
    BY <2>1, <2>2 DEF ConsumerValid, DeliveryPolicyValid, MaxDeliveries
<1>3. setup.config.enabled
  BY <1>1 DEF Accepted, Freeze
<1>4. Bound(setup.config, TheConsumer)
  BY <1>1, <1>3 DEF Accepted, Freeze
<1>5. TheConsumer.route \in DOMAIN setup.config.routes
  BY <1>4 DEF Bound, Resolved
<1>6. TheRoute.limit \in Int
  BY <1>5, SetupsAssumption DEF TheRoute
<1>7. TheRoute.reliable => TheRoute.limit + 1 = MaxDeliveries
  BY <1>4 DEF Bound, BudgetAgrees, TheRoute, MaxDeliveries
<1>8. QED
  BY <1>2, <1>6, <1>7

LEMMA BudgetStays == ASSUME UNCHANGED setup PROVE UNCHANGED <<MaxDeliveries, TheRoute>>
BY DEF MaxDeliveries, TheRoute, TheConsumer

LEMMA DecideFacts ==
    ASSUME DeliveryShapes, NEW C \in SUBSET Copies, NEW d \in Dispositions, Decide(C, d)
    PROVE  /\ disposition' \in [Copies -> Dispositions]
           /\ at' \in [Copies -> {"none", "begin", "claim", "flight", "decided"}]
           /\ \A c \in Copies : IF c \in C THEN at'[c] = "decided" /\ disposition'[c] = d
                                           ELSE at'[c] = at[c] /\ disposition'[c] = disposition[c]
BY DEF Decide, DeliveryShapes

LEMMA HandlingKeeps ==
    ASSUME DeliveryInv, NEW c \in Copies,
           Arrive(c) \/ Deliver(c) \/ Begin(c) \/ Unasked(c) \/ Claim(c) \/ SettleLost(c)
    PROVE  DeliveryInv'
<1>0. UNCHANGED setup
  BY DEF Arrive, Deliver, Begin, Unasked, Claim, SettleLost
<1>1. MaxDeliveries' = MaxDeliveries /\ MaxDeliveries \in Nat /\ MaxDeliveries > 0
  BY <1>0, BudgetFacts, BudgetStays DEF DeliveryInv, DeliveryShapes
<1>2. Accepted(setup)'
  BY <1>0 DEF DeliveryInv, DeliveryShapes, Accepted
<1>3. CASE Arrive(c)
  BY <1>0, <1>1, <1>2, <1>3 DEF Arrive, DeliveryInv, DeliveryShapes, CopyInv
<1>4. CASE Deliver(c)
  BY <1>0, <1>1, <1>2, <1>4 DEF Deliver, DeliveryInv, DeliveryShapes, CopyInv
<1>5. ASSUME NEW d \in {"ack", "defer"}, Decide({c}, d), at[c] \in {"begin", "claim"},
             UNCHANGED <<setup, place, count, incoming, failed, permanent, store, flight>>
      PROVE  DeliveryInv'
  <2>1. d \in Dispositions /\ d \notin {"retry", "dead", "none"} /\ {c} \in SUBSET Copies
    BY <1>5 DEF Dispositions
  <2>2. DeliveryShapes'
    BY <1>2, <1>5, <2>1, DecideFacts DEF DeliveryInv, DeliveryShapes
  <2>3. \A x \in Copies : IF x = c THEN at'[x] = "decided" /\ disposition'[x] = d
                                   ELSE at'[x] = at[x] /\ disposition'[x] = disposition[x]
    BY <1>5, <2>1, DecideFacts DEF DeliveryInv
  <2>4. ASSUME NEW x \in Copies PROVE CopyInv(x)'
    BY <1>1, <1>5, <2>1, <2>3 DEF DeliveryInv, CopyInv
  <2>5. QED
    BY <2>2, <2>4 DEF DeliveryInv
<1>6. CASE Begin(c)
  <2>1. CASE store = "done"
    BY <1>5, <1>6, <2>1 DEF Begin
  <2>2. CASE store # "done"
    BY <1>0, <1>1, <1>2, <1>6, <2>2 DEF Begin, DeliveryInv, DeliveryShapes, CopyInv
  <2>3. QED
    BY <2>1, <2>2
<1>7. CASE Unasked(c)
  BY <1>5, <1>7 DEF Unasked
<1>8. CASE Claim(c)
  <2>1. CASE flight # {} \/ store = "free"
    <3>1. /\ at[c] = "claim" /\ at' = [at EXCEPT ![c] = "flight"] /\ flight' = flight \cup {c}
          /\ store' \in {"free", "running", "done"}
          /\ UNCHANGED <<setup, place, count, incoming, disposition, failed, permanent>>
      BY <1>8, <2>1 DEF Claim, DeliveryInv, DeliveryShapes
    <3>2. QED
      BY <1>1, <1>2, <3>1 DEF DeliveryInv, DeliveryShapes, CopyInv
  <2>2. CASE flight = {} /\ store # "free"
    BY <1>5, <1>8, <2>2 DEF Claim
  <2>3. QED
    BY <2>1, <2>2
<1>9. CASE SettleLost(c)
  BY <1>0, <1>1, <1>2, <1>9 DEF SettleLost, DeliveryInv, DeliveryShapes, CopyInv, Dispositions
<1>10. QED
  BY <1>3, <1>4, <1>6, <1>7, <1>8, <1>9

\* What the run in progress ends with is decided for all that wait for it.
LEMMA EndingKeeps ==
    ASSUME DeliveryInv, Succeeds \/ SucceedsUnwritten \/ FailsForNow \/ FailsForGood \/ Interrupted
    PROVE  DeliveryInv'
<1>0. /\ UNCHANGED <<setup, place, count, incoming, failed>> /\ flight' = {}
      /\ store' \in {"free", "running", "done"}
  BY DEF Succeeds, SucceedsUnwritten, FailsForNow, FailsForGood, Interrupted, DeliveryInv, DeliveryShapes
<1>1. MaxDeliveries' = MaxDeliveries /\ MaxDeliveries \in Nat /\ MaxDeliveries > 0
  BY <1>0, BudgetFacts, BudgetStays DEF DeliveryInv, DeliveryShapes
<1>2. Accepted(setup)'
  BY <1>0 DEF DeliveryInv, DeliveryShapes, Accepted
<1>3. /\ disposition' \in [Copies -> Dispositions] /\ permanent' \in [Copies -> BOOLEAN]
      /\ at' \in [Copies -> {"none", "begin", "claim", "flight", "decided"}]
      /\ \A c \in Copies :
            /\ c \notin flight => /\ at'[c] = at[c] /\ disposition'[c] = disposition[c]
                                  /\ permanent'[c] = permanent[c]
            /\ c \in flight => /\ at'[c] = "decided" /\ disposition'[c] # "none"
                               /\ disposition'[c] = "retry" => incoming[c] + 1 < MaxDeliveries
                               /\ disposition'[c] = "dead" => permanent'[c] \/ incoming[c] + 1 >= MaxDeliveries
  <2>0. flight \in SUBSET Copies /\ DeliveryShapes
    BY DEF DeliveryInv, DeliveryShapes
  <2>1. CASE FailsForNow
    <3>1. \A c \in Copies : incoming[c] \in Nat
      BY <2>0 DEF DeliveryShapes
    <3>2. /\ disposition' \in [Copies -> Dispositions]
          /\ at' \in [Copies -> {"none", "begin", "claim", "flight", "decided"}]
          /\ \A c \in Copies :
                /\ c \notin flight => at'[c] = at[c] /\ disposition'[c] = disposition[c]
                /\ c \in flight => /\ at'[c] = "decided"
                                   /\ disposition'[c] = IF Spent(c) THEN "dead" ELSE "retry"
      BY <2>0, <2>1 DEF FailsForNow, DeliveryShapes, Dispositions
    <3>3. \A c \in Copies : c \in flight =>
             /\ disposition'[c] # "none"
             /\ disposition'[c] = "retry" => incoming[c] + 1 < MaxDeliveries
             /\ disposition'[c] = "dead" => incoming[c] + 1 >= MaxDeliveries
      BY <1>1, <3>1, <3>2 DEF Spent
    <3>4. permanent' = permanent
      BY <2>1 DEF FailsForNow
    <3>5. QED
      BY <2>0, <3>2, <3>3, <3>4 DEF DeliveryShapes
  <2>2. CASE FailsForGood
    <3>1. "dead" \in Dispositions
      BY DEF Dispositions
    <3>2. /\ disposition' \in [Copies -> Dispositions]
          /\ at' \in [Copies -> {"none", "begin", "claim", "flight", "decided"}]
          /\ \A c \in Copies : IF c \in flight THEN at'[c] = "decided" /\ disposition'[c] = "dead"
                                               ELSE at'[c] = at[c] /\ disposition'[c] = disposition[c]
      BY <2>0, <2>2, <3>1, DecideFacts DEF FailsForGood
    <3>3. /\ permanent' \in [Copies -> BOOLEAN]
          /\ \A c \in Copies : permanent'[c] = (permanent[c] \/ c \in flight)
      BY <2>0, <2>2 DEF FailsForGood, DeliveryShapes
    <3>4. \A c \in Copies : permanent[c] \in BOOLEAN
      BY <2>0 DEF DeliveryShapes
    <3>5. \A c \in Copies : c \notin flight => permanent'[c] = permanent[c]
      BY <3>3, <3>4
    <3>6. \A c \in Copies : c \in flight => permanent'[c]
      BY <3>3
    <3>7. QED
      BY <3>2, <3>3, <3>5, <3>6
  <2>3. CASE Succeeds \/ SucceedsUnwritten \/ Interrupted
    <3>1. PICK d \in {"ack", "defer"} : Decide(flight, d)
      BY <2>3 DEF Succeeds, SucceedsUnwritten, Interrupted
    <3>2. d \in Dispositions /\ d \notin {"retry", "dead", "none"} /\ permanent' = permanent
      BY <2>3 DEF Dispositions, Succeeds, SucceedsUnwritten, Interrupted
    <3>3. /\ disposition' \in [Copies -> Dispositions]
          /\ at' \in [Copies -> {"none", "begin", "claim", "flight", "decided"}]
          /\ \A c \in Copies : IF c \in flight THEN at'[c] = "decided" /\ disposition'[c] = d
                                               ELSE at'[c] = at[c] /\ disposition'[c] = disposition[c]
      BY <2>0, <3>1, <3>2, DecideFacts
    <3>4. QED
      BY <2>0, <3>2, <3>3 DEF DeliveryShapes
  <2>4. QED
    BY <2>1, <2>2, <2>3
<1>4. DeliveryShapes'
  BY <1>0, <1>2, <1>3 DEF DeliveryInv, DeliveryShapes
<1>5. ASSUME NEW c \in Copies PROVE CopyInv(c)'
  <2>1. CASE c \in flight
    BY <1>0, <1>1, <1>3, <2>1 DEF DeliveryInv, CopyInv
  <2>2. CASE c \notin flight
    BY <1>0, <1>1, <1>3, <2>2 DEF DeliveryInv, CopyInv
  <2>3. QED
    BY <2>1, <2>2
<1>6. QED
  BY <1>4, <1>5 DEF DeliveryInv

\* A retry is asked for while the broker's limit leaves one more delivery.
LEMMA SettleKeeps == ASSUME DeliveryInv, NEW c \in Copies, Settle(c) PROVE DeliveryInv'
<1>0. /\ UNCHANGED <<setup, incoming, permanent, store, flight>>
      /\ at[c] = "decided" /\ place[c] = "out"
      /\ at' = [at EXCEPT ![c] = "none"] /\ disposition' = [disposition EXCEPT ![c] = "none"]
  BY DEF Settle
<1>1. /\ MaxDeliveries' = MaxDeliveries /\ MaxDeliveries \in Nat /\ MaxDeliveries > 0
      /\ TheRoute.reliable => TheRoute.limit \in Int /\ TheRoute.limit + 1 = MaxDeliveries
  BY <1>0, BudgetFacts, BudgetStays DEF DeliveryInv, DeliveryShapes
<1>2. Accepted(setup)'
  BY <1>0 DEF DeliveryInv, DeliveryShapes, Accepted
<1>3. /\ count[c] \in Nat /\ incoming[c] = count[c] /\ failed[c] = count[c] /\ count[c] < MaxDeliveries
      /\ disposition[c] \in {"ack", "retry", "defer", "dead"}
      /\ disposition[c] = "retry" => count[c] + 1 < MaxDeliveries
      /\ disposition[c] = "dead" => permanent[c] \/ count[c] + 1 = MaxDeliveries
      /\ c \notin flight
  BY <1>0, <1>1 DEF DeliveryInv, DeliveryShapes, CopyInv, Dispositions
<1>4. /\ count' \in [Copies -> Nat] /\ failed' \in [Copies -> Nat]
      /\ place' \in [Copies -> {"none", "queue", "out", "acked", "dead"}]
      /\ \A x \in Copies : x # c => count'[x] = count[x] /\ failed'[x] = failed[x] /\ place'[x] = place[x]
      /\ \/ place'[c] \in {"acked", "queue"} /\ count'[c] = count[c] /\ failed'[c] = failed[c]
         \/ /\ disposition[c] = "retry" /\ place'[c] = "queue"
            /\ count'[c] = count[c] + 1 /\ failed'[c] = failed[c] + 1
         \/ /\ disposition[c] = "dead" /\ place'[c] = "dead"
            /\ count'[c] = count[c] /\ failed'[c] = failed[c] + 1
  <2>0. /\ count \in [Copies -> Nat] /\ failed \in [Copies -> Nat]
        /\ place \in [Copies -> {"none", "queue", "out", "acked", "dead"}]
    BY DEF DeliveryInv, DeliveryShapes
  <2>1. CASE disposition[c] \in {"ack", "defer"}
    BY <2>0, <2>1 DEF Settle
  <2>2. CASE disposition[c] = "retry"
    <3>1. Requeued(c) = "queue"
      BY <1>1, <1>3, <2>2 DEF Requeued
    <3>2. QED
      BY <2>0, <2>2, <3>1 DEF Settle
  <2>3. CASE disposition[c] = "dead"
    BY <2>0, <2>3 DEF Settle
  <2>4. QED
    BY <1>3, <2>1, <2>2, <2>3
<1>5. DeliveryShapes'
  BY <1>0, <1>2, <1>4 DEF DeliveryInv, DeliveryShapes, Dispositions
<1>6. /\ \A x \in Copies : x # c => at'[x] = at[x] /\ disposition'[x] = disposition[x]
      /\ at'[c] = "none"
  BY <1>0 DEF DeliveryInv, DeliveryShapes
<1>7. CopyInv(c)'
  BY <1>0, <1>1, <1>3, <1>4, <1>6 DEF CopyInv
<1>8. ASSUME NEW x \in Copies, x # c PROVE CopyInv(x)'
  BY <1>0, <1>1, <1>4, <1>6, <1>8 DEF DeliveryInv, CopyInv
<1>9. QED
  BY <1>5, <1>7, <1>8 DEF DeliveryInv

LEMMA SessionsKeep ==
    ASSUME DeliveryInv, Disconnect \/ Reconnect \/ ClaimLapses \/ UNCHANGED deliveryVars
    PROVE  DeliveryInv'
<1>0. UNCHANGED <<setup, count, at, incoming, disposition, failed, permanent, flight>>
  BY DEF Disconnect, Reconnect, ClaimLapses, deliveryVars
<1>1. MaxDeliveries' = MaxDeliveries
  BY <1>0, BudgetStays
<1>2. Accepted(setup)'
  BY <1>0 DEF DeliveryInv, DeliveryShapes, Accepted
<1>3. CASE Reconnect
  BY <1>0, <1>1, <1>2, <1>3 DEF Reconnect, DeliveryInv, DeliveryShapes, CopyInv
<1>4. CASE Disconnect \/ ClaimLapses \/ UNCHANGED deliveryVars
  BY <1>0, <1>1, <1>2, <1>4 DEF Disconnect, ClaimLapses, deliveryVars, DeliveryInv, DeliveryShapes, CopyInv
<1>5. QED
  BY <1>3, <1>4

LEMMA DeliveryStep == ASSUME DeliveryInv, [DeliveryNext]_deliveryVars PROVE DeliveryInv'
BY HandlingKeeps, EndingKeeps, SettleKeeps, SessionsKeep DEF DeliveryNext, Handles, Ends

LEMMA DeliveryInitially == ASSUME DeliveryInit PROVE DeliveryInv
<1>1. setup \in Setups /\ Accepted(setup)
  BY DEF DeliveryInit, Accepted
<1>2. MaxDeliveries \in Nat /\ MaxDeliveries > 0
  BY <1>1, BudgetFacts
<1>3. QED
  BY <1>1, <1>2 DEF DeliveryInit, DeliveryInv, DeliveryShapes, CopyInv, Dispositions

LEMMA DeliveryInvImplies == ASSUME DeliveryInv PROVE DeliveryTypeOK /\ DeadLetterIsEarned
<1>1. MaxDeliveries \in Nat
  BY BudgetFacts DEF DeliveryInv, DeliveryShapes
<1>2. failed \in [Copies -> 0..MaxDeliveries]
  BY <1>1 DEF DeliveryInv, DeliveryShapes, CopyInv
<1>3. \A c \in Copies : count[c] <= MaxDeliveries /\ incoming[c] <= count[c]
  BY DEF DeliveryInv, CopyInv
<1>4. DeliveryTypeOK
  BY <1>2, <1>3 DEF DeliveryInv, DeliveryShapes, DeliveryTypeOK
<1>5. ASSUME NEW c \in Copies
      PROVE  /\ place[c] = "dead" => permanent[c] \/ failed[c] = MaxDeliveries
             /\ place[c] # "dead" => failed[c] < MaxDeliveries
  BY <1>1 DEF DeliveryInv, CopyInv
<1>6. QED
  BY <1>4, <1>5 DEF DeadLetterIsEarned

\* For any number of copies and any setups that the checks accept: a copy is
\* dead-lettered when its handler failed for good or after exactly the configured
\* number of failures, never because of connections that break or deferrals
\* (handle and freeze). It is the safety half of DeliveryIsSound.
THEOREM DeadLettersAreEarned == DeliverySpec => [](DeliveryTypeOK /\ DeadLetterIsEarned)
<1>1. DeliveryInit => DeliveryInv
  BY DeliveryInitially
<1>2. DeliveryInv /\ [DeliveryNext]_deliveryVars => DeliveryInv'
  BY DeliveryStep
<1>3. DeliveryInv => DeliveryTypeOK /\ DeadLetterIsEarned
  BY DeliveryInvImplies
<1>4. QED
  BY <1>1, <1>2, <1>3, PTL DEF DeliverySpec
=============================================================================

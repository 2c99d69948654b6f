--------------------------- MODULE ServicesProofs ---------------------------
(***************************************************************************)
(* Theorems about the services that a generation is built from, for any    *)
(* number of operators, services, callers and keys, and about the sections *)
(* of the configuration that they are built from, whatever they say.       *)
(***************************************************************************)
EXTENDS LayeredCache, Migration, JwksVerifier, TodoService, Resources, TLAPS

-----------------------------------------------------------------------------
(* Migration. What an operator knows at each step of its `up`, and what     *)
(* holds of the schema whoever comes in between.                            *)

\* A version that is recorded as whole is in the schema, and so is what an
\* operator has read or applied: the schema only grows.
SchemaInv ==
    /\ ~recorded.dirty => shape >= recorded.version
    /\ \A o \in Operators :
        /\ up[o].step = "next" => shape >= up[o].version
        /\ up[o].step = "body" => up[o].version >= 1 /\ shape >= up[o].version - 1
        /\ up[o].step = "clear" => up[o].version >= 1 /\ shape >= up[o].version
    /\ shape = CurrentVersion => "null" \notin rows

\* What a service has checked stays true of the schema and the rows.
ServicesInv ==
    \A s \in Services :
        /\ service[s] \in {"checked", "verified", "running"} =>
            shape = CurrentVersion /\ (db = "postgres" => Exact)
        /\ service[s] \in {"verified", "running"} => "unassigned" \notin rows
        /\ service[s] = "running" => "owned" \in rows

\* The server's lock is held from reading the version to the last clearing, so
\* the record is what its holder has made it.
LockedInv ==
    db = "postgres" => \A o \in Operators :
        /\ up[o].step \in {"version", "next", "body", "clear"} => holder = o
        /\ up[o].step = "next" => recorded = [version |-> up[o].version, dirty |-> FALSE]
        /\ up[o].step \in {"body", "clear"} => recorded = [version |-> up[o].version, dirty |-> TRUE]
        /\ up[o].step \in {"resolve", "status", "done"} => Exact
        /\ up[o].step \in {"status", "done"} => "unassigned" \notin rows

\* A mark without a holder at work is what a failure has left.
MarkInv ==
    db = "postgres" /\ recorded.dirty =>
        broken \/ \E o \in Operators : holder = o /\ up[o].step \in {"body", "clear"}

MigrationInv == MigrationTypeOK /\ SchemaInv /\ ServicesInv /\ LockedInv /\ MarkInv

UpSteps == {"idle", "lock", "version", "next", "body", "clear", "resolve", "status", "done", "failed"}

\* An operator goes on; the others stay where they are.
GoesOn(o, step, version) ==
    /\ up'[o].step = step /\ up'[o].version = version
    /\ \A p \in Operators : p # o => up'[p] = up[p]

LEMMA ContinuesFacts ==
    ASSUME MigrationTypeOK, NEW o \in Operators, NEW step \in UpSteps, Continues(o, step)
    PROVE  up' \in [Operators -> [subject : BOOLEAN, version : 0..CurrentVersion, step : UpSteps]]
           /\ GoesOn(o, step, up[o].version)
BY DEF MigrationTypeOK, Continues, GoesOn, UpSteps

LEMMA MigrationTypeStep ==
    ASSUME MigrationTypeOK, MigrationNext
    PROVE  MigrationTypeOK'
<1> USE DEF MigrationTypeOK, UpSteps
<1>1. ASSUME NEW o \in Operators,
             \/ Begin(o) \/ Lock(o) \/ ReadVersion(o) \/ Mark(o) \/ Unlock(o) \/ GracefulStop(o)
             \/ Body(o) \/ BodyFails(o) \/ Clear(o) \/ Resolve(o) \/ Finish(o) \/ Dies(o) \/ Retry(o)
      PROVE  MigrationTypeOK'
  <2>1. CASE Begin(o)
    <3>1. PICK subject \in BOOLEAN :
              up' = [up EXCEPT ![o].step = "lock", ![o].subject = subject]
      BY <2>1 DEF Begin
    <3>2. up' \in [Operators -> [subject : BOOLEAN, version : 0..CurrentVersion, step : UpSteps]]
      <4> DEFINE UpRecords == [subject : BOOLEAN, version : 0..CurrentVersion, step : UpSteps]
      <4>1. up[o] \in UpRecords
        OBVIOUS
      <4>2. [subject |-> subject, version |-> up[o].version, step |-> "lock"] \in UpRecords
        BY <3>1, <4>1
      <4>3. up'[o] = [subject |-> subject, version |-> up[o].version, step |-> "lock"]
        BY <3>1, <4>1
      <4>4. \A p \in Operators : p # o => up'[p] = up[p]
        BY <3>1
      <4>5. up' = [p \in Operators |-> up'[p]]
        BY <3>1
      <4>6. \A p \in Operators : up'[p] \in UpRecords
        BY <4>2, <4>3, <4>4
      <4> HIDE DEF UpRecords
      <4>7. up' \in [Operators -> UpRecords]
        BY <4>5, <4>6
      <4>8. QED
        BY <4>7 DEF UpRecords
    <3>3. QED
      BY <2>1, <3>2 DEF Begin
  <2>2. CASE Lock(o)
    BY <2>2, ContinuesFacts DEF Lock
  <2>3. CASE ReadVersion(o)
    <3>1. CASE recorded.dirty
      BY <2>3, <3>1, ContinuesFacts DEF ReadVersion, Unlocked
    <3>2. CASE ~recorded.dirty
      BY <2>3, <3>2 DEF ReadVersion
    <3> QED
      BY <3>1, <3>2
  <2>4. CASE Mark(o)
    BY <2>4 DEF Mark, Record, CurrentVersion
  <2>5. CASE Unlock(o)
    BY <2>5, ContinuesFacts DEF Unlock, Unlocked
  <2>6. CASE GracefulStop(o)
    BY <2>6, ContinuesFacts DEF GracefulStop, Unlocked
  <2>7. CASE Body(o)
    BY <2>7, ContinuesFacts DEF Body
  <2>8. CASE BodyFails(o)
    BY <2>8, ContinuesFacts DEF BodyFails, Unlocked
  <2>9. CASE Clear(o)
    BY <2>9, ContinuesFacts DEF Clear, Record
  <2>10. CASE Resolve(o)
    BY <2>10, ContinuesFacts DEF Resolve
  <2>11. CASE Finish(o)
    BY <2>11, ContinuesFacts DEF Finish
  <2>12. CASE Dies(o)
    BY <2>12, ContinuesFacts DEF Dies, Unlocked
  <2>13. CASE Retry(o)
    BY <2>13 DEF Retry, Waiting, CurrentVersion
  <2>14. QED
    BY <1>1, <2>1, <2>2, <2>3, <2>4, <2>5, <2>6, <2>7, <2>8, <2>9, <2>10, <2>11, <2>12, <2>13
<1>2. CASE OldServiceInserts
  BY <1>2 DEF OldServiceInserts
<1>3. ASSUME NEW s \in Services, Check(s) \/ Verify(s) \/ Run(s) \/ StartAgain(s)
      PROVE  MigrationTypeOK'
  BY <1>3 DEF Check, Verify, Run, StartAgain
<1>4. QED
  BY <1>1, <1>2, <1>3 DEF MigrationNext

LEMMA UpTypes ==
    ASSUME MigrationTypeOK
    PROVE  /\ \A o \in Operators : up[o].version \in 0..3 /\ up[o].step \in UpSteps
           /\ recorded.version \in 0..3 /\ recorded.dirty \in BOOLEAN /\ shape \in 0..3
           /\ CurrentVersion = 3
BY DEF MigrationTypeOK, UpSteps, CurrentVersion

\* Where each step of an operator leads.
LEMMA OperatorFacts ==
    ASSUME MigrationTypeOK, NEW o \in Operators
    PROVE  /\ Begin(o) => GoesOn(o, "lock", up[o].version)
           /\ Lock(o) => \/ CanLock(o) /\ GoesOn(o, "version", up[o].version)
                         \/ GoesOn(o, "failed", up[o].version) /\ UNCHANGED holder
           /\ ReadVersion(o) => \/ recorded.dirty /\ GoesOn(o, "failed", up[o].version)
                                \/ /\ ~recorded.dirty /\ GoesOn(o, "next", recorded.version)
                                   /\ UNCHANGED holder
           /\ Mark(o) => GoesOn(o, "body", up[o].version + 1)
           /\ Unlock(o) => GoesOn(o, "resolve", up[o].version)
           /\ GracefulStop(o) => GoesOn(o, "failed", up[o].version)
           /\ Body(o) => GoesOn(o, "clear", up[o].version)
           /\ BodyFails(o) => GoesOn(o, "failed", up[o].version)
           /\ Clear(o) => GoesOn(o, "next", up[o].version)
           /\ Resolve(o) => \/ GoesOn(o, "failed", up[o].version) /\ UNCHANGED rows
                            \/ /\ GoesOn(o, "status", up[o].version)
                               /\ "unassigned" \notin rows' /\ rows' \subseteq rows \cup {"owned"}
                               /\ "owned" \in rows => "owned" \in rows'
           /\ Finish(o) => \/ Exact /\ GoesOn(o, "done", up[o].version)
                           \/ ~Exact /\ GoesOn(o, "failed", up[o].version)
           /\ Dies(o) => GoesOn(o, "failed", up[o].version)
           /\ Retry(o) => GoesOn(o, "idle", 0)
<1>1. ASSUME Begin(o) PROVE GoesOn(o, "lock", up[o].version)
  <2>1. PICK subject \in BOOLEAN :
            up' = [up EXCEPT ![o].step = "lock", ![o].subject = subject]
    BY <1>1 DEF Begin
  <2>2. QED
    BY <2>1 DEF GoesOn, MigrationTypeOK
<1>2. ASSUME Lock(o)
      PROVE  \/ CanLock(o) /\ GoesOn(o, "version", up[o].version)
             \/ GoesOn(o, "failed", up[o].version) /\ UNCHANGED holder
  BY <1>2, ContinuesFacts DEF Lock, UpSteps
<1>3. ASSUME ReadVersion(o)
      PROVE  \/ recorded.dirty /\ GoesOn(o, "failed", up[o].version)
             \/ ~recorded.dirty /\ GoesOn(o, "next", recorded.version) /\ UNCHANGED holder
  <2>1. CASE recorded.dirty
    BY <1>3, <2>1, ContinuesFacts DEF ReadVersion, UpSteps
  <2>2. CASE ~recorded.dirty
    BY <1>3, <2>2 DEF ReadVersion, GoesOn, MigrationTypeOK
  <2>3. QED
    BY <2>1, <2>2
<1>4. ASSUME Mark(o)
      PROVE  GoesOn(o, "body", up[o].version + 1)
  BY <1>4 DEF Mark, GoesOn, MigrationTypeOK
<1>5. ASSUME Unlock(o)
      PROVE  GoesOn(o, "resolve", up[o].version)
  BY <1>5, ContinuesFacts DEF Unlock, UpSteps
<1>6. ASSUME GracefulStop(o)
      PROVE  GoesOn(o, "failed", up[o].version)
  BY <1>6, ContinuesFacts DEF GracefulStop, UpSteps
<1>7. ASSUME Body(o)
      PROVE  GoesOn(o, "clear", up[o].version)
  BY <1>7, ContinuesFacts DEF Body, UpSteps
<1>8. ASSUME BodyFails(o)
      PROVE  GoesOn(o, "failed", up[o].version)
  BY <1>8, ContinuesFacts DEF BodyFails, UpSteps
<1>9. ASSUME Clear(o)
      PROVE  GoesOn(o, "next", up[o].version)
  BY <1>9, ContinuesFacts DEF Clear, UpSteps
<1>10. ASSUME Resolve(o)
      PROVE  \/ GoesOn(o, "failed", up[o].version) /\ UNCHANGED rows
             \/ /\ GoesOn(o, "status", up[o].version)
                /\ "unassigned" \notin rows' /\ rows' \subseteq rows \cup {"owned"}
                /\ "owned" \in rows => "owned" \in rows'
  BY <1>10, ContinuesFacts DEF Resolve, UpSteps, Unresolved
<1>11. ASSUME Finish(o)
      PROVE  \/ Exact /\ GoesOn(o, "done", up[o].version)
             \/ ~Exact /\ GoesOn(o, "failed", up[o].version)
  BY <1>11, ContinuesFacts DEF Finish, UpSteps
<1>12. ASSUME Dies(o)
      PROVE  GoesOn(o, "failed", up[o].version)
  BY <1>12, ContinuesFacts DEF Dies, UpSteps
<1>13. ASSUME Retry(o)
      PROVE  GoesOn(o, "idle", 0)
  BY <1>13 DEF Retry, Waiting, GoesOn, MigrationTypeOK
<1>14. QED
  BY <1>1, <1>2, <1>3, <1>4, <1>5, <1>6, <1>7, <1>8, <1>9, <1>10, <1>11, <1>12, <1>13

\* A migration only adds to the schema, and leaves rows without an owner to
\* the third, which does not run on them.
LEMMA BodyFacts ==
    ASSUME MigrationTypeOK, SchemaInv, NEW o \in Operators, Body(o)
    PROVE  /\ up[o].step = "body" /\ up[o].version \in 1..3
           /\ GoesOn(o, "clear", up[o].version) /\ UNCHANGED <<db, recorded, holder>>
           /\ shape' \in 0..3 /\ shape' >= shape /\ shape' >= up[o].version
           /\ shape' = shape \/ shape' = up[o].version
           /\ up[o].version = 3 => "null" \notin rows
           /\ "null" \in rows' => "null" \in rows
           /\ "unassigned" \in rows' => "unassigned" \in rows \/ "null" \in rows
<1>1. /\ up[o].step = "body" /\ UNCHANGED <<db, recorded, holder>> /\ Applies(up[o].version)
      /\ shape' = IF shape < up[o].version THEN up[o].version ELSE shape
      /\ rows' = IF up[o].version = 2 /\ "null" \in rows THEN (rows \ {"null"}) \cup {"unassigned"} ELSE rows
  BY DEF Body
<1>2. shape \in 0..3 /\ up[o].version \in 1..3
  BY <1>1, UpTypes DEF SchemaInv
<1>3. up[o].version = 3 => "null" \notin rows
  BY <1>1 DEF Applies
<1>4. GoesOn(o, "clear", up[o].version)
  BY OperatorFacts
<1>5. /\ shape' \in 0..3 /\ shape' >= shape /\ shape' >= up[o].version
      /\ shape' = shape \/ shape' = up[o].version
  BY <1>1, <1>2
<1>6. QED
  BY <1>1, <1>2, <1>3, <1>4, <1>5

\* The schema only grows.
LEMMA SchemaStep ==
    ASSUME MigrationTypeOK, SchemaInv, MigrationNext
    PROVE  SchemaInv' /\ shape' \in 0..3 /\ shape' >= shape
<1>0. /\ \A o \in Operators : up[o].version \in 0..3 /\ up[o].step \in UpSteps
      /\ recorded.version \in 0..3 /\ recorded.dirty \in BOOLEAN /\ shape \in 0..3
      /\ CurrentVersion = 3
  BY UpTypes
<1>1. ASSUME NEW o \in Operators, Begin(o) PROVE SchemaInv' /\ shape' \in 0..3 /\ shape' >= shape
  <2>1. GoesOn(o, "lock", up[o].version)
    BY <1>1, OperatorFacts
  <2>2. UNCHANGED <<db, recorded, shape, rows, holder>>
    BY <1>1, <1>0 DEF Begin, CurrentVersion
  <2>3. QED
    BY <1>0, <2>1, <2>2 DEF GoesOn, SchemaInv, CurrentVersion
<1>2. ASSUME NEW o \in Operators, Lock(o) PROVE SchemaInv' /\ shape' \in 0..3 /\ shape' >= shape
  BY <1>2, <1>0, OperatorFacts DEF Lock, GoesOn, SchemaInv, CurrentVersion
<1>3. ASSUME NEW o \in Operators, ReadVersion(o) PROVE SchemaInv' /\ shape' \in 0..3 /\ shape' >= shape
  BY <1>3, <1>0, OperatorFacts DEF ReadVersion, GoesOn, SchemaInv, CurrentVersion
<1>4. ASSUME NEW o \in Operators, Mark(o) PROVE SchemaInv' /\ shape' \in 0..3 /\ shape' >= shape
  <2>1. GoesOn(o, "body", up[o].version + 1)
    BY <1>4, OperatorFacts
  <2>2. /\ up[o].step = "next" /\ up[o].version < 3 /\ UNCHANGED <<db, shape, rows, holder>>
        /\ recorded' = [version |-> up[o].version + 1, dirty |-> TRUE]
    BY <1>4, <1>0 DEF Mark, Record, CurrentVersion
  <2>3. QED
    BY <1>0, <2>1, <2>2 DEF GoesOn, SchemaInv, CurrentVersion
<1>5. ASSUME NEW o \in Operators, Unlock(o) PROVE SchemaInv' /\ shape' \in 0..3 /\ shape' >= shape
  BY <1>5, <1>0, OperatorFacts DEF Unlock, GoesOn, SchemaInv, CurrentVersion
<1>6. ASSUME NEW o \in Operators, GracefulStop(o) PROVE SchemaInv' /\ shape' \in 0..3 /\ shape' >= shape
  BY <1>6, <1>0, OperatorFacts DEF GracefulStop, GoesOn, SchemaInv, CurrentVersion
<1>7. ASSUME NEW o \in Operators, Body(o) PROVE SchemaInv' /\ shape' \in 0..3 /\ shape' >= shape
  BY <1>7, <1>0, BodyFacts DEF GoesOn, SchemaInv
<1>8. ASSUME NEW o \in Operators, BodyFails(o) PROVE SchemaInv' /\ shape' \in 0..3 /\ shape' >= shape
  BY <1>8, <1>0, OperatorFacts DEF BodyFails, GoesOn, SchemaInv, CurrentVersion
<1>9. ASSUME NEW o \in Operators, Clear(o) PROVE SchemaInv' /\ shape' \in 0..3 /\ shape' >= shape
  BY <1>9, <1>0, OperatorFacts DEF Clear, Record, GoesOn, SchemaInv, CurrentVersion
<1>10. ASSUME NEW o \in Operators, Resolve(o) PROVE SchemaInv' /\ shape' \in 0..3 /\ shape' >= shape
  BY <1>10, <1>0, OperatorFacts DEF Resolve, GoesOn, SchemaInv, CurrentVersion
<1>11. ASSUME NEW o \in Operators, Finish(o) PROVE SchemaInv' /\ shape' \in 0..3 /\ shape' >= shape
  BY <1>11, <1>0, OperatorFacts DEF Finish, GoesOn, SchemaInv, CurrentVersion
<1>12. ASSUME NEW o \in Operators, Dies(o) PROVE SchemaInv' /\ shape' \in 0..3 /\ shape' >= shape
  BY <1>12, <1>0, OperatorFacts DEF Dies, GoesOn, SchemaInv, CurrentVersion
<1>13. ASSUME NEW o \in Operators, Retry(o) PROVE SchemaInv' /\ shape' \in 0..3 /\ shape' >= shape
  <2>1. GoesOn(o, "idle", 0)
    BY <1>13, OperatorFacts
  <2>2. UNCHANGED <<db, recorded, shape, rows, holder>>
    BY <1>13, <1>0 DEF Retry, CurrentVersion
  <2>3. QED
    BY <1>0, <2>1, <2>2 DEF GoesOn, SchemaInv, CurrentVersion
<1>14. CASE OldServiceInserts
  BY <1>14, <1>0 DEF OldServiceInserts, SchemaInv, CurrentVersion
<1>15. ASSUME NEW s \in Services, Check(s) \/ Verify(s) \/ Run(s) \/ StartAgain(s)
      PROVE  SchemaInv' /\ shape' \in 0..3 /\ shape' >= shape
  BY <1>15, <1>0 DEF Check, Verify, Run, StartAgain, SchemaInv, CurrentVersion
<1>16. QED
  BY <1>1, <1>2, <1>3, <1>4, <1>5, <1>6, <1>7, <1>8, <1>9, <1>10, <1>11, <1>12, <1>13, <1>14, <1>15 DEF MigrationNext

\* What a service has checked is not undone.
LEMMA ServicesStep ==
    ASSUME MigrationTypeOK, SchemaInv, ServicesInv, LockedInv, MigrationNext
    PROVE  ServicesInv'
<1>0. /\ \A o \in Operators : up[o].version \in 0..3 /\ up[o].step \in UpSteps
      /\ recorded.version \in 0..3 /\ recorded.dirty \in BOOLEAN /\ shape \in 0..3
      /\ CurrentVersion = 3 /\ shape' \in 0..3 /\ shape' >= shape
  BY UpTypes, SchemaStep
<1>1. ASSUME NEW o \in Operators, Begin(o) PROVE ServicesInv'
  BY <1>1, <1>0, OperatorFacts DEF Begin, GoesOn, ServicesInv, SchemaInv, LockedInv, Exact, CurrentVersion
<1>2. ASSUME NEW o \in Operators, Lock(o) PROVE ServicesInv'
  BY <1>2, <1>0, OperatorFacts DEF Lock, GoesOn, ServicesInv, SchemaInv, LockedInv, Exact, CurrentVersion
<1>3. ASSUME NEW o \in Operators, ReadVersion(o) PROVE ServicesInv'
  BY <1>3, <1>0, OperatorFacts DEF ReadVersion, GoesOn, ServicesInv, SchemaInv, LockedInv, Exact, CurrentVersion
<1>4. ASSUME NEW o \in Operators, Mark(o) PROVE ServicesInv'
  BY <1>4, <1>0, OperatorFacts, SMTT(30) DEF Mark, Record, GoesOn, ServicesInv, SchemaInv, LockedInv, Exact, CurrentVersion
<1>5. ASSUME NEW o \in Operators, Unlock(o) PROVE ServicesInv'
  BY <1>5, <1>0, OperatorFacts DEF Unlock, GoesOn, ServicesInv, SchemaInv, LockedInv, Exact, CurrentVersion
<1>6. ASSUME NEW o \in Operators, GracefulStop(o) PROVE ServicesInv'
  BY <1>6, <1>0, OperatorFacts DEF GracefulStop, GoesOn, ServicesInv, SchemaInv, LockedInv, Exact, CurrentVersion
<1>7. ASSUME NEW o \in Operators, Body(o) PROVE ServicesInv'
  BY <1>7, <1>0, OperatorFacts DEF Body, Applies, GoesOn, ServicesInv, SchemaInv, LockedInv, Exact, CurrentVersion
<1>8. ASSUME NEW o \in Operators, BodyFails(o) PROVE ServicesInv'
  BY <1>8, <1>0, OperatorFacts DEF BodyFails, GoesOn, ServicesInv, SchemaInv, LockedInv, Exact, CurrentVersion
<1>9. ASSUME NEW o \in Operators, Clear(o) PROVE ServicesInv'
  BY <1>9, <1>0, OperatorFacts DEF Clear, Record, GoesOn, ServicesInv, SchemaInv, LockedInv, Exact, CurrentVersion
<1>10. ASSUME NEW o \in Operators, Resolve(o) PROVE ServicesInv'
  BY <1>10, <1>0, OperatorFacts DEF Resolve, GoesOn, ServicesInv, SchemaInv, LockedInv, Exact, CurrentVersion
<1>11. ASSUME NEW o \in Operators, Finish(o) PROVE ServicesInv'
  BY <1>11, <1>0, OperatorFacts DEF Finish, GoesOn, ServicesInv, SchemaInv, LockedInv, Exact, CurrentVersion
<1>12. ASSUME NEW o \in Operators, Dies(o) PROVE ServicesInv'
  BY <1>12, <1>0, OperatorFacts DEF Dies, GoesOn, ServicesInv, SchemaInv, LockedInv, Exact, CurrentVersion
<1>13. ASSUME NEW o \in Operators, Retry(o) PROVE ServicesInv'
  BY <1>13, <1>0, OperatorFacts DEF Retry, GoesOn, ServicesInv, SchemaInv, LockedInv, Exact, CurrentVersion
<1>14. CASE OldServiceInserts
  BY <1>14, <1>0 DEF OldServiceInserts, ServicesInv, SchemaInv, LockedInv, Exact, CurrentVersion
<1>15. ASSUME NEW s \in Services, Check(s) \/ Verify(s) \/ Run(s) \/ StartAgain(s)
      PROVE  ServicesInv'
  <2>1. CASE Check(s)
    BY <2>1, <1>0 DEF Check, ServicesInv, SchemaInv, LockedInv, Exact, CurrentVersion, Unresolved, MigrationTypeOK
  <2>2. CASE Verify(s)
    BY <2>2, <1>0 DEF Verify, ServicesInv, SchemaInv, LockedInv, Exact, CurrentVersion, Unresolved, MigrationTypeOK
  <2>3. CASE Run(s)
    BY <2>3, <1>0 DEF Run, ServicesInv, SchemaInv, LockedInv, Exact, CurrentVersion, Unresolved, MigrationTypeOK
  <2>4. CASE StartAgain(s)
    BY <2>4, <1>0 DEF StartAgain, ServicesInv, SchemaInv, LockedInv, Exact, CurrentVersion, Unresolved, MigrationTypeOK
  <2>5. QED
    BY <1>15, <2>1, <2>2, <2>3, <2>4
<1>16. QED
  BY <1>1, <1>2, <1>3, <1>4, <1>5, <1>6, <1>7, <1>8, <1>9, <1>10, <1>11, <1>12, <1>13, <1>14, <1>15 DEF MigrationNext

\* Nobody but the holder of the lock changes the record.
LEMMA LockedStep ==
    ASSUME MigrationTypeOK, SchemaInv, LockedInv, MigrationNext
    PROVE  LockedInv'
<1>0. /\ \A o \in Operators : up[o].version \in 0..3 /\ up[o].step \in UpSteps
      /\ recorded.version \in 0..3 /\ recorded.dirty \in BOOLEAN /\ shape \in 0..3
      /\ CurrentVersion = 3 /\ shape' \in 0..3 /\ shape' >= shape
      /\ \A o \in Operators : o # Nobody
      /\ recorded = [version |-> recorded.version, dirty |-> recorded.dirty]
  BY UpTypes, SchemaStep, OperatorsAssumption DEF MigrationTypeOK
<1>1. ASSUME NEW o \in Operators, Begin(o) PROVE LockedInv'
  <2>1. GoesOn(o, "lock", up[o].version)
    BY <1>1, OperatorFacts
  <2>2. UNCHANGED <<db, recorded, shape, rows, holder>>
    BY <1>1, <1>0 DEF Begin, CurrentVersion
  <2>3. QED
    BY <1>0, <2>1, <2>2 DEF GoesOn, LockedInv, SchemaInv, Exact, Unlocked, CanLock, CurrentVersion
<1>2. ASSUME NEW o \in Operators, Lock(o) PROVE LockedInv'
  BY <1>2, <1>0, OperatorFacts DEF Lock, GoesOn, LockedInv, SchemaInv, Exact, Unlocked, CanLock, CurrentVersion
<1>3. ASSUME NEW o \in Operators, ReadVersion(o) PROVE LockedInv'
  <2>1. \/ recorded.dirty /\ GoesOn(o, "failed", up[o].version)
        \/ ~recorded.dirty /\ GoesOn(o, "next", recorded.version) /\ UNCHANGED holder
    BY <1>3, OperatorFacts
  <2>2. /\ up[o].step = "version" /\ UNCHANGED <<db, recorded, shape, rows>>
        /\ holder' = holder \/ holder' = Unlocked(o)
    BY <1>3, <1>0 DEF ReadVersion, CurrentVersion
  <2>3. QED
    BY <1>0, <2>1, <2>2 DEF GoesOn, LockedInv, SchemaInv, Exact, Unlocked, CanLock, CurrentVersion
<1>4. ASSUME NEW o \in Operators, Mark(o) PROVE LockedInv'
  <2>1. GoesOn(o, "body", up[o].version + 1)
    BY <1>4, OperatorFacts
  <2>2. /\ up[o].step = "next" /\ up[o].version < 3 /\ UNCHANGED <<db, shape, rows, holder>>
        /\ recorded' = [version |-> up[o].version + 1, dirty |-> TRUE]
    BY <1>4, <1>0 DEF Mark, Record, CurrentVersion
  <2>3. ASSUME db = "postgres" PROVE holder = o /\ ~Exact
    BY <1>0, <2>2, <2>3 DEF LockedInv, Exact
  <2>4. QED
    BY <1>0, <2>1, <2>2, <2>3 DEF GoesOn, LockedInv, Exact
<1>5. ASSUME NEW o \in Operators, Unlock(o) PROVE LockedInv'
  BY <1>5, <1>0, OperatorFacts DEF Unlock, GoesOn, LockedInv, SchemaInv, Exact, Unlocked, CanLock, CurrentVersion
<1>6. ASSUME NEW o \in Operators, GracefulStop(o) PROVE LockedInv'
  BY <1>6, <1>0, OperatorFacts DEF GracefulStop, GoesOn, LockedInv, SchemaInv, Exact, Unlocked, CanLock, CurrentVersion
<1>7. ASSUME NEW o \in Operators, Body(o) PROVE LockedInv'
  BY <1>7, <1>0, BodyFacts DEF GoesOn, LockedInv, SchemaInv, Exact
<1>8. ASSUME NEW o \in Operators, BodyFails(o) PROVE LockedInv'
  BY <1>8, <1>0, OperatorFacts DEF BodyFails, GoesOn, LockedInv, SchemaInv, Exact, Unlocked, CanLock, CurrentVersion
<1>9. ASSUME NEW o \in Operators, Clear(o) PROVE LockedInv'
  <2>1. GoesOn(o, "next", up[o].version)
    BY <1>9, OperatorFacts
  <2>2. /\ up[o].step = "clear" /\ UNCHANGED <<db, shape, rows, holder>>
        /\ recorded' = [version |-> up[o].version, dirty |-> FALSE]
    BY <1>9, <1>0 DEF Clear, Record, CurrentVersion
  <2>3. ASSUME db = "postgres" PROVE holder = o /\ ~Exact
    BY <1>0, <2>2, <2>3 DEF LockedInv, Exact
  <2>4. QED
    BY <1>0, <2>1, <2>2, <2>3 DEF GoesOn, LockedInv, Exact
<1>10. ASSUME NEW o \in Operators, Resolve(o) PROVE LockedInv'
  BY <1>10, <1>0, OperatorFacts DEF Resolve, GoesOn, LockedInv, SchemaInv, Exact, Unlocked, CanLock, CurrentVersion
<1>11. ASSUME NEW o \in Operators, Finish(o) PROVE LockedInv'
  BY <1>11, <1>0, OperatorFacts DEF Finish, GoesOn, LockedInv, SchemaInv, Exact, Unlocked, CanLock, CurrentVersion
<1>12. ASSUME NEW o \in Operators, Dies(o) PROVE LockedInv'
  BY <1>12, <1>0, OperatorFacts DEF Dies, GoesOn, LockedInv, SchemaInv, Exact, Unlocked, CanLock, CurrentVersion
<1>13. ASSUME NEW o \in Operators, Retry(o) PROVE LockedInv'
  <2>1. GoesOn(o, "idle", 0)
    BY <1>13, OperatorFacts
  <2>2. UNCHANGED <<db, recorded, shape, rows, holder>>
    BY <1>13 DEF Retry
  <2>3. QED
    BY <1>0, <2>1, <2>2 DEF GoesOn, LockedInv, Exact
<1>14. CASE OldServiceInserts
  BY <1>14, <1>0 DEF OldServiceInserts, LockedInv, SchemaInv, Exact, Unlocked, CanLock, CurrentVersion
<1>15. ASSUME NEW s \in Services, Check(s) \/ Verify(s) \/ Run(s) \/ StartAgain(s)
      PROVE  LockedInv'
  BY <1>15, <1>0 DEF Check, Verify, Run, StartAgain, LockedInv, SchemaInv, Exact, Unlocked, CanLock, CurrentVersion
<1>16. QED
  BY <1>1, <1>2, <1>3, <1>4, <1>5, <1>6, <1>7, <1>8, <1>9, <1>10, <1>11, <1>12, <1>13, <1>14, <1>15 DEF MigrationNext

LEMMA MarkStep ==
    ASSUME MigrationTypeOK, LockedInv, MarkInv, MigrationNext
    PROVE  MarkInv'
<1>0. /\ \A o \in Operators : up[o].version \in 0..3 /\ up[o].step \in UpSteps
      /\ recorded.version \in 0..3 /\ recorded.dirty \in BOOLEAN
      /\ \A o \in Operators : o # Nobody
  BY UpTypes, OperatorsAssumption
<1>1. ASSUME NEW o \in Operators, Begin(o) PROVE MarkInv'
  BY <1>1, <1>0, OperatorFacts DEF Begin, GoesOn, MarkInv, LockedInv, Unlocked, CanLock
<1>2. ASSUME NEW o \in Operators, Lock(o) PROVE MarkInv'
  BY <1>2, <1>0, OperatorFacts DEF Lock, GoesOn, MarkInv, LockedInv, Unlocked, CanLock
<1>3. ASSUME NEW o \in Operators, ReadVersion(o) PROVE MarkInv'
  BY <1>3, <1>0, OperatorFacts DEF ReadVersion, GoesOn, MarkInv, LockedInv, Unlocked, CanLock
<1>4. ASSUME NEW o \in Operators, Mark(o) PROVE MarkInv'
  BY <1>4, <1>0, OperatorFacts DEF Mark, Record, GoesOn, MarkInv, LockedInv, Unlocked, CanLock
<1>5. ASSUME NEW o \in Operators, Unlock(o) PROVE MarkInv'
  BY <1>5, <1>0, OperatorFacts DEF Unlock, GoesOn, MarkInv, LockedInv, Unlocked, CanLock
<1>6. ASSUME NEW o \in Operators, GracefulStop(o) PROVE MarkInv'
  BY <1>6, <1>0, OperatorFacts DEF GracefulStop, GoesOn, MarkInv, LockedInv, Unlocked, CanLock
<1>7. ASSUME NEW o \in Operators, Body(o) PROVE MarkInv'
  BY <1>7, <1>0, OperatorFacts DEF Body, Applies, GoesOn, MarkInv, LockedInv, Unlocked, CanLock
<1>8. ASSUME NEW o \in Operators, BodyFails(o) PROVE MarkInv'
  BY <1>8, <1>0, OperatorFacts DEF BodyFails, GoesOn, MarkInv, LockedInv, Unlocked, CanLock
<1>9. ASSUME NEW o \in Operators, Clear(o) PROVE MarkInv'
  BY <1>9, <1>0, OperatorFacts DEF Clear, Record, GoesOn, MarkInv, LockedInv, Unlocked, CanLock
<1>10. ASSUME NEW o \in Operators, Resolve(o) PROVE MarkInv'
  BY <1>10, <1>0, OperatorFacts DEF Resolve, GoesOn, MarkInv, LockedInv, Unlocked, CanLock
<1>11. ASSUME NEW o \in Operators, Finish(o) PROVE MarkInv'
  BY <1>11, <1>0, OperatorFacts DEF Finish, GoesOn, MarkInv, LockedInv, Unlocked, CanLock
<1>12. ASSUME NEW o \in Operators, Dies(o) PROVE MarkInv'
  BY <1>12, <1>0, OperatorFacts DEF Dies, GoesOn, MarkInv, LockedInv, Unlocked, CanLock
<1>13. ASSUME NEW o \in Operators, Retry(o) PROVE MarkInv'
  BY <1>13, <1>0, OperatorFacts DEF Retry, GoesOn, MarkInv, LockedInv, Unlocked, CanLock
<1>14. CASE OldServiceInserts
  BY <1>14, <1>0 DEF OldServiceInserts, MarkInv, LockedInv, Unlocked, CanLock
<1>15. ASSUME NEW s \in Services, Check(s) \/ Verify(s) \/ Run(s) \/ StartAgain(s)
      PROVE  MarkInv'
  BY <1>15, <1>0 DEF Check, Verify, Run, StartAgain, MarkInv, LockedInv, Unlocked, CanLock
<1>16. QED
  BY <1>1, <1>2, <1>3, <1>4, <1>5, <1>6, <1>7, <1>8, <1>9, <1>10, <1>11, <1>12, <1>13, <1>14, <1>15 DEF MigrationNext

LEMMA MigrationInvStep ==
    ASSUME MigrationInv, [MigrationNext]_migrationVars
    PROVE  MigrationInv'
<1>1. CASE MigrationNext
  BY <1>1, MigrationTypeStep, SchemaStep, ServicesStep, LockedStep, MarkStep DEF MigrationInv
<1>2. CASE UNCHANGED migrationVars
  <2>1. MigrationTypeOK'
    BY <1>2 DEF MigrationInv, migrationVars, MigrationTypeOK
  <2>2. SchemaInv' /\ MarkInv'
    BY <1>2 DEF MigrationInv, migrationVars, SchemaInv, MarkInv
  <2>3. ServicesInv' /\ LockedInv'
    BY <1>2 DEF MigrationInv, migrationVars, ServicesInv, LockedInv, Exact
  <2>4. QED
    BY <2>1, <2>2, <2>3 DEF MigrationInv
<1>3. QED
  BY <1>1, <1>2

LEMMA MigrationInvInitially == MigrationInit => MigrationInv
<1> SUFFICES ASSUME MigrationInit PROVE MigrationInv
  OBVIOUS
<1>1. \A o \in Operators : up[o] = Waiting
  BY DEF MigrationInit
<1>2. MigrationTypeOK
  BY DEF MigrationInit, MigrationTypeOK, Waiting, CurrentVersion
<1>3. SchemaInv
  BY <1>1 DEF MigrationInit, SchemaInv, Waiting, CurrentVersion
<1>4. ServicesInv /\ MarkInv
  BY DEF MigrationInit, ServicesInv, MarkInv
<1>5. LockedInv
  BY <1>1 DEF MigrationInit, LockedInv, Waiting
<1>6. QED
  BY <1>2, <1>3, <1>4, <1>5 DEF MigrationInv

\* For any number of operators and services of one database, whichever of its
\* two kinds it is (pkg/database/migrate, todo/binding/migration): a service that runs
\* stands on the whole schema and on rows that all have an owner, and with a
\* server that locks, "done" is the truth and a mark has somebody behind it.
THEOREM MigrationIsSoundHolds == MigrationSpec => []MigrationIsSound
<1>1. MigrationInv => MigrationIsSound
  <2> SUFFICES ASSUME MigrationInv PROVE MigrationIsSound
    OBVIOUS
  <2>1. CurrentVersion \in Nat /\ CurrentVersion = 3 /\ shape \in 0..3
    BY DEF MigrationInv, MigrationTypeOK, CurrentVersion
  <2>2. rows \subseteq {"null", "unassigned", "owned"}
    BY DEF MigrationInv, MigrationTypeOK
  <2>3. Exact => shape = 3
    BY <2>1 DEF MigrationInv, SchemaInv, Exact
  <2>4. ServiceRunsOnWhole
    BY <2>2 DEF MigrationInv, ServicesInv, SchemaInv, ServiceRunsOnWhole
  <2>5. UpMeansReady
    BY <2>1, <2>2, <2>3 DEF MigrationInv, LockedInv, MarkInv, SchemaInv, UpMeansReady
  <2>6. QED
    BY <2>4, <2>5 DEF MigrationInv, MigrationIsSound
<1>2. QED
  BY <1>1, MigrationInvInitially, MigrationInvStep, PTL DEF MigrationSpec

-----------------------------------------------------------------------------
(* The cache. Whoever works alone knows what its own commands have done;     *)
(* whoever does not gives its keys up to any value when it ends. Between     *)
(* these, both layers hold what is legal, and the two indexes of the tag     *)
(* hold the keys whose last Set is known to have succeeded.                  *)

Steps == {None, "begin", "join", "remote", "ttl", "set", "value", "index", "remove", "tag", "values", "forget"}
OpRecords ==
    [op : {"rest", "get", "load", "set", "delete", "invalidate"}, key : Keys \cup {None}, step : Steps,
     value : Values \cup {None}, read : Values \cup {None}, keys : SUBSET Keys, members : SUBSET Keys,
     failed : BOOLEAN, alone : BOOLEAN]

\* It has done its first write, and not its last.
Writes(c) == ops[c].step \in {"value", "index", "remove", "tag", "values", "forget"}
Invalidates(c) == ops[c].op = "invalidate" /\ Writes(c)
Sure(k) == tagged[k] = "sure"

\* Which steps an operation has and what it carries in them.
CallInv(c) ==
    /\ ops[c].op = "rest" => ops[c] = Resting
    /\ ops[c].op \in {"get", "load", "set", "delete"} => ops[c].key \in Keys
    /\ ops[c].op \in {"load", "set"} => ops[c].value \in Values
    /\ ops[c].op = "invalidate" => ops[c].key = None
    /\ ops[c].step \in {"remote", "ttl"} => Reads(c)
    /\ ops[c].step = "ttl" => ops[c].read \in Values
    /\ ops[c].step \in {"value", "index"} => ops[c].op \in {"load", "set"}
    /\ ops[c].step = "remove" => ops[c].op = "delete"
    /\ ops[c].step \in {"tag", "values", "forget"} => ops[c].op = "invalidate"

CallsInv ==
    /\ ops \in [Callers -> OpRecords]
    /\ legal \in [Keys -> SUBSET Values] /\ tagged \in [Keys -> {None, "known", "sure"}]
    /\ \A c \in Callers : CallInv(c)

\* Who works alone is the only one who works.
AloneInv == \A c, d \in Callers : ops[c].op # "rest" /\ ops[c].alone /\ d # c => ops[d].op = "rest"

\* What it has written so far.
OwnInv ==
    \A c \in Callers : ops[c].op # "rest" /\ ops[c].alone =>
        LET k == ops[c].key
            mine == {ops[c].value, None}
        IN  /\ ops[c].step \in {"value", "index"} => local[k] \in mine /\ (cacheClosed \/ k \in tagKeys)
            /\ ops[c].step \in {"value", "remove"} => remote[k] \in legal[k] \cup {None}
            /\ ops[c].step = "index" => remote[k] \in mine
            /\ ops[c].step = "remove" => local[k] = None
            /\ Invalidates(c) /\ ~ops[c].failed => \A j \in Keys : Sure(j) =>
                /\ remote[j] # None => j \in ops[c].members /\ ops[c].step # "forget"
                /\ local[j] # None => j \in ops[c].keys
            /\ ops[c].op = "invalidate" /\ cacheClosed => \A j \in Keys : local[j] = None

\* Somebody is in the middle of writing this key, or may be.
Written(k) == \E c \in Callers : Writes(c) /\ (ops[c].key = k \/ (Invalidates(c) /\ ~ops[c].alone))

HeldInv == \A k \in Keys : Written(k) \/ {local[k], remote[k]} \subseteq legal[k] \cup {None}

\* A value on its way into the process is as good as those that are there.
FillInv ==
    \A c \in Callers, k \in Keys :
        ops[c].step = "ttl" /\ ops[c].key = k => Written(k) \/ ops[c].read \in legal[k]

\* The indexes of the tag.
IndexInv ==
    \A k \in Keys : Sure(k) =>
        \/ \E c \in Callers : Writes(c) /\ (ops[c].key = k \/ Invalidates(c))
        \/ /\ remote[k] # None => k \in tagSet
           /\ ~cacheClosed /\ {local[k], remote[k]} # {None} => k \in tagKeys

CacheInv == CacheTypeOK /\ CallsInv /\ AloneInv /\ OwnInv /\ HeldInv /\ FillInv /\ IndexInv

\* A caller goes on to a step, or ends; the others stay where they are.
Others(c) == ops' \in [Callers -> OpRecords] /\ \A d \in Callers : d # c => ops'[d] = ops[d]
Advances(c, step) ==
    /\ Others(c) /\ ops'[c].step = step
    /\ ops'[c].op = ops[c].op /\ ops'[c].key = ops[c].key
    /\ ops'[c].value = ops[c].value /\ ops'[c].alone = ops[c].alone
Keeps(c) ==
    /\ ops'[c].read = ops[c].read /\ ops'[c].failed = ops[c].failed
    /\ ops'[c].keys = ops[c].keys /\ ops'[c].members = ops[c].members
Rests(c) == Others(c) /\ ops'[c] = Resting

LEMMA GoesFacts ==
    ASSUME CallsInv, NEW c \in Callers, NEW step \in Steps, Goes(c, step)
    PROVE  Advances(c, step) /\ Keeps(c)
<1>1. ops[c] \in OpRecords
  BY DEF CallsInv
<1>2. [ops[c] EXCEPT !.step = step] \in OpRecords
  BY <1>1 DEF OpRecords
<1>3. ops' = [ops EXCEPT ![c] = [ops[c] EXCEPT !.step = step]]
  BY <1>1 DEF Goes, CallsInv
<1>4. ops' \in [Callers -> OpRecords]
  BY <1>2, <1>3 DEF CallsInv
<1>5. ops'[c] = [ops[c] EXCEPT !.step = step] /\ \A d \in Callers : d # c => ops'[d] = ops[d]
  BY <1>3 DEF CallsInv
<1>6. QED
  BY <1>1, <1>4, <1>5 DEF Advances, Keeps, Others, OpRecords

LEMMA RestingFacts ==
    /\ Resting \in OpRecords /\ Resting.op = "rest" /\ Resting.step = None /\ Resting.key = None
    /\ Resting.alone = TRUE
BY DEF Resting, OpRecords, Steps, None

LEMMA RestsFacts ==
    ASSUME CallsInv, NEW c \in Callers, ops' = [ops EXCEPT ![c] = Resting]
    PROVE  Rests(c)
BY RestingFacts DEF CallsInv, Rests, Others

-----------------------------------------------------------------------------
(* Parts of the invariant that every step keeps alike.                       *)

\* While one works alone the others rest; while two work neither is alone.
LEMMA Company ==
    ASSUME CallsInv, AloneInv, NEW c \in Callers, ops[c].op # "rest"
    PROVE  \A d \in Callers : d # c /\ ops[d].op # "rest" => ~ops[d].alone /\ ~ops[c].alone
BY DEF AloneInv

LEMMA AtWork ==
    ASSUME CallsInv, NEW c \in Callers
    PROVE  /\ ops[c].step # None => ops[c].op # "rest"
           /\ Writes(c) => ops[c].op # "rest"
           /\ ops[c].alone \in BOOLEAN /\ ops[c].failed \in BOOLEAN
BY RestingFacts DEF CallsInv, CallInv, Writes, OpRecords, None

LEMMA AloneKept ==
    ASSUME AloneInv, NEW c \in Callers,
           Rests(c) \/ (Others(c) /\ ops'[c].op = ops[c].op /\ ops'[c].alone = ops[c].alone)
    PROVE  AloneInv'
BY RestingFacts DEF AloneInv, Rests, Others

\* The others know nothing of their own when somebody else works.
LEMMA OwnKept ==
    ASSUME CallsInv, AloneInv, NEW c \in Callers, ops[c].op # "rest", Rests(c)
    PROVE  OwnInv'
<1> SUFFICES ASSUME NEW d \in Callers, ops'[d].op # "rest", ops'[d].alone PROVE FALSE
  BY DEF OwnInv
<1>1. d # c
  BY RestingFacts DEF Rests
<1>2. ops'[d] = ops[d]
  BY <1>1 DEF Rests, Others
<1>3. QED
  BY <1>1, <1>2, Company

-----------------------------------------------------------------------------
(* A call that begins.                                                       *)

LEMMA CallsStep ==
    ASSUME CacheInv, NEW c \in Callers, NEW op \in {"get", "load", "set", "delete", "invalidate"},
           NEW key \in Keys \cup {None}, NEW value \in Values \cup {None},
           op = "invalidate" <=> key = None, op \in {"load", "set"} => value \in Values,
           Calls(c, op, key, value)
    PROVE  CacheInv'
<1> USE DEF CacheInv
<1>1. /\ ops[c] = Resting /\ ~cacheClosed
      /\ UNCHANGED <<driver, local, tagKeys, remote, tagSet, cacheClosed, legal, tagged, gone>>
  BY DEF Calls, CallsInv, CallInv, Histories
<1>2. PICK step \in {"begin", "join"} :
        /\ step = "join" => op = "load"
        /\ ops' = [d \in Callers |->
             IF d = c
             THEN [Resting EXCEPT !.op = op, !.key = key, !.value = value, !.alone = Quiet, !.step = step]
             ELSE IF ops[d].op = "rest" THEN ops[d] ELSE [ops[d] EXCEPT !.alone = FALSE]]
  BY DEF Calls
<1>3. /\ ops'[c].op = op /\ ops'[c].key = key /\ ops'[c].value = value /\ ops'[c].alone = Quiet
      /\ ops'[c].step = step
      /\ ops'[c] \in OpRecords
  BY <1>2 DEF Resting, OpRecords, Steps, Quiet
<1>4. ASSUME NEW d \in Callers, d # c
      PROVE  /\ ops'[d] \in OpRecords
             /\ ops'[d].op = ops[d].op /\ ops'[d].key = ops[d].key /\ ops'[d].value = ops[d].value
             /\ ops'[d].step = ops[d].step /\ ops'[d].read = ops[d].read
             /\ ops'[d].keys = ops[d].keys /\ ops'[d].members = ops[d].members
             /\ ops'[d].failed = ops[d].failed
             /\ ops[d].op = "rest" => ops'[d] = ops[d]
             /\ ops[d].op # "rest" => ~ops'[d].alone
  <2>1. ops[d] \in OpRecords
    BY DEF CallsInv
  <2>2. ops'[d] = IF ops[d].op = "rest" THEN ops[d] ELSE [ops[d] EXCEPT !.alone = FALSE]
    BY <1>2, <1>4
  <2>3. CASE ops[d].op = "rest"
    BY <2>1, <2>2, <2>3 DEF OpRecords
  <2>4. CASE ops[d].op # "rest"
    BY <2>1, <2>2, <2>4 DEF OpRecords
  <2>5. QED
    BY <2>3, <2>4
<1>5. \A d \in Callers : Writes(d)' <=> d # c /\ Writes(d)
  BY <1>3, <1>4 DEF Writes
<1>6. CacheTypeOK'
  BY <1>1 DEF CacheTypeOK
<1>7. CallsInv'
  <2>1. ops' \in [Callers -> OpRecords]
    BY <1>2, <1>3, <1>4
  <2>2. CallInv(c)'
    BY <1>3 DEF CallInv, Reads, None
  <2>3. ASSUME NEW d \in Callers, d # c PROVE CallInv(d)'
    <3>1. CallInv(d)
      BY DEF CallsInv
    <3>2. QED
      BY <1>4, <2>3, <3>1 DEF CallInv, Reads
  <2>4. QED
    BY <1>1, <2>1, <2>2, <2>3 DEF CallsInv
<1>8. AloneInv'
  <2>1. ops'[c].alone => \A d \in Callers : ops[d].op = "rest"
    BY <1>3 DEF Quiet
  <2>2. \A d \in Callers : d # c => ops'[d].op = ops[d].op /\ (ops[d].op # "rest" => ~ops'[d].alone)
    BY <1>4
  <2>3. QED
    BY <2>1, <2>2 DEF AloneInv
<1>9. OwnInv'
  <2> SUFFICES ASSUME NEW d \in Callers, ops'[d].op # "rest", ops'[d].alone
               PROVE  d = c
    BY <1>1, <1>3 DEF OwnInv, Invalidates, Writes
  <2>1. QED
    BY <1>4
<1>10. \A k \in Keys : Written(k) => Written(k)'
  <2> SUFFICES ASSUME NEW k \in Keys,
                      NEW d \in Callers, Writes(d), ops[d].key = k \/ (Invalidates(d) /\ ~ops[d].alone)
               PROVE  Written(k)'
    BY DEF Written
  <2>1. d # c
    BY <1>1, AtWork, RestingFacts
  <2>2. Writes(d)' /\ ops'[d].key = ops[d].key /\ ops'[d].op = ops[d].op /\ ~ops'[d].alone
    BY <1>4, <1>5, <2>1, AtWork
  <2>3. QED
    BY <2>2 DEF Written, Invalidates
<1>11. HeldInv' /\ FillInv'
  <2>1. HeldInv'
    BY <1>1, <1>10 DEF HeldInv
  <2>2. FillInv'
    <3> SUFFICES ASSUME NEW d \in Callers, NEW k \in Keys, ops'[d].step = "ttl", ops'[d].key = k
                 PROVE  Written(k)' \/ ops'[d].read \in legal'[k]
      BY DEF FillInv
    <3>1. d # c
      BY <1>3
    <3>2. ops[d].step = "ttl" /\ ops[d].key = k /\ ops'[d].read = ops[d].read /\ legal' = legal
      BY <1>1, <1>4, <3>1
    <3>3. Written(k) \/ ops[d].read \in legal[k]
      BY <3>2 DEF FillInv
    <3>4. QED
      BY <1>10, <3>2, <3>3
  <2>3. QED
    BY <2>1, <2>2
<1>12. IndexInv'
  <2> SUFFICES ASSUME NEW k \in Keys, Sure(k),
                      NEW d \in Callers, Writes(d), ops[d].key = k \/ Invalidates(d)
               PROVE  \E e \in Callers : Writes(e)' /\ (ops'[e].key = k \/ Invalidates(e)')
    BY <1>1 DEF IndexInv, Sure
  <2>1. d # c
    BY <1>1, AtWork, RestingFacts
  <2>2. QED
    BY <1>4, <1>5, <2>1 DEF Invalidates
<1>13. QED
  BY <1>6, <1>7, <1>8, <1>9, <1>11, <1>12

-----------------------------------------------------------------------------
(* Steps that write nothing, and the copy of a value into the process.       *)

\* Who was not writing and is not now leaves every key as written as it was.
LEMMA ReadsWriteNothing ==
    ASSUME CallsInv, NEW c \in Callers, ~Writes(c),
           \/ Rests(c)
           \/ /\ Others(c) /\ ops'[c].step \in {"remote", "ttl", "set"} /\ ops'[c].op = ops[c].op
    PROVE  /\ \A k \in Keys : Written(k)' <=> Written(k)
           /\ \A d \in Callers : Writes(d)' <=> Writes(d)
           /\ \A d \in Callers : Writes(d) => ops'[d] = ops[d]
<1>1. ~Writes(c)'
  BY RestingFacts DEF Writes, Rests, None
<1>2. \A d \in Callers : d # c => ops'[d] = ops[d]
  BY DEF Rests, Others
<1>3. \A d \in Callers : Writes(d)' <=> Writes(d)
  BY <1>1, <1>2 DEF Writes
<1>4. \A d \in Callers : Writes(d) => ops'[d] = ops[d]
  BY <1>2
<1>5. QED
  BY <1>3, <1>4 DEF Written, Invalidates

LEMMA ReaderStep ==
    ASSUME CacheInv, NEW c \in Callers, ops[c].op \in {"get", "load"}, ~Writes(c),
           \/ Rests(c)
           \/ Advances(c, "remote") \/ (Advances(c, "set") /\ ops[c].op = "load")
           \/ Advances(c, "ttl") /\ ops'[c].read = remote[ops[c].key] /\ ops'[c].read \in Values,
           UNCHANGED <<driver, tagKeys, remote, tagSet, cacheClosed, Histories>>,
           \/ UNCHANGED local
           \/ /\ ops[c].step = "ttl" /\ remote[ops[c].key] # None /\ Rests(c)
              /\ local' = [local EXCEPT ![ops[c].key] = ops[c].read]
    PROVE  CacheInv'
<1> USE DEF CacheInv
<1>1. UNCHANGED <<driver, tagKeys, remote, tagSet, cacheClosed, legal, tagged, gone>>
  BY DEF Histories
<1>2. PICK key \in Keys : ops[c].key = key
  BY DEF CallsInv, CallInv
<1>3. /\ \A k \in Keys : Written(k)' <=> Written(k)
      /\ \A d \in Callers : Writes(d)' <=> Writes(d)
      /\ \A d \in Callers : Writes(d) => ops'[d] = ops[d]
  BY ReadsWriteNothing DEF Advances
<1>4. \A d \in Callers : d # c => ops'[d] = ops[d]
  BY DEF Advances, Rests, Others
<1>5. /\ \A k \in Keys : k # key => local'[k] = local[k]
      /\ \/ local'[key] = local[key]
         \/ ops[c].step = "ttl" /\ remote[key] # None /\ local'[key] = ops[c].read
      /\ local' \in [Keys -> Values \cup {None}]
  <2>1. ops[c].step = "ttl" => ops[c].read \in Values
    BY DEF CallsInv, CallInv
  <2>2. QED
    BY <1>2, <2>1 DEF CacheTypeOK
<1>6. CacheTypeOK'
  BY <1>1, <1>5 DEF CacheTypeOK
<1>7. CallsInv'
  <2>1. ops' \in [Callers -> OpRecords]
    BY DEF Advances, Rests, Others
  <2>2. CallInv(c)'
    <3>1. CASE Rests(c)
      BY <3>1, RestingFacts DEF Rests, CallInv, None
    <3>2. CASE ~Rests(c)
      <4>1. CallInv(c)
        BY DEF CallsInv
      <4>2. QED
        BY <3>2, <4>1 DEF Advances, CallInv, Reads
    <3>3. QED
      BY <3>1, <3>2
  <2>3. ASSUME NEW d \in Callers, d # c PROVE CallInv(d)'
    BY <1>4, <2>3 DEF CallsInv, CallInv, Reads
  <2>4. QED
    BY <1>1, <2>1, <2>2, <2>3 DEF CallsInv
<1>8. AloneInv'
  BY AloneKept DEF Advances
<1>9. OwnInv'
  <2>0. ops'[c].op # "invalidate" /\ ~Writes(c)'
    BY <1>3, RestingFacts DEF Advances, Rests
  <2> SUFFICES ASSUME NEW d \in Callers, ops'[d].op # "rest", ops'[d].alone
               PROVE  d = c
    BY <2>0 DEF OwnInv, Invalidates, Writes
  <2> SUFFICES ASSUME d # c PROVE FALSE
    OBVIOUS
  <2>1. QED
    BY <1>4, Company
<1>10. HeldInv'
  <2> SUFFICES ASSUME NEW k \in Keys, ~Written(k)
               PROVE  {local'[k], remote'[k]} \subseteq legal'[k] \cup {None}
    BY <1>3 DEF HeldInv
  <2>1. {local[k], remote[k]} \subseteq legal[k] \cup {None}
    BY DEF HeldInv
  <2>2. k = key /\ ops[c].step = "ttl" => ops[c].read \in legal[k]
    BY <1>2 DEF FillInv
  <2>3. QED
    BY <1>1, <1>5, <2>1, <2>2
<1>11. FillInv'
  <2> SUFFICES ASSUME NEW d \in Callers, NEW k \in Keys, ops'[d].step = "ttl", ops'[d].key = k, ~Written(k)
               PROVE  ops'[d].read \in legal'[k]
    BY <1>3 DEF FillInv
  <2>1. CASE d # c
    BY <1>1, <1>4, <2>1 DEF FillInv
  <2>2. CASE d = c
    <3>1. Advances(c, "ttl") /\ ops'[c].read = remote[ops[c].key] /\ ops'[c].read \in Values
      BY <2>2, RestingFacts DEF Advances, Rests, None
    <3>2. k = key
      BY <1>2, <2>2, <3>1 DEF Advances
    <3>3. remote[k] \in legal[k] \cup {None}
      BY DEF HeldInv
    <3>4. QED
      BY <1>1, <1>2, <2>2, <3>1, <3>2, <3>3, CacheAssumption
  <2>3. QED
    BY <2>1, <2>2
<1>12. IndexInv'
  <2> SUFFICES ASSUME NEW k \in Keys, Sure(k)
               PROVE  \/ \E d \in Callers : Writes(d)' /\ (ops'[d].key = k \/ Invalidates(d)')
                      \/ /\ remote'[k] # None => k \in tagSet'
                         /\ ~cacheClosed' /\ {local'[k], remote'[k]} # {None} => k \in tagKeys'
    BY <1>1 DEF IndexInv, Sure
  <2>1. CASE \E d \in Callers : Writes(d) /\ (ops[d].key = k \/ Invalidates(d))
    <3>1. PICK d \in Callers : Writes(d) /\ (ops[d].key = k \/ Invalidates(d))
      BY <2>1
    <3>2. ops'[d] = ops[d] /\ Writes(d)'
      BY <1>3, <3>1
    <3>3. QED
      BY <3>1, <3>2 DEF Invalidates
  <2>2. CASE /\ remote[k] # None => k \in tagSet
             /\ ~cacheClosed /\ {local[k], remote[k]} # {None} => k \in tagKeys
    <3>1. {local'[k], remote'[k]} # {None} => {local[k], remote[k]} # {None}
      BY <1>1, <1>5
    <3>2. QED
      BY <1>1, <2>2, <3>1
  <2>3. QED
    BY <2>1, <2>2 DEF IndexInv
<1>13. QED
  BY <1>6, <1>7, <1>8, <1>9, <1>10, <1>11, <1>12

LEMMA ReadersSteps ==
    ASSUME CacheInv, NEW c \in Callers, Joined(c) \/ GetLocal(c) \/ GetRemote(c) \/ Backfill(c)
    PROVE  CacheInv'
<1> USE DEF CacheInv
<1>1. ops[c].op \in {"get", "load"} /\ ~Writes(c)
  <2>1. CallInv(c)
    BY DEF CallsInv
  <2>2. QED
    BY <2>1 DEF Joined, GetLocal, GetRemote, Backfill, At, Reads, Writes
<1>2. ReadEnds(c) => Rests(c) /\ UNCHANGED Histories
  BY RestsFacts DEF ReadEnds
<1>3. Missed(c) => (Rests(c) \/ (Advances(c, "set") /\ ops[c].op = "load")) /\ UNCHANGED Histories
  BY <1>1, <1>2, GoesFacts DEF Missed, Steps
<1>4. CASE Joined(c)
  BY <1>1, <1>2, <1>4, ReaderStep DEF Joined
<1>5. CASE GetLocal(c)
  <2>1. ReadEnds(c) \/ (Goes(c, "remote") /\ UNCHANGED Histories)
    BY <1>5 DEF GetLocal
  <2>2. Rests(c) \/ Advances(c, "remote")
    BY <1>2, <2>1, GoesFacts DEF Steps
  <2>3. UNCHANGED <<driver, local, tagKeys, remote, tagSet, cacheClosed, Histories>>
    BY <1>2, <1>5, <2>1 DEF GetLocal
  <2>4. QED
    BY <1>1, <2>2, <2>3, ReaderStep
<1>6. CASE GetRemote(c)
  <2>1. CASE Missed(c)
    BY <1>1, <1>3, <1>6, <2>1, ReaderStep DEF GetRemote
  <2>2. CASE /\ remote[ops[c].key] # None
             /\ ops' = [ops EXCEPT ![c].step = "ttl", ![c].read = remote[ops[c].key]]
             /\ UNCHANGED Histories
    <3>1. ops[c] \in OpRecords /\ ops[c].key \in Keys
      BY <1>1 DEF CallsInv, CallInv
    <3>2. remote[ops[c].key] \in Values
      BY <2>2, <3>1 DEF CacheTypeOK
    <3> DEFINE next == [ops[c] EXCEPT !.step = "ttl", !.read = remote[ops[c].key]]
    <3>3. next \in OpRecords
      BY <3>1, <3>2 DEF OpRecords, Steps
    <3>4. ops' = [ops EXCEPT ![c] = next]
      BY <2>2, <3>1 DEF CallsInv
    <3>5. next.step = "ttl" /\ next.read = remote[ops[c].key] /\ next.op = ops[c].op
          /\ next.key = ops[c].key /\ next.value = ops[c].value /\ next.alone = ops[c].alone
      BY <3>1 DEF OpRecords
    <3> HIDE DEF next
    <3>6. Others(c) /\ ops'[c] = next
      BY <3>3, <3>4 DEF Others, CallsInv
    <3>7. Advances(c, "ttl") /\ ops'[c].read = remote[ops[c].key]
      BY <3>5, <3>6 DEF Advances
    <3>8. UNCHANGED <<driver, local, tagKeys, remote, tagSet, cacheClosed, Histories>>
      BY <1>6, <2>2 DEF GetRemote
    <3>9. QED
      BY <1>1, <3>2, <3>7, <3>8, ReaderStep
  <2>3. QED
    BY <1>6, <2>1, <2>2 DEF GetRemote
<1>7. CASE Backfill(c)
  <2>1. UNCHANGED <<driver, tagKeys, remote, tagSet, cacheClosed>> /\ ops[c].step = "ttl"
    BY <1>7 DEF Backfill
  <2>2. CASE Missed(c) /\ UNCHANGED local
    BY <1>1, <1>3, <2>1, <2>2, ReaderStep
  <2>3. CASE /\ ReadEnds(c)
             /\ local' = IF remote[ops[c].key] = None THEN local
                         ELSE [local EXCEPT ![ops[c].key] = ops[c].read]
    BY <1>1, <1>2, <2>1, <2>3, ReaderStep
  <2>4. QED
    BY <1>7, <2>2, <2>3 DEF Backfill
<1>8. QED
  BY <1>4, <1>5, <1>6, <1>7

-----------------------------------------------------------------------------
(* Set and Delete: one key is written, and given up in the end.              *)

\* Another key stays as it is, in both layers and both indexes.
Untouched(k) ==
    /\ local'[k] = local[k] /\ remote'[k] = remote[k]
    /\ k \in tagKeys' <=> k \in tagKeys
    /\ k \in tagSet' <=> k \in tagSet

\* What an operation knows of its own key, as OwnInv says it.
Knows(c, k) ==
    LET mine == {ops[c].value, None}
    IN  /\ ops[c].step \in {"value", "index"} => local[k] \in mine /\ (cacheClosed \/ k \in tagKeys)
        /\ ops[c].step \in {"value", "remove"} => remote[k] \in legal[k] \cup {None}
        /\ ops[c].step = "index" => remote[k] \in mine
        /\ ops[c].step = "remove" => local[k] = None

LEMMA WriterMoves ==
    ASSUME CacheInv, NEW c \in Callers, NEW key \in Keys, ops[c].key = key,
           NEW step \in {"value", "index", "remove"}, Advances(c, step),
           step \in {"value", "index"} => ops[c].op \in {"load", "set"},
           step = "remove" => ops[c].op = "delete",
           UNCHANGED <<driver, cacheClosed, Histories>>, CacheTypeOK',
           \A k \in Keys : k # key => Untouched(k),
           ops[c].alone => Knows(c, key)'
    PROVE  CacheInv'
<1> USE DEF CacheInv
<1>1. UNCHANGED <<driver, cacheClosed, legal, tagged, gone>>
  BY DEF Histories
<1>2. \A d \in Callers : d # c => ops'[d] = ops[d]
  BY DEF Advances, Others
<1>3. Writes(c)' /\ ops'[c].key = key /\ ops'[c].op # "invalidate" /\ ops'[c].op # "rest"
      /\ ops[c].op # "invalidate" /\ ops[c].op # "rest"
  BY DEF Writes, Advances
<1>4. Written(key)'
  BY <1>3 DEF Written
<1>5. \A k \in Keys : k # key => (Written(k)' <=> Written(k))
  BY <1>2, <1>3 DEF Written, Invalidates, Writes
<1>6. CallsInv'
  <2>1. ops' \in [Callers -> OpRecords]
    BY DEF Advances, Others
  <2>2. CallInv(c)'
    <3>1. CallInv(c)
      BY DEF CallsInv
    <3>2. QED
      BY <3>1 DEF Advances, CallInv
  <2>3. ASSUME NEW d \in Callers, d # c PROVE CallInv(d)'
    BY <1>2, <2>3 DEF CallsInv, CallInv, Reads
  <2>4. QED
    BY <1>1, <2>1, <2>2, <2>3 DEF CallsInv
<1>7. AloneInv'
  BY AloneKept DEF Advances
<1>8. OwnInv'
  <2>1. ASSUME NEW d \in Callers, ops'[d].op # "rest", ops'[d].alone PROVE d = c
    BY <1>2, <1>3, <2>1, Company
  <2>2. ops'[c].alone => Knows(c, key)'
    BY DEF Advances
  <2>3. QED
    BY <1>3, <2>1, <2>2 DEF OwnInv, Knows, Invalidates
<1>9. HeldInv'
  BY <1>1, <1>4, <1>5 DEF HeldInv, Untouched
<1>10. FillInv'
  <2> SUFFICES ASSUME NEW d \in Callers, NEW k \in Keys, ops'[d].step = "ttl", ops'[d].key = k, ~Written(k)'
               PROVE  ops'[d].read \in legal'[k]
    BY DEF FillInv
  <2>1. d # c /\ k # key
    BY <1>4 DEF Advances
  <2>2. QED
    BY <1>1, <1>2, <1>5, <2>1 DEF FillInv
<1>11. IndexInv'
  <2> SUFFICES ASSUME NEW k \in Keys, Sure(k)
               PROVE  \/ \E d \in Callers : Writes(d)' /\ (ops'[d].key = k \/ Invalidates(d)')
                      \/ /\ remote'[k] # None => k \in tagSet'
                         /\ ~cacheClosed' /\ {local'[k], remote'[k]} # {None} => k \in tagKeys'
    BY <1>1 DEF IndexInv, Sure
  <2>1. CASE k = key
    BY <1>3, <2>1
  <2>2. CASE k # key /\ \E d \in Callers : Writes(d) /\ (ops[d].key = k \/ Invalidates(d))
    <3>1. PICK d \in Callers : Writes(d) /\ (ops[d].key = k \/ Invalidates(d))
      BY <2>2
    <3>2. d # c
      BY <1>3, <2>2, <3>1 DEF Invalidates
    <3>3. QED
      BY <1>2, <3>1, <3>2 DEF Invalidates, Writes
  <2>3. CASE k # key /\ /\ remote[k] # None => k \in tagSet
                        /\ ~cacheClosed /\ {local[k], remote[k]} # {None} => k \in tagKeys
    BY <1>1, <2>3 DEF Untouched
  <2>4. QED
    BY <2>1, <2>2, <2>3 DEF IndexInv
<1>12. QED
  BY <1>6, <1>7, <1>8, <1>9, <1>10, <1>11

\* What Set and Delete promise when they end, of their key.
LEMMA WriterEnds ==
    ASSUME CacheInv, NEW c \in Callers, NEW key \in Keys, ops[c].key = key, Writes(c), Rests(c),
           UNCHANGED <<driver, cacheClosed>>, CacheTypeOK',
           legal' \in [Keys -> SUBSET Values], tagged' \in [Keys -> {None, "known", "sure"}],
           \A k \in Keys : k # key => Untouched(k) /\ legal'[k] = legal[k] /\ tagged'[k] = tagged[k],
           ~ops[c].alone => legal'[key] = Values,
           ops[c].alone => {local'[key], remote'[key]} \subseteq legal'[key] \cup {None},
           tagged'[key] = "sure" => (cacheClosed \/ key \in tagKeys') /\ key \in tagSet'
    PROVE  CacheInv'
<1> USE DEF CacheInv
<1>1. \A d \in Callers : d # c => ops'[d] = ops[d]
  BY DEF Rests, Others
<1>2. ~Writes(c)' /\ ops[c].op # "rest" /\ ops[c].op # "invalidate"
  <2>1. ~Writes(c)'
    BY RestingFacts DEF Writes, Rests, None
  <2>2. ops[c].op # "rest"
    BY AtWork
  <2>3. ops[c].op # "invalidate"
    BY CacheAssumption DEF CallsInv, CallInv
  <2>4. QED
    BY <2>1, <2>2, <2>3
<1>3. \A k \in Keys : k # key => (Written(k)' <=> Written(k))
  BY <1>1, <1>2 DEF Written, Invalidates, Writes
<1>4. CallsInv'
  <2>1. ops' \in [Callers -> OpRecords]
    BY DEF Rests, Others
  <2>2. CallInv(c)'
    BY RestingFacts DEF Rests, CallInv, None
  <2>3. ASSUME NEW d \in Callers, d # c PROVE CallInv(d)'
    BY <1>1, <2>3 DEF CallsInv, CallInv, Reads
  <2>4. QED
    BY <2>1, <2>2, <2>3 DEF CallsInv
<1>5. AloneInv' /\ OwnInv'
  BY <1>2, AloneKept, OwnKept
<1>6. HeldInv'
  <2> SUFFICES ASSUME NEW k \in Keys, ~Written(k)'
               PROVE  {local'[k], remote'[k]} \subseteq legal'[k] \cup {None}
    BY DEF HeldInv
  <2>1. CASE k = key
    <3>1. CASE ops[c].alone
      BY <2>1, <3>1
    <3>2. CASE ~ops[c].alone
      BY <2>1, <3>2 DEF CacheTypeOK
    <3>3. QED
      BY <3>1, <3>2
  <2>2. CASE k # key
    BY <1>3, <2>2 DEF HeldInv, Untouched
  <2>3. QED
    BY <2>1, <2>2
<1>7. FillInv'
  <2> SUFFICES ASSUME NEW d \in Callers, NEW k \in Keys, ops'[d].step = "ttl", ops'[d].key = k, ~Written(k)'
               PROVE  ops'[d].read \in legal'[k]
    BY DEF FillInv
  <2>1. d # c /\ ops'[d] = ops[d]
    BY <1>1, RestingFacts DEF Rests, None
  <2>2. ops[d].op # "rest" /\ ops[d].read \in Values
    BY <2>1 DEF CallsInv, CallInv, Reads
  <2>3. CASE k = key
    BY <1>2, <2>1, <2>2, <2>3, Company
  <2>4. CASE k # key
    BY <1>3, <2>1, <2>4 DEF FillInv
  <2>5. QED
    BY <2>3, <2>4
<1>8. IndexInv'
  <2> SUFFICES ASSUME NEW k \in Keys, tagged'[k] = "sure"
               PROVE  \/ \E d \in Callers : Writes(d)' /\ (ops'[d].key = k \/ Invalidates(d)')
                      \/ /\ remote'[k] # None => k \in tagSet'
                         /\ ~cacheClosed' /\ {local'[k], remote'[k]} # {None} => k \in tagKeys'
    BY DEF IndexInv, Sure
  <2>1. CASE k = key
    BY <2>1
  <2>2. CASE k # key /\ \E d \in Callers : Writes(d) /\ (ops[d].key = k \/ Invalidates(d))
    <3>1. PICK d \in Callers : Writes(d) /\ (ops[d].key = k \/ Invalidates(d))
      BY <2>2
    <3>2. d # c
      BY <1>2, <2>2, <3>1 DEF Invalidates
    <3>3. QED
      BY <1>1, <3>1, <3>2 DEF Invalidates, Writes
  <2>3. CASE k # key /\ /\ remote[k] # None => k \in tagSet
                        /\ ~cacheClosed /\ {local[k], remote[k]} # {None} => k \in tagKeys
    BY <2>3 DEF Untouched
  <2>4. QED
    BY <2>1, <2>2, <2>3 DEF IndexInv, Sure
<1>9. QED
  BY <1>4, <1>5, <1>6, <1>7, <1>8

\* A Set or a Delete ends with its promise.
LEMMA SetEndsFacts ==
    ASSUME CallsInv, NEW c \in Callers, NEW failed \in BOOLEAN, NEW key \in Keys, ops[c].key = key,
           ops[c].value \in Values, SetEnds(c, failed)
    PROVE  /\ Rests(c) /\ legal' \in [Keys -> SUBSET Values] /\ tagged' \in [Keys -> {None, "known", "sure"}]
           /\ \A k \in Keys : k # key => legal'[k] = legal[k] /\ tagged'[k] = tagged[k]
           /\ ~ops[c].alone => legal'[key] = Values
           /\ ops[c].alone /\ failed => legal'[key] = legal[key] \cup {ops[c].value}
           /\ ops[c].alone /\ ~failed => legal'[key] = {ops[c].value}
           /\ tagged'[key] = "sure" => ~failed /\ ops[c].alone
           /\ gone' \subseteq gone
<1>1. Promise(c, {key}, failed, {ops[c].value})
  BY DEF SetEnds
<1>2. tagged' = [tagged EXCEPT ![key] = IF failed \/ ~ops[c].alone THEN None ELSE "sure"]
      /\ gone' = gone \ {key}
  BY DEF SetEnds
<1>3. /\ Rests(c) /\ legal' \in [Keys -> SUBSET Values]
      /\ \A k \in Keys : k # key => legal'[k] = legal[k]
      /\ ~ops[c].alone => legal'[key] = Values
      /\ ops[c].alone /\ failed => legal'[key] = legal[key] \cup {ops[c].value}
      /\ ops[c].alone /\ ~failed => legal'[key] = {ops[c].value}
  <2>1. Rests(c)
    BY <1>1, RestsFacts DEF Promise
  <2>2. legal' = [k \in Keys |-> IF k \notin {key} THEN legal[k]
                                ELSE IF ~ops[c].alone THEN Values
                                ELSE IF failed THEN legal[k] \cup {ops[c].value}
                                ELSE {ops[c].value}]
    BY <1>1 DEF Promise
  <2>3. QED
    BY <2>1, <2>2 DEF CallsInv
<1>4. /\ tagged' \in [Keys -> {None, "known", "sure"}]
      /\ \A k \in Keys : k # key => tagged'[k] = tagged[k]
      /\ tagged'[key] = "sure" => ~failed /\ ops[c].alone
  BY <1>2 DEF CallsInv, None
<1>5. QED
  BY <1>2, <1>3, <1>4

LEMMA DeleteEndsFacts ==
    ASSUME CallsInv, NEW c \in Callers, NEW failed \in BOOLEAN, NEW key \in Keys, ops[c].key = key,
           DeleteEnds(c, failed)
    PROVE  /\ Rests(c) /\ legal' \in [Keys -> SUBSET Values] /\ tagged' \in [Keys -> {None, "known", "sure"}]
           /\ \A k \in Keys : k # key => legal'[k] = legal[k] /\ tagged'[k] = tagged[k]
           /\ ~ops[c].alone => legal'[key] = Values
           /\ ops[c].alone /\ failed => legal'[key] = legal[key]
           /\ ops[c].alone /\ ~failed => legal'[key] = {}
           /\ tagged'[key] # "sure" /\ gone' = gone
<1>1. Promise(c, {key}, failed, {})
  BY DEF DeleteEnds
<1>2. tagged' = [tagged EXCEPT ![key] = None] /\ gone' = gone
  BY DEF DeleteEnds
<1>3. /\ Rests(c) /\ legal' \in [Keys -> SUBSET Values]
      /\ \A k \in Keys : k # key => legal'[k] = legal[k]
      /\ ~ops[c].alone => legal'[key] = Values
      /\ ops[c].alone /\ failed => legal'[key] = legal[key] \cup {}
      /\ ops[c].alone /\ ~failed => legal'[key] = {}
  <2>1. Rests(c)
    BY <1>1, RestsFacts DEF Promise
  <2>2. legal' = [k \in Keys |-> IF k \notin {key} THEN legal[k]
                                ELSE IF ~ops[c].alone THEN Values
                                ELSE IF failed THEN legal[k] \cup {}
                                ELSE {}]
    BY <1>1 DEF Promise
  <2>3. QED
    BY <2>1, <2>2 DEF CallsInv
<1>4. /\ tagged' \in [Keys -> {None, "known", "sure"}]
      /\ \A k \in Keys : k # key => tagged'[k] = tagged[k]
      /\ tagged'[key] # "sure"
  BY <1>2 DEF CallsInv, None
<1>5. QED
  BY <1>2, <1>3, <1>4

LEMMA SetLocalStep ==
    ASSUME CacheInv, NEW c \in Callers, SetLocal(c)
    PROVE  CacheInv'
<1> USE DEF CacheInv
<1>1. CallInv(c)
  BY DEF CallsInv
<1>2. /\ ops[c].op \in {"set", "load"} /\ ~Writes(c) /\ ops[c].value \in Values
      /\ ops[c].op = "set" \/ ops[c].step = "set"
      /\ UNCHANGED <<driver, remote, tagSet, cacheClosed>>
  BY <1>1 DEF SetLocal, SetBegins, At, CallInv, Writes
<1>3. PICK key \in Keys : ops[c].key = key
  BY <1>1, <1>2 DEF CallInv
<1>4. CASE ReadEnds(c) /\ UNCHANGED <<local, tagKeys>> /\ ops[c].op = "load"
  BY <1>2, <1>4, RestsFacts, ReaderStep DEF ReadEnds
<1>5. CASE /\ local' = [local EXCEPT ![key] = ops[c].value] /\ tagKeys' = tagKeys \cup {key}
           /\ Goes(c, "value") /\ UNCHANGED Histories
  <2>1. Advances(c, "value")
    BY <1>5, GoesFacts DEF Steps
  <2>2. CacheTypeOK'
    BY <1>2, <1>3, <1>5 DEF CacheTypeOK, Histories
  <2>3. \A k \in Keys : k # key => Untouched(k)
    BY <1>2, <1>5 DEF Untouched, CacheTypeOK
  <2>4. local'[key] = ops[c].value /\ key \in tagKeys' /\ remote'[key] = remote[key] /\ legal' = legal
    BY <1>2, <1>5 DEF CacheTypeOK, Histories
  <2>5. ops[c].alone => ~Written(key)
    <3> SUFFICES ASSUME ops[c].alone, NEW d \in Callers, Writes(d) PROVE FALSE
      BY DEF Written
    <3>1. ops[d].op # "rest" /\ d # c
      BY <1>2, AtWork
    <3>2. QED
      BY <1>2, <3>1, Company
  <2>6. ops[c].alone => remote[key] \in legal[key] \cup {None}
    BY <2>5 DEF HeldInv
  <2>7. ops[c].alone => Knows(c, key)'
    BY <2>1, <2>4, <2>6 DEF Knows, Advances
  <2>8. QED
    BY <1>2, <1>3, <1>5, <2>1, <2>2, <2>3, <2>7, WriterMoves
<1>6. QED
  BY <1>3, <1>4, <1>5 DEF SetLocal, AddTagIndexes

\* A command that fails takes the value out of the process again.
LEMMA SetFailsStep ==
    ASSUME CacheInv, NEW c \in Callers, ops[c].step \in {"value", "index"}, SetFails(c),
           NEW key \in Keys, ops[c].key = key, CacheTypeOK',
           UNCHANGED <<driver, cacheClosed>>,
           \A k \in Keys : k # key => remote'[k] = remote[k] /\ (k \in tagSet' <=> k \in tagSet),
           remote'[key] \in {remote[key], ops[c].value}
    PROVE  CacheInv'
<1> USE DEF CacheInv
<1>1. ops[c].value \in Values /\ Writes(c) /\ ops[c].op # "rest" /\ ops[c].op # "invalidate"
  BY AtWork DEF CallsInv, CallInv, Writes
<1>2. SetEnds(c, TRUE) /\ local' = [k \in Keys |-> IF k \in {key} THEN None ELSE local[k]]
      /\ tagKeys' = tagKeys \ {key}
  BY DEF SetFails, DeleteLocalKeys, RemoveKeyFromAllTags
<1>3. /\ Rests(c) /\ legal' \in [Keys -> SUBSET Values] /\ tagged' \in [Keys -> {None, "known", "sure"}]
      /\ \A k \in Keys : k # key => legal'[k] = legal[k] /\ tagged'[k] = tagged[k]
      /\ ~ops[c].alone => legal'[key] = Values
      /\ ops[c].alone => legal'[key] = legal[key] \cup {ops[c].value}
      /\ tagged'[key] # "sure"
  BY <1>1, <1>2, SetEndsFacts
<1>4. \A k \in Keys : k # key => Untouched(k)
  BY <1>2 DEF Untouched
<1>5. ASSUME ops[c].alone PROVE {local'[key], remote'[key]} \subseteq legal'[key] \cup {None}
  <2>1. local'[key] = None
    BY <1>2
  <2>2. remote[key] \in legal[key] \cup {None, ops[c].value}
    BY <1>1, <1>5 DEF OwnInv
  <2>3. QED
    BY <1>3, <1>5, <2>1, <2>2
<1>6. QED
  BY <1>1, <1>3, <1>4, <1>5, WriterEnds

LEMMA SetValueStep ==
    ASSUME CacheInv, NEW c \in Callers, SetValue(c)
    PROVE  CacheInv'
<1> USE DEF CacheInv
<1>1. /\ ops[c].step = "value" /\ ops[c].value \in Values /\ ops[c].op \in {"load", "set"}
      /\ UNCHANGED <<driver, tagSet, cacheClosed>>
  BY DEF SetValue, CallsInv, CallInv
<1>2. PICK key \in Keys : ops[c].key = key
  BY <1>1 DEF CallsInv, CallInv
<1>3. \/ /\ remote' = [remote EXCEPT ![key] = ops[c].value]
         /\ Goes(c, "index") /\ UNCHANGED <<local, tagKeys, Histories>>
      \/ /\ remote' = [remote EXCEPT ![key] = ops[c].value] \/ remote' = remote
         /\ SetFails(c)
  BY <1>2 DEF SetValue, Commands
<1>4. CASE /\ remote' = [remote EXCEPT ![key] = ops[c].value]
           /\ Goes(c, "index") /\ UNCHANGED <<local, tagKeys, Histories>>
  <2>1. Advances(c, "index")
    BY <1>4, GoesFacts DEF Steps
  <2>2. CacheTypeOK'
    BY <1>1, <1>4 DEF CacheTypeOK, Histories
  <2>3. \A k \in Keys : k # key => Untouched(k)
    BY <1>1, <1>4 DEF Untouched, CacheTypeOK
  <2>4. remote'[key] = ops[c].value
    BY <1>4 DEF CacheTypeOK
  <2>5. ops[c].alone => local[key] \in {ops[c].value, None} /\ (cacheClosed \/ key \in tagKeys)
    BY <1>1, <1>2 DEF OwnInv
  <2>6. ops[c].alone => Knows(c, key)'
    BY <1>1, <1>4, <2>1, <2>4, <2>5 DEF Knows, Advances
  <2>7. QED
    BY <1>1, <1>2, <1>4, <2>1, <2>2, <2>3, <2>6, WriterMoves
<1>5. CASE (remote' = [remote EXCEPT ![key] = ops[c].value] \/ remote' = remote) /\ SetFails(c)
  <2>1. CacheTypeOK'
    <3>1. local' \in [Keys -> Values \cup {None}] /\ tagKeys' \subseteq Keys
      BY <1>5 DEF SetFails, DeleteLocalKeys, RemoveKeyFromAllTags, CacheTypeOK
    <3>2. gone' \subseteq Keys
      BY <1>1, <1>2, <1>5, SetEndsFacts DEF SetFails, CacheTypeOK
    <3>3. remote' \in [Keys -> Values \cup {None}]
      BY <1>1, <1>5 DEF CacheTypeOK
    <3>4. QED
      BY <1>1, <3>1, <3>2, <3>3 DEF CacheTypeOK
  <2>2. /\ \A k \in Keys : k # key => remote'[k] = remote[k]
        /\ remote'[key] \in {remote[key], ops[c].value}
    BY <1>5 DEF CacheTypeOK
  <2>3. QED
    BY <1>1, <1>2, <1>5, <2>1, <2>2, SetFailsStep
<1>6. QED
  BY <1>3, <1>4, <1>5

LEMMA SetIndexStep ==
    ASSUME CacheInv, NEW c \in Callers, SetIndex(c)
    PROVE  CacheInv'
<1> USE DEF CacheInv
<1>1. /\ ops[c].step = "index" /\ ops[c].value \in Values /\ Writes(c)
      /\ UNCHANGED <<driver, remote, cacheClosed>>
  BY DEF SetIndex, CallsInv, CallInv, Writes
<1>2. PICK key \in Keys : ops[c].key = key
  BY <1>1 DEF CallsInv, CallInv
<1>3. \/ tagSet' = tagSet \cup {key} /\ SetEnds(c, FALSE) /\ UNCHANGED <<local, tagKeys>>
      \/ (tagSet' = tagSet \cup {key} \/ tagSet' = tagSet) /\ SetFails(c)
  BY <1>2 DEF SetIndex, Commands
<1>4. CASE tagSet' = tagSet \cup {key} /\ SetEnds(c, FALSE) /\ UNCHANGED <<local, tagKeys>>
  <2>1. /\ Rests(c) /\ legal' \in [Keys -> SUBSET Values] /\ tagged' \in [Keys -> {None, "known", "sure"}]
        /\ \A k \in Keys : k # key => legal'[k] = legal[k] /\ tagged'[k] = tagged[k]
        /\ ~ops[c].alone => legal'[key] = Values
        /\ ops[c].alone => legal'[key] = {ops[c].value}
        /\ tagged'[key] = "sure" => ops[c].alone
        /\ gone' \subseteq gone
    BY <1>1, <1>2, <1>4, SetEndsFacts
  <2>2. CacheTypeOK'
    BY <1>1, <1>4, <2>1 DEF CacheTypeOK
  <2>3. \A k \in Keys : k # key => Untouched(k)
    BY <1>1, <1>4 DEF Untouched
  <2>4. ops[c].alone => /\ local[key] \in {ops[c].value, None} /\ remote[key] \in {ops[c].value, None}
                        /\ cacheClosed \/ key \in tagKeys
    BY <1>1, <1>2, AtWork DEF OwnInv
  <2>5. ops[c].alone => {local'[key], remote'[key]} \subseteq legal'[key] \cup {None}
    BY <1>1, <1>4, <2>1, <2>4
  <2>6. tagged'[key] = "sure" => (cacheClosed \/ key \in tagKeys') /\ key \in tagSet'
    BY <1>4, <2>1, <2>4
  <2>7. QED
    BY <1>1, <1>2, <2>1, <2>2, <2>3, <2>5, <2>6, WriterEnds
<1>5. CASE (tagSet' = tagSet \cup {key} \/ tagSet' = tagSet) /\ SetFails(c)
  <2>1. CacheTypeOK'
    <3>1. local' \in [Keys -> Values \cup {None}] /\ tagKeys' \subseteq Keys
      BY <1>5 DEF SetFails, DeleteLocalKeys, RemoveKeyFromAllTags, CacheTypeOK
    <3>2. gone' \subseteq Keys
      BY <1>1, <1>2, <1>5, SetEndsFacts DEF SetFails, CacheTypeOK
    <3>3. tagSet' \subseteq Keys
      BY <1>5 DEF CacheTypeOK
    <3>4. QED
      BY <1>1, <3>1, <3>2, <3>3 DEF CacheTypeOK
  <2>2. QED
    BY <1>1, <1>2, <1>5, <2>1, SetFailsStep
<1>6. QED
  BY <1>3, <1>4, <1>5

LEMMA DeleteLocalStep ==
    ASSUME CacheInv, NEW c \in Callers, DeleteLocal(c)
    PROVE  CacheInv'
<1> USE DEF CacheInv
<1>1. /\ ops[c].op = "delete" /\ ops[c].step = "begin" /\ UNCHANGED <<driver, remote, tagSet, cacheClosed, Histories>>
      /\ Goes(c, "remove")
  BY DEF DeleteLocal, At
<1>2. PICK key \in Keys : ops[c].key = key
  BY <1>1 DEF CallsInv, CallInv
<1>3. local' = [k \in Keys |-> IF k \in {key} THEN None ELSE local[k]] /\ tagKeys' = tagKeys \ {key}
  BY <1>2 DEF DeleteLocal, DeleteLocalKeys, RemoveKeyFromAllTags
<1>4. Advances(c, "remove")
  BY <1>1, GoesFacts DEF Steps
<1>5. CacheTypeOK'
  BY <1>1, <1>3 DEF CacheTypeOK, Histories
<1>6. \A k \in Keys : k # key => Untouched(k)
  BY <1>1, <1>3 DEF Untouched
<1>7. ops[c].alone => remote[key] \in legal[key] \cup {None}
  <2> SUFFICES ASSUME ops[c].alone PROVE ~Written(key)
    BY DEF HeldInv
  <2> SUFFICES ASSUME NEW d \in Callers, Writes(d) PROVE FALSE
    BY DEF Written
  <2>1. ops[d].op # "rest" /\ d # c
    BY <1>1, AtWork DEF Writes
  <2>2. QED
    BY <1>1, <2>1, Company
<1>8. ops[c].alone => Knows(c, key)'
  BY <1>1, <1>3, <1>4, <1>7 DEF Knows, Advances, Histories
<1>9. QED
  BY <1>1, <1>2, <1>4, <1>5, <1>6, <1>8, WriterMoves

LEMMA DeleteRemoteStep ==
    ASSUME CacheInv, NEW c \in Callers, DeleteRemote(c)
    PROVE  CacheInv'
<1> USE DEF CacheInv
<1>1. /\ ops[c].op = "delete" /\ ops[c].step = "remove" /\ Writes(c)
      /\ UNCHANGED <<driver, local, tagKeys, tagSet, cacheClosed>>
  BY DEF DeleteRemote, At, Writes
<1>2. PICK key \in Keys : ops[c].key = key
  BY <1>1 DEF CallsInv, CallInv
<1>3. PICK failed \in BOOLEAN :
        /\ DeleteEnds(c, failed)
        /\ \/ remote' = [remote EXCEPT ![key] = None]
           \/ failed /\ remote' = remote
  BY <1>2 DEF DeleteRemote, Commands
<1>4. /\ Rests(c) /\ legal' \in [Keys -> SUBSET Values] /\ tagged' \in [Keys -> {None, "known", "sure"}]
      /\ \A k \in Keys : k # key => legal'[k] = legal[k] /\ tagged'[k] = tagged[k]
      /\ ~ops[c].alone => legal'[key] = Values
      /\ ops[c].alone /\ failed => legal'[key] = legal[key]
      /\ tagged'[key] # "sure" /\ gone' = gone
  BY <1>2, <1>3, DeleteEndsFacts
<1>5. CacheTypeOK'
  BY <1>1, <1>3, <1>4 DEF CacheTypeOK
<1>6. \A k \in Keys : k # key => Untouched(k)
  BY <1>1, <1>3 DEF Untouched, CacheTypeOK
<1>7. ASSUME ops[c].alone PROVE {local'[key], remote'[key]} \subseteq legal'[key] \cup {None}
  <2>1. local[key] = None /\ remote[key] \in legal[key] \cup {None}
    BY <1>1, <1>2, <1>7 DEF OwnInv
  <2>2. remote'[key] = None \/ (failed /\ remote' = remote)
    BY <1>3 DEF CacheTypeOK
  <2>3. QED
    BY <1>1, <1>4, <1>7, <2>1, <2>2
<1>8. QED
  BY <1>1, <1>2, <1>4, <1>5, <1>6, <1>7, WriterEnds

-----------------------------------------------------------------------------
(* InvalidateTags: from its first command on, whoever works beside it gives  *)
(* every key up; alone, it ends with the keys of the tag out of both layers. *)

Foresees(c) ==
    /\ ~ops[c].failed => \A j \in Keys : Sure(j) =>
        /\ remote[j] # None => j \in ops[c].members /\ ops[c].step # "forget"
        /\ local[j] # None => j \in ops[c].keys
    /\ cacheClosed => \A j \in Keys : local[j] = None

LEMMA InvalidationMoves ==
    ASSUME CacheInv, NEW c \in Callers, ops[c].op = "invalidate", Others(c),
           ops'[c].step \in {"tag", "values", "forget"},
           ops'[c].op = ops[c].op /\ ops'[c].key = ops[c].key /\ ops'[c].alone = ops[c].alone,
           UNCHANGED <<driver, local, tagKeys, cacheClosed, Histories>>, CacheTypeOK',
           \A k \in Keys : remote'[k] \in {remote[k], None},
           ops[c].alone => Foresees(c)'
    PROVE  CacheInv'
<1> USE DEF CacheInv
<1>1. UNCHANGED <<driver, local, tagKeys, cacheClosed, legal, tagged, gone>>
  BY DEF Histories
<1>2. \A d \in Callers : d # c => ops'[d] = ops[d]
  BY DEF Others
<1>3. /\ Invalidates(c)' /\ Writes(c)' /\ ops'[c].op # "rest" /\ ops[c].op # "rest"
      /\ ops[c].alone \in BOOLEAN /\ ops'[c].key = None
  BY AtWork DEF Writes, Invalidates, CallsInv, CallInv
<1>4. ASSUME ~ops[c].alone PROVE HeldInv' /\ FillInv' /\ OwnInv'
  <2>1. \A k : Written(k)'
    BY <1>3, <1>4 DEF Written
  <2>2. HeldInv' /\ FillInv'
    BY <2>1 DEF HeldInv, FillInv
  <2>3. OwnInv'
    <3>1. ASSUME NEW d \in Callers, ops'[d].op # "rest", ops'[d].alone PROVE FALSE
      BY <1>2, <1>3, <1>4, <3>1, Company
    <3>2. QED
      BY <3>1 DEF OwnInv
  <2>4. QED
    BY <2>2, <2>3
<1>5. ASSUME ops[c].alone PROVE HeldInv' /\ FillInv' /\ OwnInv'
  <2>1. \A d \in Callers : d # c => ops[d] = Resting /\ ops'[d] = Resting
    BY <1>2, <1>3, <1>5 DEF AloneInv, CallsInv, CallInv
  <2>2. \A k \in Keys : ~Written(k)
    BY <1>3, <1>5, <2>1, AtWork, RestingFacts, CacheAssumption DEF Written, CallsInv, CallInv
  <2>3. HeldInv'
    BY <1>1, <2>2 DEF HeldInv
  <2>4. FillInv'
    <3>1. ASSUME NEW d \in Callers PROVE ops'[d].step # "ttl"
      BY <2>1, RestingFacts DEF None
    <3>2. QED
      BY <3>1 DEF FillInv
  <2>5. OwnInv'
    BY <1>3, <1>5, <2>1, RestingFacts DEF OwnInv, Foresees, Invalidates
  <2>6. QED
    BY <2>3, <2>4, <2>5
<1>6. CallsInv'
  <2>1. ops' \in [Callers -> OpRecords]
    BY DEF Others
  <2>2. CallInv(c)'
    BY <1>3 DEF CallInv
  <2>3. ASSUME NEW d \in Callers, d # c PROVE CallInv(d)'
    BY <1>2, <2>3 DEF CallsInv, CallInv, Reads
  <2>4. QED
    BY <1>1, <2>1, <2>2, <2>3 DEF CallsInv
<1>7. AloneInv'
  BY AloneKept
<1>8. IndexInv'
  BY <1>3 DEF IndexInv
<1>9. HeldInv' /\ FillInv' /\ OwnInv'
  BY <1>3, <1>4, <1>5
<1>10. QED
  BY <1>6, <1>7, <1>8, <1>9

LEMMA ReadMembersStep ==
    ASSUME CacheInv, NEW c \in Callers, ReadMembers(c)
    PROVE  CacheInv'
<1> USE DEF CacheInv
<1>1. /\ ops[c].op = "invalidate" /\ ops[c].step = "begin"
      /\ UNCHANGED <<driver, local, tagKeys, remote, tagSet, cacheClosed, Histories>>
      /\ ops[c] \in OpRecords /\ tagKeys \subseteq Keys /\ tagSet \subseteq Keys
  BY DEF ReadMembers, At, CallsInv, CacheTypeOK
<1>2. CacheTypeOK'
  BY <1>1 DEF CacheTypeOK, Histories
<1>3. \A k \in Keys : remote'[k] \in {remote[k], None}
  BY <1>1
<1>4. ops[c].alone => \A j \in Keys : Sure(j) /\ ~cacheClosed =>
        /\ remote[j] # None => j \in tagSet
        /\ local[j] # None => j \in tagKeys
  <2> SUFFICES ASSUME ops[c].alone, NEW d \in Callers, Writes(d) PROVE FALSE
    BY DEF IndexInv
  <2>1. ops[d].op # "rest" /\ d # c
    BY <1>1, AtWork DEF Writes
  <2>2. QED
    BY <1>1, <2>1, Company
<1>5. ops[c].alone => \A j \in Keys : Sure(j) /\ remote[j] # None => j \in tagSet
  <2> SUFFICES ASSUME ops[c].alone, NEW d \in Callers, Writes(d) PROVE FALSE
    BY DEF IndexInv
  <2>1. ops[d].op # "rest" /\ d # c
    BY <1>1, AtWork DEF Writes
  <2>2. QED
    BY <1>1, <2>1, Company
<1>6. ops[c].alone /\ cacheClosed => \A j \in Keys : local[j] = None
  BY <1>1 DEF OwnInv
<1>7. CASE ops' = [ops EXCEPT ![c].step = "tag", ![c].keys = tagKeys, ![c].members = tagSet]
  <2> DEFINE next == [ops[c] EXCEPT !.step = "tag", !.keys = tagKeys, !.members = tagSet]
  <2>1. next \in OpRecords /\ ops' = [ops EXCEPT ![c] = next]
    BY <1>1, <1>7 DEF OpRecords, Steps, CallsInv
  <2>2. /\ next.step = "tag" /\ next.keys = tagKeys /\ next.members = tagSet
        /\ next.op = ops[c].op /\ next.key = ops[c].key /\ next.alone = ops[c].alone
    BY <1>1 DEF OpRecords
  <2> HIDE DEF next
  <2>3. Others(c) /\ ops'[c] = next
    BY <2>1 DEF Others, CallsInv
  <2>4. ops[c].alone => Foresees(c)'
    BY <1>1, <1>4, <1>5, <1>6, <2>2, <2>3 DEF Foresees, Sure, Histories
  <2>5. QED
    BY <1>1, <1>2, <1>3, <2>2, <2>3, <2>4, InvalidationMoves
<1>8. CASE ops' = [ops EXCEPT ![c].step = "forget", ![c].keys = tagKeys, ![c].failed = TRUE]
  <2> DEFINE next == [ops[c] EXCEPT !.step = "forget", !.keys = tagKeys, !.failed = TRUE]
  <2>1. next \in OpRecords /\ ops' = [ops EXCEPT ![c] = next]
    BY <1>1, <1>8 DEF OpRecords, Steps, CallsInv
  <2>2. /\ next.step = "forget" /\ next.failed
        /\ next.op = ops[c].op /\ next.key = ops[c].key /\ next.alone = ops[c].alone
    BY <1>1 DEF OpRecords
  <2> HIDE DEF next
  <2>3. Others(c) /\ ops'[c] = next
    BY <2>1 DEF Others, CallsInv
  <2>4. ops[c].alone => Foresees(c)'
    BY <1>1, <1>6, <2>2, <2>3 DEF Foresees
  <2>5. QED
    BY <1>1, <1>2, <1>3, <2>2, <2>3, <2>4, InvalidationMoves
<1>9. QED
  BY <1>7, <1>8 DEF ReadMembers

\* The step after a command, whether it failed or not.
LEMMA NextCommand ==
    ASSUME CallsInv, NEW c \in Callers, NEW step \in {"values", "forget"},
           Goes(c, step) \/ ops' = [ops EXCEPT ![c].step = step, ![c].failed = TRUE]
    PROVE  /\ Others(c) /\ ops'[c].step = step
           /\ ops'[c].op = ops[c].op /\ ops'[c].key = ops[c].key /\ ops'[c].alone = ops[c].alone
           /\ ops'[c].keys = ops[c].keys /\ ops'[c].members = ops[c].members
           /\ ops'[c].failed = ops[c].failed \/ ops'[c].failed
           /\ ops'[c].failed \/ Goes(c, step)
<1>1. ops[c] \in OpRecords
  BY DEF CallsInv
<1>2. CASE Goes(c, step)
  BY <1>2, GoesFacts DEF Advances, Keeps, Steps
<1>3. CASE ops' = [ops EXCEPT ![c].step = step, ![c].failed = TRUE]
  <2> DEFINE next == [ops[c] EXCEPT !.step = step, !.failed = TRUE]
  <2>1. next \in OpRecords /\ ops' = [ops EXCEPT ![c] = next]
    BY <1>1, <1>3 DEF OpRecords, Steps, CallsInv
  <2>2. /\ next.step = step /\ next.failed /\ next.keys = ops[c].keys /\ next.members = ops[c].members
        /\ next.op = ops[c].op /\ next.key = ops[c].key /\ next.alone = ops[c].alone
    BY <1>1 DEF OpRecords
  <2> HIDE DEF next
  <2>3. Others(c) /\ ops'[c] = next
    BY <2>1 DEF Others, CallsInv
  <2>4. QED
    BY <2>2, <2>3
<1>4. QED
  BY <1>2, <1>3

LEMMA Foreseen ==
    ASSUME CallsInv, OwnInv, NEW c \in Callers, ops[c].op = "invalidate", ops[c].alone,
           ops[c].step \in {"tag", "values", "forget"}
    PROVE  Foresees(c)
BY DEF OwnInv, Foresees, Invalidates, Writes

LEMMA DeleteTagStep ==
    ASSUME CacheInv, NEW c \in Callers, DeleteTag(c)
    PROVE  CacheInv'
<1> USE DEF CacheInv
<1>1. /\ ops[c].op = "invalidate" /\ ops[c].step = "tag"
      /\ UNCHANGED <<driver, local, tagKeys, remote, cacheClosed, Histories>>
  BY DEF DeleteTag, At
<1>2. PICK next \in {"values", "forget"} :
        /\ next = "forget" => ops[c].members = {}
        /\ Goes(c, next) \/ ops' = [ops EXCEPT ![c].step = next, ![c].failed = TRUE]
        /\ tagSet' = {} \/ tagSet' = tagSet
  <2> DEFINE next == IF ops[c].members = {} THEN "forget" ELSE "values"
  <2>1. next \in {"values", "forget"} /\ (next = "forget" => ops[c].members = {})
    OBVIOUS
  <2>2. /\ Goes(c, next) \/ ops' = [ops EXCEPT ![c].step = next, ![c].failed = TRUE]
        /\ tagSet' = {} \/ tagSet' = tagSet
    BY DEF DeleteTag, Commands
  <2>3. QED
    BY <2>1, <2>2
<1>3. /\ Others(c) /\ ops'[c].step = next
      /\ ops'[c].op = ops[c].op /\ ops'[c].key = ops[c].key /\ ops'[c].alone = ops[c].alone
      /\ ops'[c].keys = ops[c].keys /\ ops'[c].members = ops[c].members
      /\ ops'[c].failed = ops[c].failed \/ ops'[c].failed
  BY <1>2, NextCommand
<1>4. CacheTypeOK'
  BY <1>1, <1>2 DEF CacheTypeOK, Histories
<1>5. ops[c].alone => Foresees(c)'
  <2> SUFFICES ASSUME ops[c].alone PROVE Foresees(c)'
    OBVIOUS
  <2>1. Foresees(c)
    BY <1>1, Foreseen
  <2>2. QED
    BY <1>1, <1>2, <1>3, <2>1 DEF Foresees, Sure, Histories
<1>6. QED
  BY <1>1, <1>2, <1>3, <1>4, <1>5, InvalidationMoves

LEMMA DeleteValuesStep ==
    ASSUME CacheInv, NEW c \in Callers, DeleteValues(c)
    PROVE  CacheInv'
<1> USE DEF CacheInv
<1>1. /\ ops[c].op = "invalidate" /\ ops[c].step = "values"
      /\ UNCHANGED <<driver, local, tagKeys, tagSet, cacheClosed, Histories>>
  BY DEF DeleteValues, At
<1>2. /\ Goes(c, "forget") \/ ops' = [ops EXCEPT ![c].step = "forget", ![c].failed = TRUE]
      /\ \/ remote' = [k \in Keys |-> IF k \in ops[c].members THEN None ELSE remote[k]]
         \/ ops' = [ops EXCEPT ![c].step = "forget", ![c].failed = TRUE] /\ remote' = remote
  BY DEF DeleteValues, Commands
<1>3. /\ Others(c) /\ ops'[c].step = "forget"
      /\ ops'[c].op = ops[c].op /\ ops'[c].key = ops[c].key /\ ops'[c].alone = ops[c].alone
      /\ ops'[c].keys = ops[c].keys /\ ops'[c].members = ops[c].members
      /\ ops'[c].failed = ops[c].failed \/ ops'[c].failed
  BY <1>2, NextCommand
<1>4. /\ \A k \in Keys : remote'[k] \in {remote[k], None}
      /\ remote' \in [Keys -> Values \cup {None}]
      /\ \/ \A k \in Keys : k \in ops[c].members => remote'[k] = None
         \/ ops'[c].failed
  <2>1. CASE remote' = [k \in Keys |-> IF k \in ops[c].members THEN None ELSE remote[k]]
    BY <2>1 DEF CacheTypeOK
  <2>2. CASE ops' = [ops EXCEPT ![c].step = "forget", ![c].failed = TRUE] /\ remote' = remote
    <3>1. ops[c] \in OpRecords
      BY DEF CallsInv
    <3>2. ops'[c].failed
      BY <2>2, <3>1 DEF CallsInv, OpRecords
    <3>3. QED
      BY <2>2, <3>2 DEF CacheTypeOK
  <2>3. QED
    BY <1>2, <2>1, <2>2
<1>5. CacheTypeOK'
  BY <1>1, <1>4 DEF CacheTypeOK, Histories
<1>6. ops[c].alone => Foresees(c)'
  <2> SUFFICES ASSUME ops[c].alone PROVE Foresees(c)'
    OBVIOUS
  <2>1. Foresees(c)
    BY <1>1, Foreseen
  <2>2. ASSUME ~ops'[c].failed, NEW j \in Keys, Sure(j)
        PROVE  remote'[j] = None /\ (local[j] # None => j \in ops[c].keys)
    <3>1. ~ops[c].failed
      BY <1>3, <2>2
    <3>2. /\ remote[j] # None => j \in ops[c].members
          /\ local[j] # None => j \in ops[c].keys
      BY <2>1, <2>2, <3>1 DEF Foresees
    <3>3. QED
      BY <1>4, <2>2, <3>2
  <2>3. cacheClosed => \A j \in Keys : local[j] = None
    BY <2>1 DEF Foresees
  <2>4. QED
    BY <1>1, <1>3, <2>2, <2>3 DEF Foresees, Sure, Histories
<1>7. QED
  BY <1>1, <1>3, <1>4, <1>5, <1>6, InvalidationMoves

LEMMA ForgetStep ==
    ASSUME CacheInv, NEW c \in Callers, Forget(c)
    PROVE  CacheInv'
<1> USE DEF CacheInv
<1>1. /\ ops[c].op = "invalidate" /\ ops[c].step = "forget" /\ ops[c].op # "rest" /\ Invalidates(c)
      /\ UNCHANGED <<driver, remote, tagSet, cacheClosed>> /\ tagKeys' = {}
      /\ local' = [k \in Keys |-> IF k \in ops[c].keys \cup ops[c].members THEN None ELSE local[k]]
      /\ InvalidationEnds(c, ops[c].failed)
  BY DEF Forget, At, Invalidates, Writes, DeleteLocalKeys, RemoveTagIndexes
<1> DEFINE answers == ~ops[c].failed /\ ops[c].alone
           certain == {k \in Keys : tagged[k] \in {"sure"}}
<1>2. Rests(c)
  BY <1>1, RestsFacts DEF InvalidationEnds, Promise
<1>3. legal' = [k \in Keys |->
         IF k \notin (IF answers THEN certain ELSE Keys) THEN legal[k]
         ELSE IF ~ops[c].alone THEN Values
         ELSE IF ops[c].failed THEN legal[k] \cup {}
         ELSE {}]
  BY <1>1 DEF InvalidationEnds, Promise
<1>4. /\ ~ops[c].alone => \A k \in Keys : legal'[k] = Values
      /\ ops[c].alone /\ ops[c].failed => \A k \in Keys : legal'[k] = legal[k]
      /\ answers => \A k \in Keys : legal'[k] = IF Sure(k) THEN {} ELSE legal[k]
      /\ legal' \in [Keys -> SUBSET Values]
  BY <1>3 DEF Sure, CallsInv
<1>5. /\ tagged' = [k \in Keys |-> IF answers \/ tagged[k] = None THEN tagged[k] ELSE "known"]
      /\ gone' = IF answers THEN gone \cup {k \in Keys : tagged[k] \in {"sure", "known"}} ELSE gone
  BY <1>1 DEF InvalidationEnds
<1>6. /\ tagged' \in [Keys -> {None, "known", "sure"}]
      /\ ~answers => \A k \in Keys : tagged'[k] # "sure"
      /\ answers => \A k \in Keys : tagged'[k] = tagged[k]
  BY <1>5 DEF CallsInv, None
<1>7. CacheTypeOK'
  <2>1. gone' \subseteq Keys
    BY <1>5 DEF CacheTypeOK
  <2>2. QED
    BY <1>1, <2>1 DEF CacheTypeOK
<1>8. \A d \in Callers : d # c => ops'[d] = ops[d]
  BY <1>2 DEF Rests, Others
<1>9. CallsInv'
  <2>1. ops' \in [Callers -> OpRecords]
    BY <1>2 DEF Rests, Others
  <2>2. CallInv(c)'
    BY <1>2, RestingFacts DEF Rests, CallInv, None
  <2>3. ASSUME NEW d \in Callers, d # c PROVE CallInv(d)'
    BY <1>8, <2>3 DEF CallsInv, CallInv, Reads
  <2>4. QED
    BY <1>4, <1>6, <2>1, <2>2, <2>3 DEF CallsInv
<1>10. AloneInv' /\ OwnInv'
  BY <1>1, <1>2, AloneKept, OwnKept
<1>11. \A k \in Keys : local'[k] \in {local[k], None}
  BY <1>1
\* Whoever worked alone held no key, and was the only one.
<1>12. ASSUME ops[c].alone PROVE \A d \in Callers : ~Writes(d)' /\ ops'[d].step # "ttl"
  <2> SUFFICES ASSUME NEW d \in Callers PROVE ops'[d] = Resting
    BY RestingFacts DEF Writes, None
  <2>1. d # c => ops[d] = Resting
    BY <1>1, <1>12 DEF AloneInv, CallsInv, CallInv
  <2>2. QED
    BY <1>2, <1>8, <2>1 DEF Rests
<1>13. ASSUME answers, NEW k \in Keys, Sure(k) PROVE local'[k] = None /\ remote[k] = None
  <2>1. Foresees(c)
    BY <1>1, <1>13, Foreseen
  <2>2. QED
    BY <1>1, <1>13, <2>1 DEF Foresees
<1>14. HeldInv'
  <2> SUFFICES ASSUME NEW k \in Keys
               PROVE  {local'[k], remote'[k]} \subseteq legal'[k] \cup {None}
    BY DEF HeldInv
  <2>1. CASE ~ops[c].alone
    BY <1>4, <1>7, <2>1 DEF CacheTypeOK
  <2>2. CASE ops[c].alone
    <3>1. ~Written(k)
      <4>1. \A d \in Callers : d # c => ~Writes(d)
        BY <1>8, <1>12, <2>2 DEF Writes
      <4>2. ops[c].key # k
        BY <1>1, CacheAssumption DEF CallsInv, CallInv
      <4>3. QED
        BY <2>2, <4>1, <4>2 DEF Written
    <3>2. {local[k], remote[k]} \subseteq legal[k] \cup {None}
      BY <3>1 DEF HeldInv
    <3>3. CASE answers /\ Sure(k)
      BY <1>1, <1>13, <3>3
    <3>4. CASE ~(answers /\ Sure(k))
      BY <1>1, <1>4, <1>11, <2>2, <3>2, <3>4
    <3>5. QED
      BY <3>3, <3>4
  <2>3. QED
    BY <2>1, <2>2
<1>15. FillInv'
  <2> SUFFICES ASSUME NEW d \in Callers, NEW k \in Keys, ops'[d].step = "ttl"
               PROVE  ops'[d].read \in legal'[k]
    BY DEF FillInv
  <2>1. d # c /\ ops'[d] = ops[d] /\ ~ops[c].alone
    BY <1>2, <1>8, <1>12, RestingFacts, AtWork DEF Rests, None
  <2>2. ops[d].read \in Values
    BY <2>1 DEF CallsInv, CallInv
  <2>3. QED
    BY <1>4, <2>1, <2>2
<1>16. IndexInv'
  <2> SUFFICES ASSUME NEW k \in Keys, tagged'[k] = "sure"
               PROVE  local'[k] = None /\ remote'[k] = None
    BY DEF IndexInv, Sure
  <2>1. answers /\ Sure(k)
    BY <1>6 DEF Sure
  <2>2. QED
    BY <1>1, <1>13, <2>1
<1>17. QED
  BY <1>7, <1>9, <1>10, <1>14, <1>15, <1>16

-----------------------------------------------------------------------------
(* What happens by itself, and Close: values only go.                        *)

LEMMA ValuesGo ==
    ASSUME CacheInv, CacheTypeOK', UNCHANGED <<ops, Histories>>,
           \A k \in Keys : local'[k] \in {local[k], None} /\ remote'[k] \in {remote[k], None},
           \A k \in tagSet : k \in tagSet' \/ remote'[k] = None,
           cacheClosed => cacheClosed',
           ~cacheClosed' => tagKeys' = tagKeys,
           cacheClosed = cacheClosed' \/ (\A k \in Keys : local'[k] = None),
           cacheClosed \/ cacheClosed' \/ tagKeys' = tagKeys,
           cacheClosed => tagKeys' = tagKeys
    PROVE  CacheInv'
<1> USE DEF CacheInv
<1>1. UNCHANGED <<ops, legal, tagged, gone>> /\ cacheClosed \in BOOLEAN /\ cacheClosed' \in BOOLEAN
  BY DEF Histories, CacheTypeOK
<1>2. CallsInv' /\ AloneInv'
  BY <1>1 DEF CallsInv, CallInv, Reads, AloneInv
<1>3. \A k \in Keys : Written(k)' <=> Written(k)
  BY <1>1 DEF Written, Writes, Invalidates
<1>4. HeldInv'
  BY <1>1, <1>3 DEF HeldInv
<1>5. FillInv'
  BY <1>1, <1>3 DEF FillInv
<1>6. OwnInv'
  <2> SUFFICES ASSUME NEW c \in Callers, ops[c].op # "rest", ops[c].alone
               PROVE  Knows(c, ops[c].key)' /\ (ops[c].op = "invalidate" =>
                        /\ Invalidates(c) => Foresees(c)'
                        /\ cacheClosed' => \A j \in Keys : local'[j] = None)
    BY <1>1 DEF OwnInv, Knows, Foresees, Writes, Invalidates
  <2>1. CASE ops[c].step \in {"value", "index", "remove"}
    <3>1. PICK k \in Keys : ops[c].key = k
      BY <2>1 DEF CallsInv, CallInv
    <3>2. Knows(c, k)
      BY <2>1, <3>1 DEF OwnInv, Knows
    <3>3. Knows(c, k)'
      BY <1>1, <3>2 DEF Knows
    <3>4. ops[c].op # "invalidate"
      BY <2>1 DEF CallsInv, CallInv
    <3>5. QED
      BY <1>1, <3>1, <3>3, <3>4 DEF Knows
  <2>2. CASE ops[c].step \notin {"value", "index", "remove"}
    <3>1. Knows(c, ops[c].key)'
      BY <1>1, <2>2 DEF Knows
    <3>2. ASSUME ops[c].op = "invalidate", cacheClosed' PROVE \A j \in Keys : local'[j] = None
      <4>1. cacheClosed => \A j \in Keys : local[j] = None
        BY <3>2 DEF OwnInv
      <4>2. QED
        BY <1>1, <3>2, <4>1
    <3>3. ASSUME ops[c].op = "invalidate", Invalidates(c) PROVE Foresees(c)'
      <4>1. ops[c].step \in {"tag", "values", "forget"}
        BY <2>2, <3>3 DEF Invalidates, Writes
      <4>2. Foresees(c)
        BY <3>3, <4>1, Foreseen
      <4>3. QED
        BY <1>1, <3>2, <3>3, <4>2 DEF Foresees, Sure
    <3>4. QED
      BY <3>1, <3>2, <3>3
  <2>3. QED
    BY <2>1, <2>2
<1>7. IndexInv'
  <2> SUFFICES ASSUME NEW k \in Keys, Sure(k),
                      /\ remote[k] # None => k \in tagSet
                      /\ ~cacheClosed /\ {local[k], remote[k]} # {None} => k \in tagKeys
               PROVE  /\ remote'[k] # None => k \in tagSet'
                      /\ ~cacheClosed' /\ {local'[k], remote'[k]} # {None} => k \in tagKeys'
    BY <1>1 DEF IndexInv, Sure, Writes, Invalidates
  <2>1. remote'[k] # None => k \in tagSet'
    OBVIOUS
  <2>2. {local'[k], remote'[k]} # {None} => {local[k], remote[k]} # {None}
    OBVIOUS
  <2>3. QED
    BY <1>1, <2>1, <2>2
<1>8. QED
  BY <1>2, <1>4, <1>5, <1>6, <1>7

LEMMA LapseStep ==
    ASSUME CacheInv, Lapse
    PROVE  CacheInv'
<1> USE DEF CacheInv
<1>1. UNCHANGED <<driver, tagKeys, ops, cacheClosed, Histories>>
  BY DEF Lapse
<1>2. /\ local' \in [Keys -> Values \cup {None}] /\ remote' \in [Keys -> Values \cup {None}]
      /\ \A k \in Keys : local'[k] \in {local[k], None} /\ remote'[k] \in {remote[k], None}
      /\ \A k \in tagSet : k \in tagSet' \/ remote'[k] = None
      /\ tagSet' \subseteq Keys
  <2>1. CASE \E k \in Keys : local[k] # None /\ local' = [local EXCEPT ![k] = None] /\ UNCHANGED <<remote, tagSet>>
    BY <2>1 DEF CacheTypeOK
  <2>2. CASE \E k \in Keys : remote[k] # None /\ remote' = [remote EXCEPT ![k] = None] /\ UNCHANGED <<local, tagSet>>
    BY <2>2 DEF CacheTypeOK
  <2>3. CASE tagSet # {} /\ (\A k \in tagSet : remote[k] = None) /\ tagSet' = {} /\ UNCHANGED <<local, remote>>
    BY <2>3 DEF CacheTypeOK
  <2>4. QED
    BY <2>1, <2>2, <2>3 DEF Lapse
<1>3. CacheTypeOK'
  BY <1>1, <1>2 DEF CacheTypeOK, Histories
<1>4. QED
  BY <1>1, <1>2, <1>3, ValuesGo

LEMMA CloseStep ==
    ASSUME CacheInv, Close
    PROVE  CacheInv'
<1> USE DEF CacheInv
<1>1. /\ ~cacheClosed /\ cacheClosed' /\ UNCHANGED <<driver, remote, tagSet, ops, Histories>>
      /\ local' = [k \in Keys |-> None] /\ tagKeys' = {} /\ cacheClosed' = TRUE
  BY DEF Close
<1>2. CacheTypeOK'
  BY <1>1 DEF CacheTypeOK, Histories
<1>3. QED
  BY <1>1, <1>2, ValuesGo

-----------------------------------------------------------------------------
LEMMA CacheInvInitially == CacheInit => CacheInv
<1> SUFFICES ASSUME CacheInit PROVE CacheInv
  OBVIOUS
<1>1. \A c \in Callers : ops[c] = Resting
  BY DEF CacheInit
<1>2. ops \in [Callers -> OpRecords]
  BY RestingFacts DEF CacheInit
<1>3. CacheTypeOK
  BY DEF CacheInit, CacheTypeOK
<1>4. CallsInv
  BY <1>1, <1>2, RestingFacts DEF CacheInit, CallsInv, CallInv, None
<1>5. AloneInv /\ OwnInv
  BY <1>1, RestingFacts DEF AloneInv, OwnInv
<1>6. HeldInv
  BY DEF HeldInv, CacheInit
<1>7. FillInv
  BY <1>1, RestingFacts DEF FillInv, None
<1>8. IndexInv
  BY DEF IndexInv, CacheInit, Sure, None
<1>9. QED
  BY <1>3, <1>4, <1>5, <1>6, <1>7, <1>8 DEF CacheInv

LEMMA CacheInvStep ==
    ASSUME CacheInv, [CacheNext]_cacheVars
    PROVE  CacheInv'
<1>1. ASSUME NEW c \in Callers, NEW k \in Keys, NEW op \in {"get", "delete"}, Calls(c, op, k, None)
      PROVE  CacheInv'
  BY <1>1, CallsStep, CacheAssumption
<1>2. ASSUME NEW c \in Callers, NEW k \in Keys, NEW op \in {"set", "load"}, NEW v \in Values, Calls(c, op, k, v)
      PROVE  CacheInv'
  BY <1>2, CallsStep, CacheAssumption
<1>3. ASSUME NEW c \in Callers, Calls(c, "invalidate", None, None)
      PROVE  CacheInv'
  BY <1>3, CallsStep
<1>4. ASSUME NEW c \in Callers, Joined(c) \/ GetLocal(c) \/ GetRemote(c) \/ Backfill(c)
      PROVE  CacheInv'
  BY <1>4, ReadersSteps
<1>5. ASSUME NEW c \in Callers, SetLocal(c) \/ SetValue(c) \/ SetIndex(c)
      PROVE  CacheInv'
  BY <1>5, SetLocalStep, SetValueStep, SetIndexStep
<1>6. ASSUME NEW c \in Callers, DeleteLocal(c) \/ DeleteRemote(c)
      PROVE  CacheInv'
  BY <1>6, DeleteLocalStep, DeleteRemoteStep
<1>7. ASSUME NEW c \in Callers, ReadMembers(c) \/ DeleteTag(c) \/ DeleteValues(c) \/ Forget(c)
      PROVE  CacheInv'
  BY <1>7, ReadMembersStep, DeleteTagStep, DeleteValuesStep, ForgetStep
<1>8. CASE Lapse \/ Close
  BY <1>8, LapseStep, CloseStep
<1>9. CASE UNCHANGED cacheVars
  <2>1. CacheTypeOK' /\ UNCHANGED <<ops, Histories>>
    BY <1>9 DEF CacheInv, CacheTypeOK, cacheVars, Histories
  <2>2. QED
    BY <1>9, <2>1, ValuesGo DEF cacheVars
<1>10. QED
  BY <1>1, <1>2, <1>3, <1>4, <1>5, <1>6, <1>7, <1>8, <1>9 DEF CacheNext

\* For any number of callers, keys and values: whenever nobody works, the
\* client's memory and Redis hold what the last operations allow, although
\* commands failed halfway, reads copied values and both stores lost some
\* (pkg/cache: Get, Set, Delete, InvalidateTags, GetOrLoad).
THEOREM LayersAgreeHolds == CacheSpec => []LayersAgree
<1>1. CacheInv => LayersAgree
  <2> SUFFICES ASSUME CacheInv, Quiet PROVE \A k \in Keys : ~Written(k)
    BY DEF CacheInv, HeldInv, LayersAgree
  <2>1. \A c \in Callers : ~Writes(c)
    BY AtWork DEF CacheInv, Quiet
  <2>2. QED
    BY <2>1 DEF Written
<1>2. QED
  BY <1>1, CacheInvInitially, CacheInvStep, PTL DEF CacheSpec

-----------------------------------------------------------------------------
(* The verifier of a generation's tokens.                                  *)

\* The keys it has are keys the issuer has published, and what it lets through
\* was looked up among them.
JwksInv ==
    /\ JwksTypeOK
    /\ published \subseteq ever /\ published # {} /\ known \subseteq ever
    /\ lifetime = "live" => window # "over" /\ (startup = "fetching" \/ (startup = "done" /\ known # {}))
    /\ startup = "none" => lifetime = "none"
    /\ handle => startup = "done"
    /\ \A b \in Bearers : bearer[b].at \in {"parse", "accepted"} => bearer[b].token.kid \in ever
    /\ \A b \in Bearers : bearer[b].at = "accepted" => bearer[b].token.genuine

Stages == {"idle", "lookup", "refresh", "flying", "parse", "accepted", "refused"}
BearerRecords == [at : Stages, token : Tokens, leads : BOOLEAN]

\* What a request must fulfil, whoever moves it.
Genuine(request) ==
    /\ request \in BearerRecords
    /\ request.at \in {"parse", "accepted"} => request.token.kid \in ever
    /\ request.at = "accepted" => request.token.genuine

LEMMA BearersAllowed ==
    JwksInv => bearer \in [Bearers -> BearerRecords] /\ \A b \in Bearers : Genuine(bearer[b])
BY DEF JwksInv, JwksTypeOK, BearerRecords, Stages, Genuine

\* A step that moves one request, and leaves the keys alone.
LEMMA OneRequestMoves ==
    ASSUME JwksInv, NEW b \in Bearers, NEW request, Genuine(request),
           bearer' = [bearer EXCEPT ![b] = request], Unchanged, UNCHANGED known
    PROVE  JwksInv'
<1>1. bearer \in [Bearers -> BearerRecords] /\ \A o \in Bearers : Genuine(bearer[o])
  BY BearersAllowed
<1>2. /\ bearer' \in [Bearers -> BearerRecords]
      /\ \A o \in Bearers : bearer'[o] = IF o = b THEN request ELSE bearer[o]
  BY <1>1 DEF Genuine
<1>3. UNCHANGED <<window, startup, handle, ready, lifetime, published, ever, known>>
  BY DEF Unchanged
<1>4. \A o \in Bearers : /\ bearer'[o].at \in {"parse", "accepted"} => bearer'[o].token.kid \in ever
                         /\ bearer'[o].at = "accepted" => bearer'[o].token.genuine
  BY <1>1, <1>2 DEF Genuine
<1>5. JwksTypeOK'
  BY <1>2, <1>3 DEF JwksInv, JwksTypeOK, BearerRecords, Stages
<1>6. QED
  BY <1>3, <1>4, <1>5 DEF JwksInv

\* A request that goes on as it is, to a stage that asks nothing of it.
LEMMA StageAllowed ==
    ASSUME NEW request \in BearerRecords, NEW stage \in Stages, NEW leads \in BOOLEAN,
           stage \in {"parse", "accepted"} => request.token.kid \in ever,
           stage = "accepted" => request.token.genuine
    PROVE  /\ Genuine([request EXCEPT !.at = stage])
           /\ Genuine([request EXCEPT !.at = stage, !.leads = leads])
<1>1. /\ request.at \in Stages /\ request.token \in Tokens /\ request.leads \in BOOLEAN
      /\ request = [at |-> request.at, token |-> request.token, leads |-> request.leads]
  BY DEF BearerRecords
<1>2. [request EXCEPT !.at = stage] = [at |-> stage, token |-> request.token, leads |-> request.leads]
  BY <1>1
<1>3. Genuine([request EXCEPT !.at = stage])
  BY <1>1, <1>2 DEF Genuine, BearerRecords
<1>4. Genuine([request EXCEPT !.at = stage, !.leads = leads])
  <2> DEFINE moved == [request EXCEPT !.at = stage, !.leads = leads]
  <2>1. moved \in BearerRecords /\ moved.at = stage /\ moved.token = request.token
    BY DEF BearerRecords
  <2> HIDE DEF moved
  <2>2. Genuine(moved)
    BY <2>1 DEF Genuine
  <2>3. QED
    BY <2>2 DEF moved
<1>5. QED
  BY <1>3, <1>4

LEMMA JwksInvStep ==
    ASSUME JwksInv, [JwksNext]_jwksVars
    PROVE  JwksInv'
<1>0. /\ bearer \in [Bearers -> BearerRecords] /\ \A b \in Bearers : Genuine(bearer[b])
      /\ \A b \in Bearers : bearer[b] \in BearerRecords /\ bearer[b].token.kid \in Kids
                            /\ bearer[b].token.genuine \in BOOLEAN
  BY BearersAllowed DEF Genuine, BearerRecords, Tokens
<1>1. CASE Start \/ Started
  <2>1. CASE Start
    BY <2>1 DEF Start, JwksInv, JwksTypeOK
  <2>2. CASE Started
    <3>1. CASE startup' = "done"
      BY <2>2, <3>1 DEF Started, JwksInv, JwksTypeOK
    <3>2. CASE startup' = "failed"
      BY <2>2, <3>2 DEF Started, Abandoned, JwksInv, JwksTypeOK
    <3>3. QED
      BY <2>2, <3>1, <3>2 DEF Started
  <2>3. QED
    BY <1>1, <2>1, <2>2
<1>2. CASE WindowEnds \/ LifetimeEnds \/ Stop \/ Shutdown
  <2>1. CASE WindowEnds \/ LifetimeEnds
    BY <2>1 DEF WindowEnds, LifetimeEnds, JwksInv, JwksTypeOK
  <2>2. CASE Stop \/ Shutdown
    BY <2>2 DEF Stop, Shutdown, JwksInv, JwksTypeOK
  <2>3. QED
    BY <1>2, <2>1, <2>2
<1>3. CASE Rotate
  BY <1>3 DEF Rotate, JwksInv, JwksTypeOK
<1>4. CASE Refreshed
  BY <1>4 DEF Refreshed, JwksInv, JwksTypeOK
<1>5. ASSUME NEW b \in Bearers, Present(b) PROVE JwksInv'
  <2>1. PICK token \in Tokens :
            bearer' = [bearer EXCEPT ![b] =
                [at |-> IF ready /\ handle THEN "lookup" ELSE "refused", token |-> token, leads |-> FALSE]]
    BY <1>5 DEF Present
  <2>2. Genuine([at |-> IF ready /\ handle THEN "lookup" ELSE "refused", token |-> token, leads |-> FALSE])
    BY DEF Genuine, BearerRecords, Stages
  <2>3. Unchanged /\ UNCHANGED known
    BY <1>5 DEF Present
  <2>4. QED
    BY <2>1, <2>2, <2>3, OneRequestMoves
<1>6. ASSUME NEW b \in Bearers, NEW stage \in Stages, Proceeds(b, stage), Unchanged, UNCHANGED known,
             stage \in {"parse", "accepted"} => bearer[b].token.kid \in ever,
             stage = "accepted" => bearer[b].token.genuine
      PROVE  JwksInv'
  <2>1. bearer' = [bearer EXCEPT ![b] = [bearer[b] EXCEPT !.at = stage]]
    BY <1>0, <1>6 DEF Proceeds
  <2>2. Genuine([bearer[b] EXCEPT !.at = stage])
    BY <1>0, <1>6, StageAllowed
  <2>3. QED
    BY <1>6, <2>1, <2>2, OneRequestMoves
<1>7. ASSUME NEW b \in Bearers, Lookup(b) PROVE JwksInv'
  <2>1. Unchanged /\ UNCHANGED known
    BY <1>7 DEF Lookup
  <2>2. CASE Proceeds(b, "parse") /\ bearer[b].token.kid \in known
    BY <1>6, <2>1, <2>2 DEF JwksInv, Stages
  <2>3. CASE Proceeds(b, "refresh") \/ Proceeds(b, "refused")
    BY <1>6, <2>1, <2>3 DEF Stages
  <2>4. QED
    BY <1>7, <2>2, <2>3 DEF Lookup
<1>8. ASSUME NEW b \in Bearers, Join(b) PROVE JwksInv'
  <2> DEFINE leads == Flight(bearer[b].token.kid) = {}
  <2>1. bearer' = [bearer EXCEPT ![b] = [bearer[b] EXCEPT !.at = "flying", !.leads = leads]]
    BY <1>0, <1>8 DEF Join
  <2>2. leads \in BOOLEAN /\ "flying" \in Stages
    BY DEF Stages
  <2>3. Unchanged /\ UNCHANGED known
    BY <1>8 DEF Join
  <2> HIDE DEF leads
  <2>4. Genuine([bearer[b] EXCEPT !.at = "flying", !.leads = leads])
    BY <1>0, <2>2, StageAllowed
  <2>5. QED
    BY <2>1, <2>3, <2>4, OneRequestMoves
<1>9. ASSUME NEW b \in Bearers, Land(b) PROVE JwksInv'
  <2>1. PICK fetched \in BOOLEAN :
          /\ fetched => ready /\ handle /\ lifetime = "live"
          /\ known' = IF fetched THEN published ELSE known
          /\ bearer' = [o \in Bearers |->
                IF o \notin Flight(bearer[b].token.kid) THEN bearer[o]
                ELSE [bearer[o] EXCEPT !.leads = FALSE,
                      !.at = IF fetched /\ Vouched(bearer[o].token, published) THEN "parse" ELSE "refused"]]
    BY <1>9 DEF Land
  <2>2. UNCHANGED <<window, startup, handle, ready, lifetime, published, ever>>
    BY <1>9 DEF Land, Unchanged
  <2>3. ASSUME NEW o \in Bearers PROVE Genuine(bearer'[o])
    <3>1. CASE o \notin Flight(bearer[b].token.kid)
      BY <1>0, <2>1, <3>1
    <3>2. CASE o \in Flight(bearer[b].token.kid)
      <4> DEFINE stage == IF fetched /\ Vouched(bearer[o].token, published) THEN "parse" ELSE "refused"
      <4>1. bearer'[o] = [bearer[o] EXCEPT !.leads = FALSE, !.at = stage]
        BY <2>1, <3>2
      <4>2. stage \in {"parse", "refused"} /\ (stage = "parse" => bearer[o].token.kid \in ever)
        BY DEF Vouched, JwksInv
      <4> HIDE DEF stage
      <4> DEFINE moved == [bearer[o] EXCEPT !.leads = FALSE, !.at = stage]
      <4>3. moved \in BearerRecords /\ moved.at = stage /\ moved.token = bearer[o].token
        BY <1>0, <4>2 DEF BearerRecords, Stages
      <4> HIDE DEF moved
      <4>4. Genuine(moved)
        BY <4>2, <4>3 DEF Genuine
      <4>5. QED
        BY <4>1, <4>4 DEF moved
    <3>3. QED
      BY <3>1, <3>2
  <2>4. bearer' = [o \in Bearers |-> bearer'[o]]
    BY <2>1
  <2>5. bearer' \in [Bearers -> BearerRecords]
    BY <2>3, <2>4 DEF Genuine
  <2>6. known' \in {known, published} /\ (known # {} => known' # {})
    BY <2>1 DEF JwksInv
  <2>7. JwksTypeOK'
    BY <2>2, <2>5, <2>6 DEF JwksInv, JwksTypeOK, BearerRecords, Stages
  <2>8. QED
    BY <2>2, <2>3, <2>6, <2>7 DEF JwksInv, Genuine
<1>10. ASSUME NEW b \in Bearers, Parse(b) PROVE JwksInv'
  <2>1. /\ bearer[b].at = "parse" /\ Unchanged /\ UNCHANGED known
        /\ Proceeds(b, IF bearer[b].token.genuine THEN "accepted" ELSE "refused")
    BY <1>10 DEF Parse
  <2>2. bearer[b].token.kid \in ever
    BY <2>1 DEF JwksInv
  <2>3. CASE bearer[b].token.genuine
    BY <1>6, <2>1, <2>2, <2>3 DEF Stages
  <2>4. CASE ~bearer[b].token.genuine
    BY <1>6, <2>1, <2>4 DEF Stages
  <2>5. QED
    BY <2>3, <2>4
<1>11. CASE UNCHANGED jwksVars
  BY <1>11 DEF jwksVars, JwksInv, JwksTypeOK
<1>12. QED
  BY <1>1, <1>2, <1>3, <1>4, <1>5, <1>7, <1>8, <1>9, <1>10, <1>11 DEF JwksNext

\* adapter/jwt/verifier.go: whatever a verifier accepts is genuine and under a
\* key its issuer has published, and no background refresh is left by a start
\* that failed or by a window of Prepare that ended; for any number of requests
\* and keys, however the keys rotate and fetches fail.
THEOREM TokensAreVouchedHolds == JwksSpec => []TokensAreVouched
<1>1. JwksInit => JwksInv
  <2> SUFFICES ASSUME JwksInit PROVE JwksInv
    OBVIOUS
  <2>1. NoToken \in Tokens
    BY DEF JwksInit, NoToken, Tokens
  <2>2. NoBearer \in BearerRecords /\ NoBearer.at = "idle"
    BY <2>1 DEF NoBearer, BearerRecords, Stages
  <2>3. bearer \in [Bearers -> BearerRecords] /\ \A b \in Bearers : bearer[b].at = "idle"
    BY <2>2 DEF JwksInit
  <2>4. JwksTypeOK
    BY <2>3 DEF JwksInit, JwksTypeOK, BearerRecords, Stages
  <2>5. QED
    BY <2>3, <2>4 DEF JwksInit, JwksInv
<1>2. JwksInv /\ [JwksNext]_jwksVars => JwksInv'
  BY JwksInvStep
<1>3. JwksInv => TokensAreVouched
  BY DEF JwksInv, TokensAreVouched
<1>4. QED
  BY <1>1, <1>2, <1>3, PTL DEF JwksSpec

-----------------------------------------------------------------------------
(* Todo. What a request knows of the Todo at each step of its use case.     *)

UseCaseSteps == {"execute", "flight", "join", "claim", "update", "reread", "store", "release"}
AllSteps == {"idle", "fetch", "decide", "insert", "find", "answered"} \cup UseCaseSteps
TodoRows ==
    [owner : Users \cup {NoRequest}, status : {"zero", "pending", "completed"},
     stamp : Requests \cup {NoRequest}, version : 0..2]
RequestRecords ==
    [op : {"none", "create", "get", "list", "complete"}, user : Users \cup {NoRequest}, scoped : BOOLEAN,
     home : Requests \cup {Server}, step : AllSteps, seen : TodoRows, tries : Nat, canceled : BOOLEAN,
     code : {"none", "ok", "not_found", "failed", "denied"}]

There == todo.status # "zero"

\* A Todo is written twice at most: when it is created and when it is completed.
RowInv ==
    /\ todo \in TodoRows
    /\ todo.status = "zero" => todo = Zero
    /\ todo.status = "pending" => todo.version = 1
    /\ todo.status = "completed" => todo.version = 2

TellsTheTruth(rec) ==
    rec.code = "ok" =>
        /\ rec.step = "answered" /\ rec.scoped /\ rec.seen.owner \in {rec.user, NoRequest}
        /\ rec.op = "complete" => todo.status = "completed" /\ todo.owner = rec.user

\* What was fetched: the Todo itself, or what it was before it was completed.
Fetched(rec) ==
    /\ There /\ rec.seen.owner = todo.owner
    /\ rec.seen.status = "completed" => todo.status = "completed"
    /\ rec.seen.status # "completed" => rec.seen.version = 1

Completing(rec) ==
    /\ rec.op = "complete" /\ rec.scoped
    /\ rec.seen.owner = rec.user /\ rec.seen.status = "completed"
    /\ There /\ todo.owner = rec.user
    /\ rec.step # "store" => rec.seen.version = 1
    /\ rec.step \in {"reread", "store"} => todo.status = "completed"

Creates(rec) == rec.op = "create" /\ rec.step \in {"decide", "insert"}

Knowing(rec) ==
    /\ TellsTheTruth(rec)
    /\ rec.step = "fetch" => rec.op \in {"get", "complete"}
    /\ rec.step = "decide" => rec.op # "none"
    /\ rec.step = "decide" => IF rec.op \in {"get", "complete"} THEN Fetched(rec) ELSE rec.seen = Zero
    /\ rec.step \in UseCaseSteps => Completing(rec)
    /\ rec.step \in {"insert", "find"} => rec.scoped
    /\ rec.step = "insert" => rec.op = "create"
    /\ rec.step = "find" => rec.op = "list"
    /\ rec.op = "create" => rec.step \in {"decide", "insert", "answered"}
    /\ Creates(rec) => todo = Zero

TodoInv ==
    /\ reqs \in [Requests -> RequestRecords]
    /\ claims \in [Requests \cup {Server} -> {"free", "running", "completed"}]
    /\ flight \in Requests \cup {NoRequest}
    /\ RowInv
    /\ \A r \in Requests : Knowing(reqs[r])
    /\ \A r, q \in Requests : Creates(reqs[r]) /\ Creates(reqs[q]) => r = q
    /\ \A h \in Requests \cup {Server} : claims[h] = "completed" => todo.status = "completed"

\* The Todo stays as it is, is created, or is completed as its owner's.
Grows ==
    \/ todo' = todo
    \/ There => todo'.status = "completed" /\ todo'.owner = todo.owner

LEMMA KnowingGrows ==
    ASSUME NEW rec, Knowing(rec), Grows, todo' = todo \/ ~Creates(rec)
    PROVE  Knowing(rec)'
<1>1. There => There'
  BY DEF Grows, There
<1>2. There => todo'.owner = todo.owner
  BY DEF Grows
<1>3. todo.status = "completed" => todo'.status = "completed"
  BY DEF Grows, There
<1>4. TellsTheTruth(rec)'
  BY <1>2, <1>3 DEF Knowing, TellsTheTruth, There
<1>5. Fetched(rec) => Fetched(rec)'
  BY <1>1, <1>2, <1>3 DEF Fetched
<1>6. Completing(rec) => Completing(rec)'
  BY <1>1, <1>2, <1>3 DEF Completing
<1>7. Creates(rec)' => (todo = Zero)'
  BY DEF Creates, Knowing
<1>8. QED
  BY <1>4, <1>5, <1>6, <1>7 DEF Knowing, Creates


\* One request moves on, to the record rec, and the others stay.
Turns(r, rec) ==
    /\ rec \in RequestRecords
    /\ reqs' \in [Requests -> RequestRecords] /\ reqs'[r] = rec
    /\ \A q \in Requests : q # r => reqs'[q] = reqs[q]

\* Nobody but r is creating the Todo.
CreatesAlone(r) == \A q \in Requests : q # r => ~Creates(reqs[q])

\* The claims and the flight stay what they may be.
StoresKept ==
    /\ claims' \in [Requests \cup {Server} -> {"free", "running", "completed"}]
    /\ \A h \in Requests \cup {Server} :
          claims'[h] = "completed" => claims[h] = "completed" \/ todo'.status = "completed"
    /\ flight' \in Requests \cup {NoRequest}

LEMMA OneMoves ==
    ASSUME TodoInv, Grows, RowInv', NEW r \in Requests, NEW rec, Turns(r, rec), Knowing(rec)',
           Creates(rec) => Creates(reqs[r]) \/ CreatesAlone(r),
           todo' = todo \/ CreatesAlone(r),
           StoresKept
    PROVE  TodoInv'
<1>1. ASSUME NEW q \in Requests PROVE Knowing(reqs[q])'
  <2>1. CASE q = r
    BY <2>1 DEF Turns
  <2>2. CASE q # r
    <3> DEFINE old == reqs[q]
    <3>1. old = reqs'[q]
      BY <2>2 DEF Turns
    <3>2. Knowing(old) /\ (todo' = todo \/ ~Creates(old))
      BY <2>2 DEF TodoInv, CreatesAlone
    <3> HIDE DEF old
    <3>3. QED
      BY <3>1, <3>2, KnowingGrows
  <2>3. QED
    BY <2>1, <2>2
<1>2. ASSUME NEW p \in Requests, NEW q \in Requests, Creates(reqs'[p]), Creates(reqs'[q]) PROVE p = q
  BY <1>2 DEF TodoInv, Turns, CreatesAlone
<1>3. \A h \in Requests \cup {Server} : claims'[h] = "completed" => todo'.status = "completed"
  BY DEF TodoInv, Grows, StoresKept, There
<1>4. QED
  BY <1>1, <1>2, <1>3 DEF TodoInv, Creates, Turns, StoresKept

\* The same where only the request changes.
LEMMA RequestMoves ==
    ASSUME TodoInv, NEW r \in Requests, NEW rec, Turns(r, rec), Knowing(rec),
           Creates(rec) => Creates(reqs[r]), UNCHANGED <<todo, claims, flight>>
    PROVE  TodoInv'
<1>1. Grows /\ RowInv' /\ StoresKept
  BY DEF Grows, RowInv, StoresKept, TodoInv, Zero, Row
<1>2. Knowing(rec)'
  BY <1>1, KnowingGrows
<1>3. QED
  BY <1>1, <1>2, OneMoves

LEMMA RecordFacts ==
    /\ Zero \in TodoRows /\ Zero.owner = NoRequest /\ Zero.status = "zero"
    /\ Idle \in RequestRecords /\ Idle.code = "none" /\ Idle.step = "idle" /\ Idle.op = "none"
    /\ UseCaseSteps \subseteq AllSteps
    /\ \A r \in Requests : Executing(r) <=> reqs[r].step \in UseCaseSteps
<1>1. Zero \in TodoRows /\ Zero.owner = NoRequest /\ Zero.status = "zero"
  BY DEF Zero, Row, TodoRows
<1>2. Idle \in RequestRecords /\ Idle.code = "none" /\ Idle.step = "idle" /\ Idle.op = "none"
  BY <1>1 DEF Idle, RequestRecords, AllSteps
<1>3. QED
  BY <1>1, <1>2 DEF AllSteps, UseCaseSteps, Executing

Codes == {"none", "ok", "not_found", "failed", "denied"}

\* An answer with a row that may be shown, and one without success.
LEMMA AnswerFacts ==
    ASSUME TodoInv, NEW r \in Requests, NEW code \in Codes, NEW row \in TodoRows
    PROVE  /\ Answered(reqs[r], code, row) \in RequestRecords
           /\ Answered(reqs[r], code, row).step = "answered"
           /\ Answered(reqs[r], code, row).code = code
           /\ Answered(reqs[r], code, row).seen = row
           /\ Answered(reqs[r], code, row).op = reqs[r].op
           /\ Answered(reqs[r], code, row).user = reqs[r].user
           /\ Answered(reqs[r], code, row).scoped = reqs[r].scoped
           /\ Answer(r, code, row) => Turns(r, Answered(reqs[r], code, row))
<1> DEFINE rec == Answered(reqs[r], code, row)
<1>1. reqs[r] \in RequestRecords
  BY DEF TodoInv
<1>2. /\ rec \in RequestRecords /\ rec.step = "answered" /\ rec.code = code /\ rec.seen = row
      /\ rec.op = reqs[r].op /\ rec.user = reqs[r].user /\ rec.scoped = reqs[r].scoped
  BY <1>1 DEF Answered, RequestRecords, AllSteps, Codes
<1>3. Answer(r, code, row) => /\ reqs' \in [Requests -> RequestRecords] /\ reqs'[r] = rec
                              /\ \A q \in Requests : q # r => reqs'[q] = reqs[q]
  <2>1. Answer(r, code, row) => reqs' = [reqs EXCEPT ![r] = rec]
    BY DEF Answer, TodoInv
  <2> HIDE DEF rec
  <2>2. QED
    BY <1>2, <2>1 DEF TodoInv
<1>4. QED
  BY <1>2, <1>3 DEF Turns

LEMMA FailKnowing ==
    ASSUME TodoInv, NEW r \in Requests, NEW code \in Codes \ {"ok"}, Fail(r, code),
           UNCHANGED <<todo, claims, flight>>
    PROVE  TodoInv'
<1>1. PICK rec : rec = Answered(reqs[r], code, Zero)
  OBVIOUS
<1>2. Turns(r, rec) /\ rec.step = "answered" /\ rec.code # "ok"
  BY <1>1, AnswerFacts, RecordFacts DEF Fail
<1>3. Knowing(rec) /\ ~Creates(rec)
  BY <1>2 DEF Knowing, TellsTheTruth, UseCaseSteps, Creates
<1>4. QED
  BY <1>2, <1>3, RequestMoves

\* The request may be shown what it is shown.
LEMMA SuccessKnowing ==
    ASSUME TodoInv, NEW r \in Requests, NEW row \in TodoRows, Answer(r, "ok", row),
           reqs[r].scoped, row.owner \in {reqs[r].user, NoRequest},
           reqs[r].op = "complete" => todo.status = "completed" /\ todo.owner = reqs[r].user,
           UNCHANGED <<todo, claims, flight>>
    PROVE  TodoInv'
<1>1. PICK rec : rec = Answered(reqs[r], "ok", row)
  OBVIOUS
<1>2. /\ Turns(r, rec) /\ rec.step = "answered" /\ rec.scoped = reqs[r].scoped /\ rec.seen = row
      /\ rec.op = reqs[r].op /\ rec.user = reqs[r].user
  <2>1. "ok" \in Codes
    BY DEF Codes
  <2>2. Answer(r, "ok", row) => Turns(r, Answered(reqs[r], "ok", row))
    BY <2>1, AnswerFacts
  <2>3. /\ Answered(reqs[r], "ok", row).step = "answered" /\ Answered(reqs[r], "ok", row).seen = row
        /\ Answered(reqs[r], "ok", row).op = reqs[r].op /\ Answered(reqs[r], "ok", row).user = reqs[r].user
    BY <2>1, AnswerFacts
  <2>4. Answered(reqs[r], "ok", row).scoped = reqs[r].scoped
    BY <2>1, AnswerFacts, Zenon
  <2>5. QED
    BY <1>1, <2>2, <2>3, <2>4
<1>3. Knowing(rec) /\ ~Creates(rec)
  BY <1>2 DEF Knowing, TellsTheTruth, UseCaseSteps, Creates
<1>4. QED
  BY <1>2, <1>3, RequestMoves

LEMMA StepFacts ==
    ASSUME TodoInv, NEW r \in Requests, NEW step \in AllSteps
    PROVE  /\ [reqs[r] EXCEPT !.step = step] \in RequestRecords
           /\ Moves(r, step) => Turns(r, [reqs[r] EXCEPT !.step = step])
<1>1. reqs[r] \in RequestRecords
  BY DEF TodoInv
<1>2. [reqs[r] EXCEPT !.step = step] \in RequestRecords
  BY <1>1 DEF RequestRecords
<1>3. QED
  BY <1>2 DEF TodoInv, Turns, Moves

\* A request that only takes the next step knows what it knew.
Same(rec, old) ==
    /\ rec.op = old.op /\ rec.user = old.user /\ rec.scoped = old.scoped
    /\ rec.seen = old.seen /\ rec.code = old.code

LEMMA OldKnowing ==
    ASSUME TodoInv, NEW r \in Requests
    PROVE  /\ Knowing(reqs[r]) /\ reqs[r] \in RequestRecords
           /\ reqs[r].step # "answered" => reqs[r].code # "ok"
           /\ Executing(r) => Completing(reqs[r])
BY RecordFacts DEF TodoInv, Knowing, TellsTheTruth

\* Within the executor.
LEMMA ExecutorMoves ==
    ASSUME TodoInv, NEW r \in Requests, NEW step \in UseCaseSteps, Executing(r),
           NEW rec, Same(rec, reqs[r]), rec.step = step, Turns(r, rec),
           step # "store" => reqs[r].seen.version = 1,
           step \in {"reread", "store"} => todo.status = "completed",
           todo' = todo, StoresKept
    PROVE  TodoInv'
<1>1. Completing(reqs[r]) /\ rec.code # "ok"
  BY OldKnowing, RecordFacts DEF Same, UseCaseSteps
<1>2. Completing(rec)
  BY <1>1 DEF Completing, Same
<1>3. Knowing(rec) /\ ~Creates(rec)
  <2>1. step \notin {"fetch", "decide", "insert", "find", "answered"}
    BY DEF UseCaseSteps
  <2>2. rec.op # "create"
    BY <1>2 DEF Completing
  <2>3. QED
    BY <1>1, <1>2, <2>1, <2>2 DEF Knowing, TellsTheTruth, Creates
<1>4. Grows /\ RowInv'
  BY DEF Grows, RowInv, TodoInv, Zero, Row
<1>5. Knowing(rec)'
  BY <1>3, <1>4, KnowingGrows
<1>6. QED
  BY <1>3, <1>4, <1>5, OneMoves

\* Several requests move on at once, and the Todo stays.
LEMMA ManyMove ==
    ASSUME TodoInv, todo' = todo, StoresKept, reqs' \in [Requests -> RequestRecords],
           \A q \in Requests : \E rec :
              reqs'[q] = rec /\ Knowing(rec) /\ (Creates(rec) => Creates(reqs[q]))
    PROVE  TodoInv'
<1>1. Grows /\ RowInv'
  BY DEF Grows, RowInv, TodoInv, Zero, Row
<1>2. ASSUME NEW q \in Requests PROVE Knowing(reqs[q])' /\ (Creates(reqs[q])' => Creates(reqs[q]))
  <2>1. PICK rec : reqs'[q] = rec /\ Knowing(rec) /\ (Creates(rec) => Creates(reqs[q]))
    OBVIOUS
  <2>2. Knowing(rec)'
    BY <1>1, <2>1, KnowingGrows
  <2>3. QED
    BY <2>1, <2>2 DEF Creates
<1>3. \A h \in Requests \cup {Server} : claims'[h] = "completed" => todo'.status = "completed"
  BY DEF TodoInv, StoresKept
<1>4. QED
  BY <1>1, <1>2, <1>3 DEF TodoInv, StoresKept

LEMMA LandsKnowing ==
    ASSUME TodoInv, NEW r \in Requests, NEW code \in {"ok", "failed"}, NEW row \in TodoRows,
           Lands(r, code, row), Executing(r),
           code = "ok" => todo.status = "completed" /\ row.owner = reqs[r].user,
           todo' = todo,
           claims' \in [Requests \cup {Server} -> {"free", "running", "completed"}],
           \A h \in Requests \cup {Server} :
              claims'[h] = "completed" => claims[h] = "completed" \/ todo'.status = "completed"
    PROVE  TodoInv'
<1>0. code \in Codes
  BY DEF Codes
<1>1. ASSUME NEW q \in Requests, NEW shown \in TodoRows, Executing(q),
             code = "ok" => shown.owner \in {reqs[q].user, NoRequest}
      PROVE  \E rec \in RequestRecords :
                rec = Answered(reqs[q], code, shown) /\ Knowing(rec) /\ ~Creates(rec)
  <2>1. PICK rec : rec = Answered(reqs[q], code, shown)
    OBVIOUS
  <2>2. /\ rec \in RequestRecords /\ rec.step = "answered" /\ rec.code = code /\ rec.seen = shown
        /\ rec.op = reqs[q].op /\ rec.user = reqs[q].user
    BY <1>0, <2>1, AnswerFacts
  <2>3. rec.scoped = reqs[q].scoped
    <3>1. Answered(reqs[q], code, shown).scoped = reqs[q].scoped
      BY OldKnowing DEF Answered, RequestRecords
    <3>2. QED
      BY <2>1, <3>1
  <2>4. Completing(reqs[q])
    BY <1>1, OldKnowing
  <2>5. TellsTheTruth(rec)
    BY <1>1, <2>2, <2>3, <2>4 DEF TellsTheTruth, Completing
  <2>6. Knowing(rec) /\ ~Creates(rec)
    BY <2>2, <2>5 DEF Knowing, UseCaseSteps, Creates
  <2>7. QED
    BY <2>1, <2>2, <2>6
<1>2. ASSUME NEW q \in Requests
      PROVE  \E rec \in RequestRecords :
                reqs'[q] = rec /\ Knowing(rec) /\ (Creates(rec) => Creates(reqs[q]))
  <2>1. CASE q = r
    <3>1. reqs'[q] = Answered(reqs[q], code, row)
      BY <2>1 DEF Lands
    <3>2. QED
      BY <1>1, <2>1, <3>1
  <2>2. CASE q # r /\ flight = r /\ reqs[q].step = "join"
    <3>1. reqs'[q] = Answered(reqs[q], code, Zero)
      BY <2>2 DEF Lands
    <3>2. Executing(q)
      BY <2>2 DEF Executing
    <3>3. QED
      BY <1>1, <3>1, <3>2, RecordFacts
  <2>3. CASE q # r /\ ~(flight = r /\ reqs[q].step = "join")
    <3>1. reqs'[q] = reqs[q]
      BY <2>3 DEF Lands
    <3>2. QED
      BY <3>1, OldKnowing
  <2>4. QED
    BY <2>1, <2>2, <2>3
<1>3. reqs' \in [Requests -> RequestRecords]
  <2>1. \A q \in Requests : reqs'[q] \in RequestRecords
    BY <1>2
  <2>2. QED
    BY <2>1 DEF Lands
<1>4. StoresKept
  BY DEF StoresKept, Lands, TodoInv
<1>5. QED
  BY <1>2, <1>3, <1>4, ManyMove

-----------------------------------------------------------------------------
LEMMA ArriveKnowing ==
    ASSUME TodoInv, NEW r \in Requests, NEW op \in {"create", "get", "list", "complete"},
           NEW user \in Users, NEW scoped \in BOOLEAN, NEW home \in {Server, r},
           Arrive(r, op, user, scoped, home)
    PROVE  TodoInv'
<1>1. PICK rec : rec = [Idle EXCEPT !.op = op, !.user = user, !.scoped = scoped, !.home = home,
                                     !.step = IF op \in {"get", "complete"} THEN "fetch" ELSE "decide"]
  OBVIOUS
<1>2. /\ rec \in RequestRecords /\ rec.op = op /\ rec.code = "none" /\ rec.seen = Zero
      /\ rec.step = IF op \in {"get", "complete"} THEN "fetch" ELSE "decide"
  <2> DEFINE step == IF op \in {"get", "complete"} THEN "fetch" ELSE "decide"
  <2>1. step \in AllSteps
    BY DEF AllSteps
  <2> HIDE DEF step
  <2>2. rec = [op |-> op, user |-> user, scoped |-> scoped, home |-> home, step |-> step,
               seen |-> Zero, tries |-> 0, canceled |-> FALSE, code |-> "none"]
    BY <1>1 DEF Idle, step
  <2>3. rec \in RequestRecords
    BY <2>1, <2>2, RecordFacts DEF RequestRecords
  <2>4. rec.op = op /\ rec.code = "none" /\ rec.step = step /\ rec.seen = Zero
    BY <2>2
  <2>5. QED
    BY <2>3, <2>4 DEF step
<1>3. Turns(r, rec)
  BY <1>1, <1>2 DEF Arrive, Turns, TodoInv
<1>4. Creates(rec) => CreatesAlone(r) /\ todo = Zero
  BY <1>2 DEF Creates, CreatesAlone, Arrive
<1>5. Knowing(rec)
  BY <1>2, <1>4 DEF Knowing, TellsTheTruth, UseCaseSteps, Creates
<1>6. todo' = todo /\ StoresKept
  BY DEF Arrive, StoresKept, TodoInv
<1>7. Grows /\ RowInv'
  BY <1>6 DEF Grows, RowInv, TodoInv, Zero, Row
<1>8. Knowing(rec)'
  BY <1>5, <1>6, <1>7, KnowingGrows
<1>9. QED
  BY <1>3, <1>4, <1>6, <1>7, <1>8, OneMoves

LEMMA FetchKnowing == ASSUME TodoInv, NEW r \in Requests, Fetch(r) PROVE TodoInv'
<1>0. reqs[r].step = "fetch" /\ UNCHANGED <<todo, claims, flight>>
  BY DEF Fetch
<1>1. ASSUME Fail(r, "not_found") \/ Fail(r, "failed") PROVE TodoInv'
  <2>1. "not_found" \in Codes \ {"ok"} /\ "failed" \in Codes \ {"ok"}
    BY DEF Codes
  <2>2. QED
    BY <1>0, <1>1, <2>1, FailKnowing
<1>2. ASSUME todo # Zero, reqs' = [reqs EXCEPT ![r].step = "decide", ![r].seen = todo] PROVE TodoInv'
  <2>1. PICK rec : rec = [reqs[r] EXCEPT !.step = "decide", !.seen = todo]
    OBVIOUS
  <2>2. todo \in TodoRows /\ reqs[r] \in RequestRecords /\ There
        /\ (todo.status # "completed" => todo.version = 1)
    BY <1>2 DEF TodoInv, RowInv, There, TodoRows
  <2>3. /\ rec \in RequestRecords /\ rec.step = "decide" /\ rec.seen = todo
        /\ rec.op = reqs[r].op /\ rec.code = reqs[r].code
    BY <2>1, <2>2 DEF RequestRecords, AllSteps
  <2>4. Turns(r, rec)
    BY <1>2, <2>1, <2>3 DEF Turns, TodoInv
  <2>5. Fetched(rec)
    BY <2>2, <2>3 DEF Fetched
  <2>6. rec.op \in {"get", "complete"} /\ rec.code # "ok"
    BY <1>0, <2>3, OldKnowing DEF Knowing
  <2>7. Knowing(rec) /\ ~Creates(rec)
    BY <2>3, <2>5, <2>6 DEF Knowing, TellsTheTruth, UseCaseSteps, Creates
  <2>8. QED
    BY <1>0, <2>4, <2>7, RequestMoves
<1>3. QED
  BY <1>1, <1>2 DEF Fetch

LEMMA EnforceKnowing == ASSUME TodoInv, NEW r \in Requests, Enforce(r) PROVE TodoInv'
<1>0. reqs[r].step = "decide" /\ UNCHANGED <<todo, claims, flight>>
  BY DEF Enforce
<1>1. /\ Knowing(reqs[r]) /\ reqs[r] \in RequestRecords /\ reqs[r].code # "ok"
      /\ reqs[r].op \in {"create", "list", "get", "complete"}
  BY <1>0, OldKnowing DEF Knowing, RequestRecords
<1>2. ASSUME NEW code \in {"failed", "not_found", "denied"}, Fail(r, code) PROVE TodoInv'
  <2>1. code \in Codes \ {"ok"}
    BY DEF Codes
  <2>2. QED
    BY <1>0, <1>2, <2>1, FailKnowing
<1>3. ASSUME Allowed(r), Permitted(r) PROVE TodoInv'
  <2>1. reqs[r].scoped
    BY <1>3 DEF Allowed
  <2>2. CASE reqs[r].op = "create"
    <3>1. Moves(r, "insert")
      BY <1>0, <1>1, <1>3, <2>2, RecordFacts DEF Permitted, Knowing
    <3>2. PICK rec : rec = [reqs[r] EXCEPT !.step = "insert"]
      OBVIOUS
    <3>3. Turns(r, rec)
      BY <3>1, <3>2, StepFacts DEF AllSteps
    <3>4. /\ rec.step = "insert" /\ rec.op = "create" /\ rec.scoped /\ rec.code # "ok"
      BY <1>1, <2>1, <2>2, <3>2 DEF RequestRecords
    <3>5. Creates(reqs[r]) /\ todo = Zero
      BY <1>0, <1>1, <2>2 DEF Creates, Knowing
    <3>6. Knowing(rec)
      BY <3>4, <3>5 DEF Knowing, TellsTheTruth, UseCaseSteps
    <3>7. QED
      BY <1>0, <3>3, <3>5, <3>6, RequestMoves
  <2>3. CASE reqs[r].op = "list"
    <3>1. Moves(r, "find")
      BY <1>0, <1>1, <1>3, <2>3, RecordFacts DEF Permitted, Knowing
    <3>2. PICK rec : rec = [reqs[r] EXCEPT !.step = "find"]
      OBVIOUS
    <3>3. Turns(r, rec)
      BY <3>1, <3>2, StepFacts DEF AllSteps
    <3>4. /\ rec.step = "find" /\ rec.op = "list" /\ rec.scoped /\ rec.code # "ok"
      BY <1>1, <2>1, <2>3, <3>2 DEF RequestRecords
    <3>5. Knowing(rec) /\ ~Creates(rec)
      BY <3>4 DEF Knowing, TellsTheTruth, UseCaseSteps, Creates
    <3>6. QED
      BY <1>0, <3>3, <3>5, RequestMoves
  <2>4. ASSUME reqs[r].op \in {"get", "complete"} PROVE TodoInv'
    <3>1. Fetched(reqs[r]) /\ reqs[r].seen.owner = reqs[r].user
      BY <1>0, <1>1, <1>3, <2>4 DEF Knowing, Allowed, OwnerOf
    <3>2. CASE reqs[r].op = "get" \/ reqs[r].seen.status = "completed"
      <4>1. Answer(r, "ok", reqs[r].seen)
        BY <1>3, <2>4, <3>2 DEF Permitted
      <4>2. reqs[r].seen \in TodoRows
        BY <1>1 DEF RequestRecords
      <4>3. reqs[r].op = "complete" => todo.status = "completed" /\ todo.owner = reqs[r].user
        BY <3>1, <3>2 DEF Fetched
      <4>4. reqs[r].seen.owner \in {reqs[r].user, NoRequest}
        BY <3>1
      <4>5. QED
        BY <1>0, <2>1, <4>1, <4>2, <4>3, <4>4, SuccessKnowing
    <3>3. CASE reqs[r].op = "complete" /\ reqs[r].seen.status # "completed"
      <4>1. reqs' = [reqs EXCEPT ![r].step = "execute", ![r].seen.status = "completed", ![r].seen.stamp = r]
        BY <1>3, <3>3 DEF Permitted
      <4>2. PICK row : row = [reqs[r].seen EXCEPT !.status = "completed", !.stamp = r]
        OBVIOUS
      <4>3. reqs[r].seen \in TodoRows
        BY <1>1 DEF RequestRecords
      <4>4. /\ row \in TodoRows /\ row.owner = reqs[r].seen.owner /\ row.status = "completed"
            /\ row.version = reqs[r].seen.version
        BY <4>2, <4>3 DEF TodoRows
      <4>5. PICK rec : rec = [reqs[r] EXCEPT !.step = "execute", !.seen = row]
        OBVIOUS
      <4>6. rec \in RequestRecords /\ rec.seen = row /\ rec.step = "execute"
        BY <1>1, <4>4, <4>5 DEF RequestRecords, AllSteps, UseCaseSteps
      <4>7. rec.op = reqs[r].op /\ rec.user = reqs[r].user /\ rec.scoped /\ rec.code # "ok"
        BY <1>1, <2>1, <4>5 DEF RequestRecords
      <4>8. reqs'[r] = rec
        BY <4>1, <4>2, <4>5, ZenonT(90) DEF TodoInv, RequestRecords, TodoRows
      <4>9. Turns(r, rec)
        BY <4>1, <4>6, <4>8 DEF Turns, TodoInv
      <4>10. Completing(rec)
        BY <3>1, <3>3, <4>4, <4>6, <4>7 DEF Completing, Fetched
      <4>11. Knowing(rec) /\ ~Creates(rec)
        BY <3>3, <4>6, <4>7, <4>10 DEF Knowing, TellsTheTruth, UseCaseSteps, Creates
      <4>12. QED
        BY <1>0, <4>9, <4>11, RequestMoves
    <3>4. QED
      BY <2>4, <3>2, <3>3
  <2>5. QED
    BY <1>1, <2>2, <2>3, <2>4
<1>4. QED
  BY <1>2, <1>3 DEF Enforce

\* While somebody creates the Todo nobody completes it.
LEMMA CompletingAlone ==
    ASSUME TodoInv, There PROVE \A q \in Requests : ~Creates(reqs[q])
BY RecordFacts DEF TodoInv, Knowing, There

LEMMA InsertKnowing == ASSUME TodoInv, NEW r \in Requests, Insert(r) PROVE TodoInv'
<1>0. /\ reqs[r].step = "insert" /\ UNCHANGED <<claims, flight>>
      /\ reqs[r].op = "create" /\ reqs[r].scoped /\ todo = Zero
      /\ reqs[r].user \in Users \cup {NoRequest} /\ Creates(reqs[r])
  BY OldKnowing DEF Insert, Knowing, Creates, RequestRecords
<1>1. PICK row : row = Row(reqs[r].user, "pending", NoRequest, 1)
  OBVIOUS
<1>2. row \in TodoRows /\ row.owner = reqs[r].user /\ row.status = "pending" /\ row.version = 1
  BY <1>0, <1>1 DEF Row, TodoRows
<1>3. ASSUME todo' = todo, Fail(r, "failed") PROVE TodoInv'
  <2>1. "failed" \in Codes \ {"ok"}
    BY DEF Codes
  <2>2. QED
    BY <1>0, <1>3, <2>1, FailKnowing
<1>4. ASSUME todo' = row, Answer(r, "ok", row) \/ Fail(r, "failed") PROVE TodoInv'
  <2>1. PICK code \in Codes, shown \in TodoRows :
          Answer(r, code, shown) /\ (code = "ok" => shown = row)
    <3>1. "ok" \in Codes /\ "failed" \in Codes
      BY DEF Codes
    <3>2. QED
      BY <1>2, <1>4, <3>1, RecordFacts DEF Fail
  <2>2. PICK rec : rec = Answered(reqs[r], code, shown)
    OBVIOUS
  <2>3. /\ Turns(r, rec) /\ rec.step = "answered" /\ rec.code = code /\ rec.seen = shown
        /\ rec.op = reqs[r].op /\ rec.user = reqs[r].user
    BY <2>1, <2>2, AnswerFacts
  <2>4. rec.scoped
    <3>1. Answered(reqs[r], code, shown).scoped = reqs[r].scoped
      BY OldKnowing DEF Answered, RequestRecords
    <3>2. QED
      BY <1>0, <2>2, <3>1
  <2>5. Grows /\ RowInv'
    BY <1>0, <1>2, <1>4, RecordFacts DEF Grows, There, RowInv
  <2>6. TellsTheTruth(rec)'
    BY <1>0, <1>2, <2>1, <2>3, <2>4 DEF TellsTheTruth
  <2>7. Knowing(rec)' /\ ~Creates(rec)
    BY <2>3, <2>6 DEF Knowing, UseCaseSteps, Creates
  <2>8. CreatesAlone(r)
    BY <1>0 DEF CreatesAlone, TodoInv
  <2>9. StoresKept
    BY <1>0 DEF StoresKept, TodoInv
  <2>10. QED
    BY <2>3, <2>5, <2>7, <2>8, <2>9, OneMoves
<1>5. QED
  BY <1>1, <1>3, <1>4 DEF Insert

LEMMA FindKnowing == ASSUME TodoInv, NEW r \in Requests, Find(r) PROVE TodoInv'
<1>0. /\ reqs[r].step = "find" /\ UNCHANGED <<todo, claims, flight>>
      /\ reqs[r].op = "list" /\ reqs[r].scoped
  BY OldKnowing DEF Find, Knowing
<1>1. ASSUME Fail(r, "failed") PROVE TodoInv'
  <2>1. "failed" \in Codes \ {"ok"}
    BY DEF Codes
  <2>2. QED
    BY <1>0, <1>1, <2>1, FailKnowing
<1>2. ASSUME Answer(r, "ok", IF todo.owner = reqs[r].user THEN todo ELSE Zero) PROVE TodoInv'
  <2>1. PICK row : row = IF todo.owner = reqs[r].user THEN todo ELSE Zero
    OBVIOUS
  <2>2. row \in TodoRows /\ row.owner \in {reqs[r].user, NoRequest}
    BY <2>1, RecordFacts DEF TodoInv, RowInv
  <2>3. Answer(r, "ok", row)
    BY <1>2, <2>1
  <2>4. QED
    BY <1>0, <2>2, <2>3, SuccessKnowing
<1>3. QED
  BY <1>1, <1>2 DEF Find

-----------------------------------------------------------------------------
LEMMA CancelKnowing == ASSUME TodoInv, NEW r \in Requests, Cancel(r) PROVE TodoInv'
<1>1. /\ Executing(r) /\ UNCHANGED <<todo, claims, flight>>
      /\ reqs' = [reqs EXCEPT ![r].canceled = TRUE]
  BY DEF Cancel
<1>2. PICK rec : rec = [reqs[r] EXCEPT !.canceled = TRUE]
  OBVIOUS
<1>3. Knowing(reqs[r]) /\ reqs[r] \in RequestRecords
  BY OldKnowing
<1>4. /\ rec \in RequestRecords /\ rec.op = reqs[r].op /\ rec.user = reqs[r].user /\ rec.step = reqs[r].step
      /\ rec.seen = reqs[r].seen /\ rec.code = reqs[r].code
  BY <1>2, <1>3 DEF RequestRecords
<1>5. rec.scoped = reqs[r].scoped
  BY <1>2, <1>3 DEF RequestRecords
<1>6. Turns(r, rec)
  BY <1>1, <1>2, <1>4 DEF Turns, TodoInv
<1>7. Knowing(rec) /\ (Creates(rec) => Creates(reqs[r]))
  BY <1>3, <1>4, <1>5 DEF Knowing, TellsTheTruth, Fetched, Completing, Creates
<1>8. QED
  BY <1>1, <1>6, <1>7, RequestMoves

\* Moves within the executor, by name of the step.
LEMMA NextMoves ==
    ASSUME TodoInv, NEW r \in Requests, NEW step \in UseCaseSteps, Executing(r), Moves(r, step),
           step # "store" => reqs[r].seen.version = 1,
           step \in {"reread", "store"} => todo.status = "completed",
           todo' = todo, StoresKept
    PROVE  TodoInv'
<1>1. PICK rec : rec = [reqs[r] EXCEPT !.step = step]
  OBVIOUS
<1>2. Turns(r, rec)
  BY <1>1, StepFacts, RecordFacts
<1>3. rec.step = step /\ Same(rec, reqs[r])
  BY <1>1, OldKnowing DEF Same, RequestRecords
<1>4. QED
  BY <1>2, <1>3, ExecutorMoves

\* Again, after a statement of the database.
LEMMA AgainTurns ==
    ASSUME TodoInv, NEW r \in Requests, Again(r)
    PROVE  \E rec : /\ Turns(r, rec) /\ rec.step \in {"release", "update"} /\ Same(rec, reqs[r])
<1>1. reqs[r] \in RequestRecords
  BY OldKnowing
<1>2. CASE Moves(r, "release")
  <2>1. PICK rec : rec = [reqs[r] EXCEPT !.step = "release"]
    OBVIOUS
  <2>2. Turns(r, rec)
    BY <1>2, <2>1, StepFacts DEF AllSteps, UseCaseSteps
  <2>3. rec.step = "release" /\ Same(rec, reqs[r])
    BY <1>1, <2>1 DEF Same, RequestRecords
  <2>4. QED
    BY <2>2, <2>3
<1>3. CASE reqs' = [reqs EXCEPT ![r].step = "update", ![r].tries = @ + 1]
  <2>1. PICK rec : rec = [reqs[r] EXCEPT !.step = "update", !.tries = @ + 1]
    OBVIOUS
  <2>2. reqs[r].tries + 1 \in Nat /\ "update" \in AllSteps
    BY <1>1 DEF RequestRecords, AllSteps, UseCaseSteps
  <2>3. rec \in RequestRecords /\ rec.step = "update"
    BY <1>1, <2>1, <2>2 DEF RequestRecords
  <2>4. Same(rec, reqs[r])
    BY <1>1, <2>1 DEF Same, RequestRecords
  <2>5. Turns(r, rec)
    BY <1>3, <2>1, <2>3 DEF Turns, TodoInv
  <2>6. QED
    BY <2>3, <2>4, <2>5
<1>4. QED
  BY <1>2, <1>3 DEF Again

LEMMA AgainKnowing ==
    ASSUME TodoInv, NEW r \in Requests, Again(r), Executing(r), reqs[r].seen.version = 1,
           UNCHANGED <<todo, claims, flight>>
    PROVE  TodoInv'
<1>1. PICK rec : Turns(r, rec) /\ rec.step \in {"release", "update"} /\ Same(rec, reqs[r])
  BY AgainTurns
<1>2. "release" \in UseCaseSteps /\ "update" \in UseCaseSteps
  BY DEF UseCaseSteps
<1>3. StoresKept
  BY DEF StoresKept, TodoInv
<1>4. QED
  BY <1>1, <1>2, <1>3, ExecutorMoves

LEMMA ExecuteKnowing == ASSUME TodoInv, NEW r \in Requests, Execute(r) PROVE TodoInv'
<1>0. reqs[r].step = "execute" /\ UNCHANGED <<todo, claims, flight>> /\ Executing(r)
  BY DEF Execute, Executing
<1>1. Completing(reqs[r]) /\ reqs[r] \in RequestRecords
  BY <1>0, OldKnowing
<1>2. CASE Fail(r, "failed")
  <2>1. "failed" \in Codes \ {"ok"}
    BY DEF Codes
  <2>2. QED
    BY <1>0, <1>2, <2>1, FailKnowing
<1>3. CASE IsCompleted(r) /\ Answer(r, "ok", reqs[r].seen)
  <2>1. todo.status = "completed"
    BY <1>1, <1>3 DEF IsCompleted, Home, TodoInv, RequestRecords
  <2>2. /\ reqs[r].seen \in TodoRows /\ reqs[r].scoped /\ reqs[r].seen.owner \in {reqs[r].user, NoRequest}
        /\ todo.owner = reqs[r].user
    BY <1>1 DEF Completing, RequestRecords
  <2>3. QED
    BY <1>0, <1>3, <2>1, <2>2, SuccessKnowing
<1>4. CASE Moves(r, "flight")
  <2>1. StoresKept
    BY <1>0 DEF StoresKept, TodoInv
  <2>2. reqs[r].seen.version = 1
    BY <1>0, <1>1 DEF Completing
  <2>3. "flight" \in UseCaseSteps
    BY DEF UseCaseSteps
  <2>4. QED
    BY <1>0, <1>4, <2>1, <2>2, <2>3, NextMoves
<1>5. QED
  BY <1>2, <1>3, <1>4 DEF Execute

LEMMA BoardKnowing == ASSUME TodoInv, NEW r \in Requests, Board(r) PROVE TodoInv'
<1>0. reqs[r].step = "flight" /\ UNCHANGED <<todo, claims>> /\ Executing(r)
  BY DEF Board, Executing
<1>1. Completing(reqs[r])
  BY <1>0, OldKnowing
<1>2. StoresKept
  BY <1>0 DEF StoresKept, TodoInv, Board
<1>3. reqs[r].seen.version = 1
  BY <1>0, <1>1 DEF Completing
<1>4. "join" \in UseCaseSteps /\ "claim" \in UseCaseSteps
  BY DEF UseCaseSteps
<1>5. Moves(r, "join") \/ Moves(r, "claim")
  BY DEF Board
<1>6. QED
  BY <1>0, <1>2, <1>3, <1>4, <1>5, NextMoves

LEMMA ClaimKnowing == ASSUME TodoInv, NEW r \in Requests, Claim(r) PROVE TodoInv'
<1>0. reqs[r].step = "claim" /\ todo' = todo /\ Executing(r)
  BY DEF Claim, Executing
<1>1. Completing(reqs[r]) /\ reqs[r] \in RequestRecords
  BY <1>0, OldKnowing
<1>2. CASE Lands(r, "failed", Zero) /\ UNCHANGED claims
  BY <1>0, <1>2, LandsKnowing, RecordFacts DEF TodoInv
<1>3. CASE /\ reqs' = [reqs EXCEPT ![r].step = "update", ![r].tries = 1]
           /\ Claims(r, "running") /\ UNCHANGED flight
  <2>1. PICK rec : rec = [reqs[r] EXCEPT !.step = "update", !.tries = 1]
    OBVIOUS
  <2>2. "update" \in AllSteps /\ "update" \in UseCaseSteps
    BY DEF AllSteps, UseCaseSteps
  <2>3. rec \in RequestRecords /\ rec.step = "update"
    BY <1>1, <2>1, <2>2 DEF RequestRecords
  <2>4. Same(rec, reqs[r])
    BY <1>1, <2>1 DEF Same, RequestRecords
  <2>5. Turns(r, rec)
    BY <1>3, <2>1, <2>3 DEF Turns, TodoInv
  <2>6. StoresKept
    BY <1>3 DEF StoresKept, TodoInv, Claims
  <2>7. reqs[r].seen.version = 1
    BY <1>0, <1>1 DEF Completing
  <2>8. QED
    BY <1>0, <2>2, <2>3, <2>4, <2>5, <2>6, <2>7, ExecutorMoves
<1>4. QED
  BY <1>2, <1>3 DEF Claim

\* The update of the row: it hits only the Todo that is not yet completed.
LEMMA UpdateKnowing == ASSUME TodoInv, NEW r \in Requests, Update(r) PROVE TodoInv'
<1>0. reqs[r].step = "update" /\ UNCHANGED <<claims, flight>> /\ Executing(r)
  BY DEF Update, Executing
<1>1. Completing(reqs[r]) /\ reqs[r] \in RequestRecords /\ reqs[r].code # "ok"
  BY <1>0, OldKnowing
<1>2. reqs[r].seen.version = 1
  BY <1>0, <1>1 DEF Completing
<1>3. ASSUME todo' = todo, Moves(r, "release") \/ Again(r) PROVE TodoInv'
  <2>1. StoresKept
    BY <1>0 DEF StoresKept, TodoInv
  <2>2. "release" \in UseCaseSteps
    BY DEF UseCaseSteps
  <2>3. QED
    BY <1>0, <1>2, <1>3, <2>1, <2>2, NextMoves, AgainKnowing
<1>4. ASSUME Matches(r), todo' = [reqs[r].seen EXCEPT !.version = @ + 1], Moves(r, "reread") \/ Again(r)
      PROVE  TodoInv'
  <2>1. reqs[r].seen \in TodoRows
    BY <1>1 DEF RequestRecords
  <2>2. /\ todo' \in TodoRows /\ todo'.owner = reqs[r].user /\ todo'.status = "completed" /\ todo'.version = 2
    BY <1>1, <1>2, <1>4, <2>1 DEF TodoRows, Completing
  <2>3. There /\ todo.owner = reqs[r].user
    BY <1>1 DEF Completing
  <2>4. Grows /\ RowInv'
    BY <2>2, <2>3 DEF Grows, RowInv
  <2>5. CreatesAlone(r)
    BY <2>3, CompletingAlone DEF CreatesAlone
  <2>6. PICK rec : Turns(r, rec) /\ rec.step \in {"reread", "release", "update"} /\ Same(rec, reqs[r])
    <3>1. CASE Again(r)
      BY <3>1, AgainTurns
    <3>2. CASE Moves(r, "reread")
      <4>1. PICK rec : rec = [reqs[r] EXCEPT !.step = "reread"]
        OBVIOUS
      <4>2. Turns(r, rec)
        BY <3>2, <4>1, StepFacts DEF AllSteps, UseCaseSteps
      <4>3. rec.step = "reread" /\ Same(rec, reqs[r])
        BY <1>1, <4>1 DEF Same, RequestRecords
      <4>4. QED
        BY <4>2, <4>3
    <3>3. QED
      BY <1>4, <3>1, <3>2
  <2>7. Completing(rec)'
    BY <1>1, <1>2, <2>2, <2>3, <2>6 DEF Completing, Same, There
  <2>8. rec.op = "complete" /\ rec.code # "ok"
    BY <1>1, <2>6 DEF Same, Completing
  <2>9. Knowing(rec)' /\ ~Creates(rec)
    BY <2>6, <2>7, <2>8 DEF Knowing, TellsTheTruth, Creates
  <2>10. StoresKept
    BY <1>0 DEF StoresKept, TodoInv
  <2>11. QED
    BY <2>4, <2>5, <2>6, <2>9, <2>10, OneMoves
<1>5. QED
  BY <1>3, <1>4 DEF Update

LEMMA RereadKnowing == ASSUME TodoInv, NEW r \in Requests, Reread(r) PROVE TodoInv'
<1>0. reqs[r].step = "reread" /\ UNCHANGED <<todo, claims, flight>> /\ Executing(r)
  BY DEF Reread, Executing
<1>1. Completing(reqs[r]) /\ reqs[r] \in RequestRecords /\ reqs[r].code # "ok"
  BY <1>0, OldKnowing
<1>2. CASE Again(r)
  BY <1>0, <1>1, <1>2, AgainKnowing DEF Completing
<1>3. CASE reqs' = [reqs EXCEPT ![r].step = "store", ![r].seen = todo]
  <2>1. PICK rec : rec = [reqs[r] EXCEPT !.step = "store", !.seen = todo]
    OBVIOUS
  <2>2. todo \in TodoRows /\ "store" \in AllSteps
    BY DEF TodoInv, RowInv, AllSteps, UseCaseSteps
  <2>3. /\ rec \in RequestRecords /\ rec.step = "store" /\ rec.seen = todo
        /\ rec.op = reqs[r].op /\ rec.user = reqs[r].user /\ rec.code = reqs[r].code
    BY <1>1, <2>1, <2>2 DEF RequestRecords
  <2>4. rec.scoped = reqs[r].scoped
    BY <1>1, <2>1 DEF RequestRecords
  <2>5. Turns(r, rec)
    BY <1>3, <2>1, <2>3 DEF Turns, TodoInv
  <2>6. Completing(rec)
    BY <1>0, <1>1, <2>3, <2>4 DEF Completing
  <2>7. Knowing(rec) /\ ~Creates(rec)
    BY <1>1, <2>3, <2>6 DEF Knowing, TellsTheTruth, Creates, Completing
  <2>8. QED
    BY <1>0, <2>5, <2>7, RequestMoves
<1>4. QED
  BY <1>2, <1>3 DEF Reread

LEMMA StoreKnowing == ASSUME TodoInv, NEW r \in Requests, Store(r) \/ Release(r) PROVE TodoInv'
<1>0. reqs[r].step \in {"store", "release"} /\ todo' = todo /\ Executing(r)
  BY DEF Store, Release, Executing
<1>1. Completing(reqs[r]) /\ reqs[r] \in RequestRecords
  BY <1>0, OldKnowing
<1>2. CASE Store(r) /\ ~reqs[r].canceled
  <2>1. Lands(r, "ok", reqs[r].seen) /\ Claims(r, "completed") /\ reqs[r].step = "store"
    BY <1>2 DEF Store
  <2>2. todo.status = "completed" /\ reqs[r].seen \in TodoRows /\ reqs[r].seen.owner = reqs[r].user
    BY <1>1, <2>1 DEF Completing, RequestRecords
  <2>3. /\ claims' \in [Requests \cup {Server} -> {"free", "running", "completed"}]
        /\ todo'.status = "completed"
    BY <1>0, <2>1, <2>2 DEF Claims, TodoInv
  <2>4. QED
    BY <1>0, <2>1, <2>2, <2>3, LandsKnowing
<1>3. CASE ~(Store(r) /\ ~reqs[r].canceled)
  <2>1. Lands(r, "failed", Zero)
    BY <1>3 DEF Store, Release
  <2>2. /\ claims' \in [Requests \cup {Server} -> {"free", "running", "completed"}]
        /\ \A h \in Requests \cup {Server} : claims'[h] = "completed" => claims[h] = "completed"
    BY <1>3 DEF Store, Release, Claims, TodoInv
  <2>3. QED
    BY <1>0, <2>1, <2>2, LandsKnowing, RecordFacts
<1>4. QED
  BY <1>2, <1>3

LEMMA CrashKnowing ==
    ASSUME TodoInv, (\E r \in Requests : CommandDies(r)) \/ ServiceRestarts \/ StoreIsReplaced
    PROVE  TodoInv'
<1>1. Knowing(Idle) /\ ~Creates(Idle)
  BY RecordFacts DEF Knowing, TellsTheTruth, UseCaseSteps, Creates
<1>2. ASSUME NEW q \in Requests
      PROVE  \E rec \in RequestRecords :
                reqs'[q] = rec /\ Knowing(rec) /\ (Creates(rec) => Creates(reqs[q]))
  <2>1. reqs'[q] = Idle \/ reqs'[q] = reqs[q]
    BY DEF CommandDies, ServiceRestarts, StoreIsReplaced, TodoInv
  <2>2. CASE reqs'[q] = Idle
    BY <1>1, <2>2, RecordFacts
  <2>3. CASE reqs'[q] = reqs[q]
    BY <2>3, OldKnowing
  <2>4. QED
    BY <2>1, <2>2, <2>3
<1>3. reqs' \in [Requests -> RequestRecords]
  <2>1. \A q \in Requests : reqs'[q] \in RequestRecords
    BY <1>2
  <2>2. \E f : reqs' = [q \in Requests |-> f[q]]
    <3>1. reqs = [q \in Requests |-> reqs[q]]
      BY DEF TodoInv
    <3>2. CASE \E r \in Requests : CommandDies(r)
      <4>1. PICK r \in Requests : reqs' = [reqs EXCEPT ![r] = Idle]
        BY <3>2 DEF CommandDies
      <4>2. reqs' = [q \in Requests |-> reqs'[q]]
        BY <3>1, <4>1
      <4>3. QED
        BY <4>2
    <3>3. CASE ServiceRestarts
      <4>1. reqs' = [q \in Requests |-> reqs'[q]]
        BY <3>3 DEF ServiceRestarts
      <4>2. QED
        BY <4>1
    <3>4. CASE StoreIsReplaced
      BY <3>1, <3>4 DEF StoreIsReplaced
    <3>5. QED
      BY <3>2, <3>3, <3>4
  <2>3. QED
    BY <2>1, <2>2
<1>4. todo' = todo /\ StoresKept
  BY DEF CommandDies, ServiceRestarts, StoreIsReplaced, StoresKept, TodoInv
<1>5. QED
  BY <1>2, <1>3, <1>4, ManyMove

LEMMA TodoStep == ASSUME TodoInv, [TodoNext]_todoVars PROVE TodoInv'
<1>1. ASSUME NEW r \in Requests, NEW op \in {"create", "get", "list", "complete"}, NEW user \in Users,
             NEW scoped \in BOOLEAN, NEW home \in {Server, r}, Arrive(r, op, user, scoped, home)
      PROVE  TodoInv'
  BY <1>1, ArriveKnowing
<1>2. ASSUME NEW r \in Requests,
             \/ Fetch(r) \/ Enforce(r) \/ Insert(r) \/ Find(r)
             \/ Cancel(r) \/ Execute(r) \/ Board(r) \/ Claim(r) \/ Update(r) \/ Reread(r) \/ Store(r) \/ Release(r)
      PROVE  TodoInv'
  BY <1>2, FetchKnowing, EnforceKnowing, InsertKnowing, FindKnowing, CancelKnowing, ExecuteKnowing,
     BoardKnowing, ClaimKnowing, UpdateKnowing, RereadKnowing, StoreKnowing
<1>3. CASE (\E r \in Requests : CommandDies(r)) \/ ServiceRestarts \/ StoreIsReplaced
  BY <1>3, CrashKnowing
<1>4. CASE UNCHANGED todoVars
  BY <1>4 DEF todoVars, TodoInv, RowInv, Knowing, TellsTheTruth, Fetched, Completing, Creates, There, Zero, Row
<1>5. QED
  BY <1>1, <1>2, <1>3, <1>4 DEF TodoNext

LEMMA TodoInitially == ASSUME TodoInit PROVE TodoInv
<1>1. Knowing(Idle) /\ ~Creates(Idle)
  BY RecordFacts DEF Knowing, TellsTheTruth, UseCaseSteps, Creates
<1>2. RowInv
  BY RecordFacts DEF TodoInit, RowInv
<1>3. \A r \in Requests : reqs[r] = Idle
  BY DEF TodoInit
<1>4. reqs \in [Requests -> RequestRecords]
  BY RecordFacts DEF TodoInit
<1>5. QED
  BY <1>1, <1>2, <1>3, <1>4 DEF TodoInit, TodoInv

\* A completed Todo is not written again: an update asks for the version of a
\* Todo that was not.
LEMMA CompletedStays ==
    ASSUME TodoInv, [TodoNext]_todoVars, todo.status = "completed" PROVE UNCHANGED todo
<1>1. ASSUME NEW r \in Requests, Update(r) PROVE UNCHANGED todo
  <2>1. Completing(reqs[r]) /\ reqs[r].step = "update"
    BY <1>1, OldKnowing DEF Update, Executing
  <2>2. reqs[r].seen.version = 1 /\ todo.version = 2
    BY <2>1 DEF Completing, TodoInv, RowInv
  <2>3. ~Matches(r)
    BY <2>2 DEF Matches
  <2>4. QED
    BY <1>1, <2>3 DEF Update
<1>2. ASSUME NEW r \in Requests, Insert(r) PROVE UNCHANGED todo
  <2>1. Creates(reqs[r]) /\ todo = Zero
    BY <1>2, OldKnowing DEF Insert, Knowing, Creates
  <2>2. QED
    BY <2>1, RecordFacts
<1>3. ASSUME NEW r \in Requests,
             \/ \E op \in {"create", "get", "list", "complete"}, user \in Users, scoped \in BOOLEAN, home \in {Server, r} :
                   Arrive(r, op, user, scoped, home)
             \/ Fetch(r) \/ Enforce(r) \/ Find(r) \/ Cancel(r) \/ Execute(r) \/ Board(r) \/ Claim(r)
             \/ Reread(r) \/ Store(r) \/ Release(r) \/ CommandDies(r)
      PROVE  UNCHANGED todo
  BY <1>3 DEF Arrive, Fetch, Enforce, Find, Cancel, Execute, Board, Claim, Reread, Store, Release, CommandDies
<1>4. CASE ServiceRestarts \/ StoreIsReplaced \/ UNCHANGED todoVars
  BY <1>4 DEF ServiceRestarts, StoreIsReplaced, todoVars
<1>5. QED
  BY <1>1, <1>2, <1>3, <1>4 DEF TodoNext

\* Whoever is told of success may see what is shown and finds the Todo completed,
\* and a completed Todo stays as it is, for any number of requests and users and
\* any number of tries (Create, Get, List and Complete of the Todo service).
THEOREM CompletionIsSoundHolds == TodoSpec => CompletionIsSound
<1>1. TodoInit => TodoInv
  BY TodoInitially
<1>2. TodoInv /\ [TodoNext]_todoVars => TodoInv'
  BY TodoStep
<1>3. TodoInv => TodoTypeOK /\ AnswersAreTrue
  BY DEF TodoInv, RowInv, TodoRows, TodoTypeOK, AnswersAreTrue, Knowing, TellsTheTruth
<1>4. TodoInv /\ [TodoNext]_todoVars => [todo.status = "completed" => UNCHANGED todo]_todoVars
  BY CompletedStays
<1>5. QED
  BY <1>1, <1>2, <1>3, <1>4, PTL DEF TodoSpec, CompletionIsSound, CompletionStands
-----------------------------------------------------------------------------
(* Configuration sections. What the first layer accepts has passed what the *)
(* second one asks.                                                         *)

SectionInv ==
    /\ section \in Sections \cup Defaults
    /\ decoded = NotYet \/ decoded = DecodedFrom(section)
    /\ resource = NotYet \/ (decoded.state = "given" /\ resource = BuiltFrom(section, decoded))

\* An answer is what the resource says to a use that its component has.
UsesInv ==
    \/ uses = {}
    \/ /\ resource.state = "given"
       /\ \/ /\ section.component = "storage"
             /\ \E route \in Routes : uses = {<<route, Selected(resource, route)>>}
          \/ /\ section.component = "execution"
             /\ \E call \in Executions : uses = {<<call, RunsUnder(resource, call)>>}

ResourcesInv == SectionInv /\ UsesInv

\* What is given has the fields it was given, and is neither missing nor refused.
LEMMA GivenIs ==
    ASSUME NEW value
    PROVE  /\ Given(value).state = "given"
           /\ \A f \in DOMAIN value \ {"state"} : Given(value)[f] = value[f]
           /\ Given(value) \notin {NotYet, NotAccepted}
<1>1. Given(value).state = "given"
  BY DEF Given
<1>2. NotYet.state = "not yet" /\ NotAccepted.state = "refused"
  BY DEF NotYet, NotAccepted
<1>3. QED
  BY <1>1, <1>2 DEF Given

LEMMA Refused == NotAccepted.state = "refused" /\ NotYet.state = "not yet" /\ NotYet # NotAccepted
<1>1. NotAccepted.state = "refused" /\ NotYet.state = "not yet"
  BY DEF NotAccepted, NotYet
<1>2. QED
  BY <1>1

\* Trimming what has been trimmed changes nothing.
LEMMA TrimmedOnce == ASSUME NEW text PROVE Trim(Trim(text)) = Trim(text)
BY DEF Trim

\* An object section that is complete for the adapter is complete for the client.
LEMMA ObjectClientIsBuilt ==
    ASSUME NEW object, NEW from \in {"s3", "minio"}, NEW cfg,
           cfg = NormalObject(object, from), Complete(cfg), cfg.provider \in {"s3", "r2", "minio"}
    PROVE  /\ NewObjectClient(cfg, from).state = "given"
           /\ NewObjectClient(cfg, from).of = from
<1>1. /\ cfg.endpoint = Trim(object.endpoint) /\ cfg.bucket = Trim(object.bucket)
      /\ cfg.key = Trim(object.key) /\ cfg.secret = object.secret
  BY DEF NormalObject
<1>2. Trim(cfg.endpoint) = cfg.endpoint /\ Trim(cfg.bucket) = cfg.bucket
  BY <1>1, TrimmedOnce
<1>3. Trim(Default(cfg.provider, from)) = cfg.provider
  BY DEF Trim, Default
<1>4. cfg = [provider |-> cfg.provider, endpoint |-> cfg.endpoint, bucket |-> cfg.bucket,
             key |-> cfg.key, secret |-> cfg.secret, region |-> cfg.region]
  BY DEF NormalObject
<1>5. PICK region : [cfg EXCEPT !.provider = Trim(Default(@, from)), !.bucket = Trim(@), !.endpoint = Trim(@),
                              !.region = Default(Trim(@), IF cfg.provider = "r2" THEN "auto" ELSE "us-east-1")]
                    = [cfg EXCEPT !.region = region]
  <2> DEFINE region == Default(Trim(cfg.region), IF cfg.provider = "r2" THEN "auto" ELSE "us-east-1")
  <2>1. [cfg EXCEPT !.provider = Trim(Default(@, from)), !.bucket = Trim(@), !.endpoint = Trim(@), !.region = region]
           = [cfg EXCEPT !.region = region]
    BY <1>2, <1>3, <1>4
  <2>2. QED
    BY <2>1
<1> DEFINE new == [cfg EXCEPT !.region = region]
<1>6. new.provider = cfg.provider /\ Complete(new)
  BY <1>4 DEF Complete
<1>7. NewObjectClient(cfg, from) = Given([of |-> from, pathStyle |-> new.provider = "minio"])
  BY <1>5, <1>6 DEF NewObjectClient
<1>8. QED
  BY <1>7 DEF Given
Drivers == {"disabled", "local", "s3", "minio", "local+s3", "local+minio"}

\* The manager has a client for each half of its driver, of that half's section.
LEMMA StorageIsBuilt ==
    ASSUME NEW s, NEW built, DecodeStorage(s) # NotAccepted, built = BuildStorage(DecodeStorage(s))
    PROVE  /\ built.state = "given" /\ built.driver \in Drivers
           /\ built.local = IF HasLocal(built.driver) THEN Given([of |-> "local"]) ELSE NoClient
           /\ HasS3(built.driver) => built.object.state = "given" /\ built.object.of = "s3"
           /\ HasMinIO(built.driver) => built.object.state = "given" /\ built.object.of = "minio"
           /\ ~HasS3(built.driver) /\ ~HasMinIO(built.driver) => built.object = NoClient
<1> DEFINE plain == [driver |-> Trim(s.driver), base |-> Trim(s.base),
                     s3 |-> NormalObject(s.s3, "s3"), minio |-> NormalObject(s.minio, "minio")]
           cfg == DecodeStorage(s)
<1>1. /\ cfg = Given(plain)
      /\ plain.driver = "disabled" \/ HasLocal(plain.driver) \/ HasS3(plain.driver) \/ HasMinIO(plain.driver)
      /\ HasS3(plain.driver) => plain.s3.provider \in {"s3", "r2"} /\ Complete(plain.s3)
      /\ HasMinIO(plain.driver) => plain.minio.provider = "minio" /\ Complete(plain.minio)
  BY DEF DecodeStorage
<1>2. cfg.driver = plain.driver /\ cfg.s3 = plain.s3 /\ cfg.minio = plain.minio
  BY <1>1 DEF Given
<1>3. plain.driver \in Drivers
  BY <1>1 DEF Drivers, HasLocal, HasS3, HasMinIO
<1> DEFINE near == IF HasLocal(cfg.driver) THEN Given([of |-> "local"]) ELSE NoClient
           far == IF HasS3(cfg.driver) THEN NewObjectClient(cfg.s3, "s3")
                  ELSE IF HasMinIO(cfg.driver) THEN NewObjectClient(cfg.minio, "minio") ELSE NoClient
<1>4. near # NotAccepted
  <2>1. NoClient.state = "nil"
    BY DEF NoClient
  <2>2. QED
    BY <2>1, Refused, GivenIs
<1>5. /\ HasS3(cfg.driver) => far.state = "given" /\ far.of = "s3"
      /\ HasMinIO(cfg.driver) => far.state = "given" /\ far.of = "minio"
      /\ ~HasS3(cfg.driver) /\ ~HasMinIO(cfg.driver) => far = NoClient
  <2>1. CASE HasS3(cfg.driver)
    <3>1. NewObjectClient(cfg.s3, "s3").state = "given" /\ NewObjectClient(cfg.s3, "s3").of = "s3"
      BY <1>1, <1>2, <2>1, ObjectClientIsBuilt
    <3>2. ~HasMinIO(cfg.driver)
      BY <2>1 DEF HasS3, HasMinIO
    <3>3. QED
      BY <2>1, <3>1, <3>2
  <2>2. CASE ~HasS3(cfg.driver) /\ HasMinIO(cfg.driver)
    <3>1. NewObjectClient(cfg.minio, "minio").state = "given" /\ NewObjectClient(cfg.minio, "minio").of = "minio"
      BY <1>1, <1>2, <2>2, ObjectClientIsBuilt
    <3>2. QED
      BY <2>2, <3>1
  <2>3. CASE ~HasS3(cfg.driver) /\ ~HasMinIO(cfg.driver)
    BY <2>3
  <2>4. QED
    BY <2>1, <2>2, <2>3
<1>6. far # NotAccepted
  <2>1. NoClient.state = "nil"
    BY DEF NoClient
  <2>2. QED
    BY <1>5, <2>1, Refused
<1>7. BuildStorage(cfg) = Manager(cfg.driver, near, far)
  BY DEF BuildStorage
<1>8. Manager(cfg.driver, near, far) = Given([driver |-> cfg.driver, local |-> near, object |-> far])
  BY <1>4, <1>6 DEF Manager
<1>9. built.state = "given" /\ built.driver = cfg.driver /\ built.local = near /\ built.object = far
  BY <1>7, <1>8 DEF Given
<1>10. QED
  BY <1>2, <1>3, <1>5, <1>9

\* A route reaches a client of the driver's own section, or none.
LEMMA RoutesAreSelected ==
    ASSUME NEW s, NEW built, DecodeStorage(s) # NotAccepted, built = BuildStorage(DecodeStorage(s)),
           NEW route \in Routes, NEW got, got = Selected(built, route)
    PROVE  /\ (got = "disabled") = (built.driver = "disabled")
           /\ got = "local" => HasLocal(built.driver) /\ route # "object"
           /\ got = "s3" => HasS3(built.driver) /\ route # "local"
           /\ got = "minio" => HasMinIO(built.driver) /\ route # "local"
           /\ route = "primary" => got # "unavailable"
<1> DEFINE d == built.driver
<1>1. /\ d \in Drivers
      /\ HasLocal(d) => built.local.of = "local" /\ built.local.state = "given"
      /\ ~HasLocal(d) => built.local = NoClient
      /\ HasS3(d) => built.object.state = "given" /\ built.object.of = "s3"
      /\ HasMinIO(d) => built.object.state = "given" /\ built.object.of = "minio"
      /\ ~HasS3(d) /\ ~HasMinIO(d) => built.object = NoClient
  <2>1. Given([of |-> "local"]).of = "local" /\ Given([of |-> "local"]).state = "given"
    BY DEF Given
  <2>2. QED
    BY <2>1, StorageIsBuilt
<1>2. NoClient.state = "nil"
  BY DEF NoClient
<1>3. d # "disabled" => HasLocal(d) \/ HasS3(d) \/ HasMinIO(d)
  BY <1>1 DEF Drivers, HasLocal, HasS3, HasMinIO
<1>4. ~(HasS3(d) /\ HasMinIO(d))
  BY DEF HasS3, HasMinIO
<1>5. d = "disabled" => got = "disabled"
  BY DEF Selected
<1>6. CASE d # "disabled"
  <2> DEFINE chosen == IF route = "local" \/ (route = "primary" /\ built.object = NoClient) THEN built.local ELSE built.object
  <2>1. got = IF chosen = NoClient THEN "unavailable" ELSE chosen.of
    BY <1>6 DEF Selected
  <2>2. CASE chosen = NoClient
    <3>1. route # "primary"
      BY <1>1, <1>2, <1>3, <1>6, <2>2
    <3>2. QED
      BY <1>6, <2>1, <2>2, <3>1
  <2>3. CASE chosen # NoClient
    <3>1. got = chosen.of
      BY <2>1, <2>3
    <3>2. CASE route = "local" \/ (route = "primary" /\ built.object = NoClient)
      <4>1. HasLocal(d) /\ got = "local"
        BY <1>1, <2>3, <3>1, <3>2
      <4>2. QED
        BY <1>6, <3>2, <4>1
    <3>3. CASE ~(route = "local" \/ (route = "primary" /\ built.object = NoClient))
      <4>1. (HasS3(d) /\ got = "s3") \/ (HasMinIO(d) /\ got = "minio")
        BY <1>1, <2>3, <3>1, <3>3
      <4>2. QED
        BY <1>6, <3>3, <4>1
    <3>4. QED
      BY <3>2, <3>3
  <2>4. QED
    BY <2>2, <2>3
<1>7. QED
  BY <1>5, <1>6 DEF HasLocal, HasS3, HasMinIO, Selected
\* A section that can be resolved is resolved the same again when it is built.
LEMMA DatabaseIsBuilt ==
    ASSUME NEW s, s.open \in Int, s.idle \in Int, s.timeout \in Int,
           NEW built, DecodeDatabase(s) # NotAccepted, built = BuildDatabase(DecodeDatabase(s))
    PROVE  /\ built.state = "given"
           /\ built.open > 0 => built.idle <= built.open
           /\ built.dsn = ":memory:" /\ built.driver = "sqlite" => built.open = 1
<1> DEFINE plain == [driver |-> s.driver, dsn |-> s.dsn, open |-> s.open, idle |-> s.idle, timeout |-> s.timeout]
           cfg == DecodeDatabase(s)
           dialect == Default(s.driver, "sqlite")
           dsn == Default(Trim(s.dsn), IF dialect = "sqlite" THEN "file" ELSE "")
           whole == [driver |-> dialect, dsn |-> dsn, open |-> NonZero(s.open, 25), idle |-> NonZero(s.idle, 5),
                     timeout |-> NonZero(s.timeout, 5)]
<1>1. cfg = Given(plain) /\ ResolveDatabase(plain) # NotAccepted
  BY DEF DecodeDatabase
<1>2. /\ cfg.driver = s.driver /\ cfg.dsn = s.dsn /\ cfg.open = s.open
      /\ cfg.idle = s.idle /\ cfg.timeout = s.timeout
  BY <1>1 DEF Given
<1>3. ResolveDatabase(cfg) = ResolveDatabase(plain)
  BY <1>2 DEF ResolveDatabase
<1>4. /\ ResolveDatabase(plain) = Given(whole)
      /\ whole.open > 0 => whole.idle <= whole.open
  BY <1>1 DEF ResolveDatabase
<1> DEFINE resolved == ResolveDatabase(cfg)
<1>5. /\ resolved.state = "given" /\ resolved.open = whole.open /\ resolved.idle = whole.idle
      /\ resolved.driver = whole.driver /\ resolved.dsn = whole.dsn
      /\ resolved = [f \in {"driver", "dsn", "open", "idle", "timeout", "state"} |-> resolved[f]]
  BY <1>3, <1>4 DEF Given
<1>6. CASE resolved.driver = "sqlite" /\ resolved.dsn = ":memory:"
  <2>1. built = [resolved EXCEPT !.open = 1, !.idle = 1]
    BY <1>5, <1>6 DEF BuildDatabase
  <2>2. ASSUME NEW r, r = [f \in {"driver", "dsn", "open", "idle", "timeout", "state"} |-> r[f]],
               NEW pooled, pooled = [r EXCEPT !.open = 1, !.idle = 1]
        PROVE  pooled.state = r.state /\ pooled.open = 1 /\ pooled.idle = 1
    BY <2>2
  <2>3. built.state = "given" /\ built.open = 1 /\ built.idle = 1
    BY <1>5, <2>1, <2>2
  <2>4. QED
    BY <2>3
<1>7. CASE ~(resolved.driver = "sqlite" /\ resolved.dsn = ":memory:")
  <2>1. built = resolved
    BY <1>7 DEF BuildDatabase
  <2>2. QED
    BY <1>4, <1>5, <1>7, <2>1
<1>8. QED
  BY <1>6, <1>7

LEMMA CacheIsBuilt ==
    ASSUME NEW cfg, NEW built, built = BuildCache(cfg)
    PROVE  built.state = "given" /\ (built.coordination = "redis") = built.client
BY DEF BuildCache, Given

\* What the recovery and the recorder get is positive, whatever is configured.
LEMMA ExecutionIsBuilt ==
    ASSUME NEW s, IsSection(s), s.component = "execution",
           NEW built, DecodeExecution(s) # NotAccepted, built = BuildExecution(DecodeExecution(s))
    PROVE  /\ built.state = "given" /\ built.driver = Trim(s.driver) /\ built.driver \in {"disabled", "memory"}
           /\ built.driver = "memory" =>
                 /\ built.retry = s.retry /\ built.policies = s.policies
                 /\ built.async.capacity > 0
                 /\ \A f \in DOMAIN built.recovery \ {"overflow"} : built.recovery[f] > 0
<1> DEFINE plain == [driver |-> Trim(s.driver), retry |-> s.retry, policies |-> s.policies,
                     recovery |-> [s.recovery EXCEPT !.overflow = Default(@, "discard")],
                     async |-> [s.async EXCEPT !.overflow = Default(@, "discard")]]
           cfg == DecodeExecution(s)
<1>1. /\ s.recovery \in [probe : Int, initial : Int, max : Int, verify : Int, capacity : Int,
                         overflow : {s.recovery.overflow}]
      /\ s.async \in [capacity : Int, overflow : {s.async.overflow}]
  BY DEF IsSection
<1>2. cfg = Given(plain) /\ plain.driver \in {"disabled", "memory"}
  BY DEF DecodeExecution
<1>3. /\ cfg.driver = Trim(s.driver) /\ cfg.retry = s.retry /\ cfg.policies = s.policies
      /\ cfg.recovery = plain.recovery /\ cfg.async = plain.async
  BY <1>2 DEF Given
<1>4. CASE cfg.driver = "disabled"
  <2>1. built = Given([driver |-> "disabled"])
    BY <1>4 DEF BuildExecution
  <2>2. QED
    BY <1>3, <1>4, <2>1 DEF Given
<1>5. CASE cfg.driver # "disabled"
  <2> DEFINE recovery == RecoveryConfig(plain.recovery)
             async == AsyncConfig(plain.async)
  <2>1. built = Given([driver |-> "memory", retry |-> s.retry, policies |-> s.policies,
                       recovery |-> recovery, async |-> async])
    BY <1>3, <1>5 DEF BuildExecution
  <2>2. async.capacity > 0
    <3>1. plain.async \in [capacity : Int, overflow : {plain.async.overflow}]
      BY <1>1
    <3>2. QED
      BY <3>1 DEF AsyncConfig, Positive
  <2>3. \A f \in DOMAIN recovery \ {"overflow"} : recovery[f] > 0
    <3> DEFINE kept == plain.recovery
    <3>1. /\ DOMAIN kept = {"probe", "initial", "max", "verify", "capacity", "overflow"}
          /\ \A f \in DOMAIN kept \ {"overflow"} : kept[f] \in Int
      BY <1>1
    <3>2. /\ DOMAIN RecoveryDefaults = {"probe", "initial", "max", "verify", "capacity"}
          /\ \A f \in DOMAIN RecoveryDefaults : RecoveryDefaults[f] > 0
      BY DEF RecoveryDefaults
    <3> HIDE DEF kept
    <3>3. /\ DOMAIN RecoveryConfig(kept) = DOMAIN kept
          /\ \A f \in DOMAIN RecoveryDefaults :
                f \in DOMAIN kept => RecoveryConfig(kept)[f] = Positive(kept[f], RecoveryDefaults[f])
      BY DEF RecoveryConfig
    <3>4. \A f \in DOMAIN RecoveryConfig(kept) \ {"overflow"} : RecoveryConfig(kept)[f] > 0
      BY <3>1, <3>2, <3>3 DEF Positive
    <3>5. QED
      BY <3>4 DEF kept
  <2> HIDE DEF recovery, async
  <2>4. /\ built.state = "given" /\ built.driver = "memory" /\ built.retry = s.retry /\ built.policies = s.policies
        /\ built.recovery = recovery /\ built.async = async
    BY <2>1 DEF Given
  <2>5. QED
    BY <1>2, <1>3, <1>5, <2>2, <2>3, <2>4
<1>6. QED
  BY <1>4, <1>5
\* A call runs under the policy it names, or under its own and the section's.
LEMMA CallsAreIsolated ==
    ASSUME IsSection(section), section.component = "execution", NEW built, DecodeExecution(section) # NotAccepted,
           built = BuildExecution(DecodeExecution(section)), NEW call \in Executions
    PROVE  IsolatedBySection(call, RunsUnder(built, call))
<1> DEFINE got == RunsUnder(built, call)
<1>1. /\ built.driver = Trim(section.driver) /\ built.driver \in {"disabled", "memory"}
      /\ built.driver = "memory" => built.retry = section.retry /\ built.policies = section.policies
  BY ExecutionIsBuilt
<1>2. \A name \in DOMAIN section.policies : section.policies[name].timeout \in Int
  BY DEF IsSection
<1>3. call.retry \in RetryFields
  BY SectionsAssumption
<1>4. CASE built.driver = "disabled"
  <2>1. got = [state |-> "disabled"]
    BY <1>4 DEF RunsUnder
  <2>2. QED
    BY <1>1, <1>4, <2>1 DEF IsolatedBySection
<1>5. CASE built.driver = "memory" /\ call.policy = ""
  <2> DEFINE retry == IF call.retry.attempts = 0 THEN built.retry ELSE call.retry
  <2>1. got = Given([retry |-> retry, timeout |-> call.timeout])
    BY <1>5 DEF RunsUnder
  <2>2. got.state = "given" /\ got.retry = retry /\ got.timeout = call.timeout
    BY <2>1 DEF Given
  <2>3. section.retry \in RetryFields
    BY DEF IsSection
  <2>4. Attempts(got.retry) >= 1
    <3>1. got.retry \in RetryFields
      BY <1>1, <1>3, <1>5, <2>2, <2>3
    <3>2. got.retry.attempts \in Int
      BY <3>1 DEF RetryFields
    <3>3. QED
      BY <3>2 DEF Attempts, Positive
  <2>5. QED
    BY <1>1, <1>5, <2>2, <2>4 DEF IsolatedBySection
<1>6. CASE built.driver = "memory" /\ call.policy # "" /\ call.policy \in DOMAIN built.policies
  <2> DEFINE spec == section.policies[call.policy]
  <2>1. got = Given([retry |-> spec.retry, timeout |-> Positive(spec.timeout, call.timeout)])
    BY <1>1, <1>6 DEF RunsUnder
  <2>2. got.state = "given" /\ got.retry = spec.retry /\ got.timeout = Positive(spec.timeout, call.timeout)
    BY <2>1 DEF Given
  <2>3. spec.timeout \in Int
    BY <1>1, <1>2, <1>6
  <2>4. spec.timeout > 0 => got.timeout = spec.timeout
    BY <2>2, <2>3 DEF Positive
  <2>5. QED
    BY <1>1, <1>6, <2>2, <2>4 DEF IsolatedBySection
<1>7. CASE built.driver = "memory" /\ call.policy # "" /\ call.policy \notin DOMAIN built.policies
  <2>1. got = [state |-> "unknown"]
    BY <1>7 DEF RunsUnder
  <2>2. got.state = "unknown"
    BY <2>1
  <2>3. QED
    BY <1>1, <1>7, <2>2 DEF IsolatedBySection
<1>8. QED
  BY <1>1, <1>4, <1>5, <1>6, <1>7

-----------------------------------------------------------------------------
\* What a component declares as its defaults is a section, and is accepted as it is.
Plain(s) == [f \in DOMAIN s \ {"component"} |-> s[f]]

LEMMA DefaultsAre ==
    ASSUME NEW s \in Defaults
    PROVE  /\ s.component = "storage" => s = DefaultStorage
           /\ s.component = "cache" => s = DefaultCache
           /\ s.component = "database" => s = DefaultDatabase
           /\ s.component = "execution" => s = DefaultExecution
           /\ s.component \in {"storage", "cache", "database", "execution"}
<1>1. DefaultStorage.component = "storage"
  BY DEF DefaultStorage
<1>2. DefaultCache.component = "cache"
  BY DEF DefaultCache
<1>3. DefaultDatabase.component = "database"
  BY DEF DefaultDatabase
<1>4. DefaultExecution.component = "execution"
  BY DEF DefaultExecution
<1>5. QED
  BY <1>1, <1>2, <1>3, <1>4 DEF Defaults

LEMMA DefaultsAreSections ==
    ASSUME NEW s \in Defaults PROVE IsSection(s)
<1>1. CASE s.component \in {"storage", "cache"}
  BY <1>1 DEF IsSection
<1>2. CASE s.component = "database"
  <2>1. s = DefaultDatabase
    BY <1>2, DefaultsAre
  <2>2. {s.open, s.idle, s.timeout} \subseteq Int
    BY <2>1 DEF DefaultDatabase
  <2>3. QED
    BY <1>2, <2>2 DEF IsSection
<1>3. CASE s.component = "execution"
  <2> DEFINE retry == [attempts |-> 3, wait |-> 50, max |-> 500]
             recovery == [probe |-> 1000, initial |-> 200, max |-> 30000, verify |-> 1, capacity |-> 1000,
                          overflow |-> "discard"]
             async == [capacity |-> 1000, overflow |-> "discard"]
  <2>1. s.retry = retry /\ s.recovery = recovery /\ s.async = async /\ s.policies = << >>
    BY <1>3, DefaultsAre DEF DefaultExecution
  <2>2. retry \in RetryFields
    BY DEF RetryFields
  <2>3. /\ recovery \in [probe : Int, initial : Int, max : Int, verify : Int, capacity : Int,
                         overflow : {recovery.overflow}]
        /\ async \in [capacity : Int, overflow : {async.overflow}]
    OBVIOUS
  <2>4. DOMAIN << >> = {}
    OBVIOUS
  <2> HIDE DEF retry, recovery, async
  <2>5. QED
    BY <1>3, <2>1, <2>2, <2>3, <2>4 DEF IsSection
<1>4. QED
  BY <1>1, <1>2, <1>3, DefaultsAre

LEMMA DefaultsAreKept ==
    ASSUME NEW s \in Defaults PROVE DecodedFrom(s) = Given(Plain(s))
<1>1. CASE s = DefaultStorage
  <2> DEFINE object(p) == [provider |-> p, endpoint |-> "", bucket |-> "", key |-> "", secret |-> "", region |-> "us-east-1"]
             plain == [driver |-> "local", base |-> ".data/storage", s3 |-> object("s3"), minio |-> object("minio")]
  <2>1. DecodedFrom(s) = DecodeStorage(DefaultStorage)
    BY <1>1 DEF DecodedFrom, DefaultStorage
  <2>2. DefaultStorage = [component |-> "storage", driver |-> "local", base |-> ".data/storage",
                          s3 |-> object("s3"), minio |-> object("minio")]
    BY DEF DefaultStorage
  <2>3. \A p \in {"s3", "minio"} : NormalObject(object(p), p) = object(p)
    BY DEF NormalObject, Trim, Default
  <2>4. DecodeStorage(DefaultStorage) = Given(plain)
    <3>1. /\ NormalObject(DefaultStorage.s3, "s3") = object("s3")
          /\ NormalObject(DefaultStorage.minio, "minio") = object("minio")
      BY <2>2, <2>3
    <3>2. /\ DefaultStorage.driver = "local" /\ Trim("local") = "local"
          /\ DefaultStorage.base = ".data/storage" /\ Trim(".data/storage") = ".data/storage"
      BY <2>2 DEF Trim
    <3>3. QED
      BY <3>1, <3>2 DEF DecodeStorage, HasLocal, HasS3, HasMinIO
  <2>5. Plain(s) = plain
    <3>1. DOMAIN s \ {"component"} = {"driver", "base", "s3", "minio"}
      BY <1>1, <2>2
    <3>2. s.driver = "local" /\ s.base = ".data/storage" /\ s.s3 = object("s3") /\ s.minio = object("minio")
      BY <1>1, <2>2
    <3> HIDE DEF object
    <3>3. QED
      BY <3>1, <3>2 DEF Plain
  <2>6. QED
    BY <2>1, <2>4, <2>5
<1>2. CASE s = DefaultCache
  <2> DEFINE plain == [driver |-> "disabled", address |-> "127.0.0.1:6379", pool |-> 0, idle |-> 0, timeout |-> 5]
  <2>1. DecodedFrom(s) = Given(plain)
    BY <1>2 DEF DecodedFrom, DefaultCache, DecodeCache, Trim, NonZero
  <2>2. DOMAIN s \ {"component"} = {"driver", "address", "pool", "idle", "timeout"}
    BY <1>2 DEF DefaultCache
  <2>3. Plain(s) = plain
    BY <1>2, <2>2 DEF Plain, DefaultCache
  <2>4. QED
    BY <2>1, <2>3
<1>3. CASE s = DefaultDatabase
  <2> DEFINE plain == [driver |-> "sqlite", dsn |-> ".data/app.db", open |-> 25, idle |-> 5, timeout |-> 5]
  <2>1. DecodedFrom(s) = IF ResolveDatabase(plain) = NotAccepted THEN NotAccepted ELSE Given(plain)
    BY <1>3 DEF DecodedFrom, DefaultDatabase, DecodeDatabase
  <2>2. ResolveDatabase(plain) = Given(plain)
    BY DEF ResolveDatabase, Trim, Default, NonZero
  <2>3. DecodedFrom(s) = Given(plain)
    BY <2>1, <2>2, GivenIs
  <2>4. DOMAIN s \ {"component"} = {"driver", "dsn", "open", "idle", "timeout"}
    BY <1>3 DEF DefaultDatabase
  <2>5. Plain(s) = plain
    BY <1>3, <2>4 DEF Plain, DefaultDatabase
  <2>6. QED
    BY <2>3, <2>5
<1>4. CASE s = DefaultExecution
  <2> DEFINE retry == [attempts |-> 3, wait |-> 50, max |-> 500]
             recovery == [probe |-> 1000, initial |-> 200, max |-> 30000, verify |-> 1, capacity |-> 1000,
                          overflow |-> "discard"]
             async == [capacity |-> 1000, overflow |-> "discard"]
             plain == [driver |-> "memory", retry |-> retry, policies |-> << >>, recovery |-> recovery, async |-> async]
  <2>1. DecodedFrom(s) = DecodeExecution(DefaultExecution)
    BY <1>4 DEF DecodedFrom, DefaultExecution
  <2>2. DefaultExecution = [component |-> "execution", driver |-> "memory", policies |-> << >>, retry |-> retry,
                            recovery |-> recovery, async |-> async]
    BY DEF DefaultExecution
  <2>3. /\ [recovery EXCEPT !.overflow = Default(@, "discard")] = recovery
        /\ [async EXCEPT !.overflow = Default(@, "discard")] = async
    BY DEF Default
  <2>4. DOMAIN << >> = {}
    OBVIOUS
  <2>5. DecodeExecution(DefaultExecution) = Given(plain)
    <3>1. /\ DefaultExecution.driver = "memory" /\ Trim("memory") = "memory"
          /\ DefaultExecution.retry = retry /\ DefaultExecution.policies = << >>
          /\ DefaultExecution.recovery = recovery /\ DefaultExecution.async = async
      BY <2>2 DEF Trim
    <3>2. \A f \in DOMAIN recovery \ {"overflow"} : recovery[f] >= 0
      OBVIOUS
    <3>3. QED
      BY <2>3, <2>4, <3>1, <3>2 DEF DecodeExecution, Overflows
  <2>6. Plain(s) = plain
    <3>1. DOMAIN s \ {"component"} = {"driver", "retry", "policies", "recovery", "async"}
      BY <1>4, <2>2
    <3>2. QED
      BY <1>4, <2>2, <3>1 DEF Plain
  <2>7. QED
    BY <2>1, <2>5, <2>6
<1>5. QED
  BY <1>1, <1>2, <1>3, <1>4 DEF Defaults
-----------------------------------------------------------------------------
LEMMA SectionsAre ==
    ASSUME section \in Sections \cup Defaults
    PROVE  /\ IsSection(section)
           /\ section.component \in {"storage", "cache", "database", "execution"}
<1>1. IsSection(section)
  BY SectionsAssumption, DefaultsAreSections
<1>2. QED
  BY <1>1 DEF IsSection

\* Per component, what is given to it and what it builds.
LEMMA Dispatch ==
    ASSUME NEW s, NEW cfg
    PROVE  /\ s.component = "storage" => DecodedFrom(s) = DecodeStorage(s) /\ BuiltFrom(s, cfg) = BuildStorage(cfg)
           /\ s.component = "cache" => DecodedFrom(s) = DecodeCache(s) /\ BuiltFrom(s, cfg) = BuildCache(cfg)
           /\ s.component = "database" => DecodedFrom(s) = DecodeDatabase(s) /\ BuiltFrom(s, cfg) = BuildDatabase(cfg)
           /\ s.component = "execution" => DecodedFrom(s) = DecodeExecution(s) /\ BuiltFrom(s, cfg) = BuildExecution(cfg)
BY DEF DecodedFrom, BuiltFrom

\* A decoded section is refused or given, and one that is given was not refused.
LEMMA DecodedIs ==
    ASSUME SectionInv
    PROVE  /\ decoded.state \in {"not yet", "refused", "given"}
           /\ decoded.state = "given" => decoded = DecodedFrom(section) /\ decoded # NotAccepted
<1>1. section.component \in {"storage", "cache", "database", "execution"}
  BY SectionsAre DEF SectionInv
<1>2. /\ DecodeStorage(section) = NotAccepted \/ DecodeStorage(section).state = "given"
      /\ DecodeCache(section) = NotAccepted \/ DecodeCache(section).state = "given"
      /\ DecodeDatabase(section) = NotAccepted \/ DecodeDatabase(section).state = "given"
      /\ DecodeExecution(section) = NotAccepted \/ DecodeExecution(section).state = "given"
  <2>1. DecodeStorage(section) = NotAccepted \/ DecodeStorage(section).state = "given"
    BY GivenIs DEF DecodeStorage
  <2>2. DecodeCache(section) = NotAccepted \/ DecodeCache(section).state = "given"
    BY GivenIs DEF DecodeCache
  <2>3. DecodeDatabase(section) = NotAccepted \/ DecodeDatabase(section).state = "given"
    BY GivenIs DEF DecodeDatabase
  <2>4. DecodeExecution(section) = NotAccepted \/ DecodeExecution(section).state = "given"
    BY GivenIs DEF DecodeExecution
  <2>5. QED
    BY <2>1, <2>2, <2>3, <2>4
<1>3. DecodedFrom(section) = NotAccepted \/ DecodedFrom(section).state = "given"
  BY <1>1, <1>2, Dispatch
<1>4. QED
  BY <1>3, Refused DEF SectionInv

\* What has been built is what the second layer makes of a section that was accepted.
LEMMA ResourceIs ==
    ASSUME SectionInv, resource # NotYet
    PROVE  /\ resource.state = "given"
           /\ section.component = "storage" =>
                DecodeStorage(section) # NotAccepted /\ resource = BuildStorage(DecodeStorage(section))
           /\ section.component = "cache" => \E cfg : resource = BuildCache(cfg)
           /\ section.component = "database" =>
                /\ {section.open, section.idle, section.timeout} \subseteq Int
                /\ DecodeDatabase(section) # NotAccepted /\ resource = BuildDatabase(DecodeDatabase(section))
           /\ section.component = "execution" =>
                DecodeExecution(section) # NotAccepted /\ resource = BuildExecution(DecodeExecution(section))
<1>1. /\ decoded = DecodedFrom(section) /\ decoded # NotAccepted
      /\ resource = BuiltFrom(section, decoded)
  BY DecodedIs DEF SectionInv
<1>2. IsSection(section) /\ section.component \in {"storage", "cache", "database", "execution"}
  BY SectionsAre DEF SectionInv
<1>3. CASE section.component = "storage"
  BY <1>1, <1>3, Dispatch, StorageIsBuilt
<1>4. CASE section.component = "cache"
  BY <1>1, <1>4, Dispatch, CacheIsBuilt
<1>5. CASE section.component = "database"
  <2>1. {section.open, section.idle, section.timeout} \subseteq Int
    BY <1>2, <1>5 DEF IsSection
  <2>2. QED
    BY <1>1, <1>5, <2>1, Dispatch, DatabaseIsBuilt
<1>6. CASE section.component = "execution"
  BY <1>1, <1>2, <1>6, Dispatch, ExecutionIsBuilt
<1>7. QED
  BY <1>2, <1>3, <1>4, <1>5, <1>6

LEMMA AcceptedIsBuiltNow ==
    ASSUME ResourcesInv PROVE ResourcesTypeOK /\ AcceptedIsBuilt
<1>1. SectionInv /\ UsesInv
  BY DEF ResourcesInv
<1>2. section.component \in {"storage", "cache", "database", "execution"} /\ IsSection(section)
  BY <1>1, SectionsAre DEF SectionInv
<1>3. resource = NotYet \/ resource.state = "given"
  BY <1>1, ResourceIs
<1>4. resource # NotAccepted
  BY <1>3, Refused
<1>5. ResourcesTypeOK
  <2>1. /\ section \in Sections \cup Defaults
        /\ decoded.state \in {"not yet", "refused", "given"} /\ resource.state \in {"not yet", "refused", "given"}
    BY <1>1, <1>3, DecodedIs, Refused DEF SectionInv
  <2>2. \A answer \in uses :
           \/ section.component = "storage" /\ answer[1] \in Routes
           \/ section.component = "execution" /\ answer[1] \in Executions
    BY <1>1 DEF UsesInv
  <2>3. QED
    BY <2>1, <2>2 DEF ResourcesTypeOK
<1>6. section \in Defaults /\ decoded # NotYet =>
        decoded = Given([f \in DOMAIN section \ {"component"} |-> section[f]])
  BY <1>1, DefaultsAreKept DEF SectionInv, Plain
<1>7. section.component = "execution" => \A answer \in uses : IsolatedBySection(answer[1], answer[2])
  <2>1. SUFFICES ASSUME section.component = "execution", NEW answer \in uses
                 PROVE  IsolatedBySection(answer[1], answer[2])
    OBVIOUS
  <2>2. PICK call \in Executions : uses = {<<call, RunsUnder(resource, call)>>} /\ resource.state = "given"
    BY <1>1, <2>1 DEF UsesInv
  <2>3. DecodeExecution(section) # NotAccepted /\ resource = BuildExecution(DecodeExecution(section))
    BY <1>1, <2>1, <2>2, ResourceIs, Refused
  <2>4. IsolatedBySection(call, RunsUnder(resource, call))
    BY <1>2, <2>1, <2>3, CallsAreIsolated
  <2>5. answer = <<call, RunsUnder(resource, call)>>
    BY <2>1, <2>2
  <2>6. QED
    BY <2>4, <2>5
<1>8. section.component = "storage" => \A answer \in uses :
           /\ (answer[2] = "disabled") = (resource.driver = "disabled")
           /\ answer[2] = "local" => HasLocal(resource.driver) /\ answer[1] # "object"
           /\ answer[2] = "s3" => HasS3(resource.driver) /\ answer[1] # "local"
           /\ answer[2] = "minio" => HasMinIO(resource.driver) /\ answer[1] # "local"
           /\ answer[1] = "primary" => answer[2] # "unavailable"
  <2>1. SUFFICES ASSUME section.component = "storage", NEW answer \in uses
                 PROVE  /\ (answer[2] = "disabled") = (resource.driver = "disabled")
                        /\ answer[2] = "local" => HasLocal(resource.driver) /\ answer[1] # "object"
                        /\ answer[2] = "s3" => HasS3(resource.driver) /\ answer[1] # "local"
                        /\ answer[2] = "minio" => HasMinIO(resource.driver) /\ answer[1] # "local"
                        /\ answer[1] = "primary" => answer[2] # "unavailable"
    OBVIOUS
  <2>2. PICK route \in Routes : uses = {<<route, Selected(resource, route)>>} /\ resource.state = "given"
    BY <1>1, <2>1 DEF UsesInv
  <2>3. DecodeStorage(section) # NotAccepted /\ resource = BuildStorage(DecodeStorage(section))
    BY <1>1, <2>1, <2>2, ResourceIs, Refused
  <2>4. answer = <<route, Selected(resource, route)>>
    BY <2>1, <2>2
  <2>5. answer[1] = route /\ answer[2] = Selected(resource, route)
    BY <2>4
  <2>6. QED
    BY <2>3, <2>5, RoutesAreSelected
<1>9. resource.state = "given" =>
           CASE section.component = "cache" -> (resource.coordination = "redis") = resource.client
             [] section.component = "database" ->
                    /\ resource.open > 0 => resource.idle <= resource.open
                    /\ resource.dsn = ":memory:" /\ resource.driver = "sqlite" => resource.open = 1
             [] section.component = "execution" ->
                    resource.driver = "memory" =>
                        /\ resource.async.capacity > 0
                        /\ \A f \in DOMAIN resource.recovery \ {"overflow"} : resource.recovery[f] > 0
             [] OTHER -> TRUE
  <2>1. SUFFICES ASSUME resource.state = "given"
                 PROVE  /\ section.component = "cache" => (resource.coordination = "redis") = resource.client
                        /\ section.component = "database" =>
                              /\ resource.open > 0 => resource.idle <= resource.open
                              /\ resource.dsn = ":memory:" /\ resource.driver = "sqlite" => resource.open = 1
                        /\ section.component = "execution" /\ resource.driver = "memory" =>
                              /\ resource.async.capacity > 0
                              /\ \A f \in DOMAIN resource.recovery \ {"overflow"} : resource.recovery[f] > 0
    BY <1>2
  <2>2. resource # NotYet
    BY <2>1, Refused
  <2>3. section.component = "cache" => (resource.coordination = "redis") = resource.client
    BY <1>1, <2>2, ResourceIs, CacheIsBuilt
  <2>4. section.component = "database" =>
            /\ resource.open > 0 => resource.idle <= resource.open
            /\ resource.dsn = ":memory:" /\ resource.driver = "sqlite" => resource.open = 1
    BY <1>1, <2>2, ResourceIs, DatabaseIsBuilt
  <2>5. section.component = "execution" /\ resource.driver = "memory" =>
            /\ resource.async.capacity > 0
            /\ \A f \in DOMAIN resource.recovery \ {"overflow"} : resource.recovery[f] > 0
    BY <1>1, <1>2, <2>2, ResourceIs, ExecutionIsBuilt
  <2>6. QED
    BY <2>3, <2>4, <2>5
<1>10. AcceptedIsBuilt
  BY <1>4, <1>6, <1>7, <1>8, <1>9 DEF AcceptedIsBuilt
<1>11. QED
  BY <1>5, <1>10

\* Whatever a file may give: what the configuration layer accepts the layer below
\* builds, and as the section says; a call runs under the policy that it names; and
\* the declared defaults are accepted as they are (decode and build of
\* internal/kernel/app/{storage,cache,database,execution}).
THEOREM SectionsAreBuilt == ResourcesSpec => [](ResourcesTypeOK /\ AcceptedIsBuilt)
<1>1. ResourcesInit => ResourcesInv
  BY DEF ResourcesInit, ResourcesInv, SectionInv, UsesInv
<1>2. ResourcesInv /\ [ResourcesNext]_resourceVars => ResourcesInv'
  <2>1. SUFFICES ASSUME ResourcesInv, [ResourcesNext]_resourceVars
                 PROVE  ResourcesInv'
    OBVIOUS
  <2>2. SectionInv /\ UsesInv
    BY <2>1 DEF ResourcesInv
  <2>3. CASE DecodeSection
    <3>1. resource = NotYet /\ uses = {}
      BY <2>2, <2>3, Refused DEF DecodeSection, SectionInv, UsesInv
    <3>2. QED
      BY <2>2, <2>3, <3>1 DEF DecodeSection, ResourcesInv, SectionInv, UsesInv
  <2>4. CASE BuildResource
    <3>1. uses = {}
      BY <2>2, <2>4, Refused DEF BuildResource, UsesInv
    <3>2. QED
      BY <2>2, <2>4, <3>1 DEF BuildResource, ResourcesInv, SectionInv, UsesInv
  <2>5. ASSUME NEW route \in Routes, UseRoute(route)
        PROVE  ResourcesInv'
    BY <2>2, <2>5 DEF UseRoute, ResourcesInv, SectionInv, UsesInv
  <2>6. ASSUME NEW call \in Executions, ExecuteUnder(call)
        PROVE  ResourcesInv'
    BY <2>2, <2>6 DEF ExecuteUnder, ResourcesInv, SectionInv, UsesInv
  <2>7. CASE UNCHANGED resourceVars
    BY <2>2, <2>7 DEF resourceVars, ResourcesInv, SectionInv, UsesInv
  <2>8. QED
    BY <2>1, <2>3, <2>4, <2>5, <2>6, <2>7 DEF ResourcesNext
<1>3. ResourcesInv => ResourcesTypeOK /\ AcceptedIsBuilt
  BY AcceptedIsBuiltNow
<1>4. QED
  BY <1>1, <1>2, <1>3, PTL DEF ResourcesSpec
=============================================================================

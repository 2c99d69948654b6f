--------------------------- MODULE TriggersProofs ---------------------------
(***************************************************************************)
(* What starts work by itself: the windows of a leader's lease, who may    *)
(* admit a job, the slots of the tasks, and the watched file.              *)
(***************************************************************************)
EXTENDS MCTriggers, FiniteSetTheorems, TLAPS

-----------------------------------------------------------------------------
(* The time windows of a leader.                                           *)

\* Accepted times are positive, and a call is shorter than the lease.
LEMMA AcceptedTimes ==
    ASSUME NEW t \in Times, AcceptsTimes(t)
    PROVE  /\ t.lease \in Nat \ {0} /\ t.renew \in Nat \ {0} /\ t.acquire \in Nat \ {0}
           /\ t.acquire < t.lease
BY WindowAssumption DEF AcceptsTimes

LEMMA WindowStep ==
    ASSUME WindowInv, [WindowNext]_windowVars
    PROVE  WindowInv'
<1> DEFINE L == times.lease  A == times.acquire  R == times.renew
<1>1. /\ times \in Times /\ AcceptsTimes(times)
      /\ L \in Nat \ {0} /\ R \in Nat \ {0} /\ A \in Nat \ {0} /\ A < L
  BY AcceptedTimes DEF WindowInv, WindowTypeOK
<1>2. times' = times /\ ticked' \in BOOLEAN /\ acted' \in BOOLEAN
  <2>1. ticked \in BOOLEAN /\ acted \in BOOLEAN
    BY DEF WindowInv, WindowTypeOK
  <2>2. CASE Elapse
    BY <2>1, <2>2 DEF Elapse
  <2>3. CASE (WindowNext /\ ~Elapse) \/ UNCHANGED windowVars
    BY <2>1, <2>3 DEF WindowNext, windowVars, Acts, AcquireReturns, AcquireGivesUp, Contend,
       BeginRenew, RenewReturns, RenewFails, ReleaseLease
  <2>4. QED
    BY <2>2, <2>3
<1> HIDE DEF L, A, R
<1>3. /\ leader \in {"acquiring", "leading", "renewing", "leaving", "out"}
      /\ spent \in 0..A /\ next \in 0..R /\ left \in 0..L /\ ticked \in BOOLEAN /\ acted \in BOOLEAN
      /\ IsAdmitting => next > 0
      /\ 2 * A + R < L =>
            /\ leader = "leading" => left >= L - A - (IF ticked THEN R ELSE R - next)
            /\ leader = "renewing" /\ ~acted => left >= L - A - R - spent
            /\ Calling /\ acted => left >= L - spent
  BY DEF WindowInv, WindowTypeOK, LeaseLasts, L, A, R
<1>4. SUFFICES /\ leader' \in {"acquiring", "leading", "renewing", "leaving", "out"}
               /\ spent' \in 0..A /\ next' \in 0..R /\ left' \in 0..L
               /\ IsAdmitting' => next' > 0
               /\ 2 * A + R < L =>
                    /\ leader' = "leading" => left' >= L - A - (IF ticked' THEN R ELSE R - next')
                    /\ leader' = "renewing" /\ ~acted' => left' >= L - A - R - spent'
                    /\ Calling' /\ acted' => left' >= L - spent'
  BY <1>1, <1>2 DEF WindowInv, WindowTypeOK, LeaseLasts, L, A, R
<1> USE DEF IsAdmitting, Calling
<1>5. CASE Elapse
  <2>1. Calling => spent < A
    BY <1>5 DEF Elapse, A
  <2>2. IsAdmitting => IF next = 1 THEN next' = R /\ ticked' = TRUE
                                   ELSE next' = next - 1 /\ ticked' = ticked
    BY <1>5 DEF Elapse, R
  <2>3. /\ leader = "leading" => ~ticked
        /\ left' = IF left > 0 THEN left - 1 ELSE 0
        /\ spent' = IF Calling THEN spent + 1 ELSE spent
        /\ ~IsAdmitting => next' = next /\ ticked' = ticked
        /\ leader' = leader /\ acted' = acted
    BY <1>5 DEF Elapse
  <2> HIDE DEF IsAdmitting, Calling
  <2>4. /\ spent' \in 0..A /\ left' \in 0..L
    BY <1>1, <1>3, <2>1, <2>3
  <2>5. next' \in 0..R /\ (IsAdmitting => next' > 0)
    <3>1. CASE IsAdmitting /\ next = 1
      BY <1>1, <2>2, <3>1
    <3>2. CASE IsAdmitting /\ next # 1
      BY <1>1, <1>3, <2>2, <3>2
    <3>3. CASE ~IsAdmitting
      BY <1>3, <2>3, <3>3
    <3>4. QED
      BY <3>1, <3>2, <3>3
  <2>6. ASSUME 2 * A + R < L, leader = "leading"
        PROVE  left' >= L - A - (IF ticked' THEN R ELSE R - next')
    <3>1. next > 0 /\ ~ticked /\ left >= L - A - (R - next) /\ left > 1
      BY <1>1, <1>3, <2>3, <2>6 DEF IsAdmitting
    <3>2. CASE next = 1
      BY <1>1, <1>3, <2>2, <2>3, <2>6, <3>1, <3>2 DEF IsAdmitting
    <3>3. CASE next # 1
      BY <1>1, <1>3, <2>2, <2>3, <2>6, <3>1, <3>3 DEF IsAdmitting
    <3>4. QED
      BY <3>2, <3>3
  <2>7. ASSUME 2 * A + R < L, leader = "renewing", ~acted
        PROVE  left' >= L - A - R - spent'
    BY <1>1, <1>3, <2>1, <2>3, <2>7 DEF Calling
  <2>8. ASSUME 2 * A + R < L, Calling, acted
        PROVE  left' >= L - spent'
    BY <1>1, <1>3, <2>1, <2>3, <2>8
  <2>9. QED
    BY <1>3, <2>3, <2>4, <2>5, <2>6, <2>7, <2>8 DEF IsAdmitting, Calling
<1>6. CASE Acts
  BY <1>1, <1>3, <1>6 DEF Acts, L
<1>7. CASE AcquireReturns
  BY <1>1, <1>3, <1>7 DEF AcquireReturns, R
<1>8. CASE BeginRenew
  BY <1>1, <1>3, <1>8 DEF BeginRenew
<1>9. CASE RenewReturns
  BY <1>1, <1>3, <1>9 DEF RenewReturns
<1>10. CASE RenewFails \/ ReleaseLease \/ AcquireGivesUp \/ Contend
  BY <1>1, <1>3, <1>10 DEF RenewFails, ReleaseLease, AcquireGivesUp, Contend
<1>11. CASE UNCHANGED windowVars
  BY <1>3, <1>11 DEF windowVars
<1>12. QED
  BY <1>5, <1>6, <1>7, <1>8, <1>9, <1>10, <1>11 DEF WindowNext

LEMMA WindowBegins ==
    ASSUME WindowInit
    PROVE  WindowInv
<1>1. /\ times \in Times /\ AcceptsTimes(times)
      /\ leader = "acquiring" /\ spent = 0 /\ acted = FALSE /\ next = 0 /\ ticked = FALSE /\ left = 0
  BY DEF WindowInit
<1>2. times.lease \in Nat /\ times.renew \in Nat /\ times.acquire \in Nat
  BY <1>1, AcceptedTimes
<1>3. WindowTypeOK
  <2>1. spent \in 0..times.acquire /\ next \in 0..times.renew /\ left \in 0..times.lease
    BY <1>1, <1>2
  <2>2. ticked \in BOOLEAN /\ acted \in BOOLEAN
    BY <1>1
  <2>3. QED
    BY <1>1, <2>1, <2>2 DEF WindowTypeOK
<1>4. QED
  BY <1>1, <1>3 DEF WindowInv, IsAdmitting, Calling, LeaseLasts

LEMMA LeaseIsEnough ==
    ASSUME WindowInv
    PROVE  LeaseOutlivesLeader
BY AcceptedTimes DEF WindowInv, WindowTypeOK, LeaseLasts, LeaseOutlivesLeader, IsAdmitting, Calling

\* Whatever times the file gives: if a renewal interval and two calls fit into
\* the lease, a leader has removed its job when its lease is over
\* (coordinate and renew, schedule.go).
THEOREM LeaseOutlivesLeaderHolds == WindowSpec => []LeaseOutlivesLeader
<1>1. WindowInit => WindowInv
  BY WindowBegins
<1>2. WindowInv /\ [WindowNext]_windowVars => WindowInv'
  BY WindowStep
<1>3. WindowInv => LeaseOutlivesLeader
  BY LeaseIsEnough
<1>4. QED
  BY <1>1, <1>2, <1>3, PTL DEF WindowSpec

-----------------------------------------------------------------------------
(* Who may admit a job.                                                    *)

LEMMA LeadershipStep ==
    ASSUME LeadershipInv, [LeadershipNext]_leadVars
    PROVE  LeadershipInv'
<1>0. /\ policy \in {Strict, BestEffort} \X {"skip", "pause", "fail", "local"}
      /\ policy[2] = "local" => policy = <<BestEffort, "local">>
      /\ holder \in Replicas \cup {Nobody, Orphan} /\ lapsed \subseteq Replicas
      /\ DOMAIN runner = Replicas /\ DOMAIN job = Replicas /\ DOMAIN scheduler = Replicas
      /\ Nobody \notin Replicas /\ Orphan \notin Replicas
  <2>1. /\ policy \in {Strict, BestEffort} \X {"skip", "pause", "fail", "local"}
        /\ ValidPolicy(policy[1], policy[2])
        /\ holder \in Replicas \cup {Nobody, Orphan} /\ lapsed \subseteq Replicas
        /\ DOMAIN runner = Replicas /\ DOMAIN job = Replicas /\ DOMAIN scheduler = Replicas
    BY DEF LeadershipInv, LeadershipTypeOK
  <2>2. PICK mode \in {Strict, BestEffort}, unavailable \in {"skip", "pause", "fail", "local"} :
            policy = <<mode, unavailable>>
    BY <2>1
  <2>3. policy[1] = mode /\ policy[2] = unavailable
    BY <2>2
  <2>4. unavailable = "local" => mode = BestEffort
    BY <2>1, <2>3 DEF ValidPolicy, Local, Strict, BestEffort
  <2>5. QED
    BY <2>1, <2>2, <2>3, <2>4, LeadershipAssumption
<1> USE DEF LeadershipInv, InactiveIsIdle
<1>1. ASSUME NEW r \in Replicas, activate(r) \/ deactivate(r)
      PROVE  LeadershipInv'
  <2>1. CASE activate(r)
    BY <1>0, <2>1 DEF activate, LeadershipTypeOK, HoldsOrLapsed, AdmissionNeedsAuthority, Go, Cancels
  <2>2. CASE deactivate(r)
    BY <1>0, <2>2 DEF deactivate, LeadershipTypeOK, HoldsOrLapsed, AdmissionNeedsAuthority, Cancels
  <2>3. QED
    BY <1>1, <2>1, <2>2
<1>2. ASSUME NEW r \in Replicas, Renew(r) \/ CallAcquire(r) \/ RenewEnds(r) \/ Retry(r) \/ Yield(r) \/ EndsEarly(r)
      PROVE  LeadershipInv'
  BY <1>0, <1>2 DEF Renew, CallAcquire, RenewEnds, Retry, Yield, EndsEarly, Removed, NotRemoved,
     LeadershipTypeOK, HoldsOrLapsed, AdmissionNeedsAuthority, Go, Cancels, loopVars
<1>3. ASSUME NEW r \in Replicas, AcquireWins(r)
      PROVE  LeadershipInv'
  BY <1>0, <1>3 DEF AcquireWins, LeadershipTypeOK, HoldsOrLapsed, AdmissionNeedsAuthority, Go, Cancels
<1>4. ASSUME NEW r \in Replicas, AcquireRefused(r)
      PROVE  LeadershipInv'
  BY <1>0, <1>4 DEF AcquireRefused, StandBack, Removed, NotRemoved, Fail, LeadershipTypeOK,
     HoldsOrLapsed, AdmissionNeedsAuthority, Go, Cancels, loopVars
<1>5. ASSUME NEW r \in Replicas, AcquireFails(r)
      PROVE  LeadershipInv'
  <2>1. /\ holder' = holder \/ (holder = Nobody /\ holder' = Orphan)
        /\ UNCHANGED <<policy, scheduler, lapsed>>
    BY <1>5 DEF AcquireFails, loopVars
  <2>2. ASSUME ~Cancels(r), policy[2] # "local"
        PROVE  \E w \in {"away", "failed"}, j \in {"none", "stale"} :
                  runner' = [runner EXCEPT ![r] = w] /\ job' = [job EXCEPT ![r] = j]
    BY <1>0, <1>5, <2>2 DEF AcquireFails, Unavailable, StandBack, Removed, NotRemoved, Fail, Go
  <2>3. ASSUME ~Cancels(r), policy[2] = "local"
        PROVE  \/ \E j \in {"none", "live", "stale"} :
                     runner' = [runner EXCEPT ![r] = "away"] /\ job' = [job EXCEPT ![r] = j]
               \/ runner' = [runner EXCEPT ![r] = "failed"] /\ job' = job /\ job[r] = "none"
    <3>1. Unavailable(r) /\ job[r] \in {"none", "live", "stale"}
      BY <1>5, <2>3 DEF AcquireFails, LeadershipTypeOK
    <3>2. \/ job' = [job EXCEPT ![r] = IF @ = "none" THEN "live" ELSE @] /\ Go(r, "away")
          \/ job[r] = "none" /\ UNCHANGED job /\ Fail(r)
      BY <2>3, <3>1 DEF Unavailable
    <3>3. QED
      BY <3>1, <3>2 DEF Fail, Go
  <2>4. CASE Cancels(r)
    BY <1>0, <1>5, <2>1, <2>4 DEF AcquireFails, LeadershipTypeOK, HoldsOrLapsed, AdmissionNeedsAuthority, Go, Cancels
  <2>5. CASE ~Cancels(r) /\ policy[2] # "local"
    BY <1>0, <1>5, <2>1, <2>2, <2>5 DEF AcquireFails, LeadershipTypeOK, HoldsOrLapsed, AdmissionNeedsAuthority, Cancels
  <2>6. CASE ~Cancels(r) /\ policy[2] = "local"
    BY <1>0, <1>5, <2>1, <2>3, <2>6 DEF AcquireFails, LeadershipTypeOK, HoldsOrLapsed, AdmissionNeedsAuthority, Cancels
  <2>7. QED
    BY <2>4, <2>5, <2>6
<1>6. ASSUME NEW r \in Replicas, BecomeLeader(r)
      PROVE  LeadershipInv'
  BY <1>0, <1>6 DEF BecomeLeader, Removed, NotRemoved, Fail, LeadershipTypeOK,
     HoldsOrLapsed, AdmissionNeedsAuthority, Go, Cancels, loopVars
<1>7. ASSUME NEW r \in Replicas, Release(r)
      PROVE  LeadershipInv'
  BY <1>0, <1>7 DEF Release, Fail, LeadershipTypeOK,
     HoldsOrLapsed, AdmissionNeedsAuthority, Go, Cancels, loopVars
<1>8. CASE Expire
  BY <1>0, <1>8 DEF Expire, LeadershipTypeOK, HoldsOrLapsed, AdmissionNeedsAuthority, Cancels
<1>9. CASE UNCHANGED leadVars
  BY <1>0, <1>9 DEF leadVars, LeadershipTypeOK, HoldsOrLapsed, AdmissionNeedsAuthority, Cancels
<1>10. QED
  BY <1>1, <1>2, <1>3, <1>4, <1>5, <1>6, <1>7, <1>8, <1>9 DEF LeadershipNext, Coordinates

LEMMA LeadershipBegins ==
    ASSUME LeadershipInit
    PROVE  LeadershipInv
<1>1. PICK t \in Declarations :
          t.mode # Local /\ ValidPolicy(t.mode, t.unavailable) /\ Resolvable(t) /\ policy = ResolveTask(t)
  BY DEF LeadershipInit
<1>2. PICK mode, unavailable :
          policy = <<mode, unavailable>> /\ mode # Local /\ ValidPolicy(mode, unavailable)
  BY <1>1 DEF ResolveTask, Resolvable
<1>3. /\ policy \in {Strict, BestEffort} \X {"skip", "pause", "fail", "local"}
      /\ ValidPolicy(policy[1], policy[2])
  <2>1. policy[1] = mode /\ policy[2] = unavailable
    BY <1>2
  <2>2. mode \in {Strict, BestEffort} /\ unavailable \in {"skip", "pause", "fail", "local"}
    BY <1>2 DEF ValidPolicy
  <2>3. QED
    BY <1>2, <2>1, <2>2
<1>4. QED
  BY <1>3 DEF LeadershipInit, LeadershipInv, LeadershipTypeOK, HoldsOrLapsed, InactiveIsIdle,
     AdmissionNeedsAuthority

-----------------------------------------------------------------------------
(* The watched file.                                                       *)

LEMMA EditKeepsReading ==
    ASSUME WatchInv, Edits
    PROVE  WatchInv'
<1>1. /\ disk \in Seq(0..Writes) /\ version \in 0..Writes /\ stamp \in Nat
      /\ reader.previous.stamp \in Nat /\ reader.previous.stamp <= stamp
      /\ Blocks \in Nat \ {0} /\ Writes \in Nat
  BY WatchAssumption DEF WatchInv, WatchTypeOK, ReadsABeginning
<1>2. \E content : Changes(content) /\ content \in Seq(0..Writes) /\ Len(content) <= Blocks
                   /\ (editor' = "writing" => Len(content) < Blocks)
  <2>1. CASE Truncate
    <3>1. << >> \in Seq(0..Writes) /\ Len(<< >>) = 0
      OBVIOUS
    <3>2. Changes(<< >>)
      BY <2>1 DEF Truncate
    <3>3. Len(<< >>) <= Blocks /\ Len(<< >>) < Blocks
      BY <1>1, <3>1
    <3>4. QED
      BY <3>1, <3>2, <3>3, Zenon
  <2>2. CASE WriteBlock
    <3>1. Append(disk, version) \in Seq(0..Writes) /\ Len(Append(disk, version)) = Len(disk) + 1
      BY <1>1
    <3>2. Len(disk) < Blocks /\ Len(disk) \in Nat
      BY <1>1, <2>2 DEF WriteBlock, WatchInv
    <3>3. Changes(Append(disk, version)) /\ (editor' = "writing" => Len(disk) + 1 # Blocks)
      BY <2>2 DEF WriteBlock
    <3>4. Len(Append(disk, version)) <= Blocks
      BY <1>1, <3>1, <3>2
    <3>5. editor' = "writing" => Len(Append(disk, version)) < Blocks
      BY <1>1, <3>1, <3>2, <3>3
    <3>6. QED
      BY <3>1, <3>3, <3>4, <3>5
  <2>3. CASE Rename
    <3>1. version + 1 \in 0..Writes
      BY <1>1, <2>3 DEF Rename
    <3>2. Whole(version + 1) \in Seq(0..Writes) /\ Len(Whole(version + 1)) = Blocks
      BY <1>1, <3>1 DEF Whole
    <3>3. QED
      BY <1>1, <2>3, <3>2 DEF Rename
  <2>4. QED
    BY <2>1, <2>2, <2>3 DEF Edits
<1>3. version' \in 0..Writes /\ editor' \in {"idle", "writing"}
  BY <1>1 DEF Edits, Truncate, WriteBlock, Rename, WatchInv, WatchTypeOK
<1>4. /\ disk' \in Seq(0..Writes) /\ Len(disk') <= Blocks /\ (editor' = "writing" => Len(disk') < Blocks)
      /\ stamp' = stamp + 1 /\ disk' \in onDisk' /\ event' = Watching
      /\ UNCHANGED <<timer, slot, watch, reader, loadedData>>
  BY <1>2 DEF Changes
<1>5. WatchTypeOK'
  BY <1>1, <1>3, <1>4 DEF WatchInv, WatchTypeOK, Watching
<1>6. QED
  BY <1>1, <1>4, <1>5 DEF WatchInv, ReadsABeginning

LEMMA ReadingStep ==
    ASSUME WatchInv, ReadBlock \/ Stat \/ TakeChange
    PROVE  /\ reader' \in [phase : {"idle", "read", "stat"}, attempt : 0..Attempts, data : Seq(0..Writes),
                            previous : [data : Seq(0..Writes), stamp : Nat]]
           /\ loadedData' \in Seq(0..Writes)
           /\ reader'.previous.stamp <= stamp
           /\ reader'.previous.stamp = stamp =>
                   /\ Len(reader'.data) <= Len(disk)
                   /\ \A k \in 1..Len(reader'.data) : reader'.data[k] = disk[k]
<1>1. /\ disk \in Seq(0..Writes) /\ stamp \in Nat \ {0} /\ loadedData \in Seq(0..Writes)
      /\ reader \in [phase : {"idle", "read", "stat"}, attempt : 0..Attempts, data : Seq(0..Writes),
                      previous : [data : Seq(0..Writes), stamp : Nat]]
      /\ Attempts \in Nat \ {0, 1}
  BY WatchAssumption DEF WatchInv, WatchTypeOK, ReadsABeginning
<1>2. CASE TakeChange
  <2>1. reader' = [phase |-> "read", attempt |-> 1, data |-> <<>>, previous |-> NoSample]
    BY <1>2 DEF TakeChange, Idle
  <2>2. NoSample \in [data : Seq(0..Writes), stamp : Nat] /\ NoSample.stamp = 0
    BY DEF NoSample
  <2>3. loadedData' = loadedData
    BY <1>2 DEF TakeChange
  <2>4. << >> \in Seq(0..Writes) /\ 1 \in 0..Attempts
    BY <1>1
  <2>5. reader'.previous.stamp = 0 /\ stamp # 0
    BY <1>1, <2>1, <2>2
  <2>6. QED
    BY <1>1, <2>1, <2>2, <2>3, <2>4, <2>5
<1>3. CASE ReadBlock
  <2> DEFINE upto == Len(reader.data) + 1
  <2>1. loadedData' = loadedData /\ upto \in Nat /\ upto > 0
    BY <1>1, <1>3 DEF ReadBlock
  <2>2. CASE upto <= Len(disk)
    <3>1. reader' = [reader EXCEPT !.data = Append(@, disk[upto])] /\ disk[upto] \in 0..Writes
      <4>1. reader' = [reader EXCEPT !.data = Append(@, disk[upto])]
        BY <1>3, <2>2 DEF ReadBlock
      <4>2. upto \in 1..Len(disk)
        BY <1>1, <2>1, <2>2
      <4>3. disk[upto] \in 0..Writes
        <5> DEFINE S == 0..Writes
        <5>0. disk \in Seq(S)
          BY <1>1
        <5> HIDE DEF S
        <5>1. \A k \in 1..Len(disk) : disk[k] \in S
          BY <5>0
        <5>2. QED
          BY <4>2, <5>1 DEF S
      <4>4. QED
        BY <1>1, <4>1, <4>3
    <3>2. /\ Append(reader.data, disk[upto]) \in Seq(0..Writes)
          /\ Len(Append(reader.data, disk[upto])) = upto
          /\ \A k \in 1..upto : Append(reader.data, disk[upto])[k] =
                                   IF k = upto THEN disk[upto] ELSE reader.data[k]
      BY <1>1, <3>1
    <3>3. /\ reader'.data = Append(reader.data, disk[upto]) /\ reader'.previous = reader.previous
          /\ reader' \in [phase : {"idle", "read", "stat"}, attempt : 0..Attempts, data : Seq(0..Writes),
                           previous : [data : Seq(0..Writes), stamp : Nat]]
      BY <1>1, <3>1, <3>2
    <3>4. QED
      BY <1>1, <2>1, <2>2, <3>2, <3>3 DEF WatchInv, ReadsABeginning
  <2>3. CASE ~(upto <= Len(disk))
    BY <1>1, <1>3, <2>1, <2>3 DEF ReadBlock, WatchInv, ReadsABeginning
  <2>4. QED
    BY <2>2, <2>3
<1>4. CASE Stat
  <2>1. /\ Sample \in [data : Seq(0..Writes), stamp : Nat] /\ Sample.stamp = stamp
        /\ NoSample \in [data : Seq(0..Writes), stamp : Nat] /\ NoSample.stamp = 0
    BY <1>1 DEF Sample, NoSample
  <2>2. loadedData' \in {loadedData, reader.data}
    BY <1>4 DEF Stat
  <2>3. \/ reader' = Idle
        \/ /\ reader.attempt # Attempts
           /\ \E s \in {Sample, NoSample} :
                reader' = [phase |-> "read", attempt |-> reader.attempt + 1, data |-> <<>>, previous |-> s]
    BY <1>4 DEF Stat, GivesUp
  <2>4. CASE reader' = Idle
    BY <1>1, <2>1, <2>2, <2>4 DEF Idle
  <2>5. CASE reader' # Idle
    <3>1. reader.attempt + 1 \in 0..Attempts
      BY <1>1, <2>3, <2>5
    <3>2. PICK s \in {Sample, NoSample} :
              reader' = [phase |-> "read", attempt |-> reader.attempt + 1, data |-> <<>>, previous |-> s]
      BY <2>3, <2>5
    <3>3. s \in [data : Seq(0..Writes), stamp : Nat] /\ s.stamp <= stamp
      BY <1>1, <2>1, <3>2
    <3>4. Len(reader'.data) = 0 /\ reader'.data = <<>>
      BY <3>2
    <3>5. QED
      BY <1>1, <2>2, <3>1, <3>2, <3>3, <3>4
  <2>6. QED
    BY <2>4, <2>5
<1>5. QED
  BY <1>2, <1>3, <1>4

LEMMA WatchStep ==
    ASSUME WatchInv, [WatchNext]_watchVars
    PROVE  WatchInv'
<1>1. CASE Edits
  BY <1>1, EditKeepsReading
<1>2. CASE Reloads
  <2>1. /\ UNCHANGED <<disk, stamp, version, editor, event, timer, watch>>
        /\ slot' \in {slot, FALSE} /\ onDisk' \in {onDisk, {disk}}
    BY <1>2 DEF Reloads, TakeChange, ReadBlock, Stat
  <2>2. QED
    BY <1>2, <2>1, ReadingStep DEF Reloads, WatchInv, WatchTypeOK, ReadsABeginning
<1>3. CASE Observes
  <2>1. UNCHANGED <<disk, stamp, version, editor, reader, loadedData, onDisk>>
    BY <1>3 DEF Observes, Register, TakeEvent, Fire
  <2>2. {event', timer', slot'} \subseteq BOOLEAN /\ watch' \in {"starting", "watching", "failed", "stopped"}
    BY <1>3 DEF Observes, Register, TakeEvent, Fire, WatchInv, WatchTypeOK
  <2>3. QED
    BY <2>1, <2>2 DEF WatchInv, WatchTypeOK, ReadsABeginning
<1>4. CASE EndWatch
  <2>1. /\ UNCHANGED <<disk, stamp, version, editor, event, timer, slot, loadedData, onDisk>>
        /\ watch' \in {"failed", "stopped"} /\ reader' = Idle
    BY <1>4 DEF EndWatch
  <2>2. /\ Idle \in [phase : {"idle", "read", "stat"}, attempt : 0..Attempts, data : Seq(0..Writes),
                      previous : [data : Seq(0..Writes), stamp : Nat]]
        /\ Idle.previous.stamp = 0
    BY WatchAssumption DEF Idle, NoSample
  <2>3. QED
    BY <2>1, <2>2 DEF WatchInv, WatchTypeOK, ReadsABeginning
<1>5. CASE UNCHANGED watchVars
  BY <1>5 DEF watchVars, WatchInv, WatchTypeOK, ReadsABeginning
<1>6. QED
  BY <1>1, <1>2, <1>3, <1>4, <1>5 DEF WatchNext

LEMMA WatchBegins ==
    ASSUME WatchInit
    PROVE  WatchInv
<1>1. Blocks \in Nat \ {0} /\ Writes \in Nat /\ Attempts \in Nat
  BY WatchAssumption
<1>2. Whole(0) \in Seq(0..Writes) /\ Len(Whole(0)) = Blocks
  BY <1>1 DEF Whole
<1>3. /\ Idle \in [phase : {"idle", "read", "stat"}, attempt : 0..Attempts, data : Seq(0..Writes),
                    previous : [data : Seq(0..Writes), stamp : Nat]]
      /\ Idle.previous.stamp = 0
  BY <1>1 DEF Idle, NoSample
<1>4. /\ disk = Whole(0) /\ loadedData = Whole(0) /\ disk \in onDisk /\ stamp = 1 /\ reader = Idle
      /\ version = 0 /\ editor = "idle" /\ watch = "starting"
      /\ event = FALSE /\ timer = FALSE /\ slot = FALSE
  BY DEF WatchInit
<1>5. {event, timer, slot} \subseteq BOOLEAN
  BY <1>4, Zenon
<1>6. version \in 0..Writes
  BY <1>1, <1>4
<1>7. WatchTypeOK
  BY <1>1, <1>2, <1>3, <1>4, <1>5, <1>6 DEF WatchTypeOK
<1>8. QED
  BY <1>3, <1>4, <1>7 DEF WatchInv, ReadsABeginning

\* Two samples that agree, in content and modification time, are one content of
\* the file: what a load gets was on the disk while it ran, however an editor
\* writes in between (readStableFile, stable_file.go).
THEOREM ReadsAreRealHolds == WatchSpec => ReadsAreReal
<1>1. WatchInv /\ [WatchNext]_watchVars =>
          [loadedData' # loadedData => loadedData' \in onDisk]_watchVars
  <2> SUFFICES ASSUME WatchInv, WatchNext, loadedData' # loadedData
               PROVE  loadedData' \in onDisk
    BY DEF watchVars
  <2>1. Stat /\ loadedData' = reader.data
    BY DEF WatchNext, Edits, Truncate, WriteBlock, Rename, Changes, Observes, Register, TakeEvent,
       Fire, EndWatch, Reloads, TakeChange, ReadBlock, Stat
  <2>2. Len(reader.data) = Len(disk) /\ reader.previous.stamp = stamp
    BY <2>1 DEF Stat, SameSample, Sample
  <2>3. disk \in Seq(0..Writes) /\ reader.data \in Seq(0..Writes)
    BY DEF WatchInv, WatchTypeOK
  <2>4. reader.data = disk
    BY <2>2, <2>3 DEF WatchInv, ReadsABeginning
  <2>5. QED
    BY <2>1, <2>4 DEF WatchInv, ReadsABeginning
<1>2. WatchInit => WatchInv
  BY WatchBegins
<1>3. WatchInv /\ [WatchNext]_watchVars => WatchInv'
  BY WatchStep
<1>4. QED
  BY <1>1, <1>2, <1>3, PTL DEF WatchSpec, ReadsAreReal

-----------------------------------------------------------------------------
(* The queues of the channels.                                             *)

LEMMA AppendOne ==
    ASSUME NEW S, NEW s \in Seq(S), NEW i \in S, Distinct(s), i \notin Members(s)
    PROVE  /\ Append(s, i) \in Seq(S) /\ Distinct(Append(s, i))
           /\ Members(Append(s, i)) = Members(s) \cup {i}
<1>1. /\ Append(s, i) \in Seq(S) /\ Len(s) \in Nat /\ DOMAIN s = 1..Len(s)
      /\ DOMAIN Append(s, i) = 1..(Len(s) + 1)
      /\ \A k \in 1..(Len(s) + 1) : Append(s, i)[k] = IF k = Len(s) + 1 THEN i ELSE s[k]
  OBVIOUS
<1>2. \A k \in 1..(Len(s) + 1) : k \in 1..Len(s) \/ k = Len(s) + 1
  BY <1>1
<1>3. Distinct(Append(s, i))
  BY <1>1, <1>2 DEF Distinct, Members
<1>4. Members(Append(s, i)) = Members(s) \cup {i}
  <2>1. ASSUME NEW x \in Members(Append(s, i)) PROVE x \in Members(s) \cup {i}
    BY <1>1, <1>2 DEF Members
  <2>2. ASSUME NEW x \in Members(s) PROVE x \in Members(Append(s, i))
    <3>1. PICK k \in 1..Len(s) : x = s[k]
      BY <1>1 DEF Members
    <3>2. k \in 1..(Len(s) + 1) /\ Append(s, i)[k] = x
      BY <1>1, <3>1
    <3>3. QED
      BY <1>1, <3>2 DEF Members
  <2>3. i \in Members(Append(s, i))
    <3>1. Len(s) + 1 \in 1..(Len(s) + 1) /\ Append(s, i)[Len(s) + 1] = i
      BY <1>1
    <3>2. QED
      BY <1>1, <3>1 DEF Members
  <2>4. QED
    BY <2>1, <2>2, <2>3
<1>5. QED
  BY <1>1, <1>3, <1>4

LEMMA DropHead ==
    ASSUME NEW S, NEW s \in Seq(S), s # << >>, Distinct(s)
    PROVE  /\ Tail(s) \in Seq(S) /\ Distinct(Tail(s))
           /\ Members(Tail(s)) = Members(s) \ {Head(s)}
           /\ Head(s) \in Members(s) /\ Head(s) \in S
<1>1. /\ Tail(s) \in Seq(S) /\ Len(s) \in Nat \ {0} /\ DOMAIN s = 1..Len(s) /\ Head(s) = s[1]
      /\ DOMAIN Tail(s) = 1..(Len(s) - 1)
      /\ \A k \in 1..(Len(s) - 1) : Tail(s)[k] = s[k + 1]
      /\ \A k \in 1..Len(s) : s[k] \in S
  OBVIOUS
<1>2. /\ \A k \in 1..(Len(s) - 1) : k + 1 \in 1..Len(s)
      /\ \A k \in 1..Len(s) : k = 1 \/ (k - 1 \in 1..(Len(s) - 1) /\ (k - 1) + 1 = k)
      /\ 1 \in 1..Len(s)
  BY <1>1
<1>3. Distinct(Tail(s))
  BY <1>1, <1>2 DEF Distinct
<1>4. Members(Tail(s)) = Members(s) \ {Head(s)}
  <2>1. ASSUME NEW x \in Members(Tail(s)) PROVE x \in Members(s) \ {Head(s)}
    <3>1. PICK k \in 1..(Len(s) - 1) : x = s[k + 1]
      BY <1>1 DEF Members
    <3>2. k + 1 \in 1..Len(s) /\ k + 1 # 1
      BY <1>1, <1>2
    <3>3. QED
      BY <1>1, <1>2, <3>1, <3>2 DEF Members, Distinct
  <2>2. ASSUME NEW x \in Members(s) \ {Head(s)} PROVE x \in Members(Tail(s))
    <3>1. PICK k \in 1..Len(s) : x = s[k]
      BY <1>1 DEF Members
    <3>2. k - 1 \in 1..(Len(s) - 1) /\ Tail(s)[k - 1] = x
      BY <1>1, <1>2, <2>2, <3>1
    <3>3. QED
      BY <1>1, <3>2 DEF Members
  <2>3. QED
    BY <2>1, <2>2
<1>5. QED
  BY <1>1, <1>2, <1>3, <1>4 DEF Members

LEMMA LeaveQueue ==
    ASSUME NEW S, NEW s \in Seq(S), NEW i, Distinct(s)
    PROVE  /\ Without(s, i) \in Seq(S) /\ Distinct(Without(s, i))
           /\ Members(Without(s, i)) = Members(s) \ {i}
<1>1. CASE i \notin Members(s)
  BY <1>1 DEF Without, Members
<1>2. CASE i \in Members(s)
  <2> DEFINE place == CHOOSE k \in DOMAIN s : s[k] = i
             out == [k \in 1..(Len(s) - 1) |-> IF k < place THEN s[k] ELSE s[k + 1]]
  <2>1. place \in DOMAIN s /\ s[place] = i /\ Without(s, i) = out
    BY <1>2 DEF Without, Members
  <2> HIDE DEF place
  <2>2. /\ Len(s) \in Nat /\ DOMAIN s = 1..Len(s) /\ place \in 1..Len(s)
        /\ \A k \in 1..Len(s) : s[k] \in S
    BY <2>1
  <2>3. /\ \A k \in 1..(Len(s) - 1) : k \in 1..Len(s) /\ k + 1 \in 1..Len(s)
        /\ Len(s) - 1 \in Nat
    BY <2>2
  <2>4. out \in Seq(S) /\ DOMAIN out = 1..(Len(s) - 1)
    BY <2>2, <2>3
  <2>5. Distinct(out)
    <3> SUFFICES ASSUME NEW j \in 1..(Len(s) - 1), NEW k \in 1..(Len(s) - 1), out[j] = out[k]
                 PROVE  j = k
      BY <2>4 DEF Distinct
    <3>1. /\ out[j] = s[IF j < place THEN j ELSE j + 1] /\ out[k] = s[IF k < place THEN k ELSE k + 1]
          /\ (IF j < place THEN j ELSE j + 1) \in 1..Len(s)
          /\ (IF k < place THEN k ELSE k + 1) \in 1..Len(s)
      BY <2>2, <2>3
    <3>2. (IF j < place THEN j ELSE j + 1) = (IF k < place THEN k ELSE k + 1)
      BY <2>2, <3>1 DEF Distinct
    <3>3. QED
      BY <2>2, <3>2
  <2>6. Members(out) = Members(s) \ {i}
    <3>1. ASSUME NEW x \in Members(out) PROVE x \in Members(s) \ {i}
      <4>1. PICK k \in 1..(Len(s) - 1) : x = out[k]
        BY <2>4, <3>1 DEF Members
      <4>2. PICK j \in 1..Len(s) : x = s[j] /\ j # place
        BY <2>2, <2>3, <4>1
      <4>3. QED
        BY <2>1, <2>2, <4>2 DEF Members, Distinct
    <3>2. ASSUME NEW x \in Members(s) \ {i} PROVE x \in Members(out)
      <4>1. PICK j \in 1..Len(s) : x = s[j] /\ j # place
        BY <2>1, <2>2, <3>2 DEF Members
      <4>2. CASE j < place
        <5>1. j \in 1..(Len(s) - 1) /\ out[j] = x
          BY <2>2, <4>1, <4>2
        <5>2. QED
          BY <2>4, <5>1 DEF Members
      <4>3. CASE ~(j < place)
        <5>1. j - 1 \in 1..(Len(s) - 1) /\ ~(j - 1 < place) /\ (j - 1) + 1 = j
          BY <2>2, <4>1, <4>3
        <5>2. out[j - 1] = x
          BY <4>1, <5>1
        <5>3. QED
          BY <2>4, <5>1, <5>2 DEF Members
      <4>4. QED
        BY <4>2, <4>3
    <3>3. QED
      BY <3>1, <3>2
  <2>7. QED
    BY <2>1, <2>4, <2>5, <2>6
<1>3. QED
  BY <1>1, <1>2

-----------------------------------------------------------------------------
(* Counting the invocations in a phase.                                    *)

Phased(f, S, ps) == {i \in S : f[i] \in ps}
OthersStay(f, g, i) == g \in [Invocations -> Phases] /\ \A j \in Invocations \ {i} : g[j] = f[j]
Share(p, ps) == IF p \in ps THEN 1 ELSE 0

LEMMA Moved ==
    ASSUME NEW S \in SUBSET Invocations, NEW f \in [Invocations -> Phases], NEW i \in Invocations,
           NEW g, NEW ps, OthersStay(f, g, i)
    PROVE  /\ Cardinality(Phased(f, S, ps)) \in Nat /\ Cardinality(Phased(g, S, ps)) \in Nat
           /\ Cardinality(Phased(g, S, ps)) =
                  Cardinality(Phased(f, S, ps)) +
                      (IF i \in S THEN Share(g[i], ps) - Share(f[i], ps) ELSE 0)
           /\ i \in S /\ f[i] \in ps => Cardinality(Phased(f, S, ps)) > 0
<1> DEFINE A == Phased(f, S, ps)
           B == Phased(g, S, ps)
<1>1. IsFiniteSet(A) /\ IsFiniteSet(B)
  <2>1. A \subseteq Invocations /\ B \subseteq Invocations
    BY DEF Phased
  <2>2. QED
    BY <2>1, TaskSlotsAssumption, FS_Subset
<1>2. Cardinality(A) \in Nat /\ Cardinality(B) \in Nat
  BY <1>1, FS_CardinalityType
<1>3. CASE i \in S /\ f[i] \in ps /\ g[i] \notin ps
  <2>1. B = A \ {i} /\ i \in A
    BY <1>3 DEF Phased, OthersStay
  <2> HIDE DEF A, B
  <2>2. Cardinality(B) = Cardinality(A) - 1
    BY <1>1, <2>1, FS_RemoveElement
  <2>3. Cardinality(A) > 0
    BY <1>2, <2>2
  <2>4. QED
    BY <1>2, <1>3, <2>2, <2>3 DEF Share, A, B
<1>4. CASE i \in S /\ f[i] \notin ps /\ g[i] \in ps
  <2>1. B = A \cup {i} /\ i \notin A
    BY <1>4 DEF Phased, OthersStay
  <2>2. Cardinality(B) = Cardinality(A) + 1
    BY <1>1, <2>1, FS_AddElement
  <2>3. QED
    BY <1>2, <1>4, <2>2 DEF Share
<1>5. CASE i \notin S \/ (f[i] \in ps <=> g[i] \in ps)
  <2>1. B = A
    BY <1>5 DEF Phased, OthersStay
  <2>2. i \in S /\ f[i] \in ps => Cardinality(A) # 0
    <3>1. i \in S /\ f[i] \in ps => A # {}
      BY DEF Phased
    <3>2. QED
      BY <1>1, <3>1, FS_EmptySet
  <2>3. (IF i \in S THEN Share(g[i], ps) - Share(f[i], ps) ELSE 0) = 0
    BY <1>5 DEF Share
  <2>4. QED
    BY <1>2, <2>1, <2>2, <2>3
<1>6. QED
  BY <1>3, <1>4, <1>5

OfTask(t) == {i \in Invocations : TaskOf[i] = t}

\* The counts of the invariant, as cardinalities of phases.
LEMMA Counts ==
    ASSUME NEW t, NEW ps
    PROVE  /\ In(t, ps) = Cardinality(Phased(phase, OfTask(t), ps))
           /\ In(t, ps)' = Cardinality(Phased(phase', OfTask(t), ps))
           /\ {i \in Invocations : phase[i] = "running"} = Phased(phase, Invocations, {"running"})
           /\ {i \in Invocations : phase'[i] = "running"} = Phased(phase', Invocations, {"running"})
<1>1. /\ {i \in Invocations : TaskOf[i] = t /\ phase[i] \in ps} = Phased(phase, OfTask(t), ps)
      /\ {i \in Invocations : TaskOf[i] = t /\ phase'[i] \in ps} = Phased(phase', OfTask(t), ps)
  BY DEF Phased, OfTask
<1>2. /\ {i \in Invocations : phase[i] = "running"} = Phased(phase, Invocations, {"running"})
      /\ {i \in Invocations : phase'[i] = "running"} = Phased(phase', Invocations, {"running"})
  BY DEF Phased
<1>3. QED
  BY <1>1, <1>2 DEF In

\* Two go to another phase, one after the other.
LEMMA MovedTwo ==
    ASSUME NEW S \in SUBSET Invocations, NEW f \in [Invocations -> Phases], NEW i \in Invocations,
           NEW n \in Invocations, i # n, NEW h, NEW g, NEW ps,
           OthersStay(f, h, i), OthersStay(h, g, n)
    PROVE  /\ Cardinality(Phased(f, S, ps)) \in Nat /\ Cardinality(Phased(g, S, ps)) \in Nat
           /\ Cardinality(Phased(g, S, ps)) =
                  Cardinality(Phased(f, S, ps)) +
                      (IF i \in S THEN Share(g[i], ps) - Share(f[i], ps) ELSE 0) +
                      (IF n \in S THEN Share(g[n], ps) - Share(f[n], ps) ELSE 0)
<1> DEFINE A == Cardinality(Phased(f, S, ps))
           B == Cardinality(Phased(h, S, ps))
           C == Cardinality(Phased(g, S, ps))
<1>1. h \in [Invocations -> Phases] /\ h[n] = f[n] /\ g[i] = h[i]
  BY DEF OthersStay
<1>2. A \in Nat /\ B \in Nat /\ B = A + (IF i \in S THEN Share(h[i], ps) - Share(f[i], ps) ELSE 0)
  BY Moved
<1>3. C \in Nat /\ C = B + (IF n \in S THEN Share(g[n], ps) - Share(h[n], ps) ELSE 0)
  BY <1>1, Moved
<1>4. \A x, y : Share(x, ps) - Share(y, ps) \in Int
  BY DEF Share
<1>5. QED
  BY <1>1, <1>2, <1>3, <1>4

-----------------------------------------------------------------------------
(* The slots of the tasks.                                                 *)

Change(i, ps) == Share(phase'[i], ps) - Share(phase[i], ps)
Of(i, t, n) == IF TaskOf[i] = t THEN n ELSE 0

\* What an action that moves one invocation has to do to the channels.
OneSettles(i) ==
    /\ \A t \in Tasks : slots'[t] = slots[t] + Of(i, t, Change(i, Holding))
    /\ \A t \in Tasks : queue'[t] = queue[t] + Of(i, t, Change(i, Queued))
    /\ global' = global + Change(i, {"running"})

TwoSettle(i, n) ==
    /\ \A t \in Tasks : slots'[t] = slots[t] + Of(i, t, Change(i, Holding)) + Of(n, t, Change(n, Holding))
    /\ \A t \in Tasks : queue'[t] = queue[t] + Of(i, t, Change(i, Queued)) + Of(n, t, Change(n, Queued))
    /\ global' = global + Change(i, {"running"}) + Change(n, {"running"})

Fits == /\ \A t \in Tasks : slots[t] <= Concurrency[t].max /\ queue[t] <= Concurrency[t].queue
        /\ global <= MaxConcurrency

LEMMA OneAccounted ==
    ASSUME SlotsInv, NEW i \in Invocations, OthersStay(phase, phase', i), OneSettles(i), Fits'
    PROVE  /\ SlotsAreAccounted'
           /\ global' \in Nat /\ \A t \in Tasks : slots'[t] \in Nat /\ queue'[t] \in Nat
<1>1. phase \in [Invocations -> Phases]
  BY DEF SlotsInv, SlotsTypeOK
<1>2. ASSUME NEW t \in Tasks, NEW ps
      PROVE  In(t, ps)' \in Nat /\ In(t, ps)' = In(t, ps) + Of(i, t, Change(i, ps))
  <2>1. OfTask(t) \in SUBSET Invocations /\ (i \in OfTask(t) <=> TaskOf[i] = t)
    BY DEF OfTask
  <2>2. /\ Cardinality(Phased(phase', OfTask(t), ps)) \in Nat
        /\ Cardinality(Phased(phase', OfTask(t), ps)) =
               Cardinality(Phased(phase, OfTask(t), ps)) +
                   (IF i \in OfTask(t) THEN Share(phase'[i], ps) - Share(phase[i], ps) ELSE 0)
    BY <1>1, <2>1, Moved
  <2>3. QED
    BY <2>1, <2>2, Counts DEF Of, Change
<1> DEFINE running == {j \in Invocations : phase[j] = "running"}
           running2 == {j \in Invocations : phase'[j] = "running"}
<1>3. Cardinality(running2) \in Nat /\ Cardinality(running2) = Cardinality(running) + Change(i, {"running"})
  <2>1. Invocations \in SUBSET Invocations
    OBVIOUS
  <2>2. /\ Cardinality(Phased(phase', Invocations, {"running"})) \in Nat
        /\ Cardinality(Phased(phase', Invocations, {"running"})) =
               Cardinality(Phased(phase, Invocations, {"running"})) +
                   (IF i \in Invocations THEN Share(phase'[i], {"running"}) - Share(phase[i], {"running"}) ELSE 0)
    BY <1>1, <2>1, Moved
  <2>3. QED
    BY <2>2, Counts DEF Change
<1>4. ASSUME NEW t \in Tasks
      PROVE  /\ slots'[t] = In(t, Holding)' /\ queue'[t] = In(t, Queued)'
             /\ slots'[t] \in Nat /\ queue'[t] \in Nat
  <2>1. slots[t] = In(t, Holding) /\ queue[t] = In(t, Queued)
    BY DEF SlotsInv, SlotsAreAccounted
  <2>2. QED
    BY <1>2, <2>1 DEF OneSettles
<1>5. global' = Cardinality(running2)
  BY <1>3 DEF SlotsInv, SlotsAreAccounted, OneSettles
<1>6. QED
  BY <1>3, <1>4, <1>5 DEF SlotsAreAccounted, Fits

LEMMA TwoAccounted ==
    ASSUME SlotsInv, NEW i \in Invocations, NEW n \in Invocations, i # n, NEW h,
           OthersStay(phase, h, i), OthersStay(h, phase', n), TwoSettle(i, n), Fits'
    PROVE  /\ SlotsAreAccounted'
           /\ global' \in Nat /\ \A t \in Tasks : slots'[t] \in Nat /\ queue'[t] \in Nat
<1>1. phase \in [Invocations -> Phases]
  BY DEF SlotsInv, SlotsTypeOK
<1>2. ASSUME NEW t \in Tasks, NEW ps
      PROVE  /\ In(t, ps)' \in Nat
             /\ In(t, ps)' = In(t, ps) + Of(i, t, Change(i, ps)) + Of(n, t, Change(n, ps))
  <2>1. OfTask(t) \in SUBSET Invocations /\ \A j \in Invocations : j \in OfTask(t) <=> TaskOf[j] = t
    BY DEF OfTask
  <2>2. /\ Cardinality(Phased(phase', OfTask(t), ps)) \in Nat
        /\ Cardinality(Phased(phase', OfTask(t), ps)) =
               Cardinality(Phased(phase, OfTask(t), ps)) +
                   (IF i \in OfTask(t) THEN Share(phase'[i], ps) - Share(phase[i], ps) ELSE 0) +
                   (IF n \in OfTask(t) THEN Share(phase'[n], ps) - Share(phase[n], ps) ELSE 0)
    BY <1>1, <2>1, MovedTwo
  <2>3. QED
    BY <2>1, <2>2, Counts DEF Of, Change
<1> DEFINE running == {j \in Invocations : phase[j] = "running"}
           running2 == {j \in Invocations : phase'[j] = "running"}
<1>3. /\ Cardinality(running2) \in Nat
      /\ Cardinality(running2) = Cardinality(running) + Change(i, {"running"}) + Change(n, {"running"})
  <2>1. Invocations \in SUBSET Invocations
    OBVIOUS
  <2>2. /\ Cardinality(Phased(phase', Invocations, {"running"})) \in Nat
        /\ Cardinality(Phased(phase', Invocations, {"running"})) =
               Cardinality(Phased(phase, Invocations, {"running"})) +
                   (IF i \in Invocations THEN Share(phase'[i], {"running"}) - Share(phase[i], {"running"}) ELSE 0) +
                   (IF n \in Invocations THEN Share(phase'[n], {"running"}) - Share(phase[n], {"running"}) ELSE 0)
    BY <1>1, <2>1, MovedTwo
  <2>3. QED
    BY <2>2, Counts DEF Change
<1>4. ASSUME NEW t \in Tasks
      PROVE  /\ slots'[t] = In(t, Holding)' /\ queue'[t] = In(t, Queued)'
             /\ slots'[t] \in Nat /\ queue'[t] \in Nat
  <2>1. slots[t] = In(t, Holding) /\ queue[t] = In(t, Queued)
    BY DEF SlotsInv, SlotsAreAccounted
  <2>2. QED
    BY <1>2, <2>1 DEF TwoSettle
<1>5. global' = Cardinality(running2)
  BY <1>3 DEF SlotsInv, SlotsAreAccounted, TwoSettle
<1>6. QED
  BY <1>3, <1>4, <1>5 DEF SlotsAreAccounted, Fits

\* The limits of an accepted policy.
LEMMA TaskLimits ==
    ASSUME NEW t \in Tasks
    PROVE  /\ Concurrency[t].max \in Nat \ {0}
           /\ \/ Concurrency[t].congestion = "skip" /\ Concurrency[t].queue = 0
              \/ Concurrency[t].congestion = "wait" /\ Concurrency[t].queue \in Nat \ {0}
<1>1. ValidConcurrency(Concurrency[t])
  BY TaskSlotsAssumption
<1>2. ASSUME NEW top \in Nat, NEW n \in 1..top PROVE n \in Nat \ {0}
  OBVIOUS
<1>3. MaxTaskConcurrency \in Nat /\ MaxTaskQueue \in Nat
  BY DEF MaxTaskConcurrency, MaxTaskQueue
<1>4. QED
  BY <1>1, <1>2, <1>3 DEF ValidConcurrency

LEMMA SlotsFacts ==
    ASSUME SlotsInv
    PROVE  /\ phase \in [Invocations -> Phases] /\ slots \in [Tasks -> Nat] /\ queue \in [Tasks -> Nat]
           /\ global \in Nat /\ blocked \in [Tasks \cup {"global"} -> Seq(Invocations)] /\ retired \in BOOLEAN
           /\ Fits /\ MaxConcurrency \in Nat /\ "global" \notin Tasks
           /\ \A t \in Tasks : Concurrency[t].max \in Nat /\ Concurrency[t].queue \in Nat
           /\ \A i \in Invocations : TaskOf[i] \in Tasks
BY SMTT(20), TaskSlotsAssumption, TaskLimits DEF SlotsInv, SlotsTypeOK, SlotsAreAccounted, Fits

\* What is left to show when the counts are right.
LEMMA SlotsAssembled ==
    ASSUME phase' \in [Invocations -> Phases], slots' \in [Tasks -> Int], queue' \in [Tasks -> Int],
           global' \in Nat, \A t \in Tasks : slots'[t] \in Nat /\ queue'[t] \in Nat,
           blocked' \in [Tasks \cup {"global"} -> Seq(Invocations)], retired' \in BOOLEAN,
           SlotsAreAccounted', WaitersAreQueued'
    PROVE  SlotsInv'
<1>1. slots' \in [Tasks -> Nat] /\ queue' \in [Tasks -> Nat]
  OBVIOUS
<1>2. QED
  BY <1>1 DEF SlotsInv, SlotsTypeOK

Blocked == {"waitSlot", "waitGlobal"}

\* An invocation that neither was nor becomes blocked.
LEMMA QuietMove ==
    ASSUME SlotsInv, NEW i \in Invocations, OthersStay(phase, phase', i),
           phase[i] \notin Blocked, phase'[i] \notin Blocked, OneSettles(i), Fits',
           slots' \in [Tasks -> Int], queue' \in [Tasks -> Int], blocked' = blocked, retired' \in BOOLEAN
    PROVE  SlotsInv'
<1>1. phase' \in [Invocations -> Phases] /\ blocked' \in [Tasks \cup {"global"} -> Seq(Invocations)]
  BY SlotsFacts DEF OthersStay
<1>2. \A w : Waiting(w)' = Waiting(w)
  BY DEF Waiting, OthersStay, Blocked
<1>3. WaitersAreQueued'
  BY <1>2 DEF SlotsInv, WaitersAreQueued
<1>4. QED
  BY <1>1, <1>3, OneAccounted, SlotsAssembled

\* The actions that touch no queue of a channel.
LEMMA QuietActions ==
    ASSUME SlotsInv, NEW i \in Invocations,
           \/ Enter(i) \/ TrySlot(i) \/ TryGlobal(i) \/ Skip(i)
           \/ Enqueue(i) /\ slots[TaskOf[i]] < Max(i)
           \/ QueueGlobal(i) /\ global < MaxConcurrency
           \/ Finish(i) /\ blocked["global"] = <<>>
           \/ (Leave(i) \/ GivesBack(i)) /\ blocked[TaskOf[i]] = <<>>
    PROVE  SlotsInv'
<1> DEFINE T == TaskOf[i]
<1>0. /\ phase \in [Invocations -> Phases] /\ slots \in [Tasks -> Nat] /\ queue \in [Tasks -> Nat]
      /\ global \in Nat /\ retired \in BOOLEAN /\ Fits /\ MaxConcurrency \in Nat
      /\ T \in Tasks /\ \A t \in Tasks : Concurrency[t].max \in Nat /\ Concurrency[t].queue \in Nat
  BY SlotsFacts
<1>1. CASE Enter(i) \/ Skip(i) \/ (TrySlot(i) /\ ~(slots[T] < Max(i)))
  <2>1. /\ phase[i] \in {"new", "congested", "entered"} /\ phase'[i] \in {"entered", "skipped", "congested"}
        /\ OthersStay(phase, phase', i)
    BY <1>0, <1>1 DEF Enter, Skip, TrySlot, To, OthersStay, Phases
  <2>2. UNCHANGED <<slots, queue, global, blocked, retired>>
    BY <1>0, <1>1 DEF Enter, Skip, TrySlot
  <2>3. OneSettles(i) /\ Fits'
    <3>1. Change(i, Holding) = 0 /\ Change(i, Queued) = 0 /\ Change(i, {"running"}) = 0
      BY <2>1 DEF Change, Share, Holding, Queued
    <3>2. QED
      BY <1>0, <2>2, <3>1 DEF OneSettles, Fits, Of
  <2>4. slots' \in [Tasks -> Int] /\ queue' \in [Tasks -> Int] /\ retired' \in BOOLEAN
    BY <1>0, <2>2
  <2>5. phase[i] \notin Blocked /\ phase'[i] \notin Blocked
    BY <2>1 DEF Blocked
  <2>6. QED
    BY <2>1, <2>2, <2>3, <2>4, <2>5, QuietMove
<1>2. CASE TrySlot(i) /\ slots[T] < Max(i)
  <2>1. /\ phase[i] = "entered" /\ phase'[i] = "half" /\ OthersStay(phase, phase', i)
    BY <1>0, <1>2 DEF TrySlot, To, OthersStay, Phases
  <2>2. /\ UNCHANGED <<queue, global, blocked, retired>> /\ slots' \in [Tasks -> Int]
        /\ \A t \in Tasks : slots'[t] = IF t = T THEN slots[t] + 1 ELSE slots[t]
    BY <1>0, <1>2 DEF TrySlot
  <2>3. OneSettles(i) /\ Fits'
    BY <1>0, <1>2, <2>1, <2>2 DEF OneSettles, Fits, Of, Change, Share, Holding, Queued, Max
  <2>4. slots' \in [Tasks -> Int] /\ queue' \in [Tasks -> Int] /\ retired' \in BOOLEAN
    BY <1>0, <2>2
  <2>5. phase[i] \notin Blocked /\ phase'[i] \notin Blocked
    BY <2>1 DEF Blocked
  <2>6. QED
    BY <2>1, <2>2, <2>3, <2>4, <2>5, QuietMove
<1>3. CASE TryGlobal(i)
  <2>1. /\ phase[i] = "half" /\ phase'[i] = "running" /\ OthersStay(phase, phase', i)
    BY <1>0, <1>3 DEF TryGlobal, To, OthersStay, Phases
  <2>2. /\ UNCHANGED <<slots, queue, blocked, retired>> /\ global' = global + 1 /\ global < MaxConcurrency
    BY <1>0, <1>3 DEF TryGlobal
  <2>3. OneSettles(i) /\ Fits'
    BY <1>0, <2>1, <2>2 DEF OneSettles, Fits, Of, Change, Share, Holding, Queued
  <2>4. slots' \in [Tasks -> Int] /\ queue' \in [Tasks -> Int] /\ retired' \in BOOLEAN
    BY <1>0, <2>2
  <2>5. phase[i] \notin Blocked /\ phase'[i] \notin Blocked
    BY <2>1 DEF Blocked
  <2>6. QED
    BY <2>1, <2>2, <2>3, <2>4, <2>5, QuietMove
<1>4. CASE Enqueue(i) /\ slots[T] < Max(i)
  <2>1. /\ phase[i] = "congested" /\ phase'[i] = "gotSlot" /\ OthersStay(phase, phase', i)
    BY <1>0, <1>4 DEF Enqueue, To, OthersStay, Phases
  <2>2. /\ UNCHANGED <<global, blocked, retired>> /\ queue[T] < Concurrency[T].queue
        /\ slots' \in [Tasks -> Int] /\ queue' \in [Tasks -> Int]
        /\ \A t \in Tasks : /\ slots'[t] = IF t = T THEN slots[t] + 1 ELSE slots[t]
                            /\ queue'[t] = IF t = T THEN queue[t] + 1 ELSE queue[t]
    BY <1>0, <1>4 DEF Enqueue
  <2>3. OneSettles(i) /\ Fits'
    <3>1. Change(i, Holding) = 1 /\ Change(i, Queued) = 1 /\ Change(i, {"running"}) = 0
      BY <2>1 DEF Change, Share, Holding, Queued
    <3>2. OneSettles(i)
      BY <1>0, <2>2, <3>1 DEF OneSettles, Of
    <3>3. UNCHANGED global
      BY <2>2
    <3>4. ASSUME NEW t \in Tasks
          PROVE  slots'[t] <= Concurrency[t].max /\ queue'[t] <= Concurrency[t].queue
      <4>1. /\ slots[t] \in Nat /\ queue[t] \in Nat /\ slots[t] <= Concurrency[t].max
            /\ queue[t] <= Concurrency[t].queue
            /\ Concurrency[t].max \in Nat /\ Concurrency[t].queue \in Nat
        BY <1>0 DEF Fits
      <4>2. CASE t = T
        BY <1>4, <2>2, <4>1, <4>2 DEF Max
      <4>3. CASE t # T
        BY <2>2, <4>1, <4>3
      <4>4. QED
        BY <4>2, <4>3
    <3>5. Fits'
      BY <1>0, <3>3, <3>4 DEF Fits
    <3>6. QED
      BY <3>2, <3>5
  <2>4. slots' \in [Tasks -> Int] /\ queue' \in [Tasks -> Int] /\ retired' \in BOOLEAN
    BY <1>0, <2>2
  <2>5. phase[i] \notin Blocked /\ phase'[i] \notin Blocked
    BY <2>1 DEF Blocked
  <2>6. QED
    BY <2>1, <2>2, <2>3, <2>4, <2>5, QuietMove
<1>5. CASE QueueGlobal(i) /\ global < MaxConcurrency
  <2>1. /\ phase[i] = "gotSlot" /\ phase'[i] = "running" /\ OthersStay(phase, phase', i)
    BY <1>0, <1>5 DEF QueueGlobal, To, OthersStay, Phases
  <2>2. /\ UNCHANGED <<slots, blocked, retired>> /\ global' = global + 1 /\ queue' \in [Tasks -> Int]
        /\ \A t \in Tasks : queue'[t] = IF t = T THEN queue[t] - 1 ELSE queue[t]
    BY <1>0, <1>5 DEF QueueGlobal, Dequeued
  <2>3. OneSettles(i) /\ Fits'
    <3>1. Change(i, Holding) = 0 /\ Change(i, Queued) = -1 /\ Change(i, {"running"}) = 1
      BY <2>1 DEF Change, Share, Holding, Queued
    <3>2. OneSettles(i)
      BY <1>0, <2>2, <3>1 DEF OneSettles, Of
    <3>3. QED
      BY SMTT(20), <1>0, <1>5, <2>2, <3>2 DEF Fits
  <2>4. slots' \in [Tasks -> Int] /\ queue' \in [Tasks -> Int] /\ retired' \in BOOLEAN
    BY <1>0, <2>2
  <2>5. phase[i] \notin Blocked /\ phase'[i] \notin Blocked
    BY <2>1 DEF Blocked
  <2>6. QED
    BY <2>1, <2>2, <2>3, <2>4, <2>5, QuietMove
<1>6. CASE Finish(i) /\ blocked["global"] = <<>>
  <2>1. /\ phase[i] = "running" /\ phase'[i] = "left" /\ OthersStay(phase, phase', i)
    BY <1>0, <1>6 DEF Finish, To, OthersStay, Phases
  <2>2. UNCHANGED <<slots, queue, blocked, retired>> /\ global' = global - 1
    BY <1>0, <1>6 DEF Finish
  <2>3. OneSettles(i) /\ Fits'
    BY <1>0, <2>1, <2>2 DEF OneSettles, Fits, Of, Change, Share, Holding, Queued
  <2>4. slots' \in [Tasks -> Int] /\ queue' \in [Tasks -> Int] /\ retired' \in BOOLEAN
    BY <1>0, <2>2
  <2>5. phase[i] \notin Blocked /\ phase'[i] \notin Blocked
    BY <2>1 DEF Blocked
  <2>6. QED
    BY <2>1, <2>2, <2>3, <2>4, <2>5, QuietMove
<1>7. CASE (Leave(i) \/ GivesBack(i)) /\ blocked[T] = <<>>
  <2>1. /\ phase[i] \in {"left", "half"} /\ phase'[i] \in {"done", "congested"}
        /\ OthersStay(phase, phase', i)
    BY <1>0, <1>7 DEF Leave, GivesBack, GiveSlot, To, OthersStay, Phases
  <2>2. /\ UNCHANGED <<queue, global, blocked, retired>> /\ slots' \in [Tasks -> Int]
        /\ \A t \in Tasks : slots'[t] = IF t = T THEN slots[t] - 1 ELSE slots[t]
    BY <1>0, <1>7 DEF Leave, GivesBack, GiveSlot
  <2>3. OneSettles(i) /\ Fits'
    <3>1. Change(i, Holding) = -1 /\ Change(i, Queued) = 0 /\ Change(i, {"running"}) = 0
      BY <2>1 DEF Change, Share, Holding, Queued
    <3>2. OneSettles(i)
      BY <1>0, <2>2, <3>1 DEF OneSettles, Of
    <3>3. QED
      BY <1>0, <2>2, <3>2 DEF Fits
  <2>4. slots' \in [Tasks -> Int] /\ queue' \in [Tasks -> Int] /\ retired' \in BOOLEAN
    BY <1>0, <2>2
  <2>5. phase[i] \notin Blocked /\ phase'[i] \notin Blocked
    BY <2>1 DEF Blocked
  <2>6. QED
    BY <2>1, <2>2, <2>3, <2>4, <2>5, QuietMove
<1>8. QED
  BY <1>1, <1>2, <1>3, <1>4, <1>5, <1>6, <1>7

Channels == Tasks \cup {"global"}

\* The queue of one channel changes, and what follows for the others.
OnlyQueue(w, s) ==
    /\ blocked' \in [Channels -> Seq(Invocations)]
    /\ blocked'[w] = s /\ \A v \in Channels \ {w} : blocked'[v] = blocked[v]

LEMMA Requeued ==
    ASSUME SlotsInv, NEW w \in Channels, NEW s, OnlyQueue(w, s), Distinct(s), Members(s) = Waiting(w)',
           \A v \in Channels \ {w} : Waiting(v)' = Waiting(v)
    PROVE  WaitersAreQueued'
<1>1. \A v \in Channels : Distinct(blocked[v]) /\ Members(blocked[v]) = Waiting(v)
  BY DEF SlotsInv, WaitersAreQueued, Channels
<1>2. ASSUME NEW v \in Channels
      PROVE  Distinct(blocked'[v]) /\ Members(blocked'[v]) = Waiting(v)'
  <2>1. CASE v = w
    BY <2>1 DEF OnlyQueue
  <2>2. CASE v # w
    BY <1>1, <2>2 DEF OnlyQueue
  <2>3. QED
    BY <2>1, <2>2
<1>3. QED
  BY <1>2 DEF WaitersAreQueued, Channels

\* Where the blocked ones are.
LEMMA QueueFacts ==
    ASSUME SlotsInv, NEW w \in Channels
    PROVE  blocked[w] \in Seq(Invocations) /\ Distinct(blocked[w]) /\ Members(blocked[w]) = Waiting(w)
BY SlotsFacts DEF SlotsInv, WaitersAreQueued, Channels

LEMMA JoinsTheQueue ==
    ASSUME SlotsInv, NEW i \in Invocations,
           \/ Enqueue(i) /\ ~(slots[TaskOf[i]] < Max(i))
           \/ QueueGlobal(i) /\ ~(global < MaxConcurrency)
    PROVE  SlotsInv'
<1> DEFINE T == TaskOf[i]
<1>0. /\ phase \in [Invocations -> Phases] /\ slots \in [Tasks -> Nat] /\ queue \in [Tasks -> Nat]
      /\ blocked \in [Channels -> Seq(Invocations)] /\ "global" \notin Tasks
      /\ global \in Nat /\ retired \in BOOLEAN /\ Fits /\ MaxConcurrency \in Nat
      /\ T \in Tasks /\ \A t \in Tasks : Concurrency[t].max \in Nat /\ Concurrency[t].queue \in Nat
  BY SlotsFacts DEF Channels
<1>1. CASE Enqueue(i) /\ ~(slots[T] < Max(i))
  <2>1. /\ phase[i] = "congested" /\ phase'[i] = "waitSlot" /\ OthersStay(phase, phase', i)
    BY <1>0, <1>1 DEF Enqueue, To, OthersStay, Phases
  <2>2. /\ UNCHANGED <<slots, global, retired>> /\ queue[T] < Concurrency[T].queue
        /\ queue' \in [Tasks -> Int]
        /\ \A t \in Tasks : queue'[t] = IF t = T THEN queue[t] + 1 ELSE queue[t]
    BY <1>0, <1>1 DEF Enqueue
  <2>3. T \in Channels /\ blocked[T] \in Seq(Invocations) /\ Append(blocked[T], i) \in Seq(Invocations)
    BY <1>0 DEF Channels
  <2>4. OnlyQueue(T, Append(blocked[T], i))
    <3>1. blocked' = [blocked EXCEPT ![T] = Append(blocked[T], i)]
      BY <1>1 DEF Enqueue
    <3>2. QED
      BY <1>0, <2>3, <3>1 DEF OnlyQueue
  <2>5. Change(i, Holding) = 0 /\ Change(i, Queued) = 1 /\ Change(i, {"running"}) = 0
    BY <2>1 DEF Change, Share, Holding, Queued
  <2>6. OneSettles(i)
    BY <1>0, <2>2, <2>5 DEF OneSettles, Of
  <2>7. Fits'
    <3>1. ASSUME NEW t \in Tasks PROVE slots'[t] <= Concurrency[t].max /\ queue'[t] <= Concurrency[t].queue
      <4>1. /\ slots[t] <= Concurrency[t].max /\ queue[t] <= Concurrency[t].queue
            /\ slots'[t] = slots[t] /\ queue'[t] = IF t = T THEN queue[t] + 1 ELSE queue[t]
            /\ queue[t] \in Nat /\ Concurrency[t].queue \in Nat
        BY <1>0, <2>2 DEF Fits
      <4>2. QED
        BY <2>2, <4>1
    <3>2. global' <= MaxConcurrency
      BY <1>0, <2>2 DEF Fits
    <3>3. QED
      BY <3>1, <3>2 DEF Fits
  <2>8. i \notin Waiting(T) /\ Waiting(T)' = Waiting(T) \cup {i}
    BY <1>0, <2>1 DEF Waiting, OthersStay
  <2>9. \A v \in Channels \ {T} : Waiting(v)' = Waiting(v)
    BY <1>0, <2>1 DEF Waiting, OthersStay, Channels
  <2>10. Distinct(Append(blocked[T], i)) /\ Members(Append(blocked[T], i)) = Waiting(T)'
    <3>1. Distinct(blocked[T]) /\ Members(blocked[T]) = Waiting(T)
      BY <2>3, QueueFacts
    <3>2. QED
      BY <2>3, <2>8, <3>1, AppendOne
  <2>11. WaitersAreQueued'
    BY <2>3, <2>4, <2>9, <2>10, Requeued
  <2>12. slots' \in [Tasks -> Int] /\ retired' \in BOOLEAN /\ phase' \in [Invocations -> Phases]
    BY <1>0, <2>1, <2>2 DEF OthersStay
  <2>13. QED
    BY <2>1, <2>2, <2>4, <2>6, <2>7, <2>11, <2>12, OneAccounted, SlotsAssembled DEF OnlyQueue, Channels
<1>2. CASE QueueGlobal(i) /\ ~(global < MaxConcurrency)
  <2>1. /\ phase[i] = "gotSlot" /\ phase'[i] = "waitGlobal" /\ OthersStay(phase, phase', i)
    BY <1>0, <1>2 DEF QueueGlobal, To, OthersStay, Phases
  <2>2. UNCHANGED <<slots, queue, global, retired>>
    BY <1>2 DEF QueueGlobal
  <2> DEFINE G == "global"
  <2>3. G \in Channels /\ blocked[G] \in Seq(Invocations) /\ Append(blocked[G], i) \in Seq(Invocations)
    BY <1>0 DEF Channels
  <2>4. OnlyQueue(G, Append(blocked[G], i))
    <3>1. blocked' = [blocked EXCEPT ![G] = Append(blocked[G], i)]
      BY <1>2 DEF QueueGlobal
    <3>2. QED
      BY <1>0, <2>3, <3>1 DEF OnlyQueue
  <2>5. Change(i, Holding) = 0 /\ Change(i, Queued) = 0 /\ Change(i, {"running"}) = 0
    BY <2>1 DEF Change, Share, Holding, Queued
  <2>6. OneSettles(i)
    BY <1>0, <2>2, <2>5 DEF OneSettles, Of
  <2>7. Fits'
    BY <1>0, <2>2 DEF Fits
  <2>8. i \notin Waiting(G) /\ Waiting(G)' = Waiting(G) \cup {i}
    BY <1>0, <2>1 DEF Waiting, OthersStay
  <2>9. \A v \in Channels \ {G} : Waiting(v)' = Waiting(v)
    BY <1>0, <2>1 DEF Waiting, OthersStay, Channels
  <2> HIDE DEF G
  <2>10. Distinct(Append(blocked[G], i)) /\ Members(Append(blocked[G], i)) = Waiting(G)'
    <3>1. Distinct(blocked[G]) /\ Members(blocked[G]) = Waiting(G)
      BY <2>3, QueueFacts
    <3>2. QED
      BY <2>3, <2>8, <3>1, AppendOne
  <2>11. WaitersAreQueued'
    BY <2>3, <2>4, <2>9, <2>10, Requeued
  <2>12. /\ slots' \in [Tasks -> Int] /\ queue' \in [Tasks -> Int] /\ retired' \in BOOLEAN
         /\ phase' \in [Invocations -> Phases]
    BY <1>0, <2>1, <2>2 DEF OthersStay
  <2>13. QED
    BY <2>1, <2>4, <2>6, <2>7, <2>11, <2>12, OneAccounted, SlotsAssembled DEF OnlyQueue, Channels
<1>3. QED
  BY <1>1, <1>2

\* Two phases change in one step: what there is to know of it.
BothMove(i, p, n, q) ==
    /\ phase'[i] = p /\ phase'[n] = q
    /\ \A j \in Invocations \ {i, n} : phase'[j] = phase[j]

LEMMA Woken ==
    ASSUME phase \in [Invocations -> Phases], NEW i \in Invocations, NEW n \in Invocations, i # n,
           NEW p \in Phases, NEW q \in Phases, Wake(i, p, n, q)
    PROVE  /\ phase' \in [Invocations -> Phases] /\ BothMove(i, p, n, q)
           /\ \E h : OthersStay(phase, h, i) /\ OthersStay(h, phase', n)
<1>1. phase' = [phase EXCEPT ![i] = p, ![n] = q]
  BY DEF Wake
<1>2. phase' \in [Invocations -> Phases] /\ BothMove(i, p, n, q)
  BY <1>1 DEF BothMove
<1> DEFINE h == [phase EXCEPT ![i] = p]
<1>3. h \in [Invocations -> Phases] /\ h[i] = p /\ \A j \in Invocations \ {i} : h[j] = phase[j]
  OBVIOUS
<1> HIDE DEF h
<1>4. OthersStay(phase, h, i)
  BY <1>3 DEF OthersStay
<1>5. OthersStay(h, phase', n)
  BY <1>2, <1>3 DEF OthersStay, BothMove
<1>6. QED
  BY <1>2, <1>4, <1>5

\* A token goes to the first that waits for it: w is the queue, n its head.
LEMMA HandedOn ==
    ASSUME SlotsInv, NEW i \in Invocations, NEW n \in Invocations, i # n, NEW w \in Channels,
           NEW p \in Phases, NEW q \in Phases, Wake(i, p, n, q),
           phase[i] \notin Blocked, p \notin Blocked, q \notin Blocked,
           blocked[w] # << >>, n = Head(blocked[w]), OnlyQueue(w, Tail(blocked[w])),
           TwoSettle(i, n), Fits',
           slots' \in [Tasks -> Int], queue' \in [Tasks -> Int], retired' \in BOOLEAN
    PROVE  SlotsInv'
<1>1. phase \in [Invocations -> Phases]
  BY SlotsFacts
<1>2. phase' \in [Invocations -> Phases] /\ BothMove(i, p, n, q)
  BY <1>1, Woken
<1>3. SlotsAreAccounted' /\ global' \in Nat /\ \A t \in Tasks : slots'[t] \in Nat /\ queue'[t] \in Nat
  <2>1. PICK h : OthersStay(phase, h, i) /\ OthersStay(h, phase', n)
    BY <1>1, Woken
  <2>2. QED
    BY <2>1, TwoAccounted
<1>4. blocked[w] \in Seq(Invocations) /\ Distinct(blocked[w]) /\ Members(blocked[w]) = Waiting(w)
  BY QueueFacts
<1>5. /\ Distinct(Tail(blocked[w])) /\ Members(Tail(blocked[w])) = Members(blocked[w]) \ {n}
      /\ n \in Members(blocked[w])
  BY <1>4, DropHead
<1>6. n \in Waiting(w)
  BY <1>4, <1>5
<1>7. Waiting(w)' = Waiting(w) \ {n}
  BY <1>2, <1>6 DEF Waiting, BothMove, Blocked
<1>8. \A v \in Channels \ {w} : Waiting(v)' = Waiting(v)
  BY <1>2, <1>6 DEF Waiting, BothMove, Blocked, Channels
<1>9. WaitersAreQueued'
  BY <1>4, <1>5, <1>7, <1>8, Requeued
<1>10. QED
  BY <1>2, <1>3, <1>9, SlotsAssembled DEF OnlyQueue, Channels

LEMMA GivesASlot ==
    ASSUME SlotsInv, NEW i \in Invocations, Leave(i) \/ GivesBack(i), blocked[TaskOf[i]] # << >>
    PROVE  SlotsInv'
<1> DEFINE T == TaskOf[i]
           n == Head(blocked[T])
<1>0. /\ phase \in [Invocations -> Phases] /\ slots \in [Tasks -> Nat] /\ queue \in [Tasks -> Nat]
      /\ blocked \in [Channels -> Seq(Invocations)] /\ "global" \notin Tasks
      /\ global \in Nat /\ retired \in BOOLEAN /\ Fits /\ T \in Tasks /\ T \in Channels
  BY SlotsFacts DEF Channels
<1>1. n \in Invocations /\ n \in Waiting(T)
  BY <1>0, QueueFacts, DropHead
<1>2. phase[n] = "waitSlot" /\ TaskOf[n] = T
  BY <1>0, <1>1 DEF Waiting
<1>3. PICK p \in {"congested", "done"} :
          /\ phase[i] \in {"half", "left"} /\ Wake(i, p, n, "gotSlot")
          /\ UNCHANGED <<slots, queue, global, retired>>
          /\ blocked' = [blocked EXCEPT ![T] = Tail(blocked[T])]
  BY DEF Leave, GivesBack, GiveSlot
<1>4. Tail(blocked[T]) \in Seq(Invocations)
  BY <1>0
<1>5. OnlyQueue(T, Tail(blocked[T]))
  BY <1>0, <1>3, <1>4 DEF OnlyQueue
<1> HIDE DEF n
<1>6. i # n
  BY <1>2, <1>3
<1>7. p \in Phases /\ "gotSlot" \in Phases
  BY DEF Phases
<1>8. BothMove(i, p, n, "gotSlot")
  BY <1>0, <1>1, <1>3, <1>6, <1>7, Woken
<1>9. /\ Change(i, Holding) = -1 /\ Change(i, Queued) = 0 /\ Change(i, {"running"}) = 0
      /\ Change(n, Holding) = 1 /\ Change(n, Queued) = 0 /\ Change(n, {"running"}) = 0
  BY <1>2, <1>3, <1>8 DEF Change, Share, Holding, Queued, BothMove
<1>10. TwoSettle(i, n)
  BY <1>0, <1>2, <1>3, <1>9 DEF TwoSettle, Of
<1>11. Fits'
  BY <1>0, <1>3 DEF Fits
<1>12. slots' \in [Tasks -> Int] /\ queue' \in [Tasks -> Int] /\ retired' \in BOOLEAN
  BY <1>0, <1>3
<1>13. phase[i] \notin Blocked /\ p \notin Blocked /\ "gotSlot" \notin Blocked
  BY <1>3 DEF Blocked
<1>14. Wake(i, p, n, "gotSlot") /\ n = Head(blocked[T])
  BY <1>3 DEF n
<1> HIDE DEF T
<1>15. blocked[T] # << >>
  BY DEF T
<1>16. QED
  BY <1>0, <1>1, <1>5, <1>6, <1>7, <1>10, <1>11, <1>12, <1>13, <1>14, <1>15, HandedOn

LEMMA GivesTheGlobal ==
    ASSUME SlotsInv, NEW i \in Invocations, Finish(i), blocked["global"] # << >>
    PROVE  SlotsInv'
<1> DEFINE G == "global"
           n == Head(blocked[G])
           U == TaskOf[n]
<1>0. /\ phase \in [Invocations -> Phases] /\ slots \in [Tasks -> Nat] /\ queue \in [Tasks -> Nat]
      /\ blocked \in [Channels -> Seq(Invocations)] /\ "global" \notin Tasks
      /\ global \in Nat /\ retired \in BOOLEAN /\ Fits /\ G \in Channels
      /\ \A t \in Tasks : Concurrency[t].max \in Nat /\ Concurrency[t].queue \in Nat
  BY SlotsFacts DEF Channels
<1>1. n \in Invocations /\ n \in Waiting(G)
  BY <1>0, QueueFacts, DropHead
<1>2. phase[n] = "waitGlobal" /\ U \in Tasks
  BY <1>0, <1>1, SlotsFacts DEF Waiting
<1>3. /\ phase[i] = "running" /\ Wake(i, "left", n, "running")
      /\ UNCHANGED <<slots, global, retired>>
      /\ blocked' = [blocked EXCEPT ![G] = Tail(blocked[G])]
      /\ queue' = [queue EXCEPT ![U] = @ - 1]
  BY DEF Finish, Dequeued
<1>4. Tail(blocked[G]) \in Seq(Invocations)
  BY <1>0
<1>5. OnlyQueue(G, Tail(blocked[G]))
  BY <1>0, <1>3, <1>4 DEF OnlyQueue
<1>6. /\ queue' \in [Tasks -> Int]
      /\ \A t \in Tasks : queue'[t] = IF t = U THEN queue[t] - 1 ELSE queue[t]
  BY <1>0, <1>2, <1>3
<1>7. i # n /\ "left" \in Phases /\ "running" \in Phases
  BY <1>2, <1>3 DEF Phases
<1>8. Wake(i, "left", n, "running") /\ n = Head(blocked[G]) /\ blocked[G] # << >>
  BY <1>3
<1> HIDE DEF n, G
<1>9. BothMove(i, "left", n, "running")
  BY <1>0, <1>1, <1>7, <1>8, Woken
<1>10. /\ Change(i, Holding) = 0 /\ Change(i, Queued) = 0 /\ Change(i, {"running"}) = -1
       /\ Change(n, Holding) = 0 /\ Change(n, Queued) = -1 /\ Change(n, {"running"}) = 1
  BY <1>2, <1>3, <1>9 DEF Change, Share, Holding, Queued, BothMove
<1>11. UNCHANGED <<slots, global, retired>>
  BY <1>3
<1>12. TwoSettle(i, n)
  BY <1>0, <1>2, <1>6, <1>10, <1>11 DEF TwoSettle, Of
<1>13. Fits'
  <2>1. ASSUME NEW t \in Tasks PROVE slots'[t] <= Concurrency[t].max /\ queue'[t] <= Concurrency[t].queue
    <3>1. /\ slots[t] <= Concurrency[t].max /\ queue[t] <= Concurrency[t].queue
          /\ slots'[t] = slots[t] /\ queue'[t] = IF t = U THEN queue[t] - 1 ELSE queue[t]
          /\ queue[t] \in Nat /\ Concurrency[t].queue \in Nat
      BY <1>0, <1>6, <1>11 DEF Fits
    <3>2. QED
      BY <3>1
  <2>2. QED
    BY <1>0, <1>11, <2>1 DEF Fits
<1>14. slots' \in [Tasks -> Int] /\ retired' \in BOOLEAN
  BY <1>0, <1>11
<1>15. phase[i] \notin Blocked /\ "left" \notin Blocked /\ "running" \notin Blocked
  BY <1>3 DEF Blocked
<1>16. QED
  BY <1>0, <1>1, <1>5, <1>6, <1>7, <1>8, <1>12, <1>13, <1>14, <1>15, HandedOn

LEMMA LeavesTheQueue ==
    ASSUME SlotsInv, NEW i \in Invocations,
           LeaveSlot(i) \/ (LeaveGlobal(i) /\ blocked[TaskOf[i]] = << >>)
    PROVE  SlotsInv'
<1> DEFINE T == TaskOf[i]
<1>0. /\ phase \in [Invocations -> Phases] /\ slots \in [Tasks -> Nat] /\ queue \in [Tasks -> Nat]
      /\ blocked \in [Channels -> Seq(Invocations)] /\ "global" \notin Tasks /\ "global" \in Channels
      /\ global \in Nat /\ retired \in BOOLEAN /\ Fits /\ T \in Tasks /\ T \in Channels
      /\ \A t \in Tasks : Concurrency[t].max \in Nat /\ Concurrency[t].queue \in Nat
  BY SlotsFacts DEF Channels
\* d is what happens to the slots of the task, w the queue it leaves.
<1>1. PICK d \in {0, 1}, w \in Channels :
          /\ OthersStay(phase, phase', i) /\ phase'[i] = "skipped"
          /\ \/ d = 0 /\ phase[i] = "waitSlot" /\ w = T
             \/ d = 1 /\ phase[i] \in {"waitGlobal", "gotSlot"} /\ w = "global"
          /\ OnlyQueue(w, Without(blocked[w], i))
          /\ UNCHANGED <<global, retired>> /\ slots' \in [Tasks -> Int] /\ queue' \in [Tasks -> Int]
          /\ \A t \in Tasks : /\ slots'[t] = (IF t = T THEN slots[t] - d ELSE slots[t])
                              /\ queue'[t] = IF t = T THEN queue[t] - 1 ELSE queue[t]
  <2>1. \A w \in Channels : Without(blocked[w], i) \in Seq(Invocations)
    BY QueueFacts, LeaveQueue
  <2>2. CASE LeaveSlot(i)
    <3>1. OnlyQueue(T, Without(blocked[T], i))
      BY <1>0, <2>1, <2>2 DEF LeaveSlot, OnlyQueue
    <3>2. OthersStay(phase, phase', i) /\ phase'[i] = "skipped" /\ phase[i] = "waitSlot"
      BY <1>0, <2>2 DEF LeaveSlot, To, OthersStay, Phases
    <3>3. /\ UNCHANGED <<slots, global, retired>> /\ queue' \in [Tasks -> Int]
          /\ \A t \in Tasks : queue'[t] = IF t = T THEN queue[t] - 1 ELSE queue[t]
      BY <1>0, <2>2 DEF LeaveSlot, Dequeued
    <3>4. slots' \in [Tasks -> Int] /\ \A t \in Tasks : slots'[t] = IF t = T THEN slots[t] - 0 ELSE slots[t]
      BY <1>0, <3>3
    <3>5. QED
      BY <1>0, <3>1, <3>2, <3>3, <3>4
  <2>3. CASE LeaveGlobal(i) /\ blocked[T] = << >>
    <3> DEFINE out == [blocked EXCEPT !["global"] = Without(blocked["global"], i)]
    <3>1. out[T] = << >>
      BY <1>0, <2>3
    <3>2. /\ phase[i] \in {"waitGlobal", "gotSlot"} /\ UNCHANGED <<global, retired>>
          /\ slots' = [slots EXCEPT ![T] = @ - 1] /\ To(i, "skipped") /\ blocked' = out /\ Dequeued(i)
      BY <2>3, <3>1 DEF LeaveGlobal
    <3>3. OnlyQueue("global", Without(blocked["global"], i))
      BY <1>0, <2>1, <3>2 DEF OnlyQueue
    <3>4. OthersStay(phase, phase', i) /\ phase'[i] = "skipped"
      BY <1>0, <3>2 DEF To, OthersStay, Phases
    <3>5. /\ slots' \in [Tasks -> Int] /\ queue' \in [Tasks -> Int]
          /\ \A t \in Tasks : /\ slots'[t] = (IF t = T THEN slots[t] - 1 ELSE slots[t])
                              /\ queue'[t] = IF t = T THEN queue[t] - 1 ELSE queue[t]
      BY <1>0, <3>2 DEF Dequeued
    <3>6. phase[i] \in {"waitGlobal", "gotSlot"} /\ UNCHANGED <<global, retired>>
      BY <3>2
    <3> HIDE DEF out
    <3>7. QED
      BY <1>0, <3>3, <3>4, <3>5, <3>6
  <2>4. QED
    BY <2>2, <2>3
<1>2. blocked[w] \in Seq(Invocations) /\ Distinct(blocked[w]) /\ Members(blocked[w]) = Waiting(w)
  BY QueueFacts
<1>3. Distinct(Without(blocked[w], i)) /\ Members(Without(blocked[w], i)) = Waiting(w) \ {i}
  BY <1>2, LeaveQueue
<1>4. Waiting(w)' = Waiting(w) \ {i}
  BY <1>0, <1>1 DEF Waiting, OthersStay
<1>5. \A v \in Channels \ {w} : Waiting(v)' = Waiting(v)
  BY <1>0, <1>1 DEF Waiting, OthersStay, Channels
<1>6. WaitersAreQueued'
  BY <1>1, <1>3, <1>4, <1>5, Requeued
<1>7. Change(i, Holding) = -d /\ Change(i, Queued) = -1 /\ Change(i, {"running"}) = 0
  BY <1>1 DEF Change, Share, Holding, Queued
<1>8. OneSettles(i)
  BY SMTT(20), <1>0, <1>1, <1>7 DEF OneSettles, Of
<1>9. Fits'
  <2>1. ASSUME NEW t \in Tasks PROVE slots'[t] <= Concurrency[t].max /\ queue'[t] <= Concurrency[t].queue
    <3>1. /\ slots[t] <= Concurrency[t].max /\ queue[t] <= Concurrency[t].queue
          /\ slots'[t] = (IF t = T THEN slots[t] - d ELSE slots[t])
          /\ queue'[t] = (IF t = T THEN queue[t] - 1 ELSE queue[t])
          /\ queue[t] \in Nat /\ slots[t] \in Nat /\ d \in {0, 1}
          /\ Concurrency[t].queue \in Nat /\ Concurrency[t].max \in Nat
      BY <1>0, <1>1 DEF Fits
    <3>2. QED
      BY <3>1
  <2>2. QED
    BY <1>0, <1>1, <2>1 DEF Fits
<1>10. retired' \in BOOLEAN /\ phase' \in [Invocations -> Phases]
  BY <1>0, <1>1 DEF OthersStay
<1>11. blocked' \in [Tasks \cup {"global"} -> Seq(Invocations)]
  BY <1>1 DEF OnlyQueue, Channels
<1>12. SlotsAreAccounted' /\ global' \in Nat /\ \A t \in Tasks : slots'[t] \in Nat /\ queue'[t] \in Nat
  BY <1>1, <1>8, <1>9, OneAccounted
<1>13. QED
  BY <1>1, <1>6, <1>10, <1>11, <1>12, SlotsAssembled

\* Two queues change at once: the one that i leaves, and that of the task's slot.
LEMMA LeavesAndGives ==
    ASSUME SlotsInv, NEW i \in Invocations, LeaveGlobal(i), blocked[TaskOf[i]] # << >>
    PROVE  SlotsInv'
<1> DEFINE T == TaskOf[i]
           G == "global"
           n == Head(blocked[T])
           out == [blocked EXCEPT ![G] = Without(blocked[G], i)]
<1>0. /\ phase \in [Invocations -> Phases] /\ slots \in [Tasks -> Nat] /\ queue \in [Tasks -> Nat]
      /\ blocked \in [Channels -> Seq(Invocations)] /\ G \notin Tasks /\ G \in Channels
      /\ global \in Nat /\ retired \in BOOLEAN /\ Fits /\ T \in Tasks /\ T \in Channels /\ T # G
      /\ \A t \in Tasks : Concurrency[t].max \in Nat /\ Concurrency[t].queue \in Nat
  BY SlotsFacts DEF Channels
<1>1. n \in Invocations /\ n \in Waiting(T)
  BY <1>0, QueueFacts, DropHead
<1>2. phase[n] = "waitSlot" /\ TaskOf[n] = T
  BY <1>0, <1>1 DEF Waiting
<1>3. out[T] = blocked[T] /\ out[T] # << >>
  BY <1>0
<1>4. /\ phase[i] \in {"waitGlobal", "gotSlot"} /\ Wake(i, "skipped", n, "gotSlot")
      /\ UNCHANGED <<slots, global, retired>>
      /\ blocked' = [out EXCEPT ![T] = Tail(@)]
      /\ queue' = [queue EXCEPT ![T] = @ - 1]
  BY <1>3 DEF LeaveGlobal, Dequeued
<1>5. /\ Tail(blocked[T]) \in Seq(Invocations) /\ Distinct(Tail(blocked[T]))
      /\ Members(Tail(blocked[T])) = Waiting(T) \ {n}
  BY <1>0, QueueFacts, DropHead
<1>6. /\ Without(blocked[G], i) \in Seq(Invocations) /\ Distinct(Without(blocked[G], i))
      /\ Members(Without(blocked[G], i)) = Waiting(G) \ {i}
  BY <1>0, QueueFacts, LeaveQueue
<1>7. /\ blocked' \in [Channels -> Seq(Invocations)]
      /\ blocked'[T] = Tail(blocked[T]) /\ blocked'[G] = Without(blocked[G], i)
      /\ \A v \in Channels \ {T, G} : blocked'[v] = blocked[v]
  BY <1>0, <1>3, <1>4, <1>5, <1>6
<1>8. /\ queue' \in [Tasks -> Int]
      /\ \A t \in Tasks : queue'[t] = IF t = T THEN queue[t] - 1 ELSE queue[t]
  BY <1>0, <1>4
<1>9. /\ i # n /\ Wake(i, "skipped", n, "gotSlot") /\ "skipped" \in Phases /\ "gotSlot" \in Phases
      /\ UNCHANGED <<slots, global, retired>> /\ phase[i] \in {"waitGlobal", "gotSlot"}
  BY <1>2, <1>4 DEF Phases
<1> HIDE DEF n, out
<1>10. phase' \in [Invocations -> Phases] /\ BothMove(i, "skipped", n, "gotSlot")
  BY <1>0, <1>1, <1>9, Woken
<1>11. /\ Change(i, Holding) = -1 /\ Change(i, Queued) = -1 /\ Change(i, {"running"}) = 0
       /\ Change(n, Holding) = 1 /\ Change(n, Queued) = 0 /\ Change(n, {"running"}) = 0
  BY <1>2, <1>9, <1>10 DEF Change, Share, Holding, Queued, BothMove
<1>12. TwoSettle(i, n)
  BY <1>0, <1>2, <1>8, <1>9, <1>11 DEF TwoSettle, Of
<1>13. Fits'
  <2>1. ASSUME NEW t \in Tasks PROVE slots'[t] <= Concurrency[t].max /\ queue'[t] <= Concurrency[t].queue
    <3>1. /\ slots[t] <= Concurrency[t].max /\ queue[t] <= Concurrency[t].queue
          /\ slots'[t] = slots[t] /\ queue'[t] = (IF t = T THEN queue[t] - 1 ELSE queue[t])
          /\ queue[t] \in Nat /\ Concurrency[t].queue \in Nat
      BY <1>0, <1>8, <1>9 DEF Fits
    <3>2. QED
      BY <3>1
  <2>2. QED
    BY <1>0, <1>9, <2>1 DEF Fits
<1>14. SlotsAreAccounted' /\ global' \in Nat /\ \A t \in Tasks : slots'[t] \in Nat /\ queue'[t] \in Nat
  <2>1. PICK h : OthersStay(phase, h, i) /\ OthersStay(h, phase', n)
    BY <1>0, <1>1, <1>9, Woken
  <2>2. QED
    BY <1>1, <1>9, <1>12, <1>13, <2>1, TwoAccounted
<1>15. WaitersAreQueued'
  <2>1. ASSUME NEW v \in Channels
        PROVE  Distinct(blocked'[v]) /\ Members(blocked'[v]) = Waiting(v)'
    <3>1. CASE v = T
      <4>1. Waiting(T)' = Waiting(T) \ {n}
        BY <1>0, <1>1, <1>2, <1>9, <1>10 DEF Waiting, BothMove
      <4>2. QED
        BY <1>5, <1>7, <3>1, <4>1
    <3>2. CASE v = G
      <4>1. Waiting(G)' = Waiting(G) \ {i}
        BY <1>0, <1>1, <1>2, <1>9, <1>10 DEF Waiting, BothMove
      <4>2. QED
        BY <1>6, <1>7, <3>2, <4>1
    <3>3. CASE v \in Channels \ {T, G}
      <4>1. Waiting(v)' = Waiting(v)
        BY <1>0, <1>1, <1>2, <1>9, <1>10, <3>3 DEF Waiting, BothMove, Channels
      <4>2. Distinct(blocked[v]) /\ Members(blocked[v]) = Waiting(v)
        BY QueueFacts
      <4>3. QED
        BY <1>7, <3>3, <4>1, <4>2
    <3>4. QED
      BY <3>1, <3>2, <3>3
  <2>2. QED
    BY <2>1 DEF WaitersAreQueued, Channels
<1>16. slots' \in [Tasks -> Int] /\ retired' \in BOOLEAN
  BY <1>0, <1>9
<1>17. blocked' \in [Tasks \cup {"global"} -> Seq(Invocations)]
  BY <1>7 DEF Channels
<1>18. QED
  BY <1>8, <1>10, <1>14, <1>15, <1>16, <1>17, SlotsAssembled

LEMMA SlotsStep == SlotsInv /\ [SlotsNext]_slotVars => SlotsInv'
<1> SUFFICES ASSUME SlotsInv, [SlotsNext]_slotVars PROVE SlotsInv'
  OBVIOUS
<1>1. ASSUME NEW i \in Invocations, Enter(i) \/ Acquires(i) \/ Finish(i) PROVE SlotsInv'
  <2>1. CASE Enter(i) \/ TrySlot(i) \/ TryGlobal(i) \/ Skip(i)
    BY <2>1, QuietActions
  <2>2. CASE Enqueue(i)
    BY <2>2, QuietActions, JoinsTheQueue
  <2>3. CASE QueueGlobal(i)
    BY <2>3, QuietActions, JoinsTheQueue
  <2>4. CASE Finish(i)
    BY <2>4, QuietActions, GivesTheGlobal
  <2>5. CASE Leave(i) \/ GivesBack(i)
    BY <2>5, QuietActions, GivesASlot
  <2>6. CASE LeaveSlot(i) \/ LeaveGlobal(i)
    BY <2>6, LeavesTheQueue, LeavesAndGives
  <2>7. QED
    BY <1>1, <2>1, <2>2, <2>3, <2>4, <2>5, <2>6 DEF Acquires
<1>2. ASSUME UNCHANGED <<phase, slots, queue, global, blocked>>, retired' \in BOOLEAN PROVE SlotsInv'
  <2>1. \A w : Waiting(w)' = Waiting(w)
    BY <1>2 DEF Waiting
  <2>2. \A t, ps : In(t, ps)' = In(t, ps)
    BY <1>2 DEF In
  <2>3. WaitersAreQueued'
    BY <1>2, <2>1 DEF SlotsInv, WaitersAreQueued
  <2>4. SlotsAreAccounted'
    BY <1>2, <2>2 DEF SlotsInv, SlotsAreAccounted
  <2>5. SlotsTypeOK'
    BY <1>2 DEF SlotsInv, SlotsTypeOK
  <2>6. QED
    BY <2>3, <2>4, <2>5 DEF SlotsInv
<1>3. CASE RetireTask
  <2>1. retired' \in BOOLEAN
    BY <1>3 DEF RetireTask
  <2>2. QED
    BY <1>2, <1>3, <2>1 DEF RetireTask
<1>4. CASE UNCHANGED slotVars
  <2>1. retired' \in BOOLEAN
    BY <1>4, SlotsFacts DEF slotVars
  <2>2. QED
    BY <1>2, <1>4, <2>1 DEF slotVars
<1>5. QED
  BY <1>1, <1>3, <1>4 DEF SlotsNext

LEMMA SlotsBegins == SlotsInit => SlotsInv
<1> SUFFICES ASSUME SlotsInit PROVE SlotsInv
  OBVIOUS
<1>1. SlotsTypeOK
  <2>1. phase \in [Invocations -> Phases]
    BY DEF SlotsInit, Phases
  <2>2. slots \in [Tasks -> Nat] /\ queue \in [Tasks -> Nat] /\ global \in Nat
    BY DEF SlotsInit
  <2>3. blocked \in [Tasks \cup {"global"} -> Seq(Invocations)]
    <3>1. << >> \in Seq(Invocations)
      OBVIOUS
    <3>2. QED
      BY <3>1 DEF SlotsInit
  <2>4. retired \in BOOLEAN
    BY DEF SlotsInit
  <2>5. QED
    BY <2>1, <2>2, <2>3, <2>4 DEF SlotsTypeOK
<1>2. \A i \in Invocations : phase[i] = "new"
  BY DEF SlotsInit
<1>3. WaitersAreQueued
  <2>1. ASSUME NEW w \in Tasks \cup {"global"} PROVE Distinct(blocked[w]) /\ Members(blocked[w]) = Waiting(w)
    <3>1. blocked[w] = << >> /\ DOMAIN << >> = {}
      BY DEF SlotsInit
    <3>2. Waiting(w) = {}
      BY <1>2 DEF Waiting
    <3>3. QED
      BY <3>1, <3>2 DEF Distinct, Members
  <2>2. QED
    BY <2>1 DEF WaitersAreQueued
<1>4. SlotsAreAccounted
  <2>1. \A t : {i \in Invocations : TaskOf[i] = t /\ phase[i] \in Holding} = {}
    BY <1>2 DEF Holding
  <2>2. \A t : {i \in Invocations : TaskOf[i] = t /\ phase[i] \in Queued} = {}
    BY <1>2 DEF Queued
  <2>3. {i \in Invocations : phase[i] = "running"} = {}
    BY <1>2
  <2>4. Cardinality({}) = 0
    BY FS_EmptySet
  <2>5. \A t \in Tasks : /\ slots[t] = 0 /\ queue[t] = 0
                         /\ Concurrency[t].max \in Nat /\ Concurrency[t].queue \in Nat
    BY TaskSlotsAssumption, TaskLimits DEF SlotsInit
  <2>6. global = 0 /\ MaxConcurrency \in Nat
    BY TaskSlotsAssumption DEF SlotsInit
  <2>7. \A t : In(t, Holding) = 0 /\ In(t, Queued) = 0
    BY <2>1, <2>2, <2>4 DEF In
  <2>8. QED
    BY <2>3, <2>4, <2>5, <2>6, <2>7 DEF SlotsAreAccounted
<1>5. QED
  BY <1>1, <1>3, <1>4 DEF SlotsInv

\* No token of a channel leaks, no limit is exceeded and nobody waits outside a
\* queue, however many invocations race, give up half way or are handed a slot.
THEOREM SlotsAreAccountedHolds == SlotsSpec => []SlotsAreAccounted
<1>1. SlotsSpec => []SlotsInv
  BY SlotsBegins, SlotsStep, PTL DEF SlotsSpec
<1>2. SlotsInv => SlotsAreAccounted
  BY DEF SlotsInv
<1>3. QED
  BY <1>1, <1>2, PTL

-----------------------------------------------------------------------------
(* The four side by side.                                                  *)

\* A job fires only under an authority, an occurrence runs only with its slots,
\* a leader asks in time and a load reads what was written: the four invariants
\* hold of whatever is started, for every set of replicas, tasks and times.
THEOREM AdmissionIsSoundHolds == Spec => []AdmissionIsSound
<1>1. Init => AdmissionIsSound
  BY LeadershipBegins, SlotsBegins, WindowBegins, WatchBegins DEF Init, AdmissionIsSound
<1>2. ASSUME AdmissionIsSound, [Next]_vars PROVE AdmissionIsSound'
  <2>1. [LeadershipNext]_leadVars
    BY <1>2 DEF Next, Leads, Admits, KeepsTime, WatchesFile, vars
  <2>2. [SlotsNext]_slotVars
    BY <1>2 DEF Next, Leads, Admits, KeepsTime, WatchesFile, vars
  <2>3. [WindowNext]_windowVars
    BY <1>2 DEF Next, Leads, Admits, KeepsTime, WatchesFile, vars
  <2>4. [WatchNext]_watchVars
    BY <1>2 DEF Next, Leads, Admits, KeepsTime, WatchesFile, vars
  <2>5. QED
    BY <1>2, <2>1, <2>2, <2>3, <2>4, LeadershipStep, SlotsStep, WindowStep, WatchStep
    DEF AdmissionIsSound
<1>3. QED
  BY <1>1, <1>2, PTL DEF Spec

=============================================================================

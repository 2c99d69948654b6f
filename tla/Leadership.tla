----------------------------- MODULE Leadership -----------------------------
(***************************************************************************)
(* Which replica runs a distributed scheduled task: every replica contends *)
(* for an expiring lease in Redis, the holder installs the job, renews the *)
(* lease and removes the job before it lets the lease go. What happens     *)
(* while Redis does not answer is the task's policy.                       *)
(* (internal/kernel/app/schedule/schedule.go, pkg/schedule, and            *)
(* internal/kernel/app/cache/coordination.go)                              *)
(*                                                                         *)
(* A lease expires whenever it likes: nothing here relies on clocks.       *)
(***************************************************************************)
EXTENDS Naturals

CONSTANTS
    Replicas,
    Declarations   \* tasks that are tried: what the module declares and what the
                   \* configuration says instead, [mode, unavailable, override]

Local == "local"
Strict == "distributedSingletonStrict"
BestEffort == "distributedSingletonBestEffort"
Nobody == "nobody"
Orphan == "orphan"     \* the token of a lease that no replica knows any more

ASSUME LeadershipAssumption == {Nobody, Orphan} \cap Replicas = {}

VARIABLES
    policy,      \* CoordinationPolicy of the task: mode and what to do when unavailable
    holder,      \* the token under the lease's key in Redis
    runner,      \* the goroutine of coordinate, per replica
    job,         \* the job in the engine: none, live, or left behind with a cancelled context
    scheduler,   \* resource: prepared, active, deactivated
    lapsed       \* history: replicas whose lease expired since they won it

leadVars == <<policy, holder, runner, job, scheduler, lapsed>>

\* Validate of CoordinationPolicy: a strict task never runs without its lease.
ValidPolicy(mode, unavailable) ==
    \/ mode = Local /\ unavailable = ""
    \/ mode \in {Strict, BestEffort} /\ unavailable \in {"skip", "pause", "fail"}
    \/ mode = BestEffort /\ unavailable = "local"

\* resolveTask: the configuration may change what a distributed task does while
\* coordination is unavailable, and nothing else about it.
Resolvable(t) ==
    t.override # "" => t.mode # Local /\ ValidPolicy(t.mode, t.override)

ResolveTask(t) == <<t.mode, IF t.override = "" THEN t.unavailable ELSE t.override>>

LeadershipTypeOK ==
    /\ policy \in {Strict, BestEffort} \X {"skip", "pause", "fail", "local"}
    /\ ValidPolicy(policy[1], policy[2])
    /\ holder \in Replicas \cup {Nobody, Orphan}
    /\ runner \in [Replicas -> {"idle", "contend", "calling", "won", "lead", "yield", "release", "standby", "away",
                           "retry", "ended", "failed"}]
    /\ job \in [Replicas -> {"none", "live", "stale"}]
    /\ scheduler \in [Replicas -> {"prepared", "active", "deactivated"}]
    /\ lapsed \subseteq Replicas

Cancels(r) == scheduler[r] = "deactivated"   \* resource.ctx

Go(r, where) == runner' = [runner EXCEPT ![r] = where]

loopVars == <<policy, scheduler, lapsed>>

-----------------------------------------------------------------------------
(* The resource: activate and deactivate.                                  *)

activate(r) ==
    /\ scheduler[r] = "prepared"
    /\ scheduler' = [scheduler EXCEPT ![r] = "active"]
    /\ Go(r, "contend")
    /\ UNCHANGED <<policy, holder, job, lapsed>>

\* Cancels the resource's context, and with it that of every job.
deactivate(r) ==
    /\ scheduler[r] # "deactivated"
    /\ scheduler' = [scheduler EXCEPT ![r] = "deactivated"]
    /\ UNCHANGED <<policy, holder, runner, job, lapsed>>

-----------------------------------------------------------------------------
(* coordinate: one replica's loop. The engine may refuse to remove or to   *)
(* add a job; then the task has failed and the loop ends.                  *)

\* removeJob cancels the job's context before it asks the engine.
Removed(r) == job' = [job EXCEPT ![r] = "none"]
NotRemoved(r) == job[r] # "none" /\ job' = [job EXCEPT ![r] = "stale"]

Fail(r) == Go(r, "failed")     \* fail: reported, the application generation ends

\* Faulty coordinate: the weakened job stays although somebody leads.
StandbyArmed(r, where) == UNCHANGED job /\ Go(r, where)

StandBack(r, where) ==
    \/ Removed(r) /\ Go(r, where)
    \/ NotRemoved(r) /\ Fail(r)

EndsEarly(r) ==
    /\ runner[r] = "contend" /\ Cancels(r)
    /\ Removed(r) \/ NotRemoved(r)
    /\ Go(r, "ended")
    /\ UNCHANGED <<loopVars, holder>>

CallAcquire(r) ==
    /\ runner[r] = "contend" /\ ~Cancels(r)
    /\ Go(r, "calling")
    /\ UNCHANGED <<loopVars, holder, job>>

\* SetNX: the key is taken only when nobody holds it.
AcquireWins(r) ==
    /\ runner[r] = "calling" /\ holder = Nobody
    /\ holder' = r /\ lapsed' = lapsed \ {r}
    /\ Go(r, "won")
    /\ UNCHANGED <<policy, scheduler, job>>

AcquireRefused(r) ==
    /\ runner[r] = "calling" /\ holder # Nobody
    /\ StandBack(r, "standby")
    /\ UNCHANGED <<loopVars, holder>>

\* handleUnavailable: the task's policy decides.
Unavailable(r) ==
    CASE policy[2] \in {"skip", "pause"} -> StandBack(r, "away")
      [] policy[2] = "fail"  -> (Removed(r) \/ NotRemoved(r)) /\ Fail(r)
      [] policy[2] = "local" ->
            \/ job' = [job EXCEPT ![r] = IF @ = "none" THEN "live" ELSE @] /\ Go(r, "away")
            \/ job[r] = "none" /\ UNCHANGED job /\ Fail(r)

\* The call to Redis fails, perhaps after it took effect.
AcquireFails(r) ==
    /\ runner[r] = "calling"
    /\ UNCHANGED holder \/ (holder = Nobody /\ holder' = Orphan)
    /\ IF Cancels(r)
       THEN Go(r, "ended") /\ UNCHANGED job
       ELSE Unavailable(r)
    /\ UNCHANGED loopVars

\* Without a job the lease is left to expire.
BecomeLeader(r) ==
    /\ runner[r] = "won"
    /\ \/ /\ job' = [job EXCEPT ![r] = "live"]      \* the weakened job is replaced
          /\ Go(r, "lead")
          /\ UNCHANGED holder
       \/ /\ Removed(r) \/ NotRemoved(r)
          /\ Fail(r)
          /\ holder' = IF holder = r THEN Orphan ELSE holder
    /\ UNCHANGED loopVars

\* renew: the script extends the lease only if the token is still ours.
Renew(r) ==
    /\ runner[r] = "lead" /\ holder = r
    /\ UNCHANGED <<loopVars, holder, runner, job>>

\* The lease is lost, Redis does not answer, or the resource is stopped.
RenewEnds(r) ==
    /\ runner[r] = "lead"
    /\ Go(r, "yield")
    /\ UNCHANGED <<loopVars, holder, job>>

\* The job goes before the lease does.
Yield(r) ==
    /\ runner[r] = "yield"
    /\ Removed(r) \/ NotRemoved(r)
    /\ Go(r, "release")
    /\ UNCHANGED <<loopVars, holder>>

Release(r) ==
    /\ runner[r] = "release"
    /\ \/ holder' = IF holder = r THEN Nobody ELSE holder
       \/ holder' = IF holder = r THEN Orphan ELSE holder    \* no answer
    /\ CASE Cancels(r)       -> Go(r, "ended")
         [] ~Cancels(r) /\ job[r] = "stale" -> Fail(r)
         [] OTHER             -> Go(r, "retry")
    /\ UNCHANGED <<loopVars, job>>

\* waitFor, the retry delay or the end of the context.
Retry(r) ==
    /\ runner[r] \in {"standby", "away", "retry"}
    /\ Go(r, "contend") \/ (Cancels(r) /\ Go(r, "ended"))
    /\ UNCHANGED <<loopVars, holder, job>>

\* Faulty SetNX: the key of a lost call has no time to live.
ExpireKnown ==
    /\ holder \in Replicas
    /\ holder' = Nobody
    /\ lapsed' = lapsed \cup {holder}
    /\ UNCHANGED <<policy, scheduler, runner, job>>

\* Redis drops the key when its time to live is over.
Expire ==
    /\ holder # Nobody
    /\ holder' = Nobody
    /\ lapsed' = lapsed \cup ({holder} \cap Replicas)
    /\ UNCHANGED <<policy, scheduler, runner, job>>

-----------------------------------------------------------------------------
LeadershipInit ==
    /\ \E t \in Declarations :
           /\ t.mode # Local     \* others run on every replica
           /\ ValidPolicy(t.mode, t.unavailable) /\ Resolvable(t)
           /\ policy = ResolveTask(t)
    /\ holder = Nobody
    /\ runner = [r \in Replicas |-> "idle"]
    /\ job = [r \in Replicas |-> "none"]
    /\ scheduler = [r \in Replicas |-> "prepared"]
    /\ lapsed = {}

Coordinates(r) ==
    \/ EndsEarly(r) \/ CallAcquire(r) \/ AcquireWins(r) \/ AcquireRefused(r) \/ AcquireFails(r) \/ BecomeLeader(r)
    \/ RenewEnds(r) \/ Yield(r) \/ Release(r) \/ Retry(r)

LeadershipNext ==
    \/ \E r \in Replicas : activate(r) \/ deactivate(r) \/ Coordinates(r) \/ Renew(r)
    \/ Expire

LeadershipSpec == LeadershipInit /\ [][LeadershipNext]_leadVars

-----------------------------------------------------------------------------
(* Properties.                                                             *)

\* The job of a replica fires only under its lease, which it lets go after the
\* job is gone: two replicas admit at once only because a lease expired under
\* one that has not noticed, or because the policy lets the task run locally
\* while Redis is away (coordinate, schedule.go:340-415).
AdmissionNeedsAuthority ==
    \A r \in Replicas : job[r] = "live" /\ ~Cancels(r) =>
        \/ runner[r] \in {"lead", "yield"} /\ (holder = r \/ r \in lapsed)
        \/ policy = <<BestEffort, "local">> /\ runner[r] \in {"away", "contend", "calling", "won"}

\* From the win to the release the key is the replica's, or it has expired under it.
HoldsOrLapsed ==
    \A r \in Replicas : runner[r] \in {"won", "lead", "yield", "release"} => holder = r \/ r \in lapsed

\* No loop runs before the scheduler is activated.
InactiveIsIdle == \A r \in Replicas : scheduler[r] = "prepared" => runner[r] = "idle"

LeadershipInv == LeadershipTypeOK /\ HoldsOrLapsed /\ InactiveIsIdle /\ AdmissionNeedsAuthority

\* When Redis answers again, a contending task finds a leader: no lease is held
\* for ever by nobody.
LeaderReturns ==
    \A r \in Replicas :
        runner[r] = "contend" ~> runner[r] \in {"ended", "failed"} \/ \E q \in Replicas : runner[q] = "lead"

\* stop waits for the goroutines of coordinate: they all end.
CoordinationStops ==
    \A r \in Replicas : Cancels(r) ~> runner[r] \in {"idle", "ended", "failed"}

\* Both: a task is led again after an outage, and a stop that waits for the
\* goroutines of coordinate ends.
CoordinationSettles == LeaderReturns /\ CoordinationStops
=============================================================================

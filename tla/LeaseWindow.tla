----------------------------- MODULE LeaseWindow -----------------------------
(***************************************************************************)
(* The time windows of a leader (internal/kernel/app/schedule): which      *)
(* lease, renew and acquire times the configuration accepts, and what a    *)
(* leader under accepted times does as time passes. Leadership lets a      *)
(* lease lapse at any moment; here it lapses when its time is over, and    *)
(* the question is whether the leader has given up by then. The service of *)
(* the lease is external: it acts on a call at any moment of the call, and *)
(* its answer may take longer than the caller waits.                       *)
(***************************************************************************)
EXTENDS Integers

CONSTANTS
    Times,      \* lease, renew and acquire times that a file may give
    MaxLease,   \* maxLeaseTTL
    MaxAcquire, \* maxAcquireTimeout
    Width       \* the numbers of a duration: -Width .. Width - 1

ASSUME WindowAssumption ==
    /\ MaxLease \in Nat /\ MaxAcquire \in Nat /\ Width \in Nat \ {0}
    /\ \A t \in Times : t.lease \in Int /\ t.renew \in Int /\ t.acquire \in Int

VARIABLES
    times,   \* Config.Coordination
    leader,  \* coordinate: acquiring, leading, renewing, leaving or out
    spent,   \* time since the call under way began
    next,    \* time to the next tick of renew
    ticked,  \* a tick waits in the ticker's channel
    acted,   \* the service has acted on the call
    left     \* what is left of the lease

windowVars == <<times, leader, spent, next, ticked, acted, left>>

Wrapped(n) == ((n + Width) % (2 * Width)) - Width

\* normalizeConfig. The product is taken in the width of a duration.
AcceptsTimes(t) ==
    /\ t.lease > 0 /\ t.renew > 0 /\ t.acquire > 0
    /\ t.lease <= MaxLease /\ t.acquire <= MaxAcquire
    /\ Wrapped(t.renew * 3) <= t.lease
    /\ t.acquire < t.lease

WindowTypeOK ==
    /\ times \in Times /\ AcceptsTimes(times)
    /\ leader \in {"acquiring", "leading", "renewing", "leaving", "out"}
    /\ spent \in 0..times.acquire /\ next \in 0..times.renew
    /\ left \in 0..times.lease
    /\ ticked \in BOOLEAN /\ acted \in BOOLEAN

WindowInit ==
    /\ times \in {t \in Times : AcceptsTimes(t)}
    /\ leader = "acquiring" /\ spent = 0 /\ acted = FALSE
    /\ next = 0 /\ ticked = FALSE /\ left = 0

\* The task's job is installed: it admits executions.
IsAdmitting == leader \in {"leading", "renewing"}
Calling == leader \in {"acquiring", "renewing"}

\* Time passes. No call outlives its timeout, and a tick is taken when it comes.
Elapse ==
    /\ Calling => spent < times.acquire
    /\ leader = "leading" => ~ticked
    /\ left' = IF left > 0 THEN left - 1 ELSE 0
    /\ spent' = IF Calling THEN spent + 1 ELSE spent
    /\ IF IsAdmitting
       THEN IF next = 1 THEN next' = times.renew /\ ticked' = TRUE
                        ELSE next' = next - 1 /\ UNCHANGED ticked
       ELSE UNCHANGED <<next, ticked>>
    /\ UNCHANGED <<times, leader, acted>>

\* An acquire takes a free key; a renewal only one that is still held.
Acts ==
    /\ Calling /\ ~acted
    /\ (leader = "renewing") = (left > 0)
    /\ acted' = TRUE /\ left' = times.lease
    /\ UNCHANGED <<times, leader, spent, next, ticked>>

AcquireReturns ==
    /\ leader = "acquiring" /\ acted
    /\ leader' = "leading" /\ next' = times.renew /\ ticked' = FALSE
    /\ UNCHANGED <<times, spent, acted, left>>

BeginRenew ==
    /\ leader = "leading" /\ ticked
    /\ leader' = "renewing" /\ spent' = 0 /\ acted' = FALSE /\ ticked' = FALSE
    /\ UNCHANGED <<times, next, left>>

RenewReturns ==
    /\ leader = "renewing" /\ acted
    /\ leader' = "leading"
    /\ UNCHANGED <<times, spent, next, ticked, acted, left>>

\* Faulty renew: the next tick tries again.
RenewRetries ==
    /\ leader = "renewing"
    /\ leader' = "leading"
    /\ UNCHANGED <<times, spent, next, ticked, acted, left>>

\* The first renewal that fails, or is not answered in time, ends the leadership:
\* the job is removed before anything else.
RenewFails ==
    /\ leader = "renewing"
    /\ leader' = "leaving"
    /\ UNCHANGED <<times, spent, next, ticked, acted, left>>

\* Release of what the leader holds may fail, or find the lease lost.
ReleaseLease ==
    /\ leader = "leaving"
    /\ leader' = "out" /\ left' \in {0, left}
    /\ UNCHANGED <<times, spent, next, ticked, acted>>

\* Somebody else holds the lease, or no answer comes in time: then the lease may
\* have been taken all the same, and nobody releases it.
AcquireGivesUp ==
    /\ leader = "acquiring"
    /\ leader' = "out"
    /\ UNCHANGED <<times, spent, next, ticked, acted, left>>

\* The next contest, some time after the last.
Contend ==
    /\ leader = "out"
    /\ leader' = "acquiring" /\ spent' = 0 /\ acted' = FALSE
    /\ next' = 0 /\ ticked' = FALSE
    /\ UNCHANGED <<times, left>>

WindowNext ==
    \/ Elapse \/ Acts \/ AcquireReturns \/ AcquireGivesUp \/ Contend
    \/ BeginRenew \/ RenewReturns \/ RenewFails \/ ReleaseLease

WindowSpec == WindowInit /\ [][WindowNext]_windowVars

-----------------------------------------------------------------------------
(* Properties.                                                             *)

\* However late the service answers: as long as a renewal interval and the time
\* of two calls fit into the lease, a leader has stopped admitting executions
\* when its lease is over, so another replica never leads beside it.
LeaseOutlivesLeader ==
    IsAdmitting /\ 2 * times.acquire + times.renew < times.lease => left > 0

\* What a lease still has to give at each place of the loop: an answer found it
\* as whole as the call was long, an interval has passed since, or less, and the
\* next call takes its time.
LeaseLasts ==
    LET t == times IN
    2 * t.acquire + t.renew < t.lease =>
        /\ leader = "leading" =>
               left >= t.lease - t.acquire - (IF ticked THEN t.renew ELSE t.renew - next)
        /\ leader = "renewing" /\ ~acted => left >= t.lease - t.acquire - t.renew - spent
        /\ Calling /\ acted => left >= t.lease - spent

WindowInv == WindowTypeOK /\ (IsAdmitting => next > 0) /\ LeaseLasts

\* "A leader whose lease is lost admits nothing new": the same under whatever
\* the configuration accepts.
LostMeansClosed == IsAdmitting => left > 0
=============================================================================

------------------------------- MODULE HttpEdge -------------------------------
(* One request after another through the public HTTP chain that              *)
(* applicationRouter builds: the checks on the head of a request, the token  *)
(* bucket, the in-flight limit, authentication, the route binding with its   *)
(* contract and its gate, the handler, and the way back out.  The deadline   *)
(* of a request passes, or its client goes away, between any two of them.    *)
EXTENDS Integers, FiniteSets, Sequences

CONSTANTS
    Requests,       \* the connections that carry requests
    Kinds,          \* the requests a client may send, as records of RequestKind
    Development,    \* whether the anonymous development profile is configured
    MaxInFlight,    \* HTTPServerConfig.MaxInFlight
    Whole,          \* the parts that make a token of the bucket
    Burst,          \* the capacity of the bucket, in parts
    Refill          \* the parts one tick of the clock puts back

ASSUME EdgeAssumption ==
    /\ MaxInFlight \in Nat \ {0} /\ Whole \in Nat \ {0} /\ Refill \in Nat \ {0}
    /\ Burst \in Nat /\ Burst >= Whole
    /\ IsFiniteSet(Requests)

RequestKind == [
    upgrade : BOOLEAN, accepts : BOOLEAN,
    origin : {"none", "allowed", "preflight", "denied"},
    credential : {"none", "valid", "invalid"},
    document : {"one", "trailing", "unreadable"},
    target : {"operation", "unknown", "method", "mismatch", "media"},
    scope : BOOLEAN]

ASSUME KindsAssumption == Kinds \subseteq RequestKind

VARIABLES
    request,    \* per connection: its kind, where it is, what ended its context, its answer, its slot
    inFlight,   \* the length of OverloadLimiter.slots
    tokens,     \* RateLimiter.tokens, in parts
    granted     \* how many requests the bucket let through in the last tick and in this one

edgeVars == <<request, inFlight, tokens, granted>>

Stages == {"idle", "screen", "meter", "reserve", "authenticate", "route",
           "enforce", "handle", "leaving", "panicking", "done"}
Statuses == {0, 200, 204, 400, 401, 403, 404, 405, 406, 408, 409, 415, 426, 429, 500, 503, 504}

EdgeInit ==
    /\ \E kind \in Kinds :
          request = [r \in Requests |->
              [kind |-> kind, at |-> "idle", over |-> "no", status |-> 0, slot |-> FALSE, ran |-> FALSE]]
    /\ inFlight = 0 /\ tokens = Burst /\ granted = <<0, 0>>

-----------------------------------------------------------------------------
(* WriteProblem and responseStateWriter: what is committed first stays. *)
Answered(r, status) == IF request[r].status = 0 THEN status ELSE request[r].status

(* ProblemOf of the error of a context that is over. *)
ContextStatus(over) == IF over = "deadline" THEN 504 ELSE 408

Proceed(r, stage) == request' = [request EXCEPT ![r].at = stage]
Refuse(r, status) ==
    request' = [request EXCEPT ![r].at = "leaving", ![r].status = Answered(r, status)]

(* A new request arrives on a connection whose last one is finished. *)
Arrive(r) ==
    /\ request[r].at \in {"idle", "done"}
    /\ \E kind \in Kinds :
          request' = [request EXCEPT ![r] =
              [kind |-> kind, at |-> "screen", over |-> "no", status |-> 0, slot |-> FALSE, ran |-> FALSE]]
    /\ UNCHANGED <<inFlight, tokens, granted>>

(* The deadline that RequestTimeout set passes, or the client goes away. *)
Expire(r) ==
    /\ request[r].at \notin {"idle", "screen", "done"} /\ request[r].over = "no"
    /\ \E cause \in {"deadline", "canceled"} : request' = [request EXCEPT ![r].over = cause]
    /\ UNCHANGED <<inFlight, tokens, granted>>

(* RejectUpgrade, AcceptJSON and CORS, in this order; a preflight is answered here. *)
Screened(kind) ==
    IF kind.upgrade THEN 426
    ELSE IF ~kind.accepts THEN 406
    ELSE IF kind.origin = "denied" THEN 403
    ELSE IF kind.origin = "preflight" THEN 204
    ELSE 0

Screen(r) ==
    /\ request[r].at = "screen"
    /\ LET status == Screened(request[r].kind) IN
          IF status = 0 THEN Proceed(r, "meter") ELSE Refuse(r, status)
    /\ UNCHANGED <<inFlight, tokens, granted>>

-----------------------------------------------------------------------------
(* The token bucket.  A tick stands for the time between two looks at it. *)
Filled(parts) == IF parts > Burst THEN Burst ELSE parts

Tick ==
    /\ tokens' = Filled(tokens + Refill)
    /\ granted' = <<granted[2], 0>>
    /\ UNCHANGED <<request, inFlight>>

CanSpend == tokens >= Whole

Meter(r) ==
    /\ request[r].at = "meter"
    /\ \/ request[r].over # "no" /\ Refuse(r, ContextStatus(request[r].over)) /\ UNCHANGED <<tokens, granted>>
       \/ /\ request[r].over = "no" /\ CanSpend
          /\ tokens' = tokens - Whole /\ granted' = <<granted[1], granted[2] + 1>>
          /\ Proceed(r, "reserve")
       \/ request[r].over = "no" /\ ~CanSpend /\ Refuse(r, 429) /\ UNCHANGED <<tokens, granted>>
    /\ UNCHANGED inFlight

(* OverloadLimiter: a slot at once or a refusal, never a queue. *)
Reserve(r) ==
    /\ request[r].at = "reserve"
    /\ IF inFlight < MaxInFlight
       THEN /\ inFlight' = inFlight + 1
            /\ request' = [request EXCEPT ![r].at = "authenticate", ![r].slot = TRUE]
       ELSE Refuse(r, 503) /\ UNCHANGED inFlight
    /\ UNCHANGED <<tokens, granted>>

-----------------------------------------------------------------------------
(* Whether authenticateRequest may yield a principal.  Every failure of the  *)
(* verifier, and a context that is over, are the same refusal.               *)
Authentic(kind) == kind.credential = "valid" \/ (kind.credential = "none" /\ Development)

Authenticate(r) ==
    /\ request[r].at = "authenticate"
    /\ \/ Authentic(request[r].kind) /\ request[r].over = "no" /\ Proceed(r, "route")
       \/ (request[r].kind.credential # "none" \/ ~Development \/ request[r].over # "no") /\ Refuse(r, 401)
    /\ UNCHANGED <<inFlight, tokens, granted>>

(* requireSingleJSONDocument runs before the routes are matched. *)
RouteProblem(kind) ==
    IF kind.document # "one" THEN 400
    ELSE IF kind.target = "unknown" THEN 404
    ELSE IF kind.target = "method" THEN 405
    ELSE IF kind.target = "media" THEN 415
    ELSE IF kind.target = "mismatch" THEN 400
    ELSE 0

Route(r) ==
    /\ request[r].at = "route"
    /\ LET status == RouteProblem(request[r].kind) IN
          IF status = 0 THEN Proceed(r, "enforce") ELSE Refuse(r, status)
    /\ UNCHANGED <<inFlight, tokens, granted>>

(* gate.Enforce: the decision, and its audit record, both fail on a context that is over. *)
Permitted(kind) == kind.scope

Enforce(r) ==
    /\ request[r].at = "enforce"
    /\ IF request[r].over # "no" THEN Refuse(r, ContextStatus(request[r].over))
       ELSE IF Permitted(request[r].kind) THEN Proceed(r, "handle")
       ELSE Refuse(r, 403)
    /\ UNCHANGED <<inFlight, tokens, granted>>

(* The handler answers, returns an error that bindOperation writes, or panics,  *)
(* before or after it has committed its answer; a context that is over does not *)
(* stop it.                                                                     *)
Handle(r) ==
    /\ request[r].at = "handle"
    /\ \E outcome \in {200, 404, 409, 500, 503, 504} :
          \/ request' = [request EXCEPT ![r].at = "leaving", ![r].ran = TRUE, ![r].status = Answered(r, outcome)]
          \/ /\ outcome = 200
             /\ \E status \in {0, 200} :
                   request' = [request EXCEPT ![r].at = "panicking", ![r].ran = TRUE, ![r].status = status]
    /\ UNCHANGED <<inFlight, tokens, granted>>

-----------------------------------------------------------------------------
(* The deferred receive of OverloadLimiter gives the slot back on both ways out. *)
Freed(r) == IF request[r].slot THEN inFlight - 1 ELSE inFlight

\* Faulty: a slot given back after next(ctx) instead of by a defer.
Kept(r) == inFlight

Unwound(r) == Freed(r)

Finish(r, status) ==
    request' = [request EXCEPT ![r].at = "done", ![r].slot = FALSE, ![r].status = Answered(r, status)]

(* RequestTimeout turns whatever came back into a 504 once the deadline has passed. *)
Leave(r) ==
    /\ request[r].at = "leaving"
    /\ inFlight' = Freed(r)
    /\ Finish(r, IF request[r].over = "deadline" THEN 504 ELSE request[r].status)
    /\ UNCHANGED <<tokens, granted>>

(* Recovery, outside the access log. *)
Recover(r) ==
    /\ request[r].at = "panicking"
    /\ inFlight' = Unwound(r)
    /\ Finish(r, 500)
    /\ UNCHANGED <<tokens, granted>>

EdgeNext ==
    \/ Tick
    \/ \E r \in Requests :
          \/ Arrive(r) \/ Expire(r) \/ Screen(r) \/ Meter(r) \/ Reserve(r)
          \/ Authenticate(r) \/ Route(r) \/ Enforce(r) \/ Handle(r) \/ Leave(r) \/ Recover(r)

EdgeSpec == EdgeInit /\ [][EdgeNext]_edgeVars

-----------------------------------------------------------------------------
EdgeTypeOK ==
    /\ request \in [Requests ->
          [kind : Kinds, at : Stages, over : {"no", "deadline", "canceled"},
           status : Statuses, slot : BOOLEAN, ran : BOOLEAN]]
    /\ inFlight \in 0 .. MaxInFlight /\ tokens \in 0 .. Burst
    /\ granted \in Seq(Nat) /\ Len(granted) = 2

(* The in-flight limit counts exactly the requests that are inside it, and a  *)
(* request that is finished, refused or ended by a panic has given its slot   *)
(* back (OverloadLimiter.Middleware), so that the limit never shrinks.        *)
SlotsAreReturned ==
    /\ inFlight = Cardinality({r \in Requests : request[r].slot})
    /\ \A r \in Requests : request[r].at \in {"idle", "done"} => ~request[r].slot

(* Over any two neighbouring ticks the bucket lets no more requests through   *)
(* than its capacity and one refill pay for, however long it was idle before  *)
(* (RateLimiter.allow).                                                       *)
RateHolds == (granted[1] + granted[2]) * Whole <= Burst + Refill

(* The handler of an operation ran only for a request that passed every gate  *)
(* of the chain, and only such a request, or a preflight, is told of success. *)
WorkIsEarned ==
    \A r \in Requests :
        LET kind == request[r].kind IN
        /\ request[r].ran =>
              /\ ~kind.upgrade /\ kind.accepts /\ kind.origin \in {"none", "allowed"}
              /\ kind.credential = "valid" \/ (Development /\ kind.credential = "none")
              /\ kind.document = "one" /\ kind.target = "operation" /\ kind.scope
        /\ request[r].status = 200 => request[r].ran
        /\ request[r].at = "done" => request[r].status # 0

(* The first answer to a request is its only one: neither an error that comes *)
(* back after it, nor the deadline, nor a panic replaces it (WriteProblem).   *)
AnswerIsFinal ==
    [][\A r \in Requests :
          request[r].status # 0 /\ request[r].at # "done" => request'[r].status = request[r].status]_edgeVars

(* What the limits, the gates and the answers of the pipeline promise together. *)
EdgeIsSound == [](EdgeTypeOK /\ SlotsAreReturned /\ RateHolds /\ WorkIsEarned) /\ AnswerIsFinal
=============================================================================

----------------------------- MODULE HttpClient -----------------------------
(***************************************************************************)
(* One call of the HTTP client: a request is prepared once and sent until  *)
(* an attempt is answered for good, the attempts are used up, or the       *)
(* context ends during a wait; the network may lose the request or the     *)
(* answer, so that the peer may have acted on an attempt that failed.      *)
(* (pkg/httpx client.go, builder.go)                                       *)
(***************************************************************************)
EXTENDS Integers, Sequences

CONSTANTS
    Settings,   \* client configurations: [base, count, wait, max]
    Orders,     \* requests: [url, raw, json, accepts]
    Bits        \* the width of a duration

ASSUME SettingsAssumption == Settings \subseteq [base : STRING, count : Int, wait : Int, max : Int]
ASSUME OrdersAssumption ==
    Orders \subseteq [url : STRING, raw : BOOLEAN, json : {"none", "encoded", "unencodable"}, accepts : SUBSET STRING]

VARIABLES
    client,     \* the resolved settings, once NewClient has accepted them
    sending,    \* the call: its request, where it is, which attempt, and its wait
    buffer,     \* the caller's raw body, which the caller may use again
    payload,    \* what prepareRequest keeps of it
    seen,       \* the payloads the peer has acted on
    answers,    \* what became of each attempt: [status, body]
    context,    \* "live" or "ended"
    result      \* "none", "ok", "status", "error" or "nothing": neither an answer nor an error

clientVars == <<client, sending, buffer, payload, seen, answers, context, result>>

-----------------------------------------------------------------------------
DefaultWait == 1
DefaultMax == 4

Acceptable(s) == s.count >= 0 /\ s.wait >= 0 /\ s.max >= 0

Resolve(s) == [s EXCEPT !.wait = IF @ = 0 THEN DefaultWait ELSE @, !.max = IF @ = 0 THEN DefaultMax ELSE @]

\* Durations wrap around at their width.
Half == 2^(Bits - 1)
Wrapped(n) == ((n + Half) % (2 * Half)) - Half

\* retryWait: doubled for every attempt but the first; the first is not capped.
RetryWait(attempt, wait, max) ==
    LET after[n \in 0..attempt] ==
          IF n = 0 THEN [wait |-> wait, capped |-> FALSE]
          ELSE LET double == Wrapped(2 * after[n - 1].wait) IN
               IF after[n - 1].capped THEN after[n - 1]
               ELSE IF max > 0 /\ double > max THEN [wait |-> max, capped |-> TRUE]
               ELSE [wait |-> double, capped |-> FALSE]
    IN  after[attempt].wait

\* resolveRequestURL: absolute with a host, or relative to such a base.
HasTarget(base, url) == url = "absolute" \/ (url = "relative" /\ base = "absolute")
HasBody(order) == order.json # "unencodable" /\ ~(order.raw /\ order.json # "none")

\* The raw body is copied, the other encoded, before the first attempt.
Payload(order) == IF order.raw THEN buffer ELSE order.json

ClientInit ==
    /\ client \in Settings
    /\ \E order \in Orders : sending = [order |-> order, at |-> "new", attempt |-> 0, wait |-> 0]
    /\ buffer = "given" /\ payload = "none" /\ seen = << >> /\ answers = << >>
    /\ context = "live" /\ result = "none"

MovesTo(at) == sending' = [sending EXCEPT !.at = at]
Returns(what) == MovesTo("done") /\ result' = what
Working == UNCHANGED <<client, buffer, context>>

-----------------------------------------------------------------------------
NewClient ==
    /\ sending.at = "new"
    /\ IF Acceptable(client) THEN client' = Resolve(client) /\ MovesTo("call") /\ UNCHANGED result
                             ELSE Returns("error") /\ UNCHANGED client
    /\ UNCHANGED <<buffer, payload, seen, answers, context>>

(* Do prepares once; what cannot be sent is refused. *)
PrepareRequest ==
    /\ sending.at = "call"
    /\ IF ~HasTarget(client.base, sending.order.url) \/ ~HasBody(sending.order)
       THEN Returns("error") /\ UNCHANGED payload
       ELSE /\ payload' = Payload(sending.order)
            /\ IF client.count >= 0 THEN MovesTo("send") /\ UNCHANGED result ELSE Returns("nothing")
    /\ Working /\ UNCHANGED <<seen, answers>>

Sent == IF payload = "buffer" THEN buffer ELSE payload
NoAnswer == [status |-> "none", body |-> "none"]

(* An attempt carries the whole payload again. It is lost before or after the peer *)
(* has acted on it, or answered; nothing is sent under a context that has ended.   *)
Attempt ==
    /\ sending.at = "send"
    /\ \/ answers' = Append(answers, NoAnswer) /\ UNCHANGED seen
       \/ /\ context = "live" /\ seen' = Append(seen, Sent)
          /\ \/ answers' = Append(answers, NoAnswer)
             \/ \E s \in {"success", "refusal", "many", "failure"}, b \in {"fits", "unread"} :
                   answers' = Append(answers, [status |-> s, body |-> b])
    /\ MovesTo("read")
    /\ Working /\ UNCHANGED <<payload, result>>

LastAnswer == answers[Len(answers)]
StatusAccepted(status) ==
    IF sending.order.accepts = {} THEN status = "success" ELSE status \in sending.order.accepts

\* No answer, or a status of 429 or 5xx that the caller does not accept.
Repeatable(answer) ==
    answer.status = "none" \/ (answer.status \in {"many", "failure"} /\ ~StatusAccepted(answer.status))

\* How the call ends if there is no further attempt.
Outcome(answer) ==
    IF answer.status = "none" \/ answer.body # "fits" THEN "error"
    ELSE IF StatusAccepted(answer.status) THEN "ok" ELSE "status"

(* A body that breaks off or is too long ends the call whatever its status is. *)
ReadAnswer ==
    /\ sending.at = "read"
    /\ IF LastAnswer.body \in {"none", "fits"} /\ Repeatable(LastAnswer)
       THEN MovesTo("decide") /\ UNCHANGED result
       ELSE Returns(Outcome(LastAnswer))
    /\ Working /\ UNCHANGED <<payload, seen, answers>>

Again(from) == [from EXCEPT !.at = "send", !.attempt = @ + 1]

\* shouldRetry: a wait that is not positive is not waited for, nor is the context asked.
Decide ==
    LET wait == RetryWait(sending.attempt, client.wait, client.max) IN
    /\ sending.at = "decide"
    /\ \/ /\ sending.attempt >= client.count
          /\ Returns(Outcome(LastAnswer))
       \/ /\ sending.attempt < client.count
          /\ sending' = IF wait <= 0 THEN Again([sending EXCEPT !.wait = wait])
                                     ELSE [sending EXCEPT !.at = "wait", !.wait = wait]
          /\ UNCHANGED result
    /\ Working /\ UNCHANGED <<payload, seen, answers>>

(* The select of the wait; when both are there either is taken. *)
TimerFires ==
    /\ sending.at = "wait"
    /\ sending' = Again(sending)
    /\ Working /\ UNCHANGED <<payload, seen, answers, result>>

WaitIsCut ==
    /\ sending.at = "wait" /\ context = "ended"
    /\ Returns(Outcome(LastAnswer))
    /\ Working /\ UNCHANGED <<payload, seen, answers>>

ContextEnds ==
    /\ context = "live" /\ sending.at # "done"
    /\ context' = "ended"
    /\ UNCHANGED <<client, sending, buffer, payload, seen, answers, result>>

(* Another goroutine of the caller uses the raw body again during the call. *)
ReuseBuffer ==
    /\ sending.order.raw /\ payload # "none" /\ buffer = "given"
    /\ buffer' = "reused"
    /\ UNCHANGED <<client, sending, payload, seen, answers, context, result>>

ClientNext ==
    \/ NewClient \/ PrepareRequest \/ Attempt \/ ReadAnswer \/ Decide \/ TimerFires \/ WaitIsCut
    \/ ContextEnds \/ ReuseBuffer

ClientSpec == ClientInit /\ [][ClientNext]_clientVars

-----------------------------------------------------------------------------
ClientTypeOK ==
    /\ sending.order \in Orders
    /\ sending.at \in {"new", "call", "send", "read", "decide", "wait", "done"}
    /\ sending.attempt \in Nat /\ sending.wait \in -Half..(Half - 1)
    /\ buffer \in {"given", "reused"} /\ context \in {"live", "ended"}
    /\ result \in {"none", "ok", "status", "error", "nothing"}
    /\ \A n \in 1..Len(seen) : seen[n] \in {"given", "reused", "none", "encoded"}

(* The peer acts on a request as often as it was configured at most, once unless  *)
(* retries were asked for, and never again after an answer that was final.        *)
RepeatsAreEarned ==
    /\ Len(seen) <= Len(answers) /\ (seen # << >> => Len(answers) <= client.count + 1)
    /\ \A n \in 1..(Len(answers) - 1) : Outcome(answers[n]) # "ok" /\ answers[n].status # "refusal"
                                         /\ answers[n].body \in {"none", "fits"}

(* Every attempt carries what the caller gave, whatever becomes of its buffer. *)
PayloadIsKept ==
    \A n \in 1..Len(seen) : seen[n] = IF sending.order.raw THEN "given" ELSE sending.order.json

(* Do says what became of the last attempt: success only if the peer has acted and *)
(* its answer was accepted and read; and never neither an answer nor an error.     *)
ResultIsTrue ==
    /\ result = "ok" => seen # << >> /\ LastAnswer.body = "fits" /\ StatusAccepted(LastAnswer.status)
    /\ result = "status" => LastAnswer.body = "fits" /\ ~StatusAccepted(LastAnswer.status)
    /\ result # "nothing"

(* Every wait but the first is capped, and none is skipped, while no doubling can *)
(* overflow: the configuration does not exclude that it does (retryWait).         *)
WaitsAreBounded ==
    2 * client.wait < Half /\ 2 * client.max < Half =>
       /\ sending.at = "wait" /\ sending.attempt > 0 => sending.wait <= client.max
       /\ sending.at = "wait" \/ sending.attempt > 0 => sending.wait > 0

ClientIsSound == ClientTypeOK /\ RepeatsAreEarned /\ PayloadIsKept /\ ResultIsTrue /\ WaitsAreBounded
=============================================================================

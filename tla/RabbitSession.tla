--------------------------- MODULE RabbitSession ---------------------------
(***************************************************************************)
(* The RabbitMQ provider: its sessions, and below them what a publisher on *)
(* one session is told. They share no state.                               *)
(*                                                                         *)
(* The provider: one goroutine (run) keeps a connection, recovers          *)
(* it and builds the consumers on it, while Activate, Deactivate and Close *)
(* are called from outside and the broker breaks what it likes. The run    *)
(* loop and the callers meet in stopConsumers and in a channel of one slot.*)
(* (internal/kernel/app/messaging/rabbitmq/rabbitmq.go)                    *)
(***************************************************************************)
EXTENDS Naturals, Sequences, SequencesExt

CONSTANTS
    MaxHandlers     \* slots of the consumer: handlers that run at once

ASSUME SessionAssumption == MaxHandlers \in Nat \ {0}

VARIABLES
    loop,        \* where run is: "bound" before its first look at the context
    fate,        \* what it does after stopConsumers: "retry", "fail", "end" or "watch"
    link,        \* the connection: "none", "up", "broken" (an event waits in a channel)
    shared,      \* provider.current is that session
    consumption, \* of the session: "off", "on", "stopping", or "draining" once its consumers read no more
    reset,       \* session.resetAfterStop
    inHand,      \* handlers that run
    active,      \* provider.active
    signal,      \* a value in the activation channel
    canceled,    \* provider.ctx
    control,     \* the call from outside: "none", or where Deactivate or Close is
    stopped      \* provider.stopped

sessionVars == <<loop, fate, link, shared, consumption, reset, inHand, active, signal,
                 canceled, control, stopped>>
outside == <<active, canceled, control, stopped>>

RabbitTypeOK ==
    /\ loop \in {"bound", "connect", "dialing", "start", "starting", "watch", "stop", "failed", "ended"}
    /\ fate \in {"watch", "retry", "fail", "end"}
    /\ link \in {"none", "up", "broken"} /\ consumption \in {"off", "on", "stopping", "draining"}
    /\ inHand \in 0..MaxHandlers
    /\ control \in {"none", "deactivating", "waiting", "closing", "closeWaits", "canceling", "closed"}
    /\ {shared, reset, active, signal, canceled, stopped} \subseteq BOOLEAN

Over == loop \in {"failed", "ended"}

-----------------------------------------------------------------------------
(* stopConsumers and finishConsumerStop.                                   *)

\* The part of stopConsumers before it waits.
BeginStop(keep) ==
    CASE consumption = "off" -> UNCHANGED <<consumption, reset>>
      [] consumption = "on" -> consumption' = "stopping" /\ reset' = keep
      [] OTHER -> reset' = (reset /\ keep) /\ UNCHANGED consumption

\* Faulty finishConsumerStop: what was asked for meanwhile is not looked at.
FinishStopSilently ==
    /\ consumption = "draining" /\ inHand = 0
    /\ consumption' = "off" /\ reset' = FALSE
    /\ UNCHANGED <<loop, fate, link, shared, inHand, signal, outside>>

\* The goroutine that waits for the consumers; it wakes the run loop up when the
\* provider was activated while the handlers drained.
FinishStop ==
    /\ consumption = "draining" /\ inHand = 0
    /\ consumption' = "off" /\ reset' = FALSE
    /\ signal' = (signal \/ (reset /\ ~canceled /\ active))
    /\ UNCHANGED <<loop, fate, link, shared, inHand, outside>>

-----------------------------------------------------------------------------
(* The run loop.                                                           *)

\* The goroutine that Bind starts over a session looks at the context first: when
\* that has ended it returns, and leaves the session as it is.
RunBegins ==
    /\ loop = "bound"
    /\ loop' = IF canceled THEN "ended" ELSE "start"
    /\ UNCHANGED <<fate, link, shared, consumption, reset, inHand, signal, outside>>

\* Without a session: the wait before another attempt ends with the context too.
ConnectCanceled ==
    /\ loop = "connect" /\ canceled
    /\ loop' = "ended"
    /\ UNCHANGED <<fate, link, shared, consumption, reset, inHand, signal, outside>>

\* connect: the dial, the channel in confirm mode and the topologies.
Connect ==
    /\ loop = "connect" /\ ~canceled
    /\ loop' = "dialing"
    /\ UNCHANGED <<fate, link, shared, consumption, reset, inHand, signal, outside>>

\* Only the dial has the context: past it, connect succeeds though that has ended.
Connected ==
    /\ loop = "dialing"
    /\ loop' = "start" /\ link' = "up" /\ shared' = TRUE
    /\ UNCHANGED <<fate, consumption, reset, inHand, signal, outside>>

\* A refusal of the broker that does not pass ends the loop.
ConnectFails ==
    /\ loop = "dialing"
    /\ loop' \in {"connect", "failed"}
    /\ UNCHANGED <<fate, link, shared, consumption, reset, inHand, signal, outside>>

\* p.active is read first; startConsumers runs later.
DecideToStart ==
    /\ loop = "start"
    /\ loop' = IF active THEN "starting" ELSE "watch"
    /\ fate' = "watch"
    /\ UNCHANGED <<link, shared, consumption, reset, inHand, signal, outside>>

\* A stop that is not finished makes startConsumers a no-op: consuming is set.
StartConsumers ==
    /\ loop = "starting" /\ link = "up" /\ ~canceled
    /\ consumption' = IF consumption = "off" THEN "on" ELSE consumption
    /\ loop' = "watch"
    /\ UNCHANGED <<fate, link, shared, reset, inHand, signal, outside>>

\* startConsumers fails halfway, with consuming set: the session is given up.
StartFails ==
    /\ loop = "starting"
    /\ consumption' = IF consumption = "off" THEN "stopping" ELSE consumption
    /\ reset' = FALSE
    /\ loop' = "stop" /\ fate' \in {"retry", "fail"}
    /\ UNCHANGED <<link, shared, inHand, signal, outside>>

TakeSignal ==
    /\ loop = "watch" /\ signal
    /\ signal' = FALSE
    /\ loop' = IF active /\ consumption = "off" THEN "starting" ELSE "watch"
    /\ UNCHANGED <<fate, link, shared, consumption, reset, inHand, outside>>

\* A delivery stream, the publish channel or the connection closed.
TakeFailure ==
    /\ loop = "watch" /\ link = "broken"
    /\ BeginStop(FALSE)
    /\ loop' = "stop" /\ fate' \in {"retry", "fail"}
    /\ UNCHANGED <<link, shared, inHand, signal, outside>>

TakeCancel ==
    /\ loop = "watch" /\ canceled
    /\ BeginStop(FALSE)
    /\ loop' = "stop" /\ fate' = "end"
    /\ UNCHANGED <<link, shared, inHand, signal, outside>>

\* The handlers of the session are gone: it is closed and forgotten.
GivenUp ==
    /\ loop = "stop" /\ consumption = "off"
    /\ link' = "none" /\ shared' = FALSE
    /\ loop' = CASE fate = "retry" -> "connect" [] fate = "fail" -> "failed" [] OTHER -> "ended"
    /\ UNCHANGED <<fate, consumption, reset, inHand, signal, outside>>

-----------------------------------------------------------------------------
(* Activate, Deactivate and Close.                                         *)

Activate ==
    /\ control = "none" /\ ~stopped
    /\ active' = TRUE /\ signal' = TRUE
    /\ UNCHANGED <<loop, fate, link, shared, consumption, reset, inHand, canceled, control, stopped>>

\* Deactivate, which Close calls too: p.active first, then the session.
Withdraw(next) ==
    /\ control = "none" /\ ~stopped
    /\ active' = FALSE /\ control' = next
    /\ UNCHANGED <<loop, fate, link, shared, consumption, reset, inHand, signal, canceled, stopped>>

Deactivate == Withdraw("deactivating")
Close == Withdraw("closing")

StopCurrent ==
    /\ control \in {"deactivating", "closing"}
    /\ IF shared THEN BeginStop(TRUE) ELSE UNCHANGED <<consumption, reset>>
    /\ control' = IF control = "closing" THEN "closeWaits" ELSE "waiting"
    /\ UNCHANGED <<loop, fate, link, shared, inHand, active, signal, canceled, stopped>>

\* The consumers stopped, there were none, or the caller's context ended.
DeactivateReturns ==
    /\ control = "waiting"
    /\ control' = "none"
    /\ UNCHANGED <<loop, fate, link, shared, consumption, reset, inHand, active, signal, canceled, stopped>>

\* Close goes on: the provider is canceled, and then the connection that it finds
\* is closed under the run loop.
CloseCancels ==
    /\ control = "closeWaits"
    /\ stopped' = TRUE /\ canceled' = TRUE /\ control' = "canceling"
    /\ UNCHANGED <<loop, fate, link, shared, consumption, reset, inHand, active, signal>>

CloseBreaks ==
    /\ control = "canceling"
    /\ control' = "closed"
    /\ link' = IF shared /\ link = "up" THEN "broken" ELSE link
    /\ UNCHANGED <<loop, fate, shared, consumption, reset, inHand, active, signal, canceled, stopped>>

-----------------------------------------------------------------------------
(* The broker and the handlers.                                            *)

Break ==
    /\ link = "up"
    /\ link' = "broken"
    /\ UNCHANGED <<loop, fate, shared, consumption, reset, inHand, signal, outside>>

\* Until a consumer leaves its loop, it may take a delivery that has come, though
\* it is to stop or the connection is gone.
Handle ==
    /\ consumption \in {"on", "stopping"} /\ inHand < MaxHandlers
    /\ inHand' = inHand + 1
    /\ UNCHANGED <<loop, fate, link, shared, consumption, reset, signal, outside>>

ConsumersLeave ==
    /\ consumption = "stopping"
    /\ consumption' = "draining"
    /\ UNCHANGED <<loop, fate, link, shared, reset, inHand, signal, outside>>

Handled ==
    /\ inHand > 0
    /\ inHand' = inHand - 1
    /\ UNCHANGED <<loop, fate, link, shared, consumption, reset, signal, outside>>

-----------------------------------------------------------------------------
\* Bind connected at once, or failed in a way that may pass.
RabbitInit ==
    /\ \/ loop = "connect" /\ link = "none" /\ shared = FALSE
       \/ loop = "bound" /\ link = "up" /\ shared = TRUE
    /\ fate = "watch" /\ consumption = "off" /\ reset = FALSE /\ inHand = 0
    /\ active = FALSE /\ signal = FALSE /\ canceled = FALSE /\ control = "none" /\ stopped = FALSE

Runs ==
    \/ RunBegins \/ ConnectCanceled \/ Connect \/ Connected \/ ConnectFails
    \/ DecideToStart \/ StartConsumers \/ GivenUp \/ (link = "broken" /\ StartFails)
Reacts == TakeSignal \/ TakeFailure \/ TakeCancel
Calls == Activate \/ Deactivate \/ Close
Replies == StopCurrent \/ DeactivateReturns \/ CloseCancels \/ CloseBreaks

RabbitNext ==
    \/ Runs \/ Reacts \/ StartFails \/ FinishStop
    \/ Calls \/ Replies \/ Break \/ Handle \/ ConsumersLeave \/ Handled

RabbitSpec == RabbitInit /\ [][RabbitNext]_sessionVars

-----------------------------------------------------------------------------
(* Properties.                                                             *)

\* Whatever ends the run loop leaves no consumer and no handler behind, and no
\* connection but one: the session of a provider that is closed before run first
\* looks at its context. Close breaks that connection itself, and nobody asks for
\* the session, which the provider keeps, because the provider is stopped (Close,
\* rabbitmq.go:208-237; run, rabbitmq.go:325-444).
EndedMeansClosed ==
    Over =>
        /\ consumption = "off" /\ inHand = 0
        /\ link = "up" => control = "canceling"
        /\ link # "none" => shared
        /\ shared => stopped

\* A provider that stays activated over a connection that holds consumes in the
\* end, also if it was activated while its handlers drained and the wake-up in
\* the one-slot channel was taken too early (finishConsumerStop, rabbitmq.go:561-582).
ActivationIsHeard ==
    []([](active /\ shared /\ link = "up") => <>(consumption = "on"))

\* Both: a session leaves nothing behind, and hears that it is to consume.
SessionIsSound == [](RabbitTypeOK /\ EndedMeansClosed) /\ ActivationIsHeard

-----------------------------------------------------------------------------
(***************************************************************************)
(* Publishing with confirmation over one RabbitMQ session. Publishers take *)
(* turns; the broker answers in order, and the answers wait in two channels*)
(* of one slot each, from which the publisher whose turn it is reads.      *)
(* (internal/kernel/app/messaging/rabbitmq/rabbitmq.go, messaging.go)      *)
(***************************************************************************)

CONSTANTS Messages

None == "none"

ASSUME PublishAssumption == None \notin Messages

VARIABLES
    turn,       \* the message whose publisher holds publishMu, or None
    ready,      \* there is a session and the provider is ready
    alive,      \* the channels of the session are open
    sent,       \* messages on their way to the broker, in order
    verdict,    \* what the broker did: "unknown", "taken", "refused", "unroutable"
    answers,    \* frames of the broker on their way back: [m, kind]
    returnSlot, \* session.returns
    confirmSlot,\* session.confirms
    returned,   \* the flag of the publisher whose turn it is
    reported,   \* what each publisher was told
    clean       \* no answer to an earlier publish was outstanding when this turn began

publishVars == <<turn, ready, alive, sent, verdict, answers, returnSlot, confirmSlot, returned, reported, clean>>
channels == <<sent, answers, returnSlot, confirmSlot>>

Kinds == {"return", "ack", "nack"}
Outcomes == {"none", "confirmed", "rejected", "unroutable", "ambiguous", "unavailable"}

PublishTypeOK ==
    /\ turn \in Messages \cup {None}
    /\ {ready, alive, returned, clean} \subseteq BOOLEAN
    /\ sent \in Seq(Messages) /\ answers \in Seq([m : Messages, kind : Kinds])
    /\ verdict \in [Messages -> {"unknown", "taken", "refused", "unroutable"}]
    /\ returnSlot \in BoundedSeq(Messages, 1)
    /\ confirmSlot \in BoundedSeq([m : Messages, kind : {"ack", "nack"}], 1)
    /\ reported \in [Messages -> Outcomes]

Report(m, o) == reported' = [reported EXCEPT ![m] = o]
Done(o) == turn' = None /\ returned' = FALSE /\ Report(turn, o)

-----------------------------------------------------------------------------
\* The checks in front of the frame: without a session nothing is sent, and over
\* one whose channel has closed nothing can be.
Publish(m) ==
    /\ turn = None /\ reported[m] = "none"
    /\ IF ready /\ alive
       THEN /\ turn' = m /\ sent' = Append(sent, m) /\ UNCHANGED reported
            /\ clean' = (sent = <<>> /\ answers = <<>> /\ returnSlot = <<>> /\ confirmSlot = <<>>)
       ELSE /\ Report(m, IF ready THEN "ambiguous" ELSE "unavailable")
            /\ UNCHANGED <<turn, sent, clean>>
    /\ UNCHANGED <<ready, alive, verdict, answers, returnSlot, confirmSlot, returned>>

\* The context of the publish ends, the frame cannot be written, or the publisher
\* reads that the channel is closed.
GiveUp ==
    /\ turn # None
    /\ Done("ambiguous")
    /\ UNCHANGED <<ready, alive, verdict, channels, clean>>

TakeReturn ==
    /\ turn # None /\ returnSlot # <<>>
    /\ returnSlot' = <<>> /\ returned' = TRUE
    /\ UNCHANGED <<turn, ready, alive, sent, verdict, answers, confirmSlot, reported, clean>>

Answer(back) ==
    CASE back -> "unroutable"
      [] ~back /\ confirmSlot[1].kind = "ack" -> "confirmed"
      [] OTHER -> "rejected"

\* Faulty Publish: a return that came with the confirmation is not looked for.
ConfirmAlone ==
    /\ turn # None /\ confirmSlot # <<>>
    /\ Done(Answer(returned))
    /\ confirmSlot' = <<>>
    /\ UNCHANGED <<ready, alive, sent, verdict, answers, returnSlot, clean>>

\* The tag of the confirmation is not compared with the tag of the publish, and a
\* closed channel of returns reads like a return.
TakeConfirm ==
    /\ turn # None /\ confirmSlot # <<>>
    /\ Done(Answer(returned \/ returnSlot # <<>> \/ ~alive))
    /\ confirmSlot' = <<>> /\ returnSlot' = <<>>
    /\ UNCHANGED <<ready, alive, sent, verdict, answers, clean>>

\* What is in the connection is lost, what has reached the two channels is not.
ChannelCloses ==
    /\ alive
    /\ alive' = FALSE /\ sent' = <<>> /\ answers' = <<>>
    /\ UNCHANGED <<turn, ready, verdict, returnSlot, confirmSlot, returned, reported, clean>>

\* The run loop gives the session up, for this or for another failure.
SessionEnds ==
    /\ ready
    /\ ready' = FALSE
    /\ UNCHANGED <<turn, alive, verdict, channels, returned, reported, clean>>

\* Another session has channels of its own. A publisher that still reads from the
\* old ones keeps the others waiting, so it may as well be done by now.
NewSession ==
    /\ ~ready /\ ~alive /\ turn = None
    /\ ready' = TRUE /\ alive' = TRUE
    /\ returnSlot' = <<>> /\ confirmSlot' = <<>>
    /\ UNCHANGED <<turn, sent, verdict, answers, returned, reported, clean>>

-----------------------------------------------------------------------------
(* The broker, and the reader of the connection that fills the channels.   *)

BrokerDecides ==
    /\ sent # <<>>
    /\ LET m == Head(sent)
           Frame(kind) == [m |-> m, kind |-> kind] IN
       \E v \in {"taken", "refused", "unroutable"} :
         /\ verdict' = [verdict EXCEPT ![m] = v]
         /\ answers' = answers \o
              CASE v = "taken" -> <<Frame("ack")>>
                [] v = "refused" -> <<Frame("nack")>>
                [] OTHER -> <<Frame("return"), Frame("ack")>>
    /\ sent' = Tail(sent)
    /\ UNCHANGED <<turn, ready, alive, returnSlot, confirmSlot, returned, reported, clean>>

FrameArrives ==
    /\ answers # <<>>
    /\ IF Head(answers).kind = "return"
       THEN returnSlot = <<>> /\ returnSlot' = <<Head(answers).m>> /\ UNCHANGED confirmSlot
       ELSE confirmSlot = <<>> /\ confirmSlot' = <<Head(answers)>> /\ UNCHANGED returnSlot
    /\ answers' = Tail(answers)
    /\ UNCHANGED <<turn, ready, alive, sent, verdict, returned, reported, clean>>

-----------------------------------------------------------------------------
PublishInit ==
    /\ turn = None /\ ready = TRUE /\ alive = TRUE
    /\ sent = <<>> /\ answers = <<>> /\ returnSlot = <<>> /\ confirmSlot = <<>>
    /\ verdict = [m \in Messages |-> "unknown"] /\ reported = [m \in Messages |-> "none"]
    /\ returned = FALSE /\ clean = TRUE

PublishNext ==
    \/ \E m \in Messages : Publish(m)
    \/ GiveUp \/ TakeReturn \/ TakeConfirm
    \/ ChannelCloses \/ SessionEnds \/ NewSession \/ BrokerDecides \/ FrameArrives

PublishSpec == PublishInit /\ [][PublishNext]_publishVars

-----------------------------------------------------------------------------
(* Properties.                                                             *)

Truth == [taken |-> "confirmed", refused |-> "rejected", unroutable |-> "unroutable"]
Told(m) == reported[m] \in {"confirmed", "rejected", "unroutable"}

\* A publisher that is answered while no answer to an earlier publish of the
\* session was outstanding is told what the broker did with its message; for a
\* message without a route that the return and the confirmation may be read in
\* either order does not matter. One answer can be wrong: once the channel has
\* closed, a confirmation that had reached the publisher is read together with the
\* closed channel of returns, and the message called unroutable whatever the broker
\* did with it (Publish, rabbitmq.go:276-311).
AnswersAreOwn ==
    []PublishTypeOK /\ [][\A m \in Messages :
        turn = m /\ clean /\ Told(m)' =>
            /\ verdict[m] # "unknown"
            /\ reported'[m] = Truth[verdict[m]] \/ (~alive /\ reported'[m] = "unroutable")]_publishVars
=============================================================================

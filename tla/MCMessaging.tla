---------------------------- MODULE MCMessaging ----------------------------
(* The four halves of messaging side by side: the hand-over between          *)
(* generations, the session of a provider, publishing over it, and what      *)
(* becomes of a message. They share no state, so a behaviour is one of them. *)
EXTENDS Messaging, RabbitSession, Delivery, TLC

CONSTANTS m1, m2, c1, c2

Provider(driver) ==
    [driver |-> driver, uri |-> "amqp", heartbeat |-> 10, insecure |-> FALSE, certificate |-> "", key |-> ""]

Route(limit, reliable) ==
    [provider |-> "mq", queue |-> "orders", quorum |-> TRUE, importance |-> "required", reliable |-> reliable,
     routingKey |-> "order", limit |-> limit, retryMin |-> 1, retryMax |-> 2, deadLetters |-> "dlx", atLeastOnce |-> TRUE]

Placed == [id |-> "order.placed", version |-> 1]
Contract(size) == [ref |-> Placed, contentType |-> "json", size |-> size, fingerprint |-> "f"]

Producer == [id |-> "orders", contract |-> Placed, route |-> "orders", confirm |-> "broker"]

Consumer(max) ==
    [id |-> "billing", contract |-> Placed, route |-> "orders", importance |-> "required", handler |-> "bill",
     delivery |-> [max |-> max, timeout |-> 1, lease |-> 2, retention |-> 3, deadLetter |-> "required"],
     concurrency |-> [slots |-> 2, prefetch |-> 2]]

\* Limits and budgets that agree and that do not, with and without a reliable
\* route; a driver that is not linked in; two modules that share a contract and
\* that do not agree on it.
MCSetups ==
    {[config |-> [enabled |-> TRUE, providers |-> "mq" :> Provider(driver), routes |-> "orders" :> route,
                  times |-> [confirm |-> 5, handoff |-> 30, shutdown |-> 30, connect |-> 3, initial |-> 1, max |-> 30]],
      modules |-> "shop" :> [contracts |-> {Contract(1)}, producers |-> {Producer}, consumers |-> {}]
               @@ "bills" :> [contracts |-> {Contract(size)}, producers |-> {}, consumers |-> {Consumer(max)}]] :
        route \in {Route(limit, TRUE) : limit \in 0..3} \cup {Route(0, FALSE)}, max \in 0..3,
        driver \in {"rabbitmq", "fake"}, size \in 1..2}

VARIABLE part
vars == <<part, messagingVars, sessionVars, publishVars, deliveryVars>>

Init ==
    /\ part \in {"hub", "session", "publish", "delivery"}
    /\ MessagingInit /\ RabbitInit /\ PublishInit /\ DeliveryInit
    /\ part # "session" => loop = "connect"
    /\ part # "delivery" => MaxDeliveries = 2 /\ TheRoute.reliable

Hubs == part = "hub" /\ UNCHANGED <<part, sessionVars, publishVars, deliveryVars>>
Sessions == part = "session" /\ UNCHANGED <<part, messagingVars, publishVars, deliveryVars>>
Publishes == part = "publish" /\ UNCHANGED <<part, messagingVars, sessionVars, deliveryVars>>
Delivers == part = "delivery" /\ UNCHANGED <<part, messagingVars, sessionVars, publishVars>>

Next ==
    \/ Hubs /\ MessagingNext
    \/ Sessions /\ RabbitNext
    \/ Publishes /\ PublishNext
    \/ Delivers /\ DeliveryNext

\* A behaviour stays in its part, so one condition serves an action of each.
\* - Hub: it gets the lock in its turn, a provider is not unable to open for
\*   ever, and monitors tick.
\* - Session: the run loop runs, its select and that of a consumer which is to
\*   stop are fair, and handlers end.
\* - Delivery: the broker delivers, the store answers now and then, handlers end
\*   and their end is written now and then, and leases lapse.
Fairness ==
    /\ SF_vars(\/ Hubs /\ Sets(Hub)
               \/ Sessions /\ TakeSignal
               \/ Delivers /\ Begin(c1))
    /\ SF_vars(\/ Hubs /\ \E a \in Callers : OpenSucceeds(a)
               \/ Sessions /\ TakeFailure
               \/ Delivers /\ Begin(c2))
    /\ SF_vars((Sessions /\ TakeCancel) \/ (Delivers /\ Ends))
    /\ WF_vars((Hubs /\ Hands) \/ (Sessions /\ Runs) \/ (Delivers /\ Reconnect))
    /\ WF_vars((Sessions /\ (ConsumersLeave \/ FinishStop)) \/ (Delivers /\ ClaimLapses))
    /\ WF_vars((Sessions /\ Replies) \/ (Delivers /\ (Deliver(c1) \/ Handles(c1) \/ Settle(c1))))
    /\ WF_vars((Sessions /\ Handled) \/ (Delivers /\ (Deliver(c2) \/ Handles(c2) \/ Settle(c2))))
    /\ \A m \in Monitors : WF_vars(Hubs /\ (Sets(m) \/ Watches(m)))

Spec == Init /\ [][Next]_vars /\ Fairness
=============================================================================

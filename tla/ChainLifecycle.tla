--------------------------- MODULE ChainLifecycle ---------------------------
(***************************************************************************)
(* The goroutines of one HCS chain from Start to Halt, and the mirror node *)
(* subscription they depend on: startThread, which becomes the consumer    *)
(* loop of processMessages; processTimeToCutRequests with the goroutine    *)
(* that closes its channel; the SDK goroutine behind each subscription;    *)
(* clients in Order; and callers of Halt.  What the messages say is left   *)
(* out (HcsNetwork is about that) but for their kind: a time-to-cut never  *)
(* starts a timer.                                                         *)
(***************************************************************************)
EXTENDS Naturals, Sequences

CONSTANTS Clients,      \* goroutines that call Order
          Halters,      \* goroutines that call Halt, once each
          RetryMax,     \* subscriptionRetryMax
          MaxErrors,    \* bound on stream, subscription and sending errors
          MaxOrders     \* bound on the calls of Order

ASSUME LifecycleAssumption == /\ RetryMax \in Nat
                              /\ MaxErrors \in Nat
                              /\ MaxOrders \in Nat

VARIABLES start,      \* startThread: "new", "client", "subscribed", "started"
          consumer,   \* processMessages: "off", "select", "exited", or the
                      \* timer request it is about to make
          lastSequenceProcessed,
          retryCount, \* subscriptionRetryCount
          retryTimer, \* is subscriptionRetryTimer set?
          ttc,        \* processTimeToCutRequests: "off", "select", "drain", "done"
          closer,     \* its deferred goroutine: "off", "wait", "done"
          sendTimer, recvTimer,   \* are these timers set?
          haltChan, errorChan, doneProcessingMessages,
          timeToCutRequestChan,   \* these four: TRUE once closed
          hcsClient,  \* "nil", "open" or "closed"
          streams,    \* every subscription: a sequence of stream records
          topic,      \* the kinds of the messages on the topic
          order,      \* per client: "idle", "added", "submit", "request"
          halt,       \* per halter: "idle", "checked", "waiting", "done"
          errors, orders,   \* history: errors raised, Order calls made
          unprovoked, \* history: sending the stale time-to-cut failed
          panic       \* why the process died, or "none"

consumerVars == <<consumer, lastSequenceProcessed, retryCount, retryTimer>>
timers       == <<sendTimer, recvTimer>>
ttcVars      == <<ttc, closer, timers, timeToCutRequestChan>>
flags        == <<haltChan, errorChan, doneProcessingMessages>>
history      == <<errors, orders, unprovoked>>

lifecycleVars == <<start, consumerVars, ttcVars, flags, hcsClient, streams,
                   topic, order, halt, history, panic>>

Started == start = "started"   \* startChan is closed
Alive   == panic = "none"

Current == Len(streams)   \* topicSubscriptionHandle

(* A stream that will deliver the messages after number `from`.            *)
NewStream(from) == [state |-> "live", next |-> from + 1,
                    closed |-> FALSE, canceled |-> FALSE]

(* Faulty subscription: from the last message instead of after it.         *)
SubscribeAtLast == [NewStream(lastSequenceProcessed) EXCEPT !.next = @ - 1]

(* startSubscription: one nanosecond after the last message processed.     *)
Subscribe == NewStream(lastSequenceProcessed)

(* Unsubscribe closes the channels of a handle.  Whether it also cancels   *)
(* the stream depends on a data race: SubscriptionHandle is returned by    *)
(* value while the SDK goroutine sets the cancel function of its own copy. *)
Unsubscribed(h, canceled) == [h EXCEPT !.closed = TRUE, !.canceled = canceled]

LifecycleInit ==
  /\ start = "new"
  /\ consumer = "off" /\ lastSequenceProcessed = 0
  /\ retryCount = 0 /\ retryTimer = FALSE
  /\ ttc = "off" /\ closer = "off"
  /\ sendTimer = FALSE /\ recvTimer = FALSE
  /\ haltChan = FALSE /\ errorChan = TRUE /\ doneProcessingMessages = FALSE
  /\ timeToCutRequestChan = FALSE
  /\ hcsClient = "nil"
  /\ streams = <<>>
  /\ topic = <<>>
  /\ order = [c \in Clients |-> "idle"]
  /\ halt = [h \in Halters |-> "idle"]
  /\ errors = 0 /\ orders = 0 /\ unprovoked = FALSE
  /\ panic = "none"
-----------------------------------------------------------------------------
(* startThread.                                                            *)

CreateClient ==
  /\ Alive /\ start = "new"
  /\ start' = "client"
  /\ hcsClient' = "open"
  /\ UNCHANGED <<consumerVars, ttcVars, flags, streams, topic, order, halt,
                 history, panic>>

FirstSubscription ==
  /\ Alive /\ start = "client"
  /\ \/ /\ streams' = <<Subscribe>>
        /\ start' = "subscribed"
        /\ UNCHANGED <<panic, errors>>
     \/ /\ errors < MaxErrors
        /\ errors' = errors + 1
        /\ panic' = "start"
        /\ UNCHANGED <<start, streams>>
  /\ UNCHANGED <<consumerVars, ttcVars, flags, hcsClient, topic, order, halt,
                 orders, unprovoked>>

(* The OrdererStarted message is sent, startChan closes, errorChan opens   *)
(* and both loops run; or sending it fails, and startThread panics.        *)
FinishStart ==
  /\ Alive /\ start = "subscribed"
  /\ \/ /\ topic' = Append(topic, "started")
        /\ start' = "started"
        /\ errorChan' = FALSE
        /\ consumer' = "select"
        /\ ttc' = "select"
        /\ UNCHANGED <<panic, errors>>
     \/ /\ errors < MaxErrors
        /\ errors' = errors + 1
        /\ panic' = "start"
        /\ UNCHANGED <<topic, start, errorChan, consumer, ttc>>
  /\ UNCHANGED <<lastSequenceProcessed, retryCount, retryTimer, closer, timers,
                 haltChan, doneProcessingMessages, timeToCutRequestChan,
                 hcsClient, streams, order, halt, orders, unprovoked>>
-----------------------------------------------------------------------------
(* The SDK goroutine of stream i sends on unbuffered channels.  Sending on *)
(* a channel Unsubscribe has closed panics.                                *)

StreamSends(i, state) ==
  /\ Alive
  /\ IF streams[i].closed
       THEN panic' = "stream" /\ UNCHANGED streams
       ELSE streams' = [streams EXCEPT ![i].state = state] /\ UNCHANGED panic
  /\ UNCHANGED <<start, consumerVars, ttcVars, flags, hcsClient, topic, order,
                 halt, orders, unprovoked>>

StreamDelivers(i) ==
  /\ streams[i].state = "live"
  /\ streams[i].next <= Len(topic)
  /\ StreamSends(i, "message")
  /\ UNCHANGED errors

StreamFails(i) ==
  /\ streams[i].state = "live"
  /\ \/ streams[i].canceled /\ UNCHANGED errors
     \/ errors < MaxErrors /\ errors' = errors + 1
  /\ \E kind \in {"recoverable", "fatal"} : StreamSends(i, kind)

(* Closing the channel wakes a goroutine blocked on sending to it.         *)
BlockedStreamPanics(i) ==
  /\ Alive
  /\ streams[i].state \in {"message", "recoverable", "fatal"}
  /\ streams[i].closed
  /\ panic' = "stream"
  /\ UNCHANGED <<start, consumerVars, ttcVars, flags, hcsClient, streams,
                 topic, order, halt, history>>
-----------------------------------------------------------------------------
(* The consumer loop of processMessages.                                   *)

Selecting == Alive /\ consumer = "select"

(* Handling a message may stop the receive timer (a block was cut) and    *)
(* start it again (a regular message is pending).                          *)
Requests(kind) ==
  CASE kind = "regular" -> {"select", "stop", "start", "stopStart"}
    [] kind = "ttc"     -> {"select", "stop"}
    [] OTHER            -> {"select"}

(* A message makes the chain available again.  It must continue the        *)
(* sequence.                                                               *)
ReceiveMessage ==
  /\ Selecting
  /\ streams[Current].state = "message"
  /\ retryCount' = 0
  /\ errorChan' = FALSE
  /\ IF streams[Current].next # lastSequenceProcessed + 1
       THEN /\ panic' = "sequence"
            /\ UNCHANGED <<lastSequenceProcessed, streams, consumer>>
       ELSE /\ lastSequenceProcessed' = lastSequenceProcessed + 1
            /\ streams' = [streams EXCEPT ![Current].state = "live",
                                          ![Current].next = @ + 1]
            /\ consumer' \in Requests(topic[streams[Current].next])
            /\ UNCHANGED panic
  /\ UNCHANGED <<start, retryTimer, ttcVars, haltChan, doneProcessingMessages,
                 hcsClient, topic, order, halt, history>>

(* The request reaches processTimeToCutRequests, which is in its loop as   *)
(* long as the consumer is.                                                *)
RequestTimer ==
  /\ Alive /\ consumer \in {"stop", "start", "stopStart"}
  /\ ttc = "select"
  /\ recvTimer' = (consumer = "start")
  /\ consumer' = IF consumer = "stopStart" THEN "start" ELSE "select"
  /\ UNCHANGED <<start, lastSequenceProcessed, retryCount, retryTimer, ttc,
                 closer, sendTimer, timeToCutRequestChan, flags, hcsClient,
                 streams, topic, order, halt, history, panic>>

(* close(haltChan) by the consumer: a second close panics.                 *)
CloseHaltChan == /\ haltChan' = TRUE
                 /\ panic' = IF haltChan THEN "halt" ELSE panic

CanRetry(kind) == retryCount < RetryMax /\ kind = "recoverable"

MarkErrored == errorChan' = TRUE

ReceiveError ==
  /\ Selecting
  /\ streams[Current].state \in {"recoverable", "fatal"}
  /\ streams' = [streams EXCEPT ![Current].state = "ended"]
  /\ MarkErrored
  /\ IF CanRetry(streams[Current].state)
       THEN retryTimer' = TRUE /\ UNCHANGED <<haltChan, panic>>
       ELSE CloseHaltChan /\ UNCHANGED retryTimer
  /\ UNCHANGED <<start, consumer, lastSequenceProcessed, retryCount, ttcVars,
                 doneProcessingMessages, hcsClient, topic, order, halt,
                 history>>

(* Faulty retry: the handle just created is the one unsubscribed.          *)
ResubscribedClosingNew(canceled) ==
  Append(streams, Unsubscribed(Subscribe, canceled))

Resubscribed(canceled) ==
  Append([streams EXCEPT ![Current] = Unsubscribed(@, canceled)], Subscribe)

(* Faulty recovery: no message is provoked.                                *)
SendNothing == UNCHANGED <<topic, errors>>

(* sendTimeToCut goes through enqueue, which refuses once halted, and      *)
(* enqueueChecked, where submitting may fail; the failure is only logged.  *)
SendTimeToCut ==
  \/ /\ topic' = IF haltChan THEN topic ELSE Append(topic, "ttc")
     /\ UNCHANGED errors
  \/ /\ errors < MaxErrors
     /\ errors' = errors + 1
     /\ UNCHANGED topic

(* A new subscription replaces the failed one and a stale time-to-cut is   *)
(* sent to provoke a message; or subscribing fails and is tried again, up  *)
(* to RetryMax times.                                                      *)
RetrySubscription ==
  /\ Selecting /\ retryTimer
  /\ retryCount' = retryCount + 1
  /\ \/ /\ retryTimer' = FALSE
        /\ \E canceled \in BOOLEAN : streams' = Resubscribed(canceled)
        /\ SendTimeToCut
        /\ unprovoked' = (errors' # errors)
        /\ UNCHANGED <<haltChan, panic>>
     \/ /\ errors < MaxErrors
        /\ errors' = errors + 1
        /\ retryTimer' = (retryCount + 1 < RetryMax)
        /\ IF retryTimer' THEN UNCHANGED <<haltChan, panic>>
                          ELSE CloseHaltChan
        /\ UNCHANGED <<streams, topic, unprovoked>>
  /\ UNCHANGED <<start, consumer, lastSequenceProcessed, ttcVars, errorChan,
                 doneProcessingMessages, hcsClient, order, halt, orders>>

(* haltChan is closed: the deferred clean-up of processMessages.           *)
ConsumerExits ==
  /\ Selecting /\ haltChan
  /\ consumer' = "exited"
  /\ \E canceled \in BOOLEAN :
       streams' = [streams EXCEPT ![Current] = Unsubscribed(@, canceled)]
  /\ doneProcessingMessages' = TRUE
  /\ errorChan' = TRUE
  /\ retryTimer' = FALSE
  /\ UNCHANGED <<start, lastSequenceProcessed, retryCount, ttcVars, haltChan,
                 hcsClient, topic, order, halt, history, panic>>
-----------------------------------------------------------------------------
(* processTimeToCutRequests.                                               *)

(* A timer fires and a time-to-cut message is sent, unless that fails.     *)
TimerFires ==
  /\ Alive /\ ttc = "select"
  /\ \/ sendTimer /\ sendTimer' = FALSE /\ UNCHANGED recvTimer
     \/ recvTimer /\ recvTimer' = FALSE /\ UNCHANGED sendTimer
  /\ SendTimeToCut
  /\ UNCHANGED <<start, consumerVars, ttc, closer, timeToCutRequestChan, flags,
                 hcsClient, streams, order, halt, orders, unprovoked, panic>>

TtcExits ==
  /\ Alive /\ ttc = "select" /\ doneProcessingMessages
  /\ ttc' = "drain"
  /\ closer' = "wait"
  /\ sendTimer' = FALSE /\ recvTimer' = FALSE
  /\ UNCHANGED <<start, consumerVars, timeToCutRequestChan, flags, hcsClient,
                 streams, topic, order, halt, history, panic>>

(* Faulty use of the WaitGroup: joined only to make the request.           *)
Requesters == {c \in Clients : order[c] = "request"}

(* senderWaitGroup counts the clients between Add(1) and Done().           *)
Senders == {c \in Clients : order[c] # "idle"}

CloseRequests ==
  /\ Alive /\ closer = "wait"
  /\ Senders = {}
  /\ timeToCutRequestChan' = TRUE
  /\ closer' = "done"
  /\ UNCHANGED <<start, consumerVars, ttc, timers, flags, hcsClient, streams,
                 topic, order, halt, history, panic>>

(* The drain ends when the channel is closed; then the client is closed.   *)
CloseClient ==
  /\ Alive /\ ttc = "drain"
  /\ timeToCutRequestChan
  /\ ttc' = "done"
  /\ hcsClient' = "closed"
  /\ UNCHANGED <<start, consumerVars, closer, timers, timeToCutRequestChan,
                 flags, streams, topic, order, halt, history, panic>>
-----------------------------------------------------------------------------
(* Order, called by clients.                                               *)

OrderStep(c, from, to) ==
  /\ Alive
  /\ order[c] = from
  /\ order' = [order EXCEPT ![c] = to]
  /\ UNCHANGED <<start, consumerVars, closer, ttc, recvTimer,
                 timeToCutRequestChan, flags, hcsClient, streams, halt, errors,
                 unprovoked, panic>>

OrderCalled(c) ==                                  \* senderWaitGroup.Add(1)
  /\ orders < MaxOrders
  /\ orders' = orders + 1
  /\ OrderStep(c, "idle", "added")
  /\ UNCHANGED <<topic, sendTimer>>

(* enqueue: refused before the start is complete and after a halt.         *)
EnqueueChecks(c) ==
  /\ OrderStep(c, "added", IF Started /\ ~haltChan THEN "submit" ELSE "idle")
  /\ UNCHANGED <<topic, sendTimer, orders>>

(* enqueueChecked: the message is on the topic, or submitting it failed.   *)
Submit(c) ==
  /\ \/ OrderStep(c, "submit", "request") /\ topic' = Append(topic, "regular")
     \/ OrderStep(c, "submit", "idle") /\ UNCHANGED topic
  /\ UNCHANGED <<sendTimer, orders>>

(* Faulty clean-up: requests are not drained.                              *)
ServedByLoop == ttc = "select"

(* The loop of processTimeToCutRequests receives requests, and its drain.  *)
Served == ttc \in {"select", "drain"} /\ ~timeToCutRequestChan

(* The deferred request to start the batch timer.                          *)
OrderReturns(c) ==
  /\ Served
  /\ sendTimer' = (sendTimer \/ ttc = "select")
  /\ OrderStep(c, "request", "idle")
  /\ UNCHANGED <<topic, orders>>
-----------------------------------------------------------------------------
(* Halt: look at haltChan, close it, wait for the consumer.                *)

HaltStep(h, from, to) ==
  /\ Alive
  /\ halt[h] = from
  /\ halt' = [halt EXCEPT ![h] = to]
  /\ UNCHANGED <<start, consumerVars, ttcVars, errorChan,
                 doneProcessingMessages, hcsClient, streams, topic, order,
                 history>>

HaltChecks(h) ==
  /\ Started
  /\ HaltStep(h, "idle", IF haltChan THEN "done" ELSE "checked")
  /\ UNCHANGED <<haltChan, panic>>

HaltCloses(h) == HaltStep(h, "checked", "waiting") /\ CloseHaltChan

HaltReturns(h) ==
  /\ doneProcessingMessages
  /\ HaltStep(h, "waiting", "done")
  /\ UNCHANGED <<haltChan, panic>>
-----------------------------------------------------------------------------
Startup  == CreateClient \/ FirstSubscription \/ FinishStart
Consumer == \/ ReceiveMessage \/ RequestTimer \/ ReceiveError
            \/ RetrySubscription \/ ConsumerExits
TimeToCut == TimerFires \/ TtcExits \/ CloseRequests \/ CloseClient
Ordering(c) == \/ OrderCalled(c) \/ EnqueueChecks(c) \/ Submit(c)
               \/ OrderReturns(c)
Halting(h) == HaltChecks(h) \/ HaltCloses(h) \/ HaltReturns(h)

LifecycleNext ==
  \/ Startup \/ Consumer \/ TimeToCut
  \/ \E i \in DOMAIN streams : \/ StreamDelivers(i)
                               \/ StreamFails(i)
                               \/ BlockedStreamPanics(i)
  \/ \E c \in Clients : Ordering(c)
  \/ \E h \in Halters : Halting(h)

(* Every goroutine that can run does so eventually; a select picks every   *)
(* case that stays ready (ConsumerExits is one).  Clients need not call    *)
(* Order, streams need not fail, but what was begun is carried on.         *)
LifecycleFairness ==
  /\ WF_lifecycleVars(Startup)
  /\ WF_lifecycleVars(Consumer)
  /\ WF_lifecycleVars(ConsumerExits)
  /\ WF_lifecycleVars(TimerFires)
  /\ WF_lifecycleVars(TtcExits \/ CloseRequests \/ CloseClient)
  /\ WF_lifecycleVars(\E i \in DOMAIN streams : StreamDelivers(i))
  /\ \A c \in Clients : WF_lifecycleVars(EnqueueChecks(c) \/ Submit(c)
                                          \/ OrderReturns(c))
  /\ \A h \in Halters : WF_lifecycleVars(HaltCloses(h) \/ HaltReturns(h))

LifecycleSpec == LifecycleInit /\ [][LifecycleNext]_lifecycleVars
                 /\ LifecycleFairness
-----------------------------------------------------------------------------
(* The type of the state; processTimeToCutRequests serves requests for as  *)
(* long as the consumer may make one.                                      *)
LifecycleTypeOK ==
  /\ start \in {"new", "client", "subscribed", "started"}
  /\ consumer \in {"off", "select", "stop", "start", "stopStart", "exited"}
  /\ retryCount \in 0 .. RetryMax
  /\ consumer \in {"select", "stop", "start", "stopStart"} => ttc = "select"
  /\ closer \in {"off", "wait", "done"}
  /\ hcsClient \in {"nil", "open", "closed"}
  /\ panic \in {"none", "start", "stream", "sequence", "halt"}

(* A client that got past the halt check may still submit its message and  *)
(* hand over its timer request: the request channel and the HCS client are *)
(* closed only when every such call has returned, however Order, Halt and  *)
(* the clean-up interleave.  (The WaitGroup protocol.)                     *)
NoUseAfterClose ==
  /\ timeToCutRequestChan =>
       /\ consumer = "exited"
       /\ \A c \in Clients : order[c] \notin {"submit", "request"}
  /\ hcsClient = "closed" => timeToCutRequestChan

(* After a resubscription the responses continue exactly where they broke  *)
(* off: the sequence number check never fails.                             *)
NoSequenceGap == panic # "sequence"

(* Replacing a failed subscription never closes a channel on which an SDK  *)
(* goroutine still sends; that can only happen when the consumer has left. *)
ResubscriptionSafe ==
  /\ panic = "stream" => consumer = "exited"
  /\ consumer # "exited" =>
       \A i \in DOMAIN streams : streams[i].closed => streams[i].state = "ended"

(* Deliver clients see the failure: while the current subscription is down *)
(* or the consumer has left, Errored is closed.                            *)
FailureIsVisible ==
  consumer = "exited" \/ (Current > 0 /\ streams[Current].state = "ended")
    => errorChan

(* Halt may be called several times without a panic.                       *)
HaltNeverPanics == panic # "halt"

(* A subscription error is cleared by a message of a new subscription (the *)
(* stale time-to-cut provokes one), unless the chain halts or dies, or     *)
(* that time-to-cut could not be sent and nothing else is on the topic.    *)
ErrorIsCleared ==
  (Started /\ errorChan) ~>
    \/ ~errorChan \/ haltChan \/ ~Alive
    \/ unprovoked /\ lastSequenceProcessed = Len(topic)

(* What the comment on the stale time-to-cut says: "the error will be      *)
(* cleared when the stale ttc is received and the orderer can resume".     *)
ErrorIsAlwaysCleared ==
  (Started /\ errorChan) ~> (~errorChan \/ haltChan \/ ~Alive)

(* Halt returns and the client is closed, whatever goroutines were doing,  *)
(* unless the process dies: nobody waits for a channel nobody serves.      *)
HaltCompletes ==
  haltChan ~> (~Alive \/ (hcsClient = "closed"
                          /\ \A h \in Halters : halt[h] # "waiting"
                          /\ \A c \in Clients : order[c] = "idle"))
=============================================================================

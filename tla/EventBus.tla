------------------------------- MODULE EventBus -------------------------------
(***************************************************************************)
(* The event pipeline in front of IncrementalSync (internal/events and     *)
(* SyncService.HandleWebhook, StartConsumer).  Events come in by webhook,  *)
(* each from an HTTP request of its own, or from an external Kafka topic   *)
(* read by the data source consumer; they go through the event bus, which  *)
(* is an in-memory channel or a Kafka topic with a channel to fall back on;*)
(* one consumer hands them to IncrementalSync.                             *)
(*                                                                         *)
(* The brokers, a consumer group's offsets and the ends of sarama's        *)
(* sessions are external: a topic is a log per partition, what a restart   *)
(* finds committed is any prefix of what was marked, and a session ends at *)
(* any moment.  A handler that fails counts as having handled its event:   *)
(* both consumers log the error and go on.                                 *)
(*                                                                         *)
(* cmd/server never calls StartConsumer, other callers may: StartConsumer  *)
(* is an action that need not happen.                                      *)
(***************************************************************************)
EXTENDS Naturals, Sequences, FiniteSets

CONSTANTS Webhooks,     \* events that arrive by HTTP
          Feed,         \* events of one partition of the external topic
          Configs,      \* configurations: event_bus.mode, channel.buffer_size
          Partitions,   \* partitions of the bus topic
          MaxOutages,   \* how often the bus brokers may become unreachable
          Crashes       \* TRUE: the process may restart, once

Sources == {Feed[i] : i \in DOMAIN Feed}
Events  == Webhooks \cup Sources

ASSUME BusAssumption ==
    /\ Feed \in Seq(Sources)
    /\ \A i, j \in DOMAIN Feed : Feed[i] = Feed[j] => i = j
    /\ Webhooks \cap Sources = {}
    /\ Configs \subseteq [mode : {"channel", "kafka"}, capacity : Nat]
    /\ Partitions # {}
    /\ MaxOutages \in Nat
    /\ Crashes \in BOOLEAN

VARIABLES mode,        \* event_bus.mode of the configuration
          capacity,    \* channel.buffer_size of the configuration
          up,          \* the bus brokers are reachable
          outages,     \* outages so far
          primaryOK,   \* fallbackPublisher.primaryOK
          probe,       \* probe[e]: tryRecover that the Publish of e started
          pub,         \* pub[e]: how far the Publish of e has come
          chan,        \* the in-memory channel
          topic,       \* topic[k]: log of partition k of the bus topic
          offset,      \* offset[k]: messages of partition k marked as consumed
          fed,         \* messages of Feed marked as consumed
          handled,     \* handled[e]: times IncrementalSync got e, 2 is "many"
          before,      \* before[e]: acknowledged by the channel before e
          started,     \* the goroutine of StartConsumer runs
          crashed,     \* the restart has happened
          faults       \* history: what may have lost events so far

broker   == <<up, outages, topic, offset, faults>>
fallback == <<primaryOK, probe>>
process  == <<mode, capacity, started, crashed>>
vars     == <<broker, fallback, pub, chan, fed, handled, before, process>>

Returned == {"acked", "refused"}

\* A webhook request arrives, or the data source consumer comes to its next
\* message; Publish reads primaryOK under the read lock.
Begin(e) ==
    /\ pub[e] = "no"
    /\ e \in Webhooks \/ (fed < Len(Feed) /\ e = Feed[fed + 1])
    /\ pub' = [pub EXCEPT ![e] =
                 IF mode = "kafka" /\ primaryOK THEN "primary" ELSE "offer"]
    /\ before' = [before EXCEPT ![e] =
                    {f \in Events : mode = "channel" /\ pub[f] = "acked"}]
    /\ UNCHANGED <<broker, fallback, chan, fed, handled, process>>

\* kafkaPublisher.Publish: no key is set, so the partition is any.
Send(e) ==
    /\ pub[e] = "primary"
    /\ up
    /\ \E k \in Partitions : topic' = [topic EXCEPT ![k] = Append(@, e)]
    /\ pub' = [pub EXCEPT ![e] = "acked"]
    /\ UNCHANGED <<up, outages, offset, faults, fallback, chan, fed, handled, before, process>>

\* SendMessage fails, because the brokers are away or for any other reason; they
\* may have stored the message all the same.
SendFails(e) ==
    /\ pub[e] = "primary"
    /\ \/ UNCHANGED topic
       \/ \E k \in Partitions : topic' = [topic EXCEPT ![k] = Append(@, e)]
    /\ pub' = [pub EXCEPT ![e] = "failed"]
    /\ faults' = faults \cup {"send"}
    /\ UNCHANGED <<up, outages, offset, fallback, chan, fed, handled, before, process>>

\* primaryOK is cleared under the lock and a tryRecover is started that lives
\* as long as the context of this Publish.
Degrade(e) ==
    /\ pub[e] = "failed"
    /\ primaryOK' = FALSE
    /\ probe' = [probe EXCEPT ![e] = "running"]
    /\ pub' = [pub EXCEPT ![e] = "offer"]
    /\ UNCHANGED <<broker, chan, fed, handled, before, process>>

\* Mutants: the queue is a stack, a full queue drops silently or blocks.
OfferFront(e) ==
    /\ pub[e] = "offer"
    /\ IF Len(chan) < capacity
       THEN chan' = <<e>> \o chan /\ pub' = [pub EXCEPT ![e] = "acked"]
       ELSE pub' = [pub EXCEPT ![e] = "refused"] /\ UNCHANGED chan
    /\ UNCHANGED <<broker, fallback, fed, handled, before, process>>


OfferBlocks(e) ==
    /\ pub[e] = "offer"
    /\ Len(chan) < capacity
    /\ chan' = Append(chan, e)
    /\ pub' = [pub EXCEPT ![e] = "acked"]
    /\ UNCHANGED <<broker, fallback, fed, handled, before, process>>

\* channelPublisher.Publish: never blocks, a full channel is an error.
Offer(e) ==
    /\ pub[e] = "offer"
    /\ \/ /\ Len(chan) < capacity
          /\ chan' = Append(chan, e)
          /\ pub' = [pub EXCEPT ![e] = "acked"]
       \/ /\ Len(chan) = capacity
          /\ pub' = [pub EXCEPT ![e] = "refused"]
          /\ UNCHANGED chan
    /\ UNCHANGED <<broker, fallback, fed, handled, before, process>>

\* Mutant: a ping that fails ends the probing.
ProbePingOnce(e) ==
    /\ probe[e] = "running"
    /\ primaryOK' = (up \/ primaryOK)
    /\ probe' = [probe EXCEPT ![e] = "none"]
    /\ UNCHANGED <<broker, pub, chan, fed, handled, before, process>>

\* tryRecover: Ping succeeds if the brokers are up, and possibly if they are
\* not, since it only counts the brokers the client knows.  A failed ping
\* changes nothing.
ProbePing(e) ==
    /\ probe[e] = "running"
    /\ primaryOK' = TRUE
    /\ probe' = [probe EXCEPT ![e] = "none"]
    /\ UNCHANGED <<broker, pub, chan, fed, handled, before, process>>

\* tryRecover returns with the context of its Publish: that of the HTTP request,
\* which ends with the answer or the client's connection, or that of the data
\* source's session, which ends with every rebalance.
ProbeCancelled(e) ==
    /\ probe[e] = "running"
    /\ probe' = [probe EXCEPT ![e] = "cut"]
    /\ UNCHANGED <<broker, primaryOK, pub, chan, fed, handled, before, process>>

\* ConsumeClaim of the data source marks its message whatever Publish said.
Mark ==
    /\ fed < Len(Feed)
    /\ pub[Feed[fed + 1]] \in Returned
    /\ fed' = fed + 1
    /\ UNCHANGED <<broker, fallback, pub, chan, handled, before, process>>

Handled(e) == [handled EXCEPT ![e] = IF @ = 2 THEN 2 ELSE @ + 1]

StartConsumer ==
    /\ ~started
    /\ started' = TRUE
    /\ UNCHANGED <<broker, fallback, pub, chan, fed, handled, before, mode, capacity, crashed>>

\* kafkaConsumer.Consume returns an error of the group's client, and the
\* goroutine of StartConsumer ends.
ConsumerStops ==
    /\ started /\ mode = "kafka"
    /\ started' = FALSE
    /\ UNCHANGED <<broker, fallback, pub, chan, fed, handled, before, mode, capacity, crashed>>

\* channelConsumer.Consume.  In mode "kafka" the consumer of the fallback
\* channel is thrown away.
ConsumeChannel ==
    /\ started
    /\ mode = "channel"
    /\ chan # <<>>
    /\ handled' = Handled(Head(chan))
    /\ chan' = Tail(chan)
    /\ UNCHANGED <<broker, fallback, pub, fed, before, process>>

\* Mutant: the newest message is handled and everything before it marked.
ConsumeNewest(k) ==
    /\ started
    /\ mode = "kafka"
    /\ up
    /\ offset[k] < Len(topic[k])
    /\ handled' = Handled(topic[k][Len(topic[k])])
    /\ offset' = [offset EXCEPT ![k] = Len(topic[k])]
    /\ UNCHANGED <<up, outages, topic, faults, fallback, pub, chan, fed, before, process>>

\* ConsumeClaim of the bus: handle the next message of a partition, mark it.
ConsumeTopic(k) ==
    /\ started
    /\ mode = "kafka"
    /\ up
    /\ offset[k] < Len(topic[k])
    /\ handled' = Handled(topic[k][offset[k] + 1])
    /\ offset' = [offset EXCEPT ![k] = @ + 1]
    /\ UNCHANGED <<up, outages, topic, faults, fallback, pub, chan, fed, before, process>>

Outage ==
    /\ up
    /\ outages < MaxOutages
    /\ up' = FALSE
    /\ outages' = outages + 1
    /\ UNCHANGED <<topic, offset, faults, fallback, pub, chan, fed, handled, before, process>>

Recover ==
    /\ ~up
    /\ up' = TRUE
    /\ UNCHANGED <<outages, topic, offset, faults, fallback, pub, chan, fed, handled, before, process>>

\* What every restart does to the memory of the process; the publication of
\* a source event that is read again starts over.
Forgotten(at) ==
    /\ Crashes /\ ~crashed
    /\ crashed' = TRUE
    /\ started' = FALSE
    /\ faults' = faults \cup {f \in {"restart"} : mode = "channel"}
    /\ primaryOK' = TRUE
    /\ probe' = [e \in Events |-> "none"]
    /\ chan' = <<>>
    /\ fed' = at
    /\ pub' = [e \in Events |->
                 IF e \in {Feed[i] : i \in at + 1 .. Len(Feed)} THEN "no"
                 ELSE IF pub[e] \in Returned \cup {"no"} THEN pub[e]
                 ELSE "refused"]
    /\ UNCHANGED <<mode, capacity, up, outages, topic, handled, before>>

\* Mutant: the consumer group starts at the newest message.
RestartNewest ==
    /\ \E at \in 0 .. fed : Forgotten(at)
    /\ offset' = [k \in Partitions |-> Len(topic[k])]

\* With one restart an event of the feed is published twice at most.
MaxLog == Cardinality(Webhooks) + 2 * Len(Feed)

\* The process restarts; both consumer groups go on at a committed offset.
Restart ==
    /\ \E at \in 0 .. fed : Forgotten(at)
    /\ offset' \in {o \in [Partitions -> 0 .. MaxLog] :
                       \A k \in Partitions : o[k] <= offset[k]}

-----------------------------------------------------------------------------
Init ==
    /\ \E c \in Configs : mode = c.mode /\ capacity = c.capacity
    /\ up = TRUE
    /\ outages = 0
    /\ primaryOK = TRUE
    /\ probe = [e \in Events |-> "none"]
    /\ pub = [e \in Events |-> "no"]
    /\ chan = <<>>
    /\ topic = [k \in Partitions |-> <<>>]
    /\ offset = [k \in Partitions |-> 0]
    /\ fed = 0
    /\ handled = [e \in Events |-> 0]
    /\ before = [e \in Events |-> {}]
    /\ started = FALSE
    /\ crashed = FALSE
    /\ faults = {}

Publishing(e) == Send(e) \/ SendFails(e) \/ Degrade(e) \/ Offer(e)

Next ==
    \/ \E e \in Events : \/ Begin(e) \/ Publishing(e)
                         \/ ProbePing(e) \/ ProbeCancelled(e)
    \/ Mark \/ StartConsumer \/ ConsumerStops \/ ConsumeChannel
    \/ \E k \in Partitions : ConsumeTopic(k)
    \/ Outage \/ Recover \/ Restart

Spec == Init /\ [][Next]_vars

\* Goroutines are scheduled, that of the channel's consumer if it was started,
\* every SendMessage returns, a running probe pings again and again, and outages
\* end.  No client has to call, nobody has to start the consumer, and neither
\* the data source nor a consumer of a Kafka topic has to go on.
Fairness ==
    /\ \A e \in Events : /\ WF_vars(Publishing(e))
                         /\ WF_vars(ProbePing(e) /\ up)
    /\ WF_vars(ConsumeChannel)
    /\ WF_vars(Recover)

FairSpec == Spec /\ Fairness

-----------------------------------------------------------------------------
(* Properties.                                                              *)

\* Types; the channel never holds more than its capacity.
TypeOK ==
    /\ mode \in {"channel", "kafka"} /\ capacity \in Nat
    /\ {up, primaryOK, started, crashed} \subseteq BOOLEAN
    /\ outages \in 0 .. MaxOutages
    /\ faults \subseteq {"send", "restart"}
    /\ probe \in [Events -> {"none", "running", "cut"}]
    /\ pub \in [Events -> {"no", "primary", "failed", "offer", "acked", "refused"}]
    /\ chan \in Seq(Events) /\ Len(chan) <= capacity
    /\ topic \in [Partitions -> Seq(Events)]
    /\ offset \in [Partitions -> Nat]
    /\ fed \in 0 .. Len(Feed)
    /\ handled \in [Events -> 0 .. 2]
    /\ before \in [Events -> SUBSET Events]

\* An event reaches IncrementalSync only after every event that had been
\* acknowledged when its own publication began: the channel keeps the order
\* until a restart empties it.
OrderKept ==
    [][mode = "channel" /\ ~crashed =>
         \A e \in Events : handled[e] = 0 /\ handled'[e] > 0
            => \A f \in before[e] : handled'[f] > 0]_vars

\* e waits where the consumer will find it.
Waiting(e) ==
    \/ mode = "channel" /\ \E i \in DOMAIN chan : chan[i] = e
    \/ mode = "kafka" /\ \E k \in Partitions :
          \E i \in offset[k] + 1 .. Len(topic[k]) : topic[k][i] = e

\* Nothing has happened so far that loses acknowledged events: no send to Kafka
\* has failed, so that events went to the fallback channel, and no restart has
\* emptied the channel.
Calm == faults = {}

Kept == \A e \in Events : pub[e] = "acked" /\ handled[e] = 0 => Waiting(e)

\* Until a send to Kafka fails, an acknowledged event is handled or still waits
\* for the consumer, in Kafka mode also across outages and a restart, and
\* whether or not somebody has started the consumer.
AckedKept == Calm => Kept

\* The lanes of the abstract delivery: the partitions, or the channel as one.
Unread(k)   == [i \in 1 .. Len(topic[k]) - offset[k] |-> topic[k][offset[k] + i]]
ChannelLane == CHOOSE k \in Partitions : TRUE
Lane(k)     == IF mode = "kafka" THEN Unread(k)
               ELSE IF k = ChannelLane THEN chan ELSE <<>>

D == INSTANCE Delivery WITH
       Lanes     <- Partitions,
       lane      <- [k \in Partitions |-> Lane(k)],
       accepted  <- {e \in Events : pub[e] = "acked"},
       delivered <- {e \in Events : handled[e] > 0},
       sound     <- Calm

\* Both implementations of the bus, and the fallback while it is not needed,
\* deliver as events/interface.go has publishers and consumer expect: in the
\* order of each lane, nothing accepted without being queued, nothing lost,
\* and what comes again has come before.
ImplementsDelivery == D!Spec


\* Every Publish returns, even while the brokers are away and the fallback
\* channel, which nobody reads, is full.
PublishReturns ==
    \A e \in Events : pub[e] \in {"primary", "failed", "offer"}
                         ~> pub[e] \in Returned \cup {"no"}

\* The publisher goes back to the brokers after a failed send, however many
\* Publishes fail and probe at the same time, unless the context of a probe ends
\* before it has succeeded: with its HTTP request, or with the session of the
\* data source.  Then it may stay with the fallback: SwitchBack fails.
SwitchBackUnlessCut ==
    ~primaryOK ~> primaryOK \/ \E e \in Events : probe[e] = "cut"

-----------------------------------------------------------------------------
(* Do not hold; TLC's counterexamples are in README.md.                     *)

\* After a failed send the publisher goes back to the brokers: fallback.go:21
\* promises it without a condition.
SwitchBack == ~primaryOK ~> primaryOK

\* An event the channel has acknowledged is handled in the end, unless a restart
\* empties the channel: the webhook's 202 says that it is queued for that.
AckedHandled ==
    \A e \in Events : mode = "channel" /\ pub[e] = "acked" ~> handled[e] > 0 \/ crashed

\* A message of the external topic that is marked as consumed was taken by the
\* bus: kafka_consumer.go:88 calls it at-least-once.
SourceDelivered == \A i \in 1 .. fed : pub[Feed[i]] = "acked"
=============================================================================

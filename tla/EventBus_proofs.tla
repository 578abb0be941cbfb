--------------------------- MODULE EventBus_proofs ---------------------------
(***************************************************************************)
(* The event bus, for any events, feed, capacity and partitions: no        *)
(* acknowledged event is lost before the consumer has it, as long as no    *)
(* send to Kafka fails and, with the in-memory channel, the process does   *)
(* not restart (a restart loses the channel, a failed send leads to a      *)
(* channel nobody reads: TLC's counterexamples); both buses implement the  *)
(* abstract delivery; and the channel keeps the order of publications.     *)
(***************************************************************************)
EXTENDS EventBus, SequenceTheorems, TLAPS

\* Until a send fails none degrades; and a consumer never marks more than the
\* log holds.
NoFailure ==
    /\ primaryOK
    /\ \A e \in Events : probe[e] = "none"
    /\ \A e \in Events : /\ pub[e] # "failed"
                         /\ mode = "kafka" => pub[e] # "offer"
                         /\ mode = "channel" => pub[e] # "primary"
    /\ \A k \in Partitions : offset[k] <= Len(topic[k])

KeptInv == TypeOK /\ (Calm => NoFailure /\ Kept)

\* Nothing is published yet.
LEMMA BusInit == Init => TypeOK
<1> SUFFICES ASSUME Init PROVE TypeOK
  OBVIOUS
<1>1. Len(Feed) \in Nat
  BY BusAssumption
<1>2. chan \in Seq(Events) /\ Len(chan) <= capacity
  BY BusAssumption DEF Init
<1>3. topic \in [Partitions -> Seq(Events)]
  BY DEF Init
<1>4. {up, primaryOK, started, crashed} \subseteq BOOLEAN /\ faults \subseteq {"send", "restart"}
  BY DEF Init
<1>5. QED
  BY <1>1, <1>2, <1>3, <1>4, BusAssumption DEF Init, TypeOK

\* Handling h counts h and nothing else, up to "many".
LEMMA HandledFacts ==
    ASSUME TypeOK, NEW h \in Events
    PROVE  /\ Handled(h) \in [Events -> 0 .. 2]
           /\ Handled(h)[h] # 0
           /\ \A e \in Events : Handled(h)[e] = 0 => handled[e] = 0
<1>1. handled \in [Events -> 0 .. 2]
  BY DEF TypeOK
<1>2. QED
  BY <1>1 DEF Handled

\* Nothing but a configuration decides mode and capacity.
LEMMA ModeStep == [Next]_vars => mode' = mode /\ capacity' = capacity
  BY DEF Next, vars, broker, fallback, process, Begin, Publishing, Send, SendFails,
         Degrade, Offer, ProbePing, ProbeCancelled, Mark, StartConsumer, ConsumerStops, ConsumeChannel,
         ConsumeTopic, Outage, Recover, Restart, Forgotten

\* Every step keeps the types and the bound on the channel.
LEMMA BusTypeStep == TypeOK /\ [Next]_vars => TypeOK'
<1> SUFFICES ASSUME TypeOK, [Next]_vars PROVE TypeOK'
  OBVIOUS
<1> USE BusAssumption DEF broker, fallback, process
<1>0. /\ Len(Feed) \in Nat
      /\ \A i \in 1 .. Len(Feed) : Feed[i] \in Events
  BY DEF Events, Sources
<1>1. ASSUME NEW e \in Events, Begin(e) PROVE TypeOK'
  BY <1>1 DEF Begin, TypeOK
<1>2. ASSUME NEW e \in Events, Send(e) PROVE TypeOK'
  BY <1>2 DEF Send, TypeOK
<1>3. ASSUME NEW e \in Events, SendFails(e) PROVE TypeOK'
  <2>1. topic' \in [Partitions -> Seq(Events)]
    <3>1. CASE UNCHANGED topic
      BY <3>1 DEF TypeOK
    <3>2. CASE \E k \in Partitions : topic' = [topic EXCEPT ![k] = Append(@, e)]
      BY <3>2 DEF TypeOK
    <3>3. QED
      BY <1>3, <3>1, <3>2 DEF SendFails
  <2>2. QED
    BY <1>3, <2>1 DEF SendFails, TypeOK
<1>4. ASSUME NEW e \in Events, Degrade(e) PROVE TypeOK'
  BY <1>4 DEF Degrade, TypeOK
<1>5. ASSUME NEW e \in Events, Offer(e) PROVE TypeOK'
  <2>1. chan' \in Seq(Events) /\ Len(chan') <= capacity
    <3>1. CASE Len(chan) < capacity /\ chan' = Append(chan, e)
      BY <3>1 DEF TypeOK
    <3>2. CASE UNCHANGED chan
      BY <3>2 DEF TypeOK
    <3>3. QED
      BY <1>5, <3>1, <3>2 DEF Offer
  <2>2. pub' \in [Events -> {"no", "primary", "failed", "offer", "acked", "refused"}]
    BY <1>5 DEF Offer, TypeOK
  <2>3. QED
    BY <1>5, <2>1, <2>2 DEF Offer, TypeOK
<1>6. ASSUME NEW e \in Events, ProbePing(e) PROVE TypeOK'
  BY <1>6 DEF ProbePing, TypeOK
<1>7. ASSUME NEW e \in Events, ProbeCancelled(e) PROVE TypeOK'
  BY <1>7 DEF ProbeCancelled, TypeOK
<1>8. CASE Mark
  BY <1>0, <1>8 DEF Mark, TypeOK
<1>16. CASE StartConsumer \/ ConsumerStops
  BY <1>16 DEF StartConsumer, ConsumerStops, TypeOK
<1>9. CASE ConsumeChannel
  <2>1. Head(chan) \in Events /\ Tail(chan) \in Seq(Events)
        /\ Len(Tail(chan)) <= capacity
    BY <1>9 DEF ConsumeChannel, TypeOK
  <2>2. handled' \in [Events -> 0 .. 2]
    BY <1>9, <2>1, HandledFacts DEF ConsumeChannel
  <2>3. QED
    BY <1>9, <2>1, <2>2 DEF ConsumeChannel, TypeOK
<1>10. ASSUME NEW k \in Partitions, ConsumeTopic(k) PROVE TypeOK'
  <2>1. topic[k][offset[k] + 1] \in Events
    BY <1>10 DEF ConsumeTopic, TypeOK
  <2>2. handled' \in [Events -> 0 .. 2]
    BY <1>10, <2>1, HandledFacts DEF ConsumeTopic
  <2>3. QED
    BY <1>10, <2>2 DEF ConsumeTopic, TypeOK
<1>11. CASE Outage
  <2>1. {up', primaryOK', started', crashed'} \subseteq BOOLEAN
    BY <1>11, Zenon DEF Outage, TypeOK
  <2>2. outages' \in 0 .. MaxOutages
    BY <1>11 DEF Outage, TypeOK
  <2>3. QED
    BY <1>11, <2>1, <2>2 DEF Outage, TypeOK
<1>12. CASE Recover
  BY <1>12 DEF Recover, TypeOK
<1>13. CASE Restart
  <2>1. PICK at \in 0 .. fed : Forgotten(at)
    BY <1>13 DEF Restart
  <2>2. faults' \subseteq {"send", "restart"}
    BY <2>1 DEF Forgotten, TypeOK
  <2>3. {up', primaryOK', started', crashed'} \subseteq BOOLEAN
    BY <2>1 DEF Forgotten, TypeOK
  <2>4. pub' \in [Events -> {"no", "primary", "failed", "offer", "acked", "refused"}]
    BY <2>1 DEF Forgotten, TypeOK, Returned
  <2>5. offset' \in [Partitions -> Nat]
    BY <1>13 DEF Restart
  <2>6. fed' \in 0 .. Len(Feed) /\ probe' \in [Events -> {"none", "running", "cut"}]
        /\ chan' \in Seq(Events) /\ Len(chan') <= capacity
    BY <1>0, <2>1 DEF Forgotten, TypeOK
  <2>7. QED
    BY <2>1, <2>2, <2>3, <2>4, <2>5, <2>6 DEF Forgotten, TypeOK
<1>14. CASE UNCHANGED vars
  BY <1>14 DEF vars, TypeOK
<1>15. QED
  BY <1>1, <1>2, <1>3, <1>4, <1>5, <1>6, <1>7, <1>8, <1>9, <1>10, <1>11,
     <1>12, <1>13, <1>14, <1>16 DEF Next, Publishing

\* What ends the calm ends it for good.
LEMMA CalmStep == ASSUME TypeOK, [Next]_vars, Calm' PROVE Calm
<1> USE BusAssumption DEF broker, fallback, process, Calm
<1>1. ASSUME NEW e \in Events, Begin(e) \/ Publishing(e) PROVE Calm
  BY <1>1 DEF Begin, Publishing, Send, SendFails, Degrade, Offer
<1>2. ASSUME NEW e \in Events, ProbePing(e) \/ ProbeCancelled(e) PROVE Calm
  BY <1>2 DEF ProbePing, ProbeCancelled
<1>3. CASE Mark \/ StartConsumer \/ ConsumerStops \/ ConsumeChannel
  BY <1>3 DEF Mark, StartConsumer, ConsumerStops, ConsumeChannel
<1>4. ASSUME NEW k \in Partitions, ConsumeTopic(k) PROVE Calm
  BY <1>4 DEF ConsumeTopic
<1>5. CASE Outage \/ Recover
  BY <1>5 DEF Outage, Recover, TypeOK
<1>6. CASE Restart
  BY <1>6 DEF Restart, Forgotten
<1>7. CASE UNCHANGED vars
  BY <1>7 DEF vars
<1>8. QED
  BY <1>1, <1>2, <1>3, <1>4, <1>5, <1>6, <1>7 DEF Next

\* Until a send fails the primary is used and nothing is offered to the
\* fallback channel.
LEMMA NoFailureStep ==
    ASSUME Calm, Calm', TypeOK, NoFailure, [Next]_vars PROVE NoFailure'
<1> USE BusAssumption DEF broker, fallback, process, Calm
<1>1. ASSUME NEW e \in Events, Begin(e) PROVE NoFailure'
  BY <1>1 DEF Begin, TypeOK, NoFailure
<1>2. ASSUME NEW e \in Events, Publishing(e) PROVE NoFailure'
  <2>1. CASE Send(e)
    <3>1. PICK k \in Partitions : topic' = [topic EXCEPT ![k] = Append(@, e)]
      BY <2>1 DEF Send
    <3>2. \A j \in Partitions : offset'[j] <= Len(topic'[j])
      BY <2>1, <3>1 DEF Send, TypeOK, NoFailure
    <3>3. QED
      BY <2>1, <3>2 DEF Send, TypeOK, NoFailure
  <2>2. CASE SendFails(e) \/ Degrade(e)
    BY <2>2 DEF SendFails, Degrade, NoFailure
  <2>3. CASE Offer(e)
    BY <2>3 DEF Offer, TypeOK, NoFailure
  <2>4. QED
    BY <1>2, <2>1, <2>2, <2>3 DEF Publishing
<1>3. ASSUME NEW e \in Events, ProbePing(e) \/ ProbeCancelled(e) PROVE NoFailure'
  BY <1>3 DEF ProbePing, ProbeCancelled, NoFailure
<1>4. CASE Mark \/ StartConsumer \/ ConsumerStops \/ ConsumeChannel
  BY <1>4 DEF Mark, StartConsumer, ConsumerStops, ConsumeChannel, NoFailure
<1>5. ASSUME NEW k \in Partitions, ConsumeTopic(k) PROVE NoFailure'
  BY <1>5 DEF ConsumeTopic, TypeOK, NoFailure
<1>6. CASE Outage \/ Recover
  BY <1>6 DEF Outage, Recover, NoFailure
<1>7. CASE Restart
  BY <1>7 DEF Restart, Forgotten, NoFailure, Returned, TypeOK
<1>8. CASE UNCHANGED vars
  BY <1>8 DEF vars, NoFailure
<1>9. QED
  BY <1>1, <1>2, <1>3, <1>4, <1>5, <1>6, <1>7, <1>8 DEF Next

\* An acknowledged event stays in the queue until it is handled.
LEMMA AckedStep ==
    ASSUME Calm, Calm', TypeOK, NoFailure, Kept, [Next]_vars PROVE Kept'
<1> USE BusAssumption DEF broker, fallback, process, Calm
<1> SUFFICES ASSUME NEW e \in Events, pub'[e] = "acked", handled'[e] = 0
             PROVE Waiting(e)'
  BY DEF Kept
<1>0. mode' = mode /\ mode \in {"channel", "kafka"}
  BY ModeStep DEF TypeOK
<1>1. ASSUME NEW f \in Events, Begin(f) PROVE Waiting(e)'
  BY <1>1 DEF Begin, TypeOK, Kept, Waiting
<1>2. ASSUME NEW f \in Events, Send(f) PROVE Waiting(e)'
  <2>1. mode = "kafka"
    BY <1>2, SMT DEF Send, TypeOK, NoFailure
  <2>2. PICK k \in Partitions : topic' = [topic EXCEPT ![k] = Append(@, f)]
    BY <1>2 DEF Send
  <2>3. /\ topic[k] \in Seq(Events) /\ topic'[k] = Append(topic[k], f)
        /\ offset'[k] = offset[k] /\ offset[k] \in Nat
    BY <1>2, <2>2 DEF Send, TypeOK
  <2>4. CASE e = f
    <3>1. offset[k] <= Len(topic[k])
      BY DEF NoFailure
    <3>2. /\ Len(topic[k]) + 1 \in offset'[k] + 1 .. Len(topic'[k])
          /\ topic'[k][Len(topic[k]) + 1] = e
      BY <2>3, <2>4, <3>1
    <3>3. QED
      BY <1>0, <2>1, <3>2 DEF Waiting
  <2>5. CASE e # f
    <3>1. Waiting(e)
      BY <1>2, <2>5 DEF Send, TypeOK, Kept
    <3>2. QED
      BY <1>0, <1>2, <2>2, <2>3, <3>1 DEF Send, Waiting, TypeOK
  <2>6. QED
    BY <2>4, <2>5
<1>3. ASSUME NEW f \in Events, SendFails(f) \/ Degrade(f) PROVE Waiting(e)'
  BY <1>3 DEF SendFails, Degrade, NoFailure
<1>4. ASSUME NEW f \in Events, Offer(f) PROVE Waiting(e)'
  <2>1. CASE Len(chan) < capacity /\ chan' = Append(chan, f)
    <3>1. mode = "channel"
      BY <1>0, <1>4 DEF Offer, NoFailure
    <3>2. chan \in Seq(Events) /\ chan'[Len(chan) + 1] = f
          /\ DOMAIN chan' = 1 .. Len(chan) + 1
      BY <2>1 DEF TypeOK
    <3>3. CASE e = f
      <4>1. Len(chan) + 1 \in DOMAIN chan'
        BY <3>2
      <4>2. QED
        BY <1>0, <3>1, <3>2, <3>3, <4>1 DEF Waiting
    <3>4. CASE e # f
      <4>1. PICK i \in DOMAIN chan : chan[i] = e
        BY <1>4, <3>1, <3>4 DEF Offer, TypeOK, Kept, Waiting
      <4>2. i \in DOMAIN chan' /\ chan'[i] = e
        BY <2>1, <4>1 DEF TypeOK
      <4>3. QED
        BY <1>0, <3>1, <4>2 DEF Waiting
    <3>5. QED
      BY <3>3, <3>4
  <2>2. CASE UNCHANGED chan /\ pub' = [pub EXCEPT ![f] = "refused"]
    <3>1. pub[e] = "acked" /\ handled[e] = 0
      BY <1>4, <2>2 DEF Offer, TypeOK
    <3>2. Waiting(e)
      BY <3>1 DEF Kept
    <3>3. QED
      BY <1>0, <1>4, <2>2, <3>2 DEF Offer, Waiting
  <2>3. QED
    BY <1>4, <2>1, <2>2 DEF Offer
<1>5. ASSUME NEW f \in Events, ProbePing(f) \/ ProbeCancelled(f) PROVE Waiting(e)'
  BY <1>5 DEF ProbePing, ProbeCancelled, NoFailure
<1>6. CASE Mark \/ StartConsumer \/ ConsumerStops
  BY <1>6 DEF Mark, StartConsumer, ConsumerStops, Kept, Waiting
<1>7. CASE ConsumeChannel
  <2>1. Head(chan) \in Events /\ chan \in Seq(Events) /\ chan # <<>>
    BY <1>7 DEF ConsumeChannel, TypeOK
  <2>2. e # Head(chan) /\ handled[e] = 0
    BY <1>7, <2>1, HandledFacts DEF ConsumeChannel
  <2>3. PICK i \in DOMAIN chan : chan[i] = e
    BY <1>7, <2>2 DEF ConsumeChannel, Kept, Waiting
  <2>4. i - 1 \in DOMAIN Tail(chan) /\ Tail(chan)[i - 1] = e
    BY <2>1, <2>2, <2>3
  <2>5. QED
    BY <1>0, <1>7, <2>4 DEF ConsumeChannel, Waiting
<1>8. ASSUME NEW k \in Partitions, ConsumeTopic(k) PROVE Waiting(e)'
  BY <1>8 DEF ConsumeTopic, Handled, TypeOK, Kept, Waiting
<1>9. CASE Outage \/ Recover
  BY <1>9 DEF Outage, Recover, Kept, Waiting
<1>10. CASE Restart
  <2>1. mode = "kafka"
    BY <1>0, <1>10 DEF Restart, Forgotten
  <2>2. pub[e] = "acked" /\ handled[e] = 0 /\ topic' = topic
    BY <1>10 DEF Restart, Forgotten, Returned
  <2>3. \A k \in Partitions : offset'[k] \in Nat /\ offset'[k] <= offset[k]
    BY <1>10 DEF Restart, TypeOK
  <2>4. PICK k \in Partitions :
           \E i \in offset[k] + 1 .. Len(topic[k]) : topic[k][i] = e
    BY <2>1, <2>2 DEF Kept, Waiting
  <2>5. PICK i \in offset[k] + 1 .. Len(topic[k]) : topic[k][i] = e
    BY <2>4
  <2>6. i \in offset'[k] + 1 .. Len(topic[k])
    BY <2>3, <2>5 DEF TypeOK
  <2>7. QED
    BY <1>0, <2>1, <2>2, <2>5, <2>6 DEF Waiting
<1>11. CASE UNCHANGED vars
  BY <1>11 DEF vars, Kept, Waiting
<1>12. QED
  BY <1>1, <1>2, <1>3, <1>4, <1>5, <1>6, <1>7, <1>8, <1>9, <1>10, <1>11
     DEF Next, Publishing

\* Type correctness of the event bus, whatever fails.
THEOREM BusTypes == Spec => []TypeOK
  BY BusInit, BusTypeStep, PTL DEF Spec

\* Until a send to Kafka fails, every event the bus acknowledged is handled or
\* still in the queue that the consumer reads, or would read if it were started,
\* in Kafka mode also after outages and a restart.
THEOREM AckedEventsKept == Spec => []AckedKept
<1>1. Init => KeptInv
  BY BusInit DEF Init, KeptInv, NoFailure, Kept
<1>2. KeptInv /\ [Next]_vars => KeptInv'
  <2> SUFFICES ASSUME KeptInv, [Next]_vars PROVE KeptInv'
    OBVIOUS
  <2>1. TypeOK'
    BY BusTypeStep DEF KeptInv
  <2>2. ASSUME Calm' PROVE NoFailure' /\ Kept'
    <3>1. Calm
      BY <2>2, CalmStep DEF KeptInv
    <3>2. QED
      BY <2>2, <3>1, NoFailureStep, AckedStep DEF KeptInv
  <2>3. QED
    BY <2>1, <2>2 DEF KeptInv
<1>3. KeptInv => AckedKept
  BY DEF KeptInv, AckedKept
<1>4. QED
  BY <1>1, <1>2, <1>3, PTL DEF Spec

-----------------------------------------------------------------------------
(* The refinement: each step of the bus is one of Delivery's, or none.       *)

\* What a partition or the channel still holds.
Rest(s, o) == [i \in 1 .. Len(s) - o |-> s[o + i]]

\* A message appended to a log is the last of those that are not consumed.
LEMMA RestAppend ==
    ASSUME NEW S, NEW s \in Seq(S), NEW e \in S, NEW o \in 0 .. Len(s)
    PROVE  Rest(Append(s, e), o) = Append(Rest(s, o), e)
<1>1. /\ Rest(s, o) \in Seq(S)
      /\ Len(Rest(s, o)) = Len(s) - o
      /\ \A i \in 1 .. Len(s) - o : Rest(s, o)[i] = s[o + i]
  BY DEF Rest
<1>2. /\ Rest(Append(s, e), o) \in Seq(S)
      /\ Len(Rest(Append(s, e), o)) = Len(s) + 1 - o
      /\ \A i \in 1 .. Len(s) + 1 - o : Rest(Append(s, e), o)[i] = Append(s, e)[o + i]
  BY DEF Rest
<1>3. /\ Append(Rest(s, o), e) \in Seq(S)
      /\ Len(Append(Rest(s, o), e)) = Len(s) + 1 - o
  BY <1>1
<1>4. \A i \in 1 .. Len(s) + 1 - o :
         Rest(Append(s, e), o)[i] = Append(Rest(s, o), e)[i]
  <2> SUFFICES ASSUME NEW i \in 1 .. Len(s) + 1 - o
               PROVE  Rest(Append(s, e), o)[i] = Append(Rest(s, o), e)[i]
    OBVIOUS
  <2>1. CASE i = Len(s) + 1 - o
    <3>1. Append(s, e)[o + i] = e
      BY <2>1
    <3>2. Append(Rest(s, o), e)[i] = e
      BY <1>1, <2>1
    <3>3. QED
      BY <1>2, <3>1, <3>2
  <2>2. CASE i \in 1 .. Len(s) - o
    <3>1. Append(s, e)[o + i] = s[o + i]
      BY <2>2
    <3>2. Append(Rest(s, o), e)[i] = s[o + i]
      BY <1>1, <2>2
    <3>3. QED
      BY <1>2, <3>1, <3>2
  <2>3. i = Len(s) + 1 - o \/ i \in 1 .. Len(s) - o
    <3>1. Len(s) \in Nat
      OBVIOUS
    <3> DEFINE n == Len(s)
    <3>2. n \in Nat /\ o \in 0 .. n /\ i \in 1 .. n + 1 - o
      BY <3>1
    <3> HIDE DEF n
    <3>3. i = n + 1 - o \/ i \in 1 .. n - o
      BY <3>2
    <3>4. QED
      BY <3>3 DEF n
  <2>4. QED
    BY <2>1, <2>2, <2>3, Zenon
<1>5. QED
  <2>1. /\ Len(Rest(Append(s, e), o)) = Len(Append(Rest(s, o), e))
        /\ \A i \in 1 .. Len(Rest(Append(s, e), o)) :
              Rest(Append(s, e), o)[i] = Append(Rest(s, o), e)[i]
    BY <1>2, <1>3, <1>4
  <2>2. QED
    BY <1>2, <1>3, <2>1, SeqEqual, Zenon

\* Consuming takes the first of them.
LEMMA RestTail ==
    ASSUME NEW S, NEW s \in Seq(S), NEW o \in Nat, o < Len(s)
    PROVE  /\ Rest(s, o) # <<>>
           /\ Head(Rest(s, o)) = s[o + 1]
           /\ Tail(Rest(s, o)) = Rest(s, o + 1)
<1>1. /\ Rest(s, o) \in Seq(S)
      /\ Len(Rest(s, o)) = Len(s) - o
      /\ \A i \in 1 .. Len(s) - o : Rest(s, o)[i] = s[o + i]
  BY DEF Rest
<1>2. /\ Rest(s, o + 1) \in Seq(S)
      /\ Len(Rest(s, o + 1)) = Len(s) - (o + 1)
      /\ \A i \in 1 .. Len(s) - (o + 1) : Rest(s, o + 1)[i] = s[o + 1 + i]
  BY DEF Rest
<1>3. Rest(s, o) # <<>> /\ Head(Rest(s, o)) = s[o + 1]
  BY <1>1
<1>4. /\ Tail(Rest(s, o)) \in Seq(S)
      /\ Len(Tail(Rest(s, o))) = Len(s) - (o + 1)
      /\ \A i \in 1 .. Len(s) - (o + 1) : Tail(Rest(s, o))[i] = s[o + 1 + i]
  BY <1>1
<1>5. Tail(Rest(s, o)) = Rest(s, o + 1)
  <2>1. /\ Len(Tail(Rest(s, o))) = Len(Rest(s, o + 1))
        /\ \A i \in 1 .. Len(Tail(Rest(s, o))) : Tail(Rest(s, o))[i] = Rest(s, o + 1)[i]
    BY <1>2, <1>4
  <2>2. QED
    BY <1>2, <1>4, <2>1, SeqEqual, Zenon
<1>6. QED
  BY <1>3, <1>5

\* What has been marked as consumed was handled.
Consumed ==
    mode = "kafka" =>
        \A k \in Partitions : \A i \in 1 .. offset[k] : handled[topic[k][i]] > 0

DeliveryInv == TypeOK /\ (Calm => NoFailure /\ Consumed)

\* An event that was handled stays handled.
LEMMA HandledStays ==
    ASSUME TypeOK, [Next]_vars, NEW e \in Events, handled[e] > 0
    PROVE  handled'[e] > 0
<1> USE DEF broker, fallback, process
<1>1. ASSUME NEW h \in Events, handled' = Handled(h) PROVE handled'[e] > 0
  <2>1. handled \in [Events -> 0 .. 2]
    BY DEF TypeOK
  <2>2. QED
    BY <1>1, <2>1 DEF Handled
<1>2. CASE ConsumeChannel
  <2>1. Head(chan) \in Events
    BY <1>2 DEF ConsumeChannel, TypeOK
  <2>2. QED
    BY <1>1, <1>2, <2>1 DEF ConsumeChannel
<1>3. ASSUME NEW k \in Partitions, ConsumeTopic(k) PROVE handled'[e] > 0
  <2>1. topic[k][offset[k] + 1] \in Events
    BY <1>3 DEF ConsumeTopic, TypeOK
  <2>2. QED
    BY <1>1, <1>3, <2>1 DEF ConsumeTopic
<1>4. ASSUME handled' = handled PROVE handled'[e] > 0
  BY <1>4
<1>5. QED
  BY <1>2, <1>3, <1>4 DEF Next, vars, Begin, Publishing, Send, SendFails, Degrade,
     Offer, ProbePing, ProbeCancelled, Mark, StartConsumer, ConsumerStops, Outage, Recover,
     Restart, Forgotten

\* Appending disturbs nothing that is consumed, consuming handles, and a
\* restart only moves offsets back.
LEMMA ConsumedStep ==
    ASSUME Calm, Calm', TypeOK, NoFailure, Consumed, [Next]_vars PROVE Consumed'
<1> USE DEF broker, fallback, process
<1> SUFFICES ASSUME mode' = "kafka", NEW k \in Partitions, NEW i \in 1 .. offset'[k]
             PROVE  handled'[topic'[k][i]] > 0
  BY DEF Consumed
<1>0. /\ mode = "kafka" /\ offset[k] \in Nat /\ topic[k] \in Seq(Events)
      /\ offset[k] <= Len(topic[k])
  BY ModeStep DEF TypeOK, NoFailure
<1>1. ASSUME i <= offset[k], topic'[k][i] = topic[k][i]
      PROVE  handled'[topic'[k][i]] > 0
  <2>1. i \in 1 .. offset[k] /\ i \in 1 .. Len(topic[k])
    BY <1>0, <1>1
  <2>2. topic[k][i] \in Events /\ handled[topic[k][i]] > 0
    BY <1>0, <2>1 DEF Consumed
  <2>3. QED
    BY <1>1, <2>2, HandledStays
<1>2. ASSUME offset' = offset, topic' = topic PROVE handled'[topic'[k][i]] > 0
  BY <1>0, <1>1, <1>2
<1>3. ASSUME NEW e \in Events, Send(e) PROVE handled'[topic'[k][i]] > 0
  <2>1. PICK j \in Partitions : topic' = [topic EXCEPT ![j] = Append(@, e)]
    BY <1>3 DEF Send
  <2>2. offset' = offset
    BY <1>3 DEF Send
  <2>3. i \in 1 .. Len(topic[k])
    BY <1>0, <2>2
  <2>4. topic'[k][i] = topic[k][i]
    BY <1>0, <2>1, <2>3 DEF TypeOK
  <2>5. QED
    BY <1>0, <1>1, <2>2, <2>4
<1>4. ASSUME NEW j \in Partitions, ConsumeTopic(j) PROVE handled'[topic'[k][i]] > 0
  <2>1. topic' = topic /\ offset' = [offset EXCEPT ![j] = @ + 1]
    BY <1>4 DEF ConsumeTopic
  <2>2. CASE i <= offset[k]
    BY <1>1, <2>1, <2>2
  <2>3. CASE ~ i <= offset[k]
    <3>1. j = k /\ i = offset[k] + 1
      BY <1>0, <2>1, <2>3 DEF TypeOK
    <3>2. /\ topic[k][i] \in Events
          /\ handled' = Handled(topic[k][i])
      BY <1>0, <1>4, <3>1 DEF ConsumeTopic
    <3>3. handled'[topic[k][i]] # 0 /\ handled'[topic[k][i]] \in 0 .. 2
      BY <3>2, HandledFacts
    <3>4. QED
      BY <2>1, <3>3
  <2>4. QED
    BY <2>2, <2>3
<1>5. CASE Restart
  <2>1. topic' = topic /\ offset'[k] \in Nat /\ offset'[k] <= offset[k]
    BY <1>5 DEF Restart, Forgotten, TypeOK
  <2>2. QED
    BY <1>0, <1>1, <2>1
<1>6. ASSUME NEW e \in Events, SendFails(e) PROVE FALSE
  BY <1>6 DEF SendFails, Calm
<1>7. ASSUME NEW e \in Events, Begin(e) \/ Degrade(e) \/ Offer(e)
                               \/ ProbePing(e) \/ ProbeCancelled(e)
      PROVE  offset' = offset /\ topic' = topic
  BY <1>7 DEF Begin, Degrade, Offer, ProbePing, ProbeCancelled
<1>8. ASSUME Mark \/ StartConsumer \/ ConsumerStops \/ ConsumeChannel \/ Outage \/ Recover
               \/ UNCHANGED vars
      PROVE  offset' = offset /\ topic' = topic
  BY <1>8 DEF Mark, StartConsumer, ConsumerStops, ConsumeChannel, Outage, Recover, vars
<1>9. QED
  BY <1>2, <1>3, <1>4, <1>5, <1>6, <1>7, <1>8 DEF Next, Publishing

\* A partition's lane, and the channel's.
LEMMA Lanes ==
    /\ ChannelLane \in Partitions
    /\ mode = "kafka" => \A k \in Partitions : Lane(k) = Rest(topic[k], offset[k])
    /\ mode = "channel" =>
          Lane(ChannelLane) = chan /\ \A k \in Partitions \ {ChannelLane} : Lane(k) = <<>>
  BY BusAssumption DEF ChannelLane, Lane, Unread, Rest

\* The lanes after a step, from the channel or from the topic.
LEMMA LanesNext ==
    /\ mode' = "kafka" => \A k \in Partitions : Lane(k)' = Rest(topic'[k], offset'[k])
    /\ mode' = "channel" =>
          /\ Lane(ChannelLane)' = chan'
          /\ \A k \in Partitions \ {ChannelLane} : Lane(k)' = <<>>
  BY DEF ChannelLane, Lane, Unread, Rest

\* The abstract state.
lanes     == [k \in Partitions |-> Lane(k)]
accepted  == {e \in Events : pub[e] = "acked"}
delivered == {e \in Events : handled[e] > 0}

\* Nothing the abstract bus knows of happens.
LEMMA Quiet ==
    ASSUME TypeOK, [Next]_vars, Calm, Calm',
           topic' = topic, offset' = offset, handled' = handled,
           mode = "channel" => chan' = chan,
           accepted' = accepted
    PROVE  UNCHANGED D!vars
<1>1. mode' = mode /\ mode \in {"channel", "kafka"}
  BY ModeStep DEF TypeOK
<1>2. \A k \in Partitions : Lane(k)' = Lane(k)
  BY <1>1, Lanes, LanesNext
<1>3. lanes' = lanes
  BY <1>2 DEF lanes
<1>4. delivered' = delivered
  BY DEF delivered
<1>5. Calm' = Calm
  OBVIOUS
<1>6. QED
  BY <1>3, <1>4, <1>5 DEF D!vars, lanes, accepted, delivered

\* An acknowledgement puts the event at the end of a lane.
LEMMA Accepts ==
    ASSUME TypeOK, NoFailure, [Next]_vars, Calm, Calm', NEW e \in Events,
           Send(e) \/ (Offer(e) /\ pub'[e] = "acked")
    PROVE  D!Next
<1>1. mode' = mode /\ mode \in {"channel", "kafka"}
  BY ModeStep DEF TypeOK
<1>2. Calm' = Calm
  OBVIOUS
<1>3. handled' = handled /\ pub' = [pub EXCEPT ![e] = "acked"]
  BY DEF Send, Offer, TypeOK
<1>4. accepted' = accepted \cup {e} /\ delivered' = delivered
  BY <1>3 DEF accepted, delivered, TypeOK
<1>5. ASSUME NEW k \in Partitions,
             Lane(k)' = Append(Lane(k), e),
             \A j \in Partitions \ {k} : Lane(j)' = Lane(j)
      PROVE  D!Next
  <2>1. lanes' = [lanes EXCEPT ![k] = Append(@, e)]
    BY <1>5 DEF lanes
  <2>2. D!Accept(k, e)
    BY <1>2, <1>4, <2>1 DEF D!Accept, lanes, accepted, delivered
  <2>3. QED
    BY <2>2 DEF D!Next
<1>6. CASE Send(e)
  <2>1. mode = "kafka" /\ offset' = offset
    BY <1>1, <1>6 DEF Send, NoFailure, broker
  <2>2. PICK k \in Partitions : topic' = [topic EXCEPT ![k] = Append(@, e)]
    BY <1>6 DEF Send
  <2>3. /\ topic[k] \in Seq(Events) /\ offset[k] \in 0 .. Len(topic[k])
        /\ topic'[k] = Append(topic[k], e)
        /\ \A j \in Partitions \ {k} : topic'[j] = topic[j]
    BY <2>2 DEF TypeOK, NoFailure
  <2>4. Rest(topic'[k], offset[k]) = Append(Rest(topic[k], offset[k]), e)
    BY <2>3, RestAppend
  <2>5. Lane(k)' = Append(Lane(k), e)
    BY <1>1, <2>1, <2>4, Lanes, LanesNext
  <2>6. \A j \in Partitions \ {k} : Lane(j)' = Lane(j)
    BY <1>1, <2>1, <2>3, Lanes, LanesNext
  <2>7. QED
    BY <1>5, <2>5, <2>6
<1>7. CASE Offer(e) /\ pub'[e] = "acked"
  <2>1. mode = "channel"
    BY <1>1, <1>7 DEF Offer, NoFailure
  <2>2. chan' = Append(chan, e)
    BY <1>7 DEF Offer, TypeOK
  <2>3. QED
    BY <1>1, <1>5, <2>1, <2>2, Lanes, LanesNext
<1>8. QED
  BY <1>6, <1>7

\* Handling takes the first event of a lane.
LEMMA Delivers ==
    ASSUME TypeOK, NoFailure, [Next]_vars, Calm, Calm',
           ConsumeChannel \/ \E k \in Partitions : ConsumeTopic(k)
    PROVE  D!Next
<1>1. mode' = mode /\ mode \in {"channel", "kafka"}
  BY ModeStep DEF TypeOK
<1>2. Calm' = Calm
  OBVIOUS
<1>3. accepted' = accepted
  BY DEF ConsumeChannel, ConsumeTopic, accepted
<1>4. ASSUME NEW k \in Partitions, NEW h \in Events, handled' = Handled(h),
             Lane(k) # <<>>, h = Head(Lane(k)), Lane(k)' = Tail(Lane(k)),
             \A j \in Partitions \ {k} : Lane(j)' = Lane(j)
      PROVE  D!Next
  <2>1. lanes' = [lanes EXCEPT ![k] = Tail(@)] /\ lanes[k] # <<>> /\ h = Head(lanes[k])
    BY <1>4 DEF lanes
  <2>2. delivered' = delivered \cup {h}
    <3>1. handled \in [Events -> 0 .. 2]
      BY DEF TypeOK
    <3>2. handled'[h] > 0 /\ \A e \in Events \ {h} : handled'[e] = handled[e]
      BY <1>4, <3>1 DEF Handled
    <3>3. QED
      BY <3>2 DEF delivered
  <2>3. D!Deliver(k)
    BY <1>2, <1>3, <2>1, <2>2 DEF D!Deliver, lanes, accepted, delivered
  <2>4. QED
    BY <2>3 DEF D!Next
<1>5. CASE ConsumeChannel
  <2>1. /\ mode = "channel" /\ chan # <<>> /\ Head(chan) \in Events
        /\ chan' = Tail(chan) /\ handled' = Handled(Head(chan))
    BY <1>5 DEF ConsumeChannel, TypeOK
  <2>2. QED
    BY <1>1, <1>4, <2>1, Lanes, LanesNext
<1>6. ASSUME NEW k \in Partitions, ConsumeTopic(k) PROVE D!Next
  <2>1. /\ mode = "kafka" /\ topic' = topic
        /\ topic[k] \in Seq(Events) /\ offset[k] \in Nat /\ offset[k] < Len(topic[k])
        /\ topic[k][offset[k] + 1] \in Events
        /\ handled' = Handled(topic[k][offset[k] + 1])
        /\ offset'[k] = offset[k] + 1
        /\ \A j \in Partitions \ {k} : offset'[j] = offset[j]
    BY <1>6 DEF ConsumeTopic, TypeOK
  <2>2. /\ Rest(topic[k], offset[k]) # <<>>
        /\ Head(Rest(topic[k], offset[k])) = topic[k][offset[k] + 1]
        /\ Tail(Rest(topic[k], offset[k])) = Rest(topic[k], offset[k] + 1)
    BY <2>1, RestTail
  <2>3. QED
    BY <1>1, <1>4, <2>1, <2>2, Lanes, LanesNext
<1>7. QED
  BY <1>5, <1>6

\* A restart with a Kafka topic hands out again what was handled before.
LEMMA Repeats ==
    ASSUME TypeOK, NoFailure, Consumed, [Next]_vars, Calm, Calm', Restart
    PROVE  D!Next
<1>1. /\ mode' = "kafka" /\ mode = "kafka" /\ topic' = topic /\ handled' = handled
      /\ \A k \in Partitions : offset'[k] \in Nat /\ offset'[k] <= offset[k]
  BY DEF Restart, Forgotten, TypeOK, Calm, process
<1>2. Calm' = Calm
  OBVIOUS
<1>3. accepted' \subseteq accepted /\ delivered' = delivered
  BY <1>1 DEF Restart, Forgotten, Returned, accepted, delivered
<1>4. ASSUME NEW k \in Partitions
      PROVE  D!Again(lanes[k], lanes'[k], delivered)
  <2> DEFINE s == topic[k]
             o == offset[k]
             n == offset[k] - offset'[k]
  <2>1. /\ s \in Seq(Events) /\ o \in Nat /\ offset'[k] \in Nat /\ n \in Nat
        /\ offset'[k] = o - n /\ o <= Len(s) /\ Len(s) \in Nat /\ n <= o
    BY <1>1 DEF TypeOK, NoFailure
  <2>2. /\ lanes[k] = Rest(s, o) /\ lanes'[k] = Rest(s, o - n)
    BY <1>1, <2>1, Lanes, LanesNext DEF lanes
  <2>3. \A i \in 1 .. o : s[i] \in delivered
    BY <1>1, <2>1 DEF Consumed, delivered
  <2> HIDE DEF s, o, n
  <2>4. /\ Len(Rest(s, o)) = Len(s) - o
        /\ Len(Rest(s, o - n)) = Len(s) - o + n
    BY <2>1 DEF Rest
  <2>5. \A i \in 1 .. Len(s) - o : Rest(s, o - n)[n + i] = Rest(s, o)[i]
    BY <2>1 DEF Rest
  <2>6. \A i \in 1 .. n : Rest(s, o - n)[i] \in delivered
    BY <2>1, <2>3 DEF Rest
  <2>7. n \in 0 .. Len(Rest(s, o - n))
    BY <2>1, <2>4
  <2>8. QED
    BY <2>1, <2>2, <2>4, <2>5, <2>6, <2>7 DEF D!Again
<1>5. D!Repeat
  BY <1>2, <1>3, <1>4 DEF D!Repeat, lanes, accepted, delivered
<1>6. QED
  BY <1>5 DEF D!Next

\* Every step of the bus is a step of the abstract one.
LEMMA DeliveryStep == DeliveryInv /\ [Next]_vars => [D!Next]_(D!vars)
<1> SUFFICES ASSUME DeliveryInv, [Next]_vars PROVE D!Next \/ UNCHANGED D!vars
  OBVIOUS
<1> USE DEF broker, fallback, process
<1>0. TypeOK
  BY DEF DeliveryInv
<1>1. CASE ~Calm'
  <2>1. delivered \subseteq delivered'
    BY <1>0, HandledStays DEF delivered
  <2>2. D!Fault
    BY <1>1, <2>1 DEF D!Fault, delivered
  <2>3. QED
    BY <2>2 DEF D!Next
<1>2. CASE Calm'
  <2>1. Calm /\ NoFailure /\ Consumed
    BY <1>0, <1>2, CalmStep DEF DeliveryInv
  <2>2. ASSUME NEW e \in Events, Begin(e) PROVE UNCHANGED D!vars
    <3>1. /\ topic' = topic /\ offset' = offset /\ handled' = handled /\ chan' = chan
          /\ accepted' = accepted
      BY <1>0, <2>2 DEF Begin, accepted, TypeOK
    <3>2. QED
      BY <1>0, <1>2, <2>1, <3>1, Quiet
  <2>3. ASSUME NEW e \in Events, SendFails(e) \/ Degrade(e) \/ ProbePing(e)
                                   \/ ProbeCancelled(e)
        PROVE FALSE
    BY <1>2, <2>1, <2>3 DEF SendFails, Degrade, ProbePing, ProbeCancelled, NoFailure, Calm
  <2>4. ASSUME NEW e \in Events, Offer(e), pub'[e] # "acked"
        PROVE  UNCHANGED D!vars
    <3>1. /\ topic' = topic /\ offset' = offset /\ handled' = handled /\ chan' = chan
          /\ accepted' = accepted
      BY <1>0, <2>4 DEF Offer, accepted, TypeOK
    <3>2. QED
      BY <1>0, <1>2, <2>1, <3>1, Quiet
  <2>5. ASSUME NEW e \in Events, Send(e) \/ (Offer(e) /\ pub'[e] = "acked")
        PROVE  D!Next
    BY <1>0, <1>2, <2>1, <2>5, Accepts
  <2>6. ASSUME ConsumeChannel \/ \E k \in Partitions : ConsumeTopic(k) PROVE D!Next
    BY <1>0, <1>2, <2>1, <2>6, Delivers
  <2>7. ASSUME Restart PROVE D!Next
    BY <1>0, <1>2, <2>1, <2>7, Repeats
  <2>8. ASSUME Mark \/ StartConsumer \/ ConsumerStops \/ Outage \/ Recover \/ UNCHANGED vars
        PROVE  UNCHANGED D!vars
    <3>1. /\ topic' = topic /\ offset' = offset /\ handled' = handled /\ chan' = chan
          /\ accepted' = accepted
      BY <2>8 DEF Mark, StartConsumer, ConsumerStops, Outage, Recover, vars, accepted
    <3>2. QED
      BY <1>0, <1>2, <2>1, <3>1, Quiet
  <2>9. QED
    BY <2>2, <2>3, <2>4, <2>5, <2>6, <2>7, <2>8 DEF Next, Publishing
<1>3. QED
  BY <1>1, <1>2

\* Both implementations of the event bus, channel and Kafka, deliver what the
\* abstract bus promises, for any events, partitions, capacity, faults and
\* restart: lanes are kept in order, nothing acknowledged is outside of them,
\* nothing leaves one but to the consumer, and what comes again has come
\* before, until the first fault.
THEOREM BusImplementsDelivery == Spec => ImplementsDelivery
<1>1. Init => DeliveryInv
  BY BusInit DEF Init, DeliveryInv, NoFailure, Consumed
<1>2. DeliveryInv /\ [Next]_vars => DeliveryInv'
  <2> SUFFICES ASSUME DeliveryInv, [Next]_vars PROVE DeliveryInv'
    OBVIOUS
  <2>1. TypeOK'
    BY BusTypeStep DEF DeliveryInv
  <2>2. ASSUME Calm' PROVE NoFailure' /\ Consumed'
    <3>1. Calm
      BY <2>2, CalmStep DEF DeliveryInv
    <3>2. QED
      BY <2>2, <3>1, NoFailureStep, ConsumedStep DEF DeliveryInv
  <2>3. QED
    BY <2>1, <2>2 DEF DeliveryInv
<1>3. Init => D!Init
  <2> SUFFICES ASSUME Init PROVE D!Init
    OBVIOUS
  <2>1. \A k \in Partitions : Lane(k) = <<>>
    BY DEF Init, Lane, Unread
  <2>2. Calm = TRUE
    BY DEF Init, Calm
  <2>3. accepted = {} /\ delivered = {}
    BY DEF Init, accepted, delivered
  <2>4. QED
    BY <2>1, <2>2, <2>3 DEF D!Init, accepted, delivered
<1>4. QED
  BY <1>1, <1>2, <1>3, DeliveryStep, PTL DEF Spec, ImplementsDelivery, D!Spec

-----------------------------------------------------------------------------
(* The order of the channel.                                                *)

\* f has been handed to IncrementalSync, as h counts, or is among the first n
\* of the channel s.
PassedOn(h, s, f, n) == h[f] > 0 \/ \E i \in 1 .. n : s[i] = f

\* Until a restart the channel is all there is between an acknowledgement and
\* the consumer: it holds acknowledged events only, and before each of them
\* what was acknowledged when its publication began.
ChannelOrder ==
    mode = "channel" /\ ~crashed =>
      /\ \A e \in Events : pub[e] \notin {"primary", "failed"}
      /\ \A i \in 1 .. Len(chan) : pub[chan[i]] = "acked"
      /\ \A e \in Events : \A f \in before[e] : pub[f] = "acked"
      /\ \A f \in Events : pub[f] = "acked" => PassedOn(handled, chan, f, Len(chan))
      /\ \A j \in 1 .. Len(chan) :
            \A f \in before[chan[j]] : PassedOn(handled, chan, f, j - 1)

\* A publication that begins notes what is acknowledged, and nothing of it is
\* in the channel yet.
LEMMA BeginOrdered ==
    ASSUME TypeOK, ChannelOrder, NEW e \in Events, Begin(e)
    PROVE  ChannelOrder'
<1> SUFFICES ASSUME mode = "channel", ~crashed PROVE ChannelOrder'
  BY DEF Begin, process, ChannelOrder
<1>1. /\ chan' = chan /\ handled' = handled /\ pub[e] = "no"
      /\ pub' = [pub EXCEPT ![e] = "offer"]
      /\ before' = [before EXCEPT ![e] = {f \in Events : pub[f] = "acked"}]
      /\ chan \in Seq(Events)
      /\ pub \in [Events -> {"no", "primary", "failed", "offer", "acked", "refused"}]
      /\ before \in [Events -> SUBSET Events]
  BY DEF Begin, TypeOK
<1>2. \A f \in Events : pub[f] = "acked" <=> pub'[f] = "acked"
  BY <1>1
<1>3. \A i \in 1 .. Len(chan) : chan[i] \in Events /\ pub[chan[i]] = "acked" /\ chan[i] # e
  BY <1>1 DEF ChannelOrder
<1>4. \A f, n : PassedOn(handled', chan', f, n) <=> PassedOn(handled, chan, f, n)
  BY <1>1 DEF PassedOn
<1>5. \A g \in Events : \A f \in before'[g] : f \in Events /\ pub'[f] = "acked"
  BY <1>1, <1>2 DEF ChannelOrder
<1>6. \A g \in Events : pub'[g] \notin {"primary", "failed"}
  BY <1>1 DEF ChannelOrder
<1>7. \A j \in 1 .. Len(chan) : before'[chan[j]] = before[chan[j]]
  BY <1>1, <1>3
<1>8. QED
  BY <1>1, <1>2, <1>3, <1>4, <1>5, <1>6, <1>7 DEF ChannelOrder

\* An offered event goes to the end of the channel, behind all it came after.
LEMMA OfferOrdered ==
    ASSUME TypeOK, ChannelOrder, NEW e \in Events, Offer(e)
    PROVE  ChannelOrder'
<1> SUFFICES ASSUME mode = "channel", ~crashed PROVE ChannelOrder'
  BY DEF Offer, process, ChannelOrder
<1> DEFINE n == Len(chan)
<1>1. /\ handled' = handled /\ before' = before /\ pub[e] = "offer"
      /\ chan \in Seq(Events)
      /\ pub \in [Events -> {"no", "primary", "failed", "offer", "acked", "refused"}]
      /\ before \in [Events -> SUBSET Events] /\ n \in Nat
  BY DEF Offer, TypeOK
<1>2. CASE pub' = [pub EXCEPT ![e] = "refused"] /\ UNCHANGED chan
  <2>1. \A f \in Events : pub[f] = "acked" <=> pub'[f] = "acked"
    BY <1>1, <1>2
  <2>2. \A f, k : PassedOn(handled', chan', f, k) <=> PassedOn(handled, chan, f, k)
    BY <1>1, <1>2 DEF PassedOn
  <2>3. \A g \in Events : pub'[g] \notin {"primary", "failed"}
    BY <1>1, <1>2 DEF ChannelOrder
  <2>4. \A i \in 1 .. n : chan[i] \in Events
    BY <1>1
  <2>5. QED
    BY <1>1, <1>2, <2>1, <2>2, <2>3, <2>4 DEF ChannelOrder
<1>3. CASE chan' = Append(chan, e) /\ pub' = [pub EXCEPT ![e] = "acked"]
  <2>1. /\ Len(chan') = n + 1 /\ chan'[n + 1] = e
        /\ \A i \in 1 .. n : chan'[i] = chan[i] /\ chan[i] \in Events
    BY <1>1, <1>3
  <2>2. pub'[e] = "acked" /\ \A f \in Events : pub[f] = "acked" => pub'[f] = "acked"
    BY <1>1, <1>3
  <2>3. ASSUME NEW f, NEW k \in 0 .. n, PassedOn(handled, chan, f, k)
        PROVE  PassedOn(handled', chan', f, k)
    BY <1>1, <2>1, <2>3 DEF PassedOn
  <2>4. ASSUME NEW f, PassedOn(handled, chan, f, n)
        PROVE  PassedOn(handled', chan', f, n + 1)
    BY <1>1, <2>1, <2>4 DEF PassedOn
  <2>5. PassedOn(handled', chan', e, n + 1)
    BY <1>1, <2>1 DEF PassedOn
  <2>6. \A g \in Events : pub'[g] \notin {"primary", "failed"}
    BY <1>1, <1>3 DEF ChannelOrder
  <2>7. \A i \in 1 .. n + 1 : pub'[chan'[i]] = "acked"
    BY <1>1, <2>1, <2>2 DEF ChannelOrder
  <2>8. \A g \in Events : \A f \in before[g] : f \in Events /\ pub[f] = "acked" /\ pub'[f] = "acked"
    BY <1>1, <2>2 DEF ChannelOrder
  <2>9. \A f \in Events : pub'[f] = "acked" => PassedOn(handled', chan', f, Len(chan'))
    <3> SUFFICES ASSUME NEW f \in Events, pub'[f] = "acked"
                 PROVE  PassedOn(handled', chan', f, n + 1)
      BY <2>1 DEF PassedOn
    <3>1. CASE f = e
      BY <2>5, <3>1
    <3>2. CASE f # e
      <4>1. pub[f] = "acked"
        BY <1>1, <1>3, <3>2
      <4>2. QED
        BY <2>4, <4>1 DEF ChannelOrder
    <3>3. QED
      BY <3>1, <3>2
  <2>10. \A j \in 1 .. Len(chan') :
            \A f \in before'[chan'[j]] : PassedOn(handled', chan', f, j - 1)
    <3> SUFFICES ASSUME NEW j \in 1 .. n + 1, NEW f \in before[chan'[j]]
                 PROVE  PassedOn(handled', chan', f, j - 1)
      BY <1>1, <2>1
    <3>1. CASE j \in 1 .. n
      <4>1. PassedOn(handled, chan, f, j - 1)
        BY <2>1, <3>1 DEF ChannelOrder
      <4>2. QED
        BY <1>1, <2>3, <3>1, <4>1
    <3>2. CASE j = n + 1
      <4>1. f \in Events /\ pub[f] = "acked"
        BY <2>1, <2>8, <3>2
      <4>2. PassedOn(handled, chan, f, n)
        BY <4>1 DEF ChannelOrder
      <4>3. QED
        BY <1>1, <2>3, <3>2, <4>2
    <3>3. QED
      BY <1>1, <3>1, <3>2
  <2>11. QED
    BY <1>1, <2>1, <2>6, <2>7, <2>8, <2>9, <2>10 DEF ChannelOrder
<1>4. QED
  BY <1>2, <1>3 DEF Offer

\* The consumer takes the head; all the head came after has been handled.
LEMMA ConsumeOrdered ==
    ASSUME TypeOK, ChannelOrder, ConsumeChannel
    PROVE  ChannelOrder'
<1> SUFFICES ASSUME mode = "channel", ~crashed PROVE ChannelOrder'
  BY DEF ConsumeChannel, process, ChannelOrder
<1> DEFINE n == Len(chan)
<1>1. /\ pub' = pub /\ before' = before /\ chan # <<>>
      /\ chan' = Tail(chan) /\ handled' = Handled(Head(chan))
      /\ chan \in Seq(Events) /\ n \in Nat /\ handled \in [Events -> 0 .. 2]
      /\ before \in [Events -> SUBSET Events]
  BY DEF ConsumeChannel, TypeOK
<1>2. /\ n >= 1 /\ Head(chan) = chan[1] /\ Len(chan') = n - 1
      /\ \A i \in 1 .. n - 1 : chan'[i] = chan[i + 1]
      /\ \A i \in 1 .. n : chan[i] \in Events
  BY <1>1
<1>3. /\ handled'[chan[1]] > 0
      /\ \A f \in Events : handled[f] > 0 => handled'[f] > 0
  BY <1>1, <1>2 DEF Handled
<1>4. ASSUME NEW f \in Events, NEW k \in 1 .. n, PassedOn(handled, chan, f, k)
      PROVE  PassedOn(handled', chan', f, k - 1)
  <2>1. CASE handled[f] > 0
    BY <1>3, <2>1 DEF PassedOn
  <2>2. CASE \E i \in 1 .. k : chan[i] = f
    <3>1. PICK i \in 1 .. k : chan[i] = f
      BY <2>2
    <3>2. CASE i = 1
      BY <1>3, <3>1, <3>2 DEF PassedOn
    <3>3. CASE i # 1
      <4>1. i - 1 \in 1 .. k - 1 /\ i - 1 \in 1 .. n - 1 /\ chan'[i - 1] = f
        BY <1>1, <1>2, <3>1, <3>3
      <4>2. QED
        BY <4>1 DEF PassedOn
    <3>4. QED
      BY <3>2, <3>3
  <2>3. QED
    BY <1>4, <2>1, <2>2 DEF PassedOn
<1>5. \A i \in 1 .. n - 1 : pub[chan'[i]] = "acked"
  BY <1>1, <1>2 DEF ChannelOrder
<1>6. \A f \in Events : pub'[f] = "acked" => PassedOn(handled', chan', f, Len(chan'))
  <2> SUFFICES ASSUME NEW f \in Events, pub[f] = "acked"
               PROVE  PassedOn(handled', chan', f, n - 1)
    BY <1>1, <1>2 DEF PassedOn
  <2>1. PassedOn(handled, chan, f, n) /\ n \in 1 .. n
    BY <1>1, <1>2 DEF ChannelOrder
  <2>2. QED
    BY <1>4, <2>1
<1>7. \A j \in 1 .. Len(chan') :
         \A f \in before'[chan'[j]] : PassedOn(handled', chan', f, j - 1)
  <2> SUFFICES ASSUME NEW j \in 1 .. n - 1, NEW f \in before[chan'[j]]
               PROVE  PassedOn(handled', chan', f, j - 1)
    BY <1>1, <1>2
  <2>1. j + 1 \in 1 .. n /\ chan'[j] = chan[j + 1] /\ f \in Events
    BY <1>1, <1>2
  <2>2. PassedOn(handled, chan, f, j)
    BY <1>1, <2>1 DEF ChannelOrder
  <2>3. QED
    BY <1>1, <1>4, <2>1, <2>2
<1>8. QED
  BY <1>1, <1>2, <1>5, <1>6, <1>7 DEF ChannelOrder

\* The brokers, the probes, the marks and a restart leave the channel alone,
\* or are none of its business.
LEMMA OrderStep == TypeOK /\ ChannelOrder /\ [Next]_vars => ChannelOrder'
<1> SUFFICES ASSUME TypeOK, ChannelOrder, [Next]_vars PROVE ChannelOrder'
  OBVIOUS
<1>1. ASSUME UNCHANGED <<mode, crashed, pub, chan, before, handled>>
      PROVE  ChannelOrder'
  BY <1>1 DEF ChannelOrder, PassedOn
<1>2. ASSUME NEW e \in Events, ProbePing(e) \/ ProbeCancelled(e) PROVE ChannelOrder'
  BY <1>1, <1>2 DEF ProbePing, ProbeCancelled, process
<1>3. ASSUME NEW e \in Events, Send(e) \/ SendFails(e) \/ Degrade(e) PROVE ChannelOrder'
  <2>1. mode = "kafka" \/ crashed
    BY <1>3 DEF Send, SendFails, Degrade, ChannelOrder, TypeOK
  <2>2. (mode = "kafka" \/ crashed)'
    BY <1>3, <2>1 DEF Send, SendFails, Degrade, process
  <2>3. QED
    BY <2>2 DEF ChannelOrder
<1>4. CASE Mark \/ StartConsumer \/ ConsumerStops \/ Outage \/ Recover \/ UNCHANGED vars
  BY <1>1, <1>4 DEF Mark, StartConsumer, ConsumerStops, Outage, Recover, vars, process
<1>5. ASSUME NEW k \in Partitions, ConsumeTopic(k) PROVE ChannelOrder'
  BY <1>5 DEF ConsumeTopic, process, ChannelOrder
<1>6. CASE Restart
  BY <1>6 DEF Restart, Forgotten, ChannelOrder
<1>7. QED
  BY <1>2, <1>3, <1>4, <1>5, <1>6, BeginOrdered, OfferOrdered, ConsumeOrdered
  DEF Next, Publishing

\* The channel hands out events in the order in which publishers have seen
\* them acknowledged: whoever begins to publish after the acknowledgement of f
\* comes after f, for any number of publishers, any capacity and feed.
THEOREM OrderIsKept == Spec => OrderKept
<1> DEFINE Ordered == mode = "channel" /\ ~crashed =>
             \A e \in Events : handled[e] = 0 /\ handled'[e] > 0
                => \A f \in before[e] : handled'[f] > 0
<1>1. Init => TypeOK /\ ChannelOrder
  BY BusInit DEF Init, ChannelOrder, PassedOn
<1>2. TypeOK /\ ChannelOrder /\ [Next]_vars => (TypeOK /\ ChannelOrder)'
  BY BusTypeStep, OrderStep
<1>3. TypeOK /\ ChannelOrder /\ [Next]_vars => [Ordered]_vars
  <2> SUFFICES ASSUME TypeOK, ChannelOrder, Next, mode = "channel", ~crashed,
                      NEW e \in Events, handled[e] = 0, handled'[e] > 0,
                      NEW f \in before[e]
               PROVE  handled'[f] > 0
    OBVIOUS
  <2>1. ConsumeChannel
    <3>1. handled' # handled /\ ~\E k \in Partitions : ConsumeTopic(k)
      BY DEF ConsumeTopic
    <3>2. QED
      BY <3>1 DEF Next, Begin, Publishing, Send, SendFails, Degrade, Offer, ProbePing,
         ProbeCancelled, Mark, StartConsumer, ConsumerStops, Outage, Recover, Restart, Forgotten
  <2>2. /\ chan \in Seq(Events) /\ chan # <<>> /\ Head(chan) = chan[1] /\ 1 \in 1 .. Len(chan)
        /\ chan[1] \in Events /\ handled \in [Events -> 0 .. 2]
        /\ handled' = Handled(chan[1]) /\ f \in Events
    BY <2>1 DEF ConsumeChannel, TypeOK
  <2>3. e = chan[1]
    BY <2>2 DEF Handled
  <2>4. PassedOn(handled, chan, f, 1 - 1)
    BY <2>2, <2>3 DEF ChannelOrder
  <2>5. handled[f] > 0
    BY <2>4 DEF PassedOn
  <2>6. QED
    BY <2>2, <2>5 DEF Handled
<1>4. QED
  BY <1>1, <1>2, <1>3, PTL DEF Spec, OrderKept
=============================================================================

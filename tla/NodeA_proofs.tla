----------------------------- MODULE NodeA_proofs -----------------------------
(* Proofs about NodeA, for every interval, number of slots and reading.     *)
EXTENDS NodeA, SequenceTheorems, TLAPS

\* The slots of the client, one for every message the broker has not taken yet.
SlotAccounting == Len(aOut) <= aUnacked /\ aUnacked <= MaxInFlight

IInv == TypeOK /\ SlotAccounting

-----------------------------------------------------------------------------
\* The scale of the light goes from 0 to 400, whatever the sample.
LEMMA LightScaled ==
    ASSUME NEW r \in 0 .. AdcMax
    PROVE  NormalizeLight(r) \in 0 .. LightScaleMax
<1>1. r \in Nat /\ r * 400 <= 4095 * 400
  BY DEF AdcMax
<1>2. (r * 400) \div 4095 >= 0 /\ (r * 400) \div 4095 <= 400
  BY <1>1
<1> QED
  BY <1>1, <1>2 DEF NormalizeLight, LightScaleMax, AdcMax

\* One message handed over finds a slot or is not sent.
LEMMA TakenOne ==
    ASSUME NEW up, NEW used \in Nat, NEW slots \in Nat, used <= slots, NEW m
    PROVE  \/ Taken(up, used, slots, <<m>>) = <<>>
           \/ Taken(up, used, slots, <<m>>) = <<m>> /\ used + 1 <= slots
<1>1. Len(<<m>>) = 1
  OBVIOUS
<1>2. CASE ~up
  BY <1>2 DEF Taken
<1>3. CASE up /\ 1 <= slots - used
  <2>1. Taken(up, used, slots, <<m>>) = SubSeq(<<m>>, 1, 1)
    BY <1>1, <1>3 DEF Taken
  <2>2. SubSeq(<<m>>, 1, 1) = <<m>>
    <3>1. <<m>> \in Seq({m})
      OBVIOUS
    <3> QED
      BY <1>1, <3>1, SubSeqFull, Zenon
  <2>3. used + 1 <= slots
    BY <1>3
  <2> QED
    BY <2>1, <2>2, <2>3
<1>4. CASE up /\ ~(1 <= slots - used)
  <2>1. slots - used = 0
    BY <1>4
  <2>2. Taken(up, used, slots, <<m>>) = SubSeq(<<m>>, 1, 0)
    BY <1>1, <1>4, <2>1 DEF Taken
  <2>3. SubSeq(<<m>>, 1, 0) = <<>>
    BY SubSeqEmpty
  <2> QED
    BY <2>2, <2>3
<1> QED
  BY <1>2, <1>3, <1>4

\* node_a_publish of a message of node A keeps types and slots.
LEMMA PublishKeeps ==
    ASSUME IInv, NEW m \in SentByA, Publish(m)
    PROVE  /\ aOut' \in Seq(SentByA) /\ aUnacked' \in Nat /\ aLink' = aLink
           /\ SlotAccounting'
           /\ silence' \in [Sends -> Nat] /\ misses' \in [Sends -> 0 .. 2]
<1> DEFINE t == Taken(MqttReady, aUnacked, MaxInFlight, <<m>>)
<1>1. /\ aOut' = aOut \o t /\ aUnacked' = aUnacked + Len(t) /\ aLink' = aLink
      /\ IF t = <<>> THEN Miss(m.topic)
         ELSE /\ misses' = [misses EXCEPT ![m.topic] = 0]
              /\ silence' = [silence EXCEPT ![m.topic] = 0]
  BY DEF Publish
<1>2. /\ aOut \in Seq(SentByA) /\ Len(aOut) \in Nat /\ aUnacked \in Nat
      /\ Len(aOut) <= aUnacked /\ aUnacked <= MaxInFlight /\ MaxInFlight \in Nat
      /\ silence \in [Sends -> Nat] /\ misses \in [Sends -> 0 .. 2]
  BY LenProperties, NodeAAssumption DEF IInv, TypeOK, SlotAccounting
<1>3. t = <<>> \/ (t = <<m>> /\ aUnacked + 1 <= MaxInFlight)
  BY <1>2, TakenOne
<1> HIDE DEF t
<1>4. t \in Seq(SentByA) /\ Len(t) \in Nat /\ aUnacked + Len(t) <= MaxInFlight
  <2>1. /\ <<>> \in Seq(SentByA) /\ Len(<<>>) = 0
        /\ <<m>> \in Seq(SentByA) /\ Len(<<m>>) = 1
    BY EmptySeq
  <2>2. CASE t = <<>>
    BY <1>2, <2>1, <2>2
  <2>3. CASE t = <<m>> /\ aUnacked + 1 <= MaxInFlight
    BY <1>2, <2>1, <2>3
  <2> QED
    BY <1>3, <2>2, <2>3
<1>5. /\ aOut \o t \in Seq(SentByA) /\ Len(aOut \o t) = Len(aOut) + Len(t)
  BY <1>2, <1>4, ConcatProperties, Zenon
<1>6. aOut' \in Seq(SentByA) /\ aUnacked' \in Nat /\ SlotAccounting'
  BY <1>1, <1>2, <1>4, <1>5 DEF SlotAccounting
<1>7. silence' \in [Sends -> Nat] /\ misses' \in [Sends -> 0 .. 2]
  <2>1. CASE t = <<>>
    BY <1>1, <1>2, <2>1 DEF Miss
  <2>2. CASE t # <<>>
    BY <1>1, <1>2, <2>2
  <2> QED
    BY <2>1, <2>2
<1> QED
  BY <1>1, <1>6, <1>7

-----------------------------------------------------------------------------
LEMMA InitIInv == Init => IInv
<1> SUFFICES ASSUME Init PROVE IInv
  OBVIOUS
<1>1. aOut = <<>> /\ aOut \in Seq(SentByA) /\ Len(aOut) = 0
  BY EmptySeq, LenProperties DEF Init
<1>2. /\ silence \in [Sends -> Nat] /\ misses \in [Sends -> 0 .. 2]
      /\ raw \in 0 .. AdcMax /\ now \in Nat
  BY NodeAAssumption DEF Init, AdcMax
<1>3. TypeOK
  BY <1>1, <1>2 DEF Init, SensorInit, TypeOK
<1> QED
  BY <1>1, <1>3, NodeAAssumption DEF Init, SlotAccounting, IInv

\* The callbacks and the broker: only the connection and its requests change.
LEMMA CallbackKeeps ==
    ASSUME IInv, DnsFound \/ Connected \/ Disconnected \/ Acked \/ Take
    PROVE  IInv'
<1> USE DEF IInv
<1>1. Len(aOut) \in Nat /\ MaxInFlight \in Nat \ {0}
  BY LenProperties, NodeAAssumption DEF TypeOK
<1>2. CASE DnsFound
  BY <1>2 DEF DnsFound, TypeOK, SlotAccounting, loop, sensorVars, record
<1>3. CASE Connected
  <2>1. HeartbeatMsg("heartbeatA") \in SentByA
    BY DEF HeartbeatMsg, SentByA
  <2>2. aOut' \in Seq(SentByA) /\ Len(aOut') = 1
    BY <1>3, <2>1 DEF Connected
  <2>3. silence' \in [Sends -> Nat] /\ misses' \in [Sends -> 0 .. 2]
    BY <1>3 DEF Connected
  <2> QED
    BY <1>1, <1>3, <2>2, <2>3 DEF Connected, TypeOK, SlotAccounting, loop, sensorVars
<1>4. CASE Disconnected
  <2>1. aOut' \in Seq(SentByA) /\ Len(aOut') = 0
    BY <1>4, EmptySeq, LenProperties DEF Disconnected
  <2> QED
    BY <1>1, <1>4, <2>1 DEF Disconnected, TypeOK, SlotAccounting, loop, sensorVars, record
<1>5. CASE Acked
  <2>1. aUnacked' \in Nat /\ SlotAccounting'
    BY <1>1, <1>5 DEF Acked, TypeOK, SlotAccounting
  <2> QED
    BY <1>5, <2>1 DEF Acked, TypeOK, loop, sensorVars, record
<1>6. CASE Take
  <2>1. aOut' \in Seq(SentByA) /\ Len(aOut') = Len(aOut) - 1
    BY <1>6, HeadTailProperties DEF Take, TypeOK
  <2>2. SlotAccounting'
    BY <1>1, <1>6, <2>1 DEF Take, SlotAccounting, TypeOK
  <2> QED
    BY <1>6, <2>1, <2>2 DEF Take, TypeOK, loop, sensorVars, record
<1> QED
  BY <1>2, <1>3, <1>4, <1>5, <1>6

\* The main loop.
LEMMA LoopKeeps ==
    ASSUME IInv, Loop
    PROVE  IInv'
<1> USE DEF IInv
<1>1. CASE ReadClock \/ HeartbeatDue \/ Sleep
  BY <1>1 DEF ReadClock, HeartbeatDue, Sleep, TypeOK, SlotAccounting, client, sensorVars, record
<1>2. CASE SensorDue
  <2>1. /\ sensorLast' \in Nat /\ raw' \in 0 .. AdcMax /\ reading' \in BOOLEAN
        /\ climate' \in Climates /\ measured' \in Climates \cup {Failed}
        /\ pc' \in {"read", "sleep"}
    BY <1>2, NodeAAssumption DEF SensorDue, Begin, TypeOK, sensorVars
  <2> QED
    BY <1>2, <2>1 DEF SensorDue, TypeOK, SlotAccounting, client, record
<1>3. CASE ReadSensor
  <2>1. /\ reading' \in BOOLEAN /\ climate' \in Climates
        /\ measured' \in Climates \cup {Failed}
        /\ pc' \in {"sleep", "env"} /\ (pc' = "env" => measured' # Failed)
    BY <1>3 DEF ReadSensor, Return, TypeOK
  <2>2. silence' \in [Sends -> Nat] /\ misses' \in [Sends -> 0 .. 2]
    BY <1>3 DEF ReadSensor, TypeOK, Miss, record
  <2> QED
    BY <1>3, <2>1, <2>2 DEF ReadSensor, TypeOK, SlotAccounting, client
<1>4. CASE PublishHeartbeat
  <2> DEFINE m == HeartbeatMsg("heartbeatA")
  <2>1. m \in SentByA
    BY DEF HeartbeatMsg, SentByA
  <2>2. Publish(m)
    BY <1>4 DEF PublishHeartbeat
  <2> HIDE DEF m
  <2>3. /\ aOut' \in Seq(SentByA) /\ aUnacked' \in Nat /\ aLink' = aLink /\ SlotAccounting'
        /\ silence' \in [Sends -> Nat] /\ misses' \in [Sends -> 0 .. 2]
    BY <2>1, <2>2, PublishKeeps
  <2> QED
    BY <1>4, <2>3 DEF PublishHeartbeat, TypeOK, sensorVars
<1>5. CASE PublishEnvironment
  <2> DEFINE m == EnvMsg([light |-> NormalizeLight(raw), temp |-> measured.temp,
                          humidity |-> measured.humidity])
  <2>1. m \in SentByA
    <3>1. NormalizeLight(raw) \in 0 .. LightScaleMax
      BY LightScaled DEF TypeOK
    <3>2. measured \in Climates
      BY <1>5 DEF PublishEnvironment, TypeOK
    <3>3. measured.temp \in Int /\ measured.humidity \in Int
      BY <3>2, NodeAAssumption
    <3> QED
      BY <3>1, <3>3 DEF EnvMsg, SentByA
  <2>2. Publish(m)
    BY <1>5 DEF PublishEnvironment
  <2> HIDE DEF m
  <2>3. /\ aOut' \in Seq(SentByA) /\ aUnacked' \in Nat /\ aLink' = aLink /\ SlotAccounting'
        /\ silence' \in [Sends -> Nat] /\ misses' \in [Sends -> 0 .. 2]
    BY <2>1, <2>2, PublishKeeps
  <2> QED
    BY <1>5, <2>3 DEF PublishEnvironment, TypeOK, sensorVars
<1> QED
  BY <1>1, <1>2, <1>3, <1>4, <1>5 DEF Loop

LEMMA StepIInv == IInv /\ [Next]_aVars => IInv'
<1> SUFFICES ASSUME IInv, [Next]_aVars PROVE IInv'
  OBVIOUS
<1>1. CASE Tick
  <2>1. now' \in Nat /\ silence' \in [Sends -> Nat]
    BY <1>1, NodeAAssumption DEF Tick, IInv, TypeOK
  <2> QED
    BY <1>1, <2>1 DEF Tick, IInv, TypeOK, SlotAccounting, client, loop, sensorVars
<1>2. CASE UNCHANGED aVars
  BY <1>2 DEF aVars, IInv, TypeOK, SlotAccounting, client, loop, sensorVars, record
<1> QED
  BY <1>1, <1>2, CallbackKeeps, LoopKeeps DEF Next

LEMMA Invariance == Spec => []IInv
  BY InitIInv, StepIInv, PTL DEF Spec

\* Every message of node A is a heartbeat or a reading whose light is on the scale
\* of node C's thresholds, and no reading that failed is published.
THEOREM TypeCorrect == Spec => []TypeOK
<1>1. IInv => TypeOK
  BY DEF IInv
<1> QED
  BY <1>1, Invariance, PTL

-----------------------------------------------------------------------------
(* How long a topic stays silent.                                          *)

\* When the timer of a topic was set, and where the loop has yet to look at it
\* or has found it due and not yet sent.
LastSet(t) == IF t = "env" THEN sensorLast ELSE heartbeatLast
Before(t)  == IF t = "env" THEN {"beat", "alive", "sense"} ELSE {"beat"}
Sending(t) == IF t = "env" THEN {"read", "env"} ELSE {"alive"}

\* The longest from one time a message is due to the next, and what may have
\* passed before: a pass in which the connection came up, then at most one miss.
Round(t) == Interval(t) - 1 + MaxPass
Spent(t) == IF misses[t] = 0 THEN MaxPass ELSE MaxPass + Round(t)

InWord ==
    now \in 0 .. Word - 1 /\ cur \in 0 .. Word - 1 /\ \A t \in Sends : LastSet(t) \in 0 .. Word - 1

\* Before the first pass the clock may say anything.
PassBounded ==
    Elapsed(now, cur) <= MaxPass \/ (pc = "clock" /\ \A t \in Sends : silence[t] = 0)

\* Silence is bounded by the misses and the age of the timer.  A timer found run
\* out where the loop has looked already did so before the connection came up.
Timely(t) ==
    LET age == Elapsed(cur, LastSet(t)) IN
    /\ pc \in Sending(t) => age = 0
    /\ MqttReady /\ misses[t] <= 1 =>
         silence[t] <= Elapsed(now, cur) +
             (IF pc \in Sending(t) THEN Spent(t) + Round(t)
              ELSE IF age < Interval(t) THEN Spent(t) + age
              ELSE IF pc \in Before(t) THEN Spent(t) + Round(t)
              ELSE 0)

TimeInv == InWord /\ PassBounded /\ \A t \in Sends : Timely(t)

LEMMA Constants ==
    ASSUME NEW t \in Sends
    PROVE  /\ Word \in Nat \ {0} /\ MaxPass \in Nat \ {0} /\ MaxPass < Word
           /\ Interval(t) \in Nat \ {0} /\ Interval(t) + MaxPass <= Word
           /\ Limit[t] \in Nat /\ Limit[t] >= 2 * (Interval(t) - 1) + 4 * MaxPass
  BY NodeAAssumption, TimeAssumption DEF Interval

\* Differences of the clock: it comes round.
LEMMA ClockDifference ==
    ASSUME NEW a \in 0 .. Word - 1, NEW b \in 0 .. Word - 1
    PROVE  /\ Elapsed(a, b) = IF b <= a THEN a - b ELSE a - b + Word
           /\ Elapsed(a, b) \in 0 .. Word - 1
<1>1. Word \in Nat \ {0}
  BY NodeAAssumption
<1>2. \A n \in Nat \ {0} : \A x \in 0 .. n - 1 : x % n = x
  OBVIOUS
<1>3. \A n \in Nat \ {0} : \A x \in 1 .. n - 1 : (-x) % n = n - x
  OBVIOUS
<1>4. CASE b <= a
  BY <1>1, <1>2, <1>4 DEF Elapsed
<1>5. CASE a < b
  <2>1. b - a \in 1 .. Word - 1 /\ a - b = -(b - a)
    BY <1>1, <1>5
  <2>2. (-(b - a)) % Word = Word - (b - a)
    BY <1>1, <1>3, <2>1
  <2> QED
    BY <1>1, <1>5, <2>1, <2>2 DEF Elapsed
<1> QED
  BY <1>4, <1>5

\* The next tick of the clock, seen from the start of the pass.
LEMMA ClockTicks ==
    ASSUME NEW a \in 0 .. Word - 1, NEW b \in 0 .. Word - 1, Elapsed(a, b) < Word - 1
    PROVE  /\ (a + 1) % Word \in 0 .. Word - 1
           /\ Elapsed((a + 1) % Word, b) = Elapsed(a, b) + 1
<1>1. Word \in Nat \ {0}
  BY NodeAAssumption
<1>2. \A n \in Nat \ {0} : \A x \in 0 .. n - 1 : (x + 1) % n = IF x + 1 = n THEN 0 ELSE x + 1
  <2> SUFFICES ASSUME NEW n \in Nat \ {0}, NEW x \in 0 .. n - 1
               PROVE  (x + 1) % n = IF x + 1 = n THEN 0 ELSE x + 1
    OBVIOUS
  <2>1. CASE x + 1 = n
    <3>1. \A m \in Nat \ {0} : m % m = 0
      OBVIOUS
    <3> QED
      BY <2>1, <3>1
  <2>2. CASE x + 1 < n
    BY <2>2
  <2> QED
    BY <2>1, <2>2
<1>3. (a + 1) % Word = IF a + 1 = Word THEN 0 ELSE a + 1
  BY <1>1, <1>2
<1>4. (a + 1) % Word \in 0 .. Word - 1
  BY <1>1, <1>3
<1> DEFINE next == (a + 1) % Word
<1>5. Elapsed(next, b) = IF b <= next THEN next - b ELSE next - b + Word
  BY <1>4, ClockDifference
<1>6. Elapsed(a, b) = IF b <= a THEN a - b ELSE a - b + Word
  BY ClockDifference
<1>7. next = IF a + 1 = Word THEN 0 ELSE a + 1
  BY <1>3
<1> HIDE DEF next
<1>8. Elapsed(next, b) = Elapsed(a, b) + 1
  BY <1>1, <1>5, <1>6, <1>7
<1> QED
  BY <1>4, <1>8 DEF next

\* Two intervals of less than a round of the clock together.
LEMMA ClockAdds ==
    ASSUME NEW a \in 0 .. Word - 1, NEW b \in 0 .. Word - 1, NEW c \in 0 .. Word - 1,
           Elapsed(a, b) + Elapsed(b, c) < Word
    PROVE  Elapsed(a, c) = Elapsed(a, b) + Elapsed(b, c)
<1>1. Elapsed(a, b) = IF b <= a THEN a - b ELSE a - b + Word
  BY ClockDifference
<1>2. Elapsed(b, c) = IF c <= b THEN b - c ELSE b - c + Word
  BY ClockDifference
<1>3. Elapsed(a, c) = IF c <= a THEN a - c ELSE a - c + Word
  BY ClockDifference
<1> QED
  BY <1>1, <1>2, <1>3, NodeAAssumption

\* The ranges the arithmetic of a topic needs.
LEMMA TopicRanges ==
    ASSUME IInv, TimeInv, NEW t \in Sends
    PROVE  /\ Elapsed(now, cur) \in 0 .. Word - 1
           /\ Elapsed(cur, LastSet(t)) \in 0 .. Word - 1
           /\ silence[t] \in Nat /\ misses[t] \in 0 .. 2
           /\ Round(t) \in Nat \ {0} /\ Spent(t) \in Nat
<1>1. now \in 0 .. Word - 1 /\ cur \in 0 .. Word - 1 /\ LastSet(t) \in 0 .. Word - 1
  BY DEF TimeInv, InWord
<1>2. Elapsed(now, cur) \in 0 .. Word - 1 /\ Elapsed(cur, LastSet(t)) \in 0 .. Word - 1
  BY <1>1, ClockDifference
<1>3. Round(t) \in Nat \ {0}
  BY Constants DEF Round
<1>4. Spent(t) \in Nat
  BY <1>3, Constants DEF Spent
<1> QED
  BY <1>2, <1>3, <1>4 DEF IInv, TypeOK

\* A step that has nothing to do with the topic.
LEMMA TimelyElsewhere ==
    ASSUME NEW t \in Sends, Timely(t), MqttReady' => MqttReady,
           now' = now, cur' = cur, LastSet(t)' = LastSet(t),
           silence'[t] = silence[t], misses'[t] = misses[t],
           pc' \in Sending(t) <=> pc \in Sending(t),
           pc' \in Before(t) <=> pc \in Before(t)
    PROVE  Timely(t)'
  BY DEF Timely, Spent, Elapsed, Round, Interval, Sending, Before

\* A message is sent, or the connection comes up: silence starts again.
LEMMA TimelyAgain ==
    ASSUME IInv, TimeInv, NEW t \in Sends,
           now' = now, cur' = cur, LastSet(t)' = LastSet(t),
           silence'[t] = 0, misses'[t] = 0,
           pc' \in Sending(t) => pc \in Sending(t)
    PROVE  Timely(t)'
<1>1. Timely(t)
  BY DEF TimeInv
<1>2. /\ Elapsed(now, cur)' = Elapsed(now, cur)
      /\ Elapsed(cur, LastSet(t))' = Elapsed(cur, LastSet(t))
  BY DEF Elapsed
<1>3. Spent(t)' \in Nat /\ Round(t)' \in Nat /\ Interval(t)' \in Nat
  BY Constants DEF Spent, Round, Interval
<1> QED
  BY <1>1, <1>2, <1>3, TopicRanges DEF Timely, Sending, Before

\* The loop finds the message due.
LEMMA TimelyDue ==
    ASSUME IInv, TimeInv, NEW t \in Sends, MqttReady,
           pc \in Before(t), pc \notin Sending(t), Elapsed(cur, LastSet(t)) >= Interval(t),
           now' = now, cur' = cur, LastSet(t)' = cur, pc' \in Sending(t),
           silence' = silence, misses' = misses
    PROVE  Timely(t)'
<1>1. /\ Elapsed(now, cur)' = Elapsed(now, cur)
      /\ Spent(t)' = Spent(t) /\ Round(t)' = Round(t)
  BY DEF Elapsed, Spent, Round, Interval
<1>2. Elapsed(cur, LastSet(t))' = 0
  <2>1. Elapsed(cur', LastSet(t)') = 0
    BY ClockDifference DEF TimeInv, InWord
  <2> QED
    BY <2>1 DEF Elapsed
<1>3. misses[t] <= 1 => silence[t] <= Elapsed(now, cur) + (Spent(t) + Round(t))
  <2>1. ~(Elapsed(cur, LastSet(t)) < Interval(t))
    BY TopicRanges, Constants
  <2> QED
    BY <2>1 DEF TimeInv, Timely
<1> QED
  BY <1>1, <1>2, <1>3 DEF Timely, Sending, Before

\* The loop finds it not due.
LEMMA TimelyNotDue ==
    ASSUME IInv, TimeInv, NEW t \in Sends, MqttReady' => MqttReady,
           pc \in Before(t), pc \notin Sending(t),
           ~(MqttReady /\ Elapsed(cur, LastSet(t)) >= Interval(t)),
           now' = now, cur' = cur, LastSet(t)' = LastSet(t),
           pc' \notin Sending(t), pc' \notin Before(t),
           silence' = silence, misses' = misses
    PROVE  Timely(t)'
<1>1. /\ Elapsed(now, cur)' = Elapsed(now, cur)
      /\ Elapsed(cur, LastSet(t))' = Elapsed(cur, LastSet(t))
      /\ Spent(t)' = Spent(t) /\ Interval(t)' = Interval(t)
  BY DEF Elapsed, Spent, Round, Interval
<1>2. MqttReady => Elapsed(cur, LastSet(t)) < Interval(t)
  BY TopicRanges, Constants
<1> QED
  BY <1>1, <1>2 DEF TimeInv, Timely, Sending, Before

\* A message that was due is not sent.
LEMMA TimelyMissed ==
    ASSUME IInv, TimeInv, NEW t \in Sends, MqttReady' => MqttReady,
           pc \in Sending(t), pc' \notin Sending(t),
           now' = now, cur' = cur, LastSet(t)' = LastSet(t),
           silence'[t] = silence[t],
           misses'[t] = IF misses[t] < 2 THEN misses[t] + 1 ELSE misses[t]
    PROVE  Timely(t)'
<1>1. /\ Elapsed(now, cur)' = Elapsed(now, cur)
      /\ Elapsed(cur, LastSet(t))' = Elapsed(cur, LastSet(t))
      /\ Interval(t)' = Interval(t)
  BY DEF Elapsed, Interval
<1>2. Elapsed(cur, LastSet(t)) = 0 /\ 0 < Interval(t)
  BY Constants DEF TimeInv, Timely
<1>3. ASSUME misses'[t] <= 1, MqttReady
      PROVE  silence[t] <= Elapsed(now, cur) + (Spent(t)' + 0)
  <2>1. misses[t] = 0 /\ misses'[t] = 1
    BY <1>3, TopicRanges
  <2>2. Spent(t)' = Spent(t) + Round(t)
    BY <2>1 DEF Spent, Round, Interval
  <2>3. silence[t] <= Elapsed(now, cur) + (Spent(t) + Round(t))
    BY <1>3, <2>1 DEF TimeInv, Timely
  <2> QED
    BY <2>2, <2>3, TopicRanges
<1> QED
  BY <1>1, <1>2, <1>3 DEF Timely, Sending, Before

\* The loop reads the clock.
LEMMA TimelyClock ==
    ASSUME IInv, TimeInv, NEW t \in Sends, ReadClock
    PROVE  Timely(t)'
<1>1. /\ pc = "clock" /\ pc' = "beat" /\ cur' = now /\ now' = now /\ aLink' = aLink
      /\ LastSet(t)' = LastSet(t) /\ silence' = silence /\ misses' = misses
  BY DEF ReadClock, client, record, LastSet
<1>2. pc \notin Sending(t) /\ pc \notin Before(t) /\ pc' \in Before(t) /\ pc' \notin Sending(t)
  BY <1>1 DEF Sending, Before
<1>3. MqttReady' <=> MqttReady
  BY <1>1 DEF MqttReady
<1>4. /\ Spent(t)' = Spent(t) /\ Round(t)' = Round(t) /\ Interval(t)' = Interval(t)
      /\ Elapsed(now, cur)' = Elapsed(now, now)
      /\ Elapsed(cur, LastSet(t))' = Elapsed(now, LastSet(t))
  BY <1>1 DEF Spent, Round, Interval, Elapsed
<1> DEFINE pass == Elapsed(now, cur)
           age == Elapsed(cur, LastSet(t))
           older == Elapsed(now, LastSet(t))
<1>5. /\ Elapsed(now, now) = 0 /\ older \in 0 .. Word - 1
      /\ pass + age < Word => older = pass + age
  <2>1. /\ now \in 0 .. Word - 1 /\ cur \in 0 .. Word - 1 /\ LastSet(t) \in 0 .. Word - 1
    BY DEF TimeInv, InWord
  <2> QED
    BY <2>1, ClockDifference, ClockAdds
<1>6. /\ pass \in Nat /\ age \in Nat /\ silence[t] \in Nat /\ misses[t] \in 0 .. 2
      /\ Spent(t) \in Nat /\ Spent(t) >= MaxPass /\ Round(t) = Interval(t) - 1 + MaxPass
      /\ Interval(t) \in Nat \ {0} /\ MaxPass \in Nat /\ Interval(t) + MaxPass <= Word
      /\ Word \in Nat
  BY TopicRanges, Constants DEF Spent, Round
<1>7. MqttReady /\ misses[t] <= 1 =>
        silence[t] <= pass + (IF age < Interval(t) THEN Spent(t) + age ELSE 0)
  BY <1>2 DEF TimeInv, Timely
<1>8. pass <= MaxPass \/ silence[t] = 0
  BY DEF TimeInv, PassBounded
<1> HIDE DEF pass, age, older
<1>9. ASSUME MqttReady, misses[t] <= 1
      PROVE  silence[t] <= IF older < Interval(t) THEN Spent(t) + older
                           ELSE Spent(t) + Round(t)
  <2>1. CASE silence[t] = 0
    BY <1>5, <1>6, <2>1
  <2>2. CASE pass <= MaxPass /\ age < Interval(t)
    BY <1>5, <1>6, <1>7, <1>9, <2>2
  <2>3. CASE pass <= MaxPass /\ ~(age < Interval(t))
    BY <1>5, <1>6, <1>7, <1>9, <2>3
  <2> QED
    BY <1>8, <2>1, <2>2, <2>3
<1>10. misses'[t] = misses[t] /\ silence'[t] = silence[t]
  BY <1>1
<1>11. MqttReady' /\ misses'[t] <= 1 =>
         silence'[t] <= Elapsed(now, now) +
            (IF pc' \in Sending(t) THEN Spent(t) + Round(t)
             ELSE IF older < Interval(t) THEN Spent(t) + older
             ELSE IF pc' \in Before(t) THEN Spent(t) + Round(t)
             ELSE 0)
  BY <1>2, <1>3, <1>5, <1>6, <1>9, <1>10
<1> QED
  BY <1>2, <1>4, <1>11 DEF Timely, Sending, Before, older

\* The clock ticks.
LEMMA TimelyTick ==
    ASSUME IInv, TimeInv, NEW t \in Sends, Tick
    PROVE  Timely(t)'
<1>1. /\ pc' = pc /\ cur' = cur /\ now' = (now + 1) % Word /\ aLink' = aLink
      /\ LastSet(t)' = LastSet(t) /\ misses' = misses /\ Elapsed(now, cur) < MaxPass
  BY DEF Tick, client, loop, LastSet
<1>2. Elapsed(now, cur)' = Elapsed(now, cur) + 1
  <2>1. now \in 0 .. Word - 1 /\ cur \in 0 .. Word - 1
    BY DEF TimeInv, InWord
  <2>2. Elapsed(now, cur) < Word - 1
    BY <1>1, TopicRanges, Constants
  <2>3. Elapsed(now', cur) = Elapsed(now, cur) + 1
    BY <1>1, <2>1, <2>2, ClockTicks
  <2> QED
    BY <1>1, <2>3 DEF Elapsed
<1>3. /\ Elapsed(cur, LastSet(t))' = Elapsed(cur, LastSet(t)) /\ Spent(t)' = Spent(t)
      /\ Round(t)' = Round(t) /\ Interval(t)' = Interval(t) /\ (MqttReady' <=> MqttReady)
      /\ misses'[t] = misses[t]
  BY <1>1 DEF Elapsed, Spent, Round, Interval, MqttReady
<1>4. silence'[t] \in Nat /\ silence'[t] <= silence[t] + 1
  BY TopicRanges DEF Tick
<1> DEFINE old == IF pc \in Sending(t) THEN Spent(t) + Round(t)
                  ELSE IF Elapsed(cur, LastSet(t)) < Interval(t)
                       THEN Spent(t) + Elapsed(cur, LastSet(t))
                  ELSE IF pc \in Before(t) THEN Spent(t) + Round(t) ELSE 0
<1>5. old \in Nat
  BY TopicRanges
<1>6. MqttReady /\ misses[t] <= 1 => silence[t] <= Elapsed(now, cur) + old
  BY DEF TimeInv, Timely
<1> HIDE DEF old
<1>7. MqttReady' /\ misses'[t] <= 1 => silence'[t] <= Elapsed(now, cur)' + old
  BY <1>2, <1>3, <1>4, <1>5, <1>6, TopicRanges
<1>8. pc \in Sending(t) => Elapsed(cur, LastSet(t)) = 0
  BY DEF TimeInv, Timely
<1> QED
  BY <1>1, <1>3, <1>7, <1>8 DEF Timely, old, Sending, Before

\* What node_a_publish does to the record: the message is taken, or missed.
LEMMA PublishRecords ==
    ASSUME IInv, NEW m, m.topic \in Sends, Publish(m)
    PROVE  /\ aLink' = aLink
           /\ \A t \in Sends : t # m.topic => silence'[t] = silence[t] /\ misses'[t] = misses[t]
           /\ \/ silence'[m.topic] = 0 /\ misses'[m.topic] = 0
              \/ /\ silence'[m.topic] = silence[m.topic]
                 /\ misses'[m.topic] = IF misses[m.topic] < 2 THEN misses[m.topic] + 1
                                       ELSE misses[m.topic]
<1> DEFINE taken == Taken(MqttReady, aUnacked, MaxInFlight, <<m>>)
<1>1. /\ aLink' = aLink
      /\ IF taken = <<>> THEN Miss(m.topic)
         ELSE /\ misses' = [misses EXCEPT ![m.topic] = 0]
              /\ silence' = [silence EXCEPT ![m.topic] = 0]
  BY DEF Publish
<1> HIDE DEF taken
<1> QED
  BY <1>1 DEF Miss, IInv, TypeOK

\* The callbacks: nothing, unless the connection comes up.
LEMMA CallbackTimely ==
    ASSUME IInv, TimeInv, NEW t \in Sends,
           DnsFound \/ Connected \/ Disconnected \/ Acked \/ Take
    PROVE  Timely(t)'
<1>1. /\ now' = now /\ cur' = cur /\ pc' = pc /\ LastSet(t)' = LastSet(t)
  BY DEF DnsFound, Connected, Disconnected, Acked, Take, loop, LastSet
<1>2. CASE Connected
  <2>1. silence'[t] = 0 /\ misses'[t] = 0
    BY <1>2 DEF Connected
  <2> QED
    BY <1>1, <2>1, TimelyAgain
<1>3. CASE DnsFound \/ Disconnected \/ Acked \/ Take
  <2>1. /\ silence' = silence /\ misses' = misses /\ (MqttReady' => MqttReady)
    BY <1>3 DEF DnsFound, Disconnected, Acked, Take, record, MqttReady
  <2> QED
    BY <1>1, <2>1, TimelyElsewhere DEF TimeInv
<1> QED
  BY <1>2, <1>3

\* The loop.
LEMMA LoopTimely ==
    ASSUME IInv, TimeInv, NEW t \in Sends, Loop
    PROVE  Timely(t)'
<1>1. Timely(t) /\ (t = "env" \/ t = "heartbeatA")
  BY DEF TimeInv, Sends
<1>2. CASE HeartbeatDue
  <2>1. /\ pc = "beat" /\ pc' \in {"alive", "sense"} /\ now' = now /\ cur' = cur
        /\ silence' = silence /\ misses' = misses /\ (MqttReady' <=> MqttReady)
        /\ sensorLast' = sensorLast
    BY <1>2 DEF HeartbeatDue, client, record, MqttReady
  <2>2. CASE t = "env"
    BY <1>1, <2>1, <2>2, TimelyElsewhere DEF LastSet, Sending, Before
  <2>3. CASE t = "heartbeatA" /\ MqttReady /\ Elapsed(cur, heartbeatLast) >= HeartbeatInterval
    <3>1. heartbeatLast' = cur /\ pc' = "alive"
      BY <1>2, <2>3 DEF HeartbeatDue
    <3> QED
      BY <2>1, <2>3, <3>1, TimelyDue DEF LastSet, Sending, Before, Interval
  <2>4. CASE t = "heartbeatA" /\ ~(MqttReady /\ Elapsed(cur, heartbeatLast) >= HeartbeatInterval)
    <3>1. heartbeatLast' = heartbeatLast /\ pc' = "sense"
      BY <1>2, <2>4 DEF HeartbeatDue
    <3> QED
      BY <2>1, <2>4, <3>1, TimelyNotDue DEF LastSet, Sending, Before, Interval
  <2> QED
    BY <1>1, <2>2, <2>3, <2>4
<1>3. CASE PublishHeartbeat
  <2> DEFINE m == HeartbeatMsg("heartbeatA")
  <2>1. /\ pc = "alive" /\ pc' = "sense" /\ now' = now /\ cur' = cur
        /\ sensorLast' = sensorLast /\ heartbeatLast' = heartbeatLast
        /\ Publish(m) /\ m.topic = "heartbeatA" /\ LastSet(t)' = LastSet(t)
    BY <1>3 DEF PublishHeartbeat, HeartbeatMsg, LastSet
  <2> HIDE DEF m
  <2>2. aLink' = aLink /\ (MqttReady' => MqttReady)
    BY <2>1, PublishRecords DEF Sends, MqttReady
  <2>3. CASE t = "env"
    <3>1. silence'[t] = silence[t] /\ misses'[t] = misses[t]
      BY <2>1, <2>3, PublishRecords DEF Sends
    <3> QED
      BY <1>1, <2>1, <2>2, <2>3, <3>1, TimelyElsewhere DEF Sending, Before
  <2>4. CASE t = "heartbeatA"
    <3>1. \/ silence'[t] = 0 /\ misses'[t] = 0
          \/ /\ silence'[t] = silence[t]
             /\ misses'[t] = IF misses[t] < 2 THEN misses[t] + 1 ELSE misses[t]
      BY <2>1, <2>4, PublishRecords DEF Sends
    <3>2. pc \in Sending(t) /\ pc' \notin Sending(t)
      BY <2>1, <2>4 DEF Sending
    <3> QED
      BY <2>1, <2>2, <3>1, <3>2, TimelyAgain, TimelyMissed
  <2> QED
    BY <1>1, <2>3, <2>4
<1>4. CASE SensorDue
  <2>1. /\ pc = "sense" /\ pc' \in {"read", "sleep"} /\ now' = now /\ cur' = cur
        /\ silence' = silence /\ misses' = misses /\ (MqttReady' <=> MqttReady)
        /\ heartbeatLast' = heartbeatLast
    BY <1>4 DEF SensorDue, client, record, MqttReady
  <2>2. CASE t = "heartbeatA"
    BY <1>1, <2>1, <2>2, TimelyElsewhere DEF LastSet, Sending, Before
  <2>3. CASE t = "env" /\ MqttReady /\ Elapsed(cur, sensorLast) >= SensorInterval
    <3>1. sensorLast' = cur /\ pc' = "read"
      BY <1>4, <2>3 DEF SensorDue
    <3> QED
      BY <2>1, <2>3, <3>1, TimelyDue DEF LastSet, Sending, Before, Interval
  <2>4. CASE t = "env" /\ ~(MqttReady /\ Elapsed(cur, sensorLast) >= SensorInterval)
    <3>1. sensorLast' = sensorLast /\ pc' = "sleep"
      BY <1>4, <2>4 DEF SensorDue
    <3> QED
      BY <2>1, <2>4, <3>1, TimelyNotDue DEF LastSet, Sending, Before, Interval
  <2> QED
    BY <1>1, <2>2, <2>3, <2>4
<1>5. CASE ReadSensor
  <2>1. /\ pc = "read" /\ pc' \in {"sleep", "env"} /\ now' = now /\ cur' = cur
        /\ (MqttReady' => MqttReady) /\ LastSet(t)' = LastSet(t)
        /\ pc' = "sleep" => Miss("env")
        /\ pc' = "env" => silence' = silence /\ misses' = misses
    BY <1>5 DEF ReadSensor, client, record, MqttReady, LastSet
  <2>2. CASE t = "env" /\ pc' = "sleep"
    <3>1. /\ silence'[t] = silence[t]
          /\ misses'[t] = IF misses[t] < 2 THEN misses[t] + 1 ELSE misses[t]
      BY <2>1, <2>2 DEF Miss, IInv, TypeOK
    <3> QED
      BY <2>1, <2>2, <3>1, TimelyMissed DEF Sending
  <2>3. CASE t = "heartbeatA" \/ pc' = "env"
    <3>1. silence'[t] = silence[t] /\ misses'[t] = misses[t]
      BY <2>1, <2>3 DEF Miss, IInv, TypeOK, Sends
    <3> QED
      BY <1>1, <2>1, <2>3, <3>1, TimelyElsewhere DEF Sending, Before
  <2> QED
    BY <1>1, <2>1, <2>2, <2>3
<1>6. CASE PublishEnvironment
  <2> DEFINE m == EnvMsg([light |-> NormalizeLight(raw), temp |-> measured.temp,
                          humidity |-> measured.humidity])
  <2>1. /\ pc = "env" /\ pc' = "sleep" /\ now' = now /\ cur' = cur
        /\ Publish(m) /\ m.topic = "env" /\ LastSet(t)' = LastSet(t)
    BY <1>6 DEF PublishEnvironment, EnvMsg, LastSet
  <2> HIDE DEF m
  <2>2. aLink' = aLink /\ (MqttReady' => MqttReady)
    BY <2>1, PublishRecords DEF Sends, MqttReady
  <2>3. CASE t = "heartbeatA"
    <3>1. silence'[t] = silence[t] /\ misses'[t] = misses[t]
      BY <2>1, <2>3, PublishRecords DEF Sends
    <3> QED
      BY <1>1, <2>1, <2>2, <2>3, <3>1, TimelyElsewhere DEF Sending, Before
  <2>4. CASE t = "env"
    <3>1. \/ silence'[t] = 0 /\ misses'[t] = 0
          \/ /\ silence'[t] = silence[t]
             /\ misses'[t] = IF misses[t] < 2 THEN misses[t] + 1 ELSE misses[t]
      BY <2>1, <2>4, PublishRecords DEF Sends
    <3>2. pc \in Sending(t) /\ pc' \notin Sending(t)
      BY <2>1, <2>4 DEF Sending
    <3> QED
      BY <2>1, <2>2, <3>1, <3>2, TimelyAgain, TimelyMissed
  <2> QED
    BY <1>1, <2>3, <2>4
<1>7. CASE Sleep
  <2>1. /\ pc = "sleep" /\ pc' = "clock" /\ now' = now /\ cur' = cur
        /\ silence' = silence /\ misses' = misses /\ (MqttReady' => MqttReady)
        /\ LastSet(t)' = LastSet(t)
    BY <1>7 DEF Sleep, client, record, MqttReady, LastSet
  <2> QED
    BY <1>1, <2>1, TimelyElsewhere DEF Sending, Before
<1> QED
  BY <1>2, <1>3, <1>4, <1>5, <1>6, <1>7, TimelyClock DEF Loop

LEMMA InitTimeInv == Init => TimeInv
<1> SUFFICES ASSUME Init PROVE TimeInv
  OBVIOUS
<1>1. Word \in Nat \ {0}
  BY NodeAAssumption
<1>2. InWord /\ PassBounded
  BY <1>1 DEF Init, InWord, PassBounded, LastSet
<1>3. \A t \in Sends : Timely(t)
  BY DEF Init, Timely, Sending, MqttReady
<1> QED
  BY <1>2, <1>3 DEF TimeInv

LEMMA StepTimeInv == IInv /\ TimeInv /\ [Next]_aVars => TimeInv'
<1> SUFFICES ASSUME IInv, TimeInv, [Next]_aVars PROVE TimeInv'
  OBVIOUS
<1>1. /\ now \in 0 .. Word - 1 /\ cur \in 0 .. Word - 1
      /\ sensorLast \in 0 .. Word - 1 /\ heartbeatLast \in 0 .. Word - 1
      /\ Word \in Nat \ {0} /\ MaxPass \in Nat \ {0} /\ MaxPass < Word
  BY Constants DEF TimeInv, InWord, LastSet, Sends
<1>2. InWord'
  <2>1. CASE Tick
    <3>1. now' \in 0 .. Word - 1
      BY <1>1, <2>1, ClockTicks DEF Tick
    <3> QED
      BY <1>1, <2>1, <3>1 DEF Tick, InWord, LastSet, loop
  <2>2. CASE Loop
    BY <1>1, <2>2 DEF Loop, ReadClock, HeartbeatDue, PublishHeartbeat, SensorDue, ReadSensor,
                      PublishEnvironment, Sleep, InWord, LastSet
  <2>3. CASE DnsFound \/ Connected \/ Disconnected \/ Acked \/ Take \/ UNCHANGED aVars
    BY <1>1, <2>3 DEF DnsFound, Connected, Disconnected, Acked, Take, aVars, loop, InWord, LastSet
  <2> QED
    BY <2>1, <2>2, <2>3 DEF Next
<1>3. PassBounded'
  <2>1. CASE Tick
    <3>1. Elapsed(now, cur) < MaxPass /\ cur' = cur /\ now' = (now + 1) % Word
      BY <2>1 DEF Tick, loop
    <3>2. Elapsed(now, cur) \in Nat /\ Elapsed(now', cur) = Elapsed(now, cur) + 1
      BY <1>1, <3>1, ClockTicks, ClockDifference
    <3>3. Elapsed(now', cur') <= MaxPass
      BY <1>1, <3>1, <3>2
    <3> QED
      BY <3>3 DEF PassBounded, Elapsed
  <2>2. CASE ReadClock
    <3>1. Elapsed(now', cur') = 0
      BY <1>1, <2>2, ClockDifference DEF ReadClock
    <3> QED
      BY <1>1, <3>1 DEF PassBounded, Elapsed
  <2>3. CASE pc' = pc /\ now' = now /\ cur' = cur /\ \A t \in Sends : silence'[t] \in {silence[t], 0}
    BY <2>3 DEF TimeInv, PassBounded, Elapsed
  <2>4. CASE pc # "clock" /\ now' = now /\ cur' = cur
    BY <2>4 DEF TimeInv, PassBounded, Elapsed
  <2>5. CASE Loop /\ ~ReadClock
    BY <2>4, <2>5 DEF Loop, HeartbeatDue, PublishHeartbeat, SensorDue, ReadSensor,
                      PublishEnvironment, Sleep
  <2>6. CASE DnsFound \/ Connected \/ Disconnected \/ Acked \/ Take \/ UNCHANGED aVars
    BY <2>3, <2>6 DEF DnsFound, Connected, Disconnected, Acked, Take, aVars, loop, record
  <2> QED
    BY <2>1, <2>2, <2>5, <2>6 DEF Next
<1>4. ASSUME NEW t \in Sends PROVE Timely(t)'
  <2>1. CASE UNCHANGED aVars
    BY <2>1, TimelyElsewhere DEF aVars, loop, record, client, LastSet, MqttReady, TimeInv
  <2> QED
    BY <2>1, CallbackTimely, LoopTimely, TimelyTick DEF Next
<1> QED
  BY <1>2, <1>3, <1>4 DEF TimeInv

\* Nothing but failure silences node A: a topic is silent for longer than its reader
\* waits only if two messages in a row were due and not sent.  The timer that
\* is set before the reading, the shared pass, a slow connection and a clock that
\* comes round cost no more than four passes.
THEOREM SilenceExplained == Spec => []SilenceMeansFailures
<1>1. IInv /\ TimeInv => SilenceMeansFailures
  <2> SUFFICES ASSUME IInv, TimeInv, MqttReady, NEW t \in Sends, misses[t] # 2
               PROVE  silence[t] <= Limit[t]
    BY Constants DEF SilenceMeansFailures, IInv, TypeOK
  <2>1. misses[t] <= 1 /\ Timely(t)
    BY TopicRanges DEF TimeInv
  <2>2. Elapsed(now, cur) <= MaxPass \/ silence[t] = 0
    BY DEF TimeInv, PassBounded
  <2>3. Spent(t) <= MaxPass + Round(t) /\ Round(t) = Interval(t) - 1 + MaxPass
    BY TopicRanges, Constants DEF Spent, Round
  <2>4. silence[t] <= Elapsed(now, cur) + (Spent(t) + Round(t))
    <3>1. Elapsed(cur, LastSet(t)) < Interval(t) => Elapsed(cur, LastSet(t)) <= Round(t)
      BY TopicRanges, Constants DEF Round
    <3> QED
      BY <2>1, <3>1, TopicRanges DEF Timely
  <2> QED
    BY <2>2, <2>3, <2>4, TopicRanges, Constants
<1> QED
  BY <1>1, InitIInv, StepIInv, InitTimeInv, StepTimeInv, PTL DEF Spec
=============================================================================

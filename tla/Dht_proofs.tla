------------------------------ MODULE Dht_proofs ------------------------------
(* Proofs about Dht, for every width, tolerance and size of byte up to 8.   *)
EXTENDS Dht, TLAPS

-----------------------------------------------------------------------------
(* Bytes, their values and the places of their bits.                        *)

LEMMA ByteSizes == ByteBits \in {1, 2, 3, 4, 5, 6, 7, 8}
  BY DhtAssumption

\* The value of a byte of ones, the greatest.
LEMMA BytesHold == Value(Bits) \in {1, 3, 7, 15, 31, 63, 127, 255}
  BY ByteSizes DEF Value, Bit, Bits

LEMMA ValueRange ==
    ASSUME NEW byte \in Bytes
    PROVE  Value(byte) \in 0 .. Value(Bits)
  BY ByteSizes DEF Value, Bit, Bits, Bytes

LEMMA SumRange ==
    ASSUME NEW d, \A k \in 0 .. 3 : d[k] \in Bytes
    PROVE  Sum(d) \in 0 .. Value(Bits)
<1>1. \A k \in 0 .. 3 : Value(d[k]) \in Nat
  BY ValueRange, BytesHold
<1>2. /\ Value(d[0]) \in Nat /\ Value(d[1]) \in Nat
      /\ Value(d[2]) \in Nat /\ Value(d[3]) \in Nat
  BY <1>1
<1> DEFINE total == Value(d[0]) + Value(d[1]) + Value(d[2]) + Value(d[3])
           M == Value(Bits) + 1
<1>3. total \in Nat /\ M \in Nat \ {0} /\ Value(Bits) = M - 1 /\ Sum(d) = total % M
  BY <1>2, BytesHold DEF Sum
<1> HIDE DEF total, M
<1> QED
  BY <1>3

\* The binary digits of a number.
LEMMA Digits ==
    ASSUME NEW n \in 0 .. 255
    PROVE  n = 128 * ((n \div 128) % 2) + 64 * ((n \div 64) % 2)
               + 32 * ((n \div 32) % 2) + 16 * ((n \div 16) % 2)
               + 8 * ((n \div 8) % 2) + 4 * ((n \div 4) % 2)
               + 2 * ((n \div 2) % 2) + ((n \div 1) % 2)
<1>1. /\ n \div 1 = n /\ n \div 4 = (n \div 2) \div 2 /\ n \div 8 = (n \div 4) \div 2
      /\ n \div 16 = (n \div 8) \div 2 /\ n \div 32 = (n \div 16) \div 2
      /\ n \div 64 = (n \div 32) \div 2 /\ n \div 128 = (n \div 64) \div 2
      /\ n \div 128 \in 0 .. 1
  OBVIOUS
<1>2. \A m \in Nat : m = 2 * (m \div 2) + (m % 2)
  OBVIOUS
<1> QED
  BY <1>1, <1>2

\* The check byte has the value it is to have.
LEMMA CheckByteValue ==
    ASSUME NEW n \in 0 .. Value(Bits)
    PROVE  CheckByte(n) \in Bytes /\ Value(CheckByte(n)) = n
<1>1. CheckByte(n) \in Bytes
  BY DEF CheckByte, Bytes
<1>2. /\ Value({0}) = 1 /\ Value({1}) = 2 /\ Value({2}) = 4 /\ Value({3}) = 8
      /\ Value({4}) = 16 /\ Value({5}) = 32 /\ Value({6}) = 64 /\ Value({7}) = 128
  BY DEF Value, Bit
<1>3. n \in 0 .. 255
  BY BytesHold
<1>4. \A b \in 0 .. 7 : Value({b}) \in Nat \ {0} /\ (n \div Value({b})) % 2 \in {0, 1}
  <2> SUFFICES ASSUME NEW b \in 0 .. 7
               PROVE  Value({b}) \in Nat \ {0} /\ (n \div Value({b})) % 2 \in {0, 1}
    OBVIOUS
  <2>1. Value({b}) \in {1, 2, 4, 8, 16, 32, 64, 128}
    BY DEF Value, Bit
  <2> HIDE DEF Value
  <2>2. \A m \in {1, 2, 4, 8, 16, 32, 64, 128} : (n \div m) % 2 \in {0, 1}
    BY <1>3
  <2> QED
    BY <2>1, <2>2
<1>5. \A b \in 0 .. 7 : b \notin Bits => (n \div Value({b})) % 2 = 0
  <2>1. \A b \in 0 .. 7 : b \notin Bits => n < Value({b})
    BY <1>2, ByteSizes DEF Bits, Value, Bit
  <2>2. \A m \in Nat \ {0} : n < m => (n \div m) % 2 = 0
    <3> SUFFICES ASSUME NEW m \in Nat \ {0}, n < m PROVE n \div m = 0
      OBVIOUS
    <3> QED
      BY <1>3
  <2> QED
    BY <1>4, <2>1, <2>2
<1>6. \A b \in 0 .. 7 : Bit(CheckByte(n), b) = (n \div Value({b})) % 2
  <2> TAKE b \in 0 .. 7
  <2>1. CASE b \in Bits
    <3>1. b \in CheckByte(n) <=> (n \div Value({b})) % 2 = 1
      BY <2>1 DEF CheckByte
    <3>2. (n \div Value({b})) % 2 \in {0, 1}
      BY <1>4
    <3> QED
      BY <3>1, <3>2 DEF Bit
  <2>2. CASE b \notin Bits
    BY <1>5, <2>2 DEF CheckByte, Bit
  <2> QED
    BY <2>1, <2>2
<1>7. /\ Bit(CheckByte(n), 0) = (n \div 1) % 2 /\ Bit(CheckByte(n), 1) = (n \div 2) % 2
      /\ Bit(CheckByte(n), 2) = (n \div 4) % 2 /\ Bit(CheckByte(n), 3) = (n \div 8) % 2
      /\ Bit(CheckByte(n), 4) = (n \div 16) % 2 /\ Bit(CheckByte(n), 5) = (n \div 32) % 2
      /\ Bit(CheckByte(n), 6) = (n \div 64) % 2 /\ Bit(CheckByte(n), 7) = (n \div 128) % 2
  BY <1>2, <1>6
<1> QED
  BY <1>1, <1>3, <1>7, Digits DEF Value

\* One bit that is wrong shows in the value of its byte.
LEMMA OneBitShows ==
    ASSUME NEW S \in Bytes, NEW T \in Bytes, NEW wrong \in Bits,
           \A b \in Bits \ {wrong} : b \in S <=> b \in T,
           ~(wrong \in S <=> wrong \in T)
    PROVE  Value(S) # Value(T)
<1>1. \A b \in 0 .. 7 : b # wrong => Bit(S, b) = Bit(T, b)
  BY DEF Bytes, Bit
<1>2. /\ Bit(S, wrong) # Bit(T, wrong) /\ wrong \in 0 .. 7
      /\ \A b \in 0 .. 7 : Bit(S, b) \in 0 .. 1 /\ Bit(T, b) \in 0 .. 1
  BY ByteSizes DEF Bit, Bits
<1> QED
  BY <1>1, <1>2 DEF Value

\* Two numbers less than a byte apart differ as bytes.
LEMMA CloseNumbers ==
    ASSUME NEW x \in Nat, NEW y \in Nat, x # y,
           x - y <= Value(Bits), y - x <= Value(Bits)
    PROVE  x % (Value(Bits) + 1) # y % (Value(Bits) + 1)
<1> DEFINE M == Value(Bits) + 1
<1>1. M \in {2, 4, 8, 16, 32, 64, 128, 256} /\ x - y < M /\ y - x < M
  BY BytesHold
<1> HIDE DEF M
<1>2. x % M # y % M
  BY <1>1
<1> QED
  BY <1>2 DEF M

-----------------------------------------------------------------------------
(* The place of a bit of the reading: its byte and the bit of that.         *)
LEMMA PlaceRange ==
    ASSUME NEW k \in 0 .. 5 * ByteBits - 1
    PROVE  /\ Place(k) \in Bits /\ k \div ByteBits \in 0 .. 4
           /\ k < 4 * ByteBits <=> k \div ByteBits \in 0 .. 3
  BY ByteSizes DEF Place, Bits

LEMMA PlaceUnique ==
    ASSUME NEW k \in 0 .. 5 * ByteBits - 1, NEW l \in 0 .. 5 * ByteBits - 1,
           k \div ByteBits = l \div ByteBits, Place(k) = Place(l)
    PROVE  k = l
  BY ByteSizes DEF Place

LEMMA EveryPlace ==
    ASSUME NEW c \in 0 .. 4, NEW b \in Bits
    PROVE  \E k \in 0 .. 5 * ByteBits - 1 : k \div ByteBits = c /\ Place(k) = b
<1> DEFINE k == c * ByteBits + (ByteBits - 1 - b)
<1>1. k \in 0 .. 5 * ByteBits - 1 /\ k \div ByteBits = c /\ Place(k) = b
  BY ByteSizes DEF Place, Bits
<1> QED
  BY <1>1

-----------------------------------------------------------------------------
(* The inductive invariant.                                                *)

\* Where the dialogue is.
Progress ==
    /\ pc = "answer" => edges \in 0 .. 2 /\ i = 0
    /\ pc \in {"rise", "sleep"} => edges = 3 /\ i < 5 * ByteBits
    /\ pc = "fall" => edges = 3 /\ i > 0

\* What each wait adds to the time that interrupts are off.
BitTime == SampleAfter + 2 * (70 + Late)
SpentSoFar ==
    /\ pc = "answer" => spent <= 20030 + edges * (100 + Late)
    /\ pc = "rise" => spent <= 20030 + 3 * (100 + Late) + i * BitTime
    /\ pc = "sleep" => spent + (70 + Late) <= 20030 + 3 * (100 + Late) + i * BitTime + BitTime
    /\ pc = "fall" => spent + (70 + Late) <= 20030 + 3 * (100 + Late) + i * BitTime
    /\ BlackoutBounded

\* The number of the edge the board waits for, or will when it has slept.
Awaited ==
    CASE pc = "answer"          -> edges
      [] pc \in {"rise", "sleep"} -> 2 * i + (IF pc = "rise" THEN 3 ELSE 4)
      [] pc \in {"fall", "idle"}  -> 2 * i + 2

\* Edges go unseen two by two, and only where a pulse was out of tolerance.
EdgesSeen ==
    pc # "idle" =>
        /\ coming = Awaited \/ coming >= Awaited + 2
        /\ coming # Awaited => faults > 0
        /\ pc = "rise" => left >= 0
        /\ faults = 0 =>
              /\ pc = "answer" => left >= 0 \/ (edges = 0 /\ left \in Answer[1])
              /\ pc \in {"sleep", "fall"} => \A low \in Low : left + low > 0

\* Bit k as it was received, and whether that is as it was sent.
Got(k) == Place(k) \in data[k \div ByteBits]
Wrong(k) == ~(Got(k) <=> Place(k) \in Sent(k))

\* The line shows the bit that is sent.
Shows == (SentBit(i) = 1 => left > 0) /\ (SentBit(i) = 0 => left < 0)

\* As long as no edge went unseen, a bit is received wrong only where a pulse was
\* out of tolerance; and those that are to come are still 0.
BitsRight ==
    pc # "idle" =>
        /\ \A k \in i .. 5 * ByteBits - 1 : ~Got(k)
        /\ coming = Awaited =>
              /\ \A k \in 0 .. i - 1 : Wrong(k) => faults > 0
              /\ faults <= 1 => \A k, l \in 0 .. i - 1 : Wrong(k) /\ Wrong(l) => k = l
              /\ pc = "sleep" /\ ~Shows =>
                    /\ faults > 0
                    /\ faults <= 1 => \A k \in 0 .. i - 1 : ~Wrong(k)

IInv == TypeOK /\ Progress /\ SpentSoFar /\ EdgesSeen /\ BitsRight

-----------------------------------------------------------------------------
LEMMA InitIInv == Init => IInv
<1> SUFFICES ASSUME Init PROVE IInv
  OBVIOUS
<1>1. MaxFaults \in Nat /\ Late \in Nat /\ ByteBits \in 1 .. 8
  BY DhtAssumption
<1>2. TypeOK
  BY <1>1 DEF Init, TypeOK, Bytes, LastEdge
<1>3. BlackoutBounded
  BY ByteSizes, <1>1 DEF Init, BlackoutBounded, SampleAfter
<1> QED
  BY <1>2, <1>3 DEF Init, IInv, Progress, SpentSoFar, EdgesSeen, BitsRight

\* A wait that returns true takes no longer than its time-out and one late look,
\* and comes late only for an edge that was past when it began.
LEMMA Waits ==
    ASSUME TypeOK, NEW timeout \in Nat, NEW sleep \in Nat,
           NEW ago \in Ago, WaitForLevel(timeout, ago, sleep)
    PROVE  /\ ago \in Nat /\ spent' \in Nat /\ coming <= LastEdge
           /\ spent' <= spent + (timeout + Late) + sleep
           /\ ago <= Late \/ ago = -left
  BY DhtAssumption DEF TypeOK, Ago, WaitForLevel

LEMMA Edges ==
    /\ LastEdge \in Nat /\ LastEdge > 2 /\ LastEdge % 2 = 1
    /\ MaxFaults \in Nat /\ Late \in Nat /\ ByteBits \in 1 .. 8
    /\ BitTime \in Nat /\ SampleAfter = 30
  BY DhtAssumption DEF LastEdge, BitTime, SampleAfter

\* The proper widths of the pulse after each edge, by the number of the edge.
LEMMA ProperWidths ==
    ASSUME NEW k \in 0 .. LastEdge
    PROVE  /\ k < 2 => Proper(k) = Answer[k + 2]
           /\ k >= 2 /\ k % 2 = 0 => Proper(k) = Low
           /\ \A j \in Nat : k = 2 * j + 3 => Proper(k) = High[SentBit(j)]
           /\ Proper(k) \subseteq Nat
<1>1. SentBit((k - 3) \div 2) \in 0 .. 1
  BY DEF SentBit, Bit
<1>2. k < 2 => Proper(k) = Answer[k + 2]
  BY DEF Proper
<1>3. k >= 2 /\ k % 2 = 0 => Proper(k) = Low
  BY DEF Proper
<1>4. k >= 2 /\ k % 2 = 1 => Proper(k) = High[SentBit((k - 3) \div 2)]
  BY DEF Proper
<1>5. \A j \in Nat : k = 2 * j + 3 => k >= 2 /\ k % 2 = 1 /\ (k - 3) \div 2 = j
  OBVIOUS
<1>6. k % 2 = 0 \/ k % 2 = 1
  OBVIOUS
<1>7. /\ k < 2 => k + 2 \in 1 .. 3
      /\ \A b \in 0 .. 1 : High[b] \subseteq Nat
      /\ \A b \in 2 .. 3 : Answer[b] \subseteq Nat
      /\ Low \subseteq Nat
  BY Edges, DhtAssumption, WidthAssumption
<1>8. Proper(k) \subseteq Nat
  <2>1. CASE k < 2
    <3>1. k + 2 \in 2 .. 3
      BY <2>1
    <3> QED
      BY <1>2, <1>7, <2>1, <3>1
  <2>2. CASE k >= 2
    BY <1>1, <1>3, <1>4, <1>6, <1>7, <2>2
  <2> QED
    BY <2>1, <2>2
<1> QED
  BY <1>2, <1>3, <1>4, <1>5, <1>8

\* A pulse is proper or a fault, and after the last edge comes no other.
LEMMA PulseWidths ==
    ASSUME NEW k \in 0 .. LastEdge, NEW p \in Pulses(k)
    PROVE  /\ p[1] \in Nat /\ p[2] \in 0 .. 1
           /\ k < LastEdge /\ p[2] = 0 => p[1] \in Proper(k)
           /\ k % 2 = 0 => k < LastEdge
<1>1. k % 2 = 0 => k # LastEdge
  BY Edges
<1>2. CASE k = LastEdge
  <2>1. p = <<SampleAfter + Late + 1, 0>>
    BY <1>2 DEF Pulses
  <2> QED
    BY <1>1, <1>2, <2>1, Edges
<1>3. CASE k # LastEdge
  <2>1. p \in (Proper(k) \X {0}) \cup (Faulty \X {1})
    BY <1>3 DEF Pulses
  <2>2. Proper(k) \subseteq Nat /\ Faulty \subseteq Nat
    BY ProperWidths, DhtAssumption
  <2>3. p[1] \in Nat /\ p[2] \in 0 .. 1 /\ (p[2] = 0 => p[1] \in Proper(k))
    <3>1. CASE p \in Proper(k) \X {0}
      <4>1. PICK w \in Proper(k) : p = <<w, 0>>
        BY <3>1
      <4> QED
        BY <2>2, <4>1
    <3>2. CASE p \in Faulty \X {1}
      <4>1. PICK w \in Faulty : p = <<w, 1>>
        BY <3>2
      <4> QED
        BY <2>2, <4>1
    <3> QED
      BY <2>1, <3>1, <3>2
  <2> QED
    BY <1>1, <1>3, <2>3, Edges
<1> QED
  BY <1>2, <1>3

\* An edge that is seen: the pulse it begins, in tolerance or not, lasts until then.
LEMMA Seen ==
    ASSUME TypeOK, coming <= LastEdge, NEW ago \in Nat, NEW sleep \in Nat, Pulse(ago, sleep)
    PROVE  /\ left' \in Int /\ (sleep = 0 => left' >= 0)
           /\ coming' = coming + 1 /\ coming' \in 0 .. LastEdge + 1
           /\ faults' \in 0 .. MaxFaults /\ faults \in 0 .. MaxFaults
           /\ faults' = faults \/ faults' = faults + 1
           /\ coming < LastEdge /\ faults' = faults =>
                 \E w \in Proper(coming) : w >= ago /\ left' = w - ago - sleep
<1>1. coming \in 0 .. LastEdge /\ faults \in 0 .. MaxFaults
  BY Edges DEF TypeOK
<1>2. PICK p \in Pulses(coming) :
        /\ p[1] >= ago /\ left' = p[1] - ago - sleep /\ coming' = coming + 1
        /\ faults + p[2] <= MaxFaults /\ faults' = faults + p[2]
  BY DEF Pulse
<1>3. p[1] \in Nat /\ p[2] \in 0 .. 1
  BY <1>1, PulseWidths
<1>4. coming < LastEdge /\ p[2] = 0 => p[1] \in Proper(coming)
  BY <1>1, PulseWidths
<1> QED
  BY <1>1, <1>2, <1>3, <1>4, Edges

\* A count of bits times the time for one.
LEMMA Products ==
    ASSUME NEW k \in Nat, NEW n \in Nat, k < n
    PROVE  /\ BitTime \in Nat /\ k * BitTime \in Nat /\ n * BitTime \in Nat
           /\ (k + 1) * BitTime = k * BitTime + BitTime
           /\ (k + 1) * BitTime <= n * BitTime
<1>1. BitTime \in Nat
  BY DhtAssumption DEF BitTime, SampleAfter
<1>2. \A a, b, t \in Nat : a <= b => a * t <= b * t
  OBVIOUS
<1> QED
  BY <1>1, <1>2

LEMMA Bound ==
    BlackoutBounded <=> spent <= 20030 + 3 * (100 + Late) + (5 * ByteBits) * BitTime
  BY DEF BlackoutBounded, BitTime

LEMMA StartKeeps == ASSUME IInv, Start PROVE IInv'
<1> USE DEF Start
<1>1. MaxFaults \in Nat /\ Late \in Nat /\ ByteBits \in 1 .. 8
  BY DhtAssumption
<1>2. left' \in Int /\ faults' \in 0 .. MaxFaults
  BY <1>1, DhtAssumption
<1>3. TypeOK'
  BY <1>1, <1>2, Edges DEF IInv, TypeOK, Bytes
<1>4. SpentSoFar'
  BY ByteSizes, <1>1 DEF SpentSoFar, BlackoutBounded, SampleAfter
<1>5. EdgesSeen'
  BY <1>1, DhtAssumption DEF EdgesSeen, Awaited
<1>6. BitsRight'
  <2>1. \A k \in 0 .. 5 * ByteBits - 1 : ~Got(k)'
    BY PlaceRange DEF Got
  <2> QED
    BY <2>1, <1>1 DEF BitsRight, Awaited
<1> QED
  BY <1>3, <1>4, <1>5, <1>6 DEF IInv, Progress

LEMMA AnswerKeeps == ASSUME IInv, AnswerEdge PROVE IInv'
<1> USE DEF IInv
<1>1. MaxFaults \in Nat /\ Late \in Nat /\ ByteBits \in 1 .. 8
  BY DhtAssumption
<1>2. /\ pc = "answer" /\ edges \in 0 .. 2 /\ i = 0 /\ i' = i /\ data' = data
      /\ edges' = edges + 1 /\ pc' = IF edges = 2 THEN "rise" ELSE pc
      /\ climate' = climate /\ measured' = measured
  BY DEF AnswerEdge, Progress
<1>3. PICK ago \in Ago : WaitForLevel(100, ago, 0) /\ Pulse(ago, 0)
  BY DEF AnswerEdge
<1>4. /\ ago \in Nat /\ coming <= LastEdge /\ spent' \in Nat
      /\ spent' <= spent + (100 + Late) + 0
  BY <1>3, Waits
<1>5. /\ left' \in Int /\ left' >= 0 /\ coming' = coming + 1 /\ coming' \in 0 .. LastEdge + 1
      /\ faults' \in 0 .. MaxFaults /\ faults \in 0 .. MaxFaults
      /\ faults' = faults \/ faults' = faults + 1
  <2>1. Pulse(ago, 0) /\ 0 \in Nat
    BY <1>3
  <2>2. left' \in Int /\ left' >= 0
    BY <1>4, <2>1, Seen
  <2>3. /\ coming' = coming + 1 /\ coming' \in 0 .. LastEdge + 1
        /\ faults' \in 0 .. MaxFaults /\ faults \in 0 .. MaxFaults
        /\ faults' = faults \/ faults' = faults + 1
    BY <1>4, <2>1, Seen
  <2> QED
    BY <2>2, <2>3
<1>6. TypeOK'
  BY <1>2, <1>4, <1>5 DEF TypeOK
<1>7. Progress'
  BY <1>1, <1>2 DEF Progress
<1>8. SpentSoFar'
  <2>1. spent' <= 20030 + edges' * (100 + Late)
    BY <1>1, <1>2, <1>4 DEF SpentSoFar, TypeOK
  <2>2. spent' <= 20030 + 3 * (100 + Late)
    BY <1>1, <1>2, <2>1, <1>4
  <2>3. BlackoutBounded'
    BY <1>1, <1>4, <2>2, ByteSizes DEF BlackoutBounded, SampleAfter
  <2>4. i' * BitTime = 0
    BY <1>1, <1>2 DEF BitTime, SampleAfter
  <2> QED
    BY <1>1, <1>2, <1>4, <2>1, <2>2, <2>3, <2>4 DEF SpentSoFar
<1>9. Awaited = edges /\ Awaited' = edges + 1 /\ coming \in Int
  BY <1>2 DEF Awaited, TypeOK
<1>10. EdgesSeen'
  BY <1>1, <1>2, <1>5, <1>9 DEF EdgesSeen
<1>11. BitsRight'
  <2>1. \A k : Got(k)' <=> Got(k)
    BY <1>2 DEF Got, Place
  <2> QED
    BY <1>1, <1>2, <2>1 DEF BitsRight
<1> QED
  BY <1>6, <1>7, <1>8, <1>10, <1>11

\* The rising edge of a bit: what the line then shows is the bit that is sent,
\* unless the pulse is out of tolerance.
LEMMA RiseKeeps == ASSUME IInv, Rise PROVE IInv'
<1> USE DEF IInv
<1>1. MaxFaults \in Nat /\ Late \in Nat /\ ByteBits \in 1 .. 8 /\ BitTime \in Nat
      /\ SampleAfter = 30
  BY Edges
<1>2. /\ pc = "rise" /\ pc' = "sleep" /\ i \in 0 .. 5 * ByteBits - 1 /\ i' = i
      /\ edges = 3 /\ edges' = edges /\ climate' = climate /\ measured' = measured /\ data' = data
      /\ left >= 0 /\ left \in Int
  BY <1>1 DEF Rise, Progress, TypeOK, EdgesSeen
<1>3. PICK ago \in Ago : WaitForLevel(70, ago, SampleAfter) /\ Pulse(ago, SampleAfter)
  BY DEF Rise
<1>4. /\ ago \in Nat /\ ago <= Late /\ spent' \in Nat /\ coming <= LastEdge
      /\ spent' <= spent + (70 + Late) + SampleAfter
  <2>1. SampleAfter \in Nat
    BY <1>1
  <2> QED
    BY <1>1, <1>2, <1>3, <2>1, Waits
<1>5. /\ left' \in Int /\ coming' = coming + 1 /\ coming' \in 0 .. LastEdge + 1
      /\ faults' \in 0 .. MaxFaults /\ faults \in 0 .. MaxFaults
      /\ faults' = faults \/ faults' = faults + 1
      /\ coming < LastEdge /\ faults' = faults =>
            \E w \in Proper(coming) : left' = w - ago - SampleAfter
  <2>1. Pulse(ago, SampleAfter) /\ SampleAfter \in Nat
    BY <1>1, <1>3
  <2> QED
    BY <1>4, <2>1, Seen
<1>6. TypeOK' /\ Progress'
  BY <1>2, <1>4, <1>5 DEF TypeOK, Progress
<1>7. SpentSoFar'
  <2>1. /\ i * BitTime \in Nat /\ i * BitTime + BitTime <= (5 * ByteBits) * BitTime
        /\ (5 * ByteBits) * BitTime \in Nat
    <3>1. 5 * ByteBits \in Nat /\ i \in Nat /\ i < 5 * ByteBits
      BY <1>1, <1>2
    <3> QED
      BY <3>1, Products
  <2>2. spent' + (70 + Late) <= 20030 + 3 * (100 + Late) + i * BitTime + BitTime
    <3>1. BitTime = SampleAfter + (70 + Late) + (70 + Late)
      BY <1>1 DEF BitTime
    <3>2. spent \in Nat /\ spent <= 20030 + 3 * (100 + Late) + i * BitTime
      BY <1>2 DEF SpentSoFar, TypeOK
    <3> QED
      BY <1>1, <1>4, <2>1, <3>1, <3>2
  <2>3. spent' <= 20030 + 3 * (100 + Late) + (5 * ByteBits) * BitTime
    BY <1>1, <1>4, <2>1, <2>2
  <2> QED
    BY <1>2, <2>2, <2>3, Bound DEF SpentSoFar, BlackoutBounded, BitTime
<1>8. /\ Awaited = 2 * i + 3 /\ Awaited' = 2 * i + 4 /\ coming \in Int
      /\ coming = Awaited => coming \in 0 .. LastEdge /\ coming < LastEdge
  BY <1>1, <1>2, DhtAssumption DEF Awaited, TypeOK, LastEdge
<1>9. coming = Awaited /\ faults' = faults =>
        \E w \in High[SentBit(i)] : left' = w - ago - SampleAfter
  <2> SUFFICES ASSUME coming = Awaited, faults' = faults
               PROVE  \E w \in High[SentBit(i)] : left' = w - ago - SampleAfter
    OBVIOUS
  <2>1. Proper(coming) = High[SentBit(i)]
    BY <1>2, <1>8, ProperWidths
  <2> QED
    BY <1>5, <1>8, <2>1
<1>10. SentBit(i) \in 0 .. 1 /\ High[SentBit(i)] \in SUBSET Nat
  BY DhtAssumption DEF SentBit, Bit
<1>11. EdgesSeen'
  <2>1. ASSUME faults' = 0, NEW low \in Low PROVE left' + low > 0
    <3>1. faults = 0 /\ coming = Awaited
      BY <1>2, <1>5, <2>1 DEF EdgesSeen
    <3>2. PICK w \in High[SentBit(i)] : left' = w - ago - SampleAfter
      BY <1>5, <1>9, <2>1, <3>1
    <3>3. w \in Nat /\ low \in Nat /\ w + low > SampleAfter + Late
      BY <1>10, DhtAssumption, WidthAssumption
    <3> QED
      BY <1>1, <1>4, <3>2, <3>3
  <2>2. (coming' = Awaited' \/ coming' >= Awaited' + 2) /\ (coming' # Awaited' => faults' > 0)
    BY <1>2, <1>5, <1>8 DEF EdgesSeen
  <2> QED
    BY <1>2, <2>1, <2>2 DEF EdgesSeen
<1>12. \A k : (Got(k)' <=> Got(k)) /\ (Wrong(k)' <=> Wrong(k)) /\ SentBit(k)' = SentBit(k)
  BY <1>2 DEF Got, Wrong, SentBit, Place, Sent, Sum, CheckByte
<1>13. coming = Awaited /\ faults' = faults => Shows'
  <2> SUFFICES ASSUME coming = Awaited, faults' = faults
               PROVE  (SentBit(i) = 1 => left' > 0) /\ (SentBit(i) = 0 => left' < 0)
    BY <1>2, <1>12 DEF Shows
  <2>1. PICK w \in High[SentBit(i)] : left' = w - ago - SampleAfter
    BY <1>9
  <2>2. w \in Nat
    BY <1>10
  <2>3. SentBit(i) = 0 => w < SampleAfter
    BY <2>1, WidthAssumption
  <2>4. SentBit(i) = 1 => w > SampleAfter + Late
    BY <2>1, WidthAssumption
  <2> QED
    BY <1>1, <1>4, <2>1, <2>2, <2>3, <2>4
<1>14. BitsRight'
  <2>1. coming' = Awaited' => coming = Awaited
    BY <1>2, <1>5, <1>8
  <2>2. \A k \in i' .. 5 * ByteBits - 1 : ~Got(k)'
    BY <1>2, <1>12 DEF BitsRight
  <2>3. ASSUME coming = Awaited
        PROVE  /\ \A k \in 0 .. i' - 1 : Wrong(k)' => faults' > 0
               /\ faults' <= 1 => \A k, l \in 0 .. i' - 1 : Wrong(k)' /\ Wrong(l)' => k = l
    <3>1. /\ \A k \in 0 .. i - 1 : Wrong(k) => faults > 0
          /\ faults <= 1 => \A k, l \in 0 .. i - 1 : Wrong(k) /\ Wrong(l) => k = l
      BY <1>2, <2>3 DEF BitsRight
    <3>2. faults' >= faults
      BY <1>5
    <3> QED
      BY <1>1, <1>2, <1>5, <1>12, <3>1, <3>2
  <2>4. ASSUME coming = Awaited, ~Shows'
        PROVE  /\ faults' > 0
               /\ faults' <= 1 => \A k \in 0 .. i' - 1 : ~Wrong(k)'
    <3>1. faults' = faults + 1
      BY <1>5, <1>13, <2>4
    <3>2. faults = 0 => \A k \in 0 .. i - 1 : ~Wrong(k)
      BY <1>2, <2>4 DEF BitsRight
    <3> QED
      BY <1>1, <1>2, <1>5, <1>12, <3>1, <3>2
  <2> QED
    BY <2>1, <2>2, <2>3, <2>4 DEF BitsRight
<1> QED
  BY <1>6, <1>7, <1>11, <1>14

\* The look at the line: it takes the bit that the line shows, and touches no other.
LEMMA SampleKeeps == ASSUME IInv, Sample PROVE IInv'
<1> USE DEF IInv
<1>1. MaxFaults \in Nat /\ Late \in Nat /\ ByteBits \in 1 .. 8 /\ BitTime \in Nat
  BY Edges
<1>2. /\ pc = "sleep" /\ pc' = "fall" /\ i \in 0 .. 5 * ByteBits - 1 /\ i' = i + 1
      /\ edges = 3 /\ edges' = edges /\ climate' = climate /\ measured' = measured
      /\ coming' = coming /\ left' = left /\ faults' = faults /\ spent' = spent
  BY <1>1 DEF Sample, Progress, TypeOK
<1>3. PICK bit \in 0 .. 1 :
        /\ left > 0 => bit = 1
        /\ left < 0 => bit = 0
        /\ data' = IF bit = 0 THEN data
                   ELSE [data EXCEPT ![i \div ByteBits] = @ \cup {Place(i)}]
  BY DEF Sample
<1>4. i \div ByteBits \in 0 .. 4 /\ Place(i) \in Bits /\ data \in [0 .. 4 -> Bytes]
  BY <1>2, PlaceRange DEF TypeOK
<1>5. TypeOK' /\ Progress'
  <2>1. data' \in [0 .. 4 -> Bytes]
    BY <1>3, <1>4 DEF Bytes
  <2> QED
    BY <1>1, <1>2, <2>1 DEF TypeOK, Progress
<1>6. SpentSoFar'
  <2>1. i' * BitTime = i * BitTime + BitTime /\ i * BitTime \in Nat
    <3>1. 5 * ByteBits \in Nat /\ i \in Nat /\ i < 5 * ByteBits
      BY <1>1, <1>2
    <3> QED
      BY <1>2, <3>1, Products
  <2>2. spent + (70 + Late) <= 20030 + 3 * (100 + Late) + i * BitTime + BitTime
    BY <1>2 DEF SpentSoFar
  <2> QED
    BY <1>1, <1>2, <2>1, <2>2 DEF SpentSoFar, BlackoutBounded, TypeOK
<1>7. Awaited = 2 * i + 4 /\ Awaited' = Awaited
  BY <1>2 DEF Awaited
<1>8. EdgesSeen'
  BY <1>2, <1>7 DEF EdgesSeen
<1>9. \A k \in 0 .. 5 * ByteBits - 1 : k # i => (Got(k)' <=> Got(k))
  <2> SUFFICES ASSUME NEW k \in 0 .. 5 * ByteBits - 1, k # i PROVE Got(k)' <=> Got(k)
    OBVIOUS
  <2>1. k \div ByteBits = i \div ByteBits => Place(k) # Place(i)
    BY <1>2, PlaceUnique
  <2>2. k \div ByteBits \in 0 .. 4 /\ Place(k)' = Place(k)
    BY PlaceRange DEF Place
  <2> QED
    BY <1>3, <1>4, <2>1, <2>2 DEF Got
<1>10. Place(i) \in data'[i \div ByteBits] <=> bit = 1
  <2>1. ~Got(i)
    BY <1>1, <1>2 DEF BitsRight
  <2> QED
    BY <1>3, <1>4, <2>1 DEF Got
<1>11. Shows => (Place(i) \in data'[i \div ByteBits] <=> Place(i) \in Sent(i))
  BY <1>3, <1>10 DEF Shows, SentBit, Bit
<1>12. \A k \in 0 .. 5 * ByteBits - 1 :
         Wrong(k)' <=> IF k = i THEN ~(Place(i) \in data'[i \div ByteBits]
                                         <=> Place(i) \in Sent(i))
                       ELSE Wrong(k)
  <2>1. \A k : Place(k)' = Place(k) /\ Sent(k)' = Sent(k)
    BY <1>2 DEF Place, Sent, Sum, CheckByte
  <2> QED
    BY <1>9, <2>1 DEF Wrong, Got
<1>13. BitsRight'
  <2>1. 0 .. i' - 1 = (0 .. i - 1) \cup {i} /\ 0 .. i' - 1 \subseteq 0 .. 5 * ByteBits - 1
    BY <1>1, <1>2
  <2>2. \A k \in i' .. 5 * ByteBits - 1 : ~Got(k)'
    BY <1>1, <1>2, <1>9 DEF BitsRight
  <2>3. ASSUME coming = Awaited
        PROVE  /\ \A k \in 0 .. i' - 1 : Wrong(k)' => faults > 0
               /\ faults <= 1 => \A k, l \in 0 .. i' - 1 : Wrong(k)' /\ Wrong(l)' => k = l
    <3>1. CASE Shows
      <4>1. \A k : k = i => ~Wrong(k)'
        BY <1>2, <1>11, <1>12, <3>1
      <4> QED
        BY <1>2, <1>12, <2>1, <2>3, <4>1 DEF BitsRight
    <3>2. CASE ~Shows
      <4>1. faults > 0 /\ (faults <= 1 => \A k \in 0 .. i - 1 : ~Wrong(k))
        BY <1>2, <2>3, <3>2 DEF BitsRight
      <4> QED
        BY <1>2, <1>12, <2>1, <4>1
    <3> QED
      BY <3>1, <3>2
  <2> QED
    BY <1>2, <1>7, <2>2, <2>3 DEF BitsRight
<1> QED
  BY <1>5, <1>6, <1>8, <1>13

LEMMA BitEndKeeps == ASSUME IInv, BitEnd PROVE IInv'
<1> USE DEF IInv
<1>1. MaxFaults \in Nat /\ Late \in Nat /\ ByteBits \in 1 .. 8 /\ BitTime \in Nat
  BY Edges
<1>2. /\ pc = "fall" /\ pc' = "rise" /\ i \in 1 .. 5 * ByteBits - 1 /\ i' = i
      /\ edges = 3 /\ edges' = edges /\ climate' = climate /\ measured' = measured /\ data' = data
  BY <1>1 DEF BitEnd, Progress, TypeOK
<1>3. PICK ago \in Ago : WaitForLevel(70, ago, 0) /\ Pulse(ago, 0)
  BY DEF BitEnd
<1>4. /\ ago \in Nat /\ coming <= LastEdge
      /\ spent' \in Nat /\ spent' <= spent + (70 + Late) + 0
  BY <1>3, Waits
<1>5. /\ left' \in Int /\ left' >= 0 /\ coming' = coming + 1 /\ coming' \in 0 .. LastEdge + 1
      /\ faults' \in 0 .. MaxFaults /\ faults \in 0 .. MaxFaults
      /\ faults' = faults \/ faults' = faults + 1
  <2>1. Pulse(ago, 0) /\ 0 \in Nat
    BY <1>3
  <2>2. left' \in Int /\ left' >= 0
    BY <1>4, <2>1, Seen
  <2>3. /\ coming' = coming + 1 /\ coming' \in 0 .. LastEdge + 1
        /\ faults' \in 0 .. MaxFaults /\ faults \in 0 .. MaxFaults
        /\ faults' = faults \/ faults' = faults + 1
    BY <1>4, <2>1, Seen
  <2> QED
    BY <2>2, <2>3
<1>6. TypeOK' /\ Progress'
  <2>1. TypeOK'
    BY <1>2, <1>4, <1>5 DEF TypeOK
  <2>2. Progress'
    BY <1>1, <1>2 DEF Progress
  <2> QED
    BY <2>1, <2>2
<1>7. SpentSoFar'
  <2>1. i * BitTime \in Nat /\ spent \in Nat
    BY <1>1, <1>2 DEF TypeOK
  <2>2. spent' <= 20030 + 3 * (100 + Late) + i' * BitTime
    BY <1>1, <1>2, <1>4, <2>1 DEF SpentSoFar
  <2>3. i' * BitTime <= (5 * ByteBits) * BitTime /\ (5 * ByteBits) * BitTime \in Nat
    <3>1. 5 * ByteBits \in Nat /\ i \in Nat /\ i < 5 * ByteBits
      BY <1>1, <1>2
    <3>2. (i + 1) * BitTime = i * BitTime + BitTime
          /\ (i + 1) * BitTime <= (5 * ByteBits) * BitTime
          /\ (5 * ByteBits) * BitTime \in Nat
      BY <3>1, Products
    <3> QED
      BY <1>1, <1>2, <2>1, <3>2
  <2>4. spent' <= 20030 + 3 * (100 + Late) + (5 * ByteBits) * BitTime
    BY <1>1, <1>2, <1>4, <2>1, <2>2, <2>3
  <2>5. BlackoutBounded'
    BY <2>4 DEF BlackoutBounded, BitTime
  <2> QED
    BY <1>2, <2>2, <2>5 DEF SpentSoFar
<1>8. Awaited = 2 * i + 2 /\ Awaited' = Awaited + 1 /\ coming \in Int
  BY <1>2 DEF Awaited, TypeOK
<1>9. EdgesSeen'
  BY <1>2, <1>5, <1>8 DEF EdgesSeen
<1>10. BitsRight'
  <2>1. \A k : (Got(k)' <=> Got(k)) /\ (Wrong(k)' <=> Wrong(k))
    BY <1>2 DEF Got, Wrong, Place, Sent, Sum, CheckByte
  <2>2. faults' >= faults /\ (faults' <= 1 => faults <= 1)
    BY <1>1, <1>5
  <2>3. coming' = Awaited' => coming = Awaited
    BY <1>5, <1>8
  <2>4. coming = Awaited => \A k \in 0 .. i' - 1 : Wrong(k)' => faults' > 0
    BY <1>1, <1>2, <1>5, <2>1 DEF BitsRight
  <2> QED
    BY <1>2, <2>1, <2>2, <2>3, <2>4 DEF BitsRight
<1> QED
  BY <1>6, <1>7, <1>9, <1>10

\* Two edges go unseen only if one of the two pulses is out of tolerance.
LEMMA UnseenKeeps == ASSUME IInv, Unseen PROVE IInv'
<1> USE DEF IInv
<1>1. MaxFaults \in Nat /\ Late \in Nat /\ ByteBits \in 1 .. 8
      /\ LastEdge \in Nat /\ LastEdge % 2 = 1
  BY Edges
<1>2. /\ pc # "idle" /\ coming \in 0 .. LastEdge - 1 /\ coming' = coming + 2
      /\ coming + 1 \in 0 .. LastEdge /\ faults \in 0 .. MaxFaults /\ left \in Int
      /\ pc' = pc /\ i' = i /\ edges' = edges /\ climate' = climate /\ measured' = measured
      /\ data' = data /\ spent' = spent
  BY <1>1 DEF Unseen, TypeOK
<1>3. PICK p \in Pulses(coming), q \in Pulses(coming + 1) :
        /\ Hidden(p[1]) /\ left' = left + p[1] + q[1]
        /\ faults + p[2] + q[2] <= MaxFaults /\ faults' = faults + p[2] + q[2]
  BY DEF Unseen
<1>4. /\ p[1] \in Nat /\ p[2] \in 0 .. 1
      /\ p[2] = 0 => p[1] \in Proper(coming)
  <2>1. coming \in 0 .. LastEdge /\ coming < LastEdge
    BY <1>1, <1>2
  <2> QED
    BY <2>1, PulseWidths
<1>5. q[1] \in Nat /\ q[2] \in 0 .. 1
  BY <1>2, PulseWidths
<1>6. TypeOK' /\ Progress' /\ SpentSoFar'
  <2>1. TypeOK'
    BY <1>1, <1>2, <1>3, <1>4, <1>5 DEF TypeOK
  <2>2. Progress'
    BY <1>2 DEF Progress
  <2>3. SpentSoFar'
    BY <1>2 DEF SpentSoFar, BlackoutBounded
  <2> QED
    BY <2>1, <2>2, <2>3
<1>7. Awaited' = Awaited /\ Awaited \in Nat
  <2>1. pc \in {"answer", "rise", "sleep", "fall"} /\ i \in Nat /\ edges \in Nat
    BY <1>1, <1>2 DEF TypeOK
  <2> QED
    BY <1>2, <2>1 DEF Awaited
<1>8. faults' > 0
  <2> SUFFICES ASSUME faults = 0, p[2] = 0 PROVE FALSE
    BY <1>2, <1>3, <1>4, <1>5
  <2>1. coming = Awaited /\ p[1] \in Proper(coming) /\ coming \in 0 .. LastEdge
    BY <1>1, <1>2, <1>4 DEF EdgesSeen
  <2>2. CASE pc = "answer"
    <3>1. coming = edges /\ edges \in 0 .. 2
      BY <2>1, <2>2 DEF Awaited, Progress
    <3>2. p[1] \in Answer[2] \cup Answer[3] \cup Low /\ (edges = 0 => p[1] \in Answer[2])
      BY <2>1, <3>1, ProperWidths
    <3>3. p[1] > Late
      BY <3>2, WidthAssumption
    <3>4. left >= 0 \/ left + p[1] > 0
      BY <2>2, <3>2, WidthAssumption DEF EdgesSeen
    <3> QED
      BY <1>1, <1>2, <1>3, <1>4, <2>2, <3>3, <3>4 DEF Hidden
  <2>3. CASE pc = "rise"
    <3>1. coming = 2 * i + 3 /\ i \in Nat /\ left >= 0
      BY <1>1, <2>1, <2>3 DEF Awaited, TypeOK, EdgesSeen
    <3>2. p[1] \in High[SentBit(i)]
      BY <2>1, <3>1, ProperWidths
    <3>3. SentBit(i) \in 0 .. 1
      BY DEF SentBit, Bit
    <3>4. p[1] > Late
      <4>1. CASE SentBit(i) = 0
        BY <3>2, <4>1, WidthAssumption
      <4>2. CASE SentBit(i) = 1
        <5>1. p[1] > SampleAfter + Late
          BY <3>2, <4>2, WidthAssumption
        <5> QED
          BY <1>1, <1>4, <5>1 DEF SampleAfter
      <4> QED
        BY <3>3, <4>1, <4>2
    <3> QED
      BY <1>1, <1>2, <1>3, <1>4, <2>3, <3>1, <3>4 DEF Hidden
  <2>4. CASE pc \in {"sleep", "fall"}
    <3>1. coming = 2 * i + (IF pc = "sleep" THEN 4 ELSE 2) /\ i \in Nat
      BY <1>1, <2>1, <2>4 DEF Awaited, TypeOK
    <3>2. coming >= 2 /\ coming % 2 = 0
      BY <3>1
    <3>3. p[1] \in Low
      BY <2>1, <3>2, ProperWidths
    <3>4. p[1] > Late /\ left + p[1] > 0
      BY <2>4, <3>3, WidthAssumption DEF EdgesSeen
    <3> QED
      BY <1>1, <1>2, <1>3, <1>4, <2>4, <3>4 DEF Hidden
  <2> QED
    BY <1>2, <2>2, <2>3, <2>4 DEF TypeOK
<1>9. EdgesSeen'
  <2>1. pc = "rise" => left' >= 0
    <3> SUFFICES ASSUME pc = "rise" PROVE left' >= 0
      OBVIOUS
    <3>1. left >= 0
      BY <1>2 DEF EdgesSeen
    <3> QED
      BY <1>2, <1>3, <1>4, <1>5, <3>1
  <2> QED
    BY <1>2, <1>7, <1>8, <2>1 DEF EdgesSeen
<1>10. BitsRight'
  <2>1. \A k : Got(k)' <=> Got(k)
    BY <1>2 DEF Got, Place
  <2>2. coming' # Awaited'
    BY <1>2, <1>7 DEF EdgesSeen
  <2> QED
    BY <1>2, <2>1, <2>2 DEF BitsRight
<1> QED
  BY <1>6, <1>9, <1>10

\* The reading returns: whatever it returns, the wait was within its time.
LEMMA ReturnKeeps == ASSUME IInv, ReturnData \/ TimeOut PROVE IInv'
<1> USE DEF IInv
<1>1. MaxFaults \in Nat /\ Late \in Nat /\ ByteBits \in 1 .. 8 /\ BitTime \in Nat
  BY DhtAssumption DEF BitTime, SampleAfter
<1>2. /\ pc \notin {"idle", "sleep"} /\ pc' = "idle"
      /\ UNCHANGED <<climate, edges, i, data, coming, left, faults>>
  BY DEF ReturnData, TimeOut, Overdue
<1>3. spent' \in Nat /\ spent' <= spent + (Patience + Late)
  <2>1. CASE TimeOut
    BY <1>1, <2>1 DEF TimeOut, Patience, TypeOK
  <2>2. CASE ReturnData
    <3>1. PICK ago \in Ago : WaitForLevel(70, ago, 0)
      BY <2>2 DEF ReturnData
    <3>2. spent' \in Nat /\ spent' <= spent + (70 + Late) + 0
      BY <3>1, Waits
    <3> QED
      BY <1>1, <2>2, <3>2 DEF ReturnData, Patience, TypeOK
  <2> QED
    BY <2>1, <2>2
<1>4. measured' \in [0 .. 3 -> Bytes] \cup {Failed}
  BY DEF ReturnData, TimeOut, TypeOK
<1>5. TypeOK' /\ Progress'
  BY <1>2, <1>3, <1>4 DEF TypeOK, Progress
<1>6. i * BitTime \in Nat /\ spent \in Nat /\ (5 * ByteBits) * BitTime \in Nat
  BY <1>1 DEF TypeOK
<1>7. CASE pc = "answer"
  <2>1. spent' <= 20030 + 3 * (100 + Late)
    BY <1>1, <1>3, <1>6, <1>7 DEF Progress, SpentSoFar, Patience
  <2> QED
    BY <1>1, <1>2, <1>3, <1>5, <1>6, <2>1, Bound
       DEF SpentSoFar, EdgesSeen, BitsRight, BlackoutBounded, BitTime
<1>8. CASE pc = "fall"
  <2>1. spent' <= 20030 + 3 * (100 + Late) + i * BitTime
    BY <1>1, <1>3, <1>6, <1>8 DEF SpentSoFar, Patience
  <2>2. i * BitTime <= (5 * ByteBits) * BitTime
    BY <1>1 DEF TypeOK
  <2>3. spent' <= 20030 + 3 * (100 + Late) + (5 * ByteBits) * BitTime
    BY <1>1, <1>3, <1>6, <2>1, <2>2
  <2> QED
    BY <1>2, <1>5, <2>3 DEF SpentSoFar, EdgesSeen, BitsRight, BlackoutBounded, BitTime
<1>9. CASE pc = "rise"
  <2>1. i * BitTime + BitTime <= (5 * ByteBits) * BitTime
    <3>1. 5 * ByteBits \in Nat /\ i \in Nat /\ i < 5 * ByteBits
      BY <1>1, <1>9 DEF Progress, TypeOK
    <3> QED
      BY <3>1, Products
  <2>2. 70 + Late <= BitTime
    BY <1>1 DEF BitTime, SampleAfter
  <2>3. spent' <= 20030 + 3 * (100 + Late) + (5 * ByteBits) * BitTime
    BY <1>1, <1>3, <1>6, <1>9, <2>1, <2>2 DEF SpentSoFar, Patience
  <2> QED
    BY <1>2, <1>5, <2>3 DEF SpentSoFar, EdgesSeen, BitsRight, BlackoutBounded, BitTime
<1> QED
  BY <1>2, <1>7, <1>8, <1>9 DEF TypeOK

LEMMA StepIInv == IInv /\ [Next]_dhtVars => IInv'
<1>1. ASSUME IInv, UNCHANGED dhtVars PROVE IInv'
  <2> USE <1>1 DEF dhtVars, IInv
  <2>1. (TypeOK /\ Progress)'
    BY DEF TypeOK, Progress
  <2>2. (SpentSoFar /\ EdgesSeen)'
    <3>1. Awaited' = Awaited
      BY DEF Awaited
    <3> QED
      BY <3>1 DEF SpentSoFar, BlackoutBounded, EdgesSeen
  <2>3. \A k : (Got(k)' <=> Got(k)) /\ (Wrong(k)' <=> Wrong(k)) /\ SentBit(k)' = SentBit(k)
    BY DEF Wrong, Got, SentBit, Place, Sent, Sum, CheckByte
  <2>4. BitsRight'
    BY <2>3 DEF BitsRight, Awaited, Shows
  <2> QED
    BY <2>1, <2>2, <2>4
<1> QED
  BY <1>1, StartKeeps, AnswerKeeps, RiseKeeps, SampleKeeps, BitEndKeeps, UnseenKeeps, ReturnKeeps DEF Next, Go

LEMMA Invariance == Spec => []IInv
  BY InitIInv, StepIInv, PTL DEF Spec

-----------------------------------------------------------------------------
\* The dialogue stays within its forty bits and a byte within its eight.
THEOREM TypeCorrect == Spec => []TypeOK
<1>1. IInv => TypeOK
  BY DEF IInv
<1> QED
  BY <1>1, Invariance, PTL

\* Whatever the sensor does, with any number of pulses out of tolerance, a
\* reading keeps interrupts off no longer than its waits can add up to.
THEOREM BlackoutIsBounded == Spec => []BlackoutBounded
<1>1. IInv => BlackoutBounded
  BY DEF IInv, SpentSoFar
<1> QED
  BY <1>1, Invariance, PTL

-----------------------------------------------------------------------------
(* What is returned.                                                       *)

\* Bytes whose every bit is right are the bytes sent.
LEMMA BytesRight ==
    ASSUME IInv, i = 5 * ByteBits, NEW c \in 0 .. 4,
           \A k \in 0 .. 5 * ByteBits - 1 : k \div ByteBits = c => ~Wrong(k)
    PROVE  data[c] = IF c < 4 THEN climate[c] ELSE CheckByte(Sum(climate))
<1> DEFINE sent == IF c < 4 THEN climate[c] ELSE CheckByte(Sum(climate))
<1>1. data[c] \in Bytes /\ sent \in Bytes
  BY DhtAssumption DEF IInv, TypeOK, CheckByte, Bytes
<1>2. ASSUME NEW b \in Bits PROVE b \in data[c] <=> b \in sent
  <2>1. PICK k \in 0 .. 5 * ByteBits - 1 : k \div ByteBits = c /\ Place(k) = b
    BY EveryPlace
  <2>2. k < 4 * ByteBits <=> c < 4
    BY <2>1, PlaceRange
  <2>3. Sent(k) = sent
    BY <2>1, <2>2 DEF Sent
  <2> QED
    BY <2>1, <2>3 DEF Wrong, Got
<1> HIDE DEF sent
<1>3. data[c] = sent
  BY <1>1, <1>2 DEF Bytes
<1> QED
  BY <1>3 DEF sent

\* And one bit that is wrong makes the check fail.
LEMMA CheckDetects ==
    ASSUME IInv, pc = "fall", i = 5 * ByteBits, coming <= LastEdge, MaxFaults <= 1,
           Sum(data) = Value(data[4]), NEW c \in 0 .. 3
    PROVE  data[c] = climate[c]
<1>1. climate \in [0 .. 3 -> Bytes] /\ data \in [0 .. 4 -> Bytes]
  BY DhtAssumption DEF IInv, TypeOK
<1>2. \A k, l \in 0 .. 5 * ByteBits - 1 : Wrong(k) /\ Wrong(l) => k = l
  <2>1. faults <= 1
    BY DhtAssumption DEF IInv, TypeOK
  <2>2. coming = Awaited
    BY Edges DEF IInv, TypeOK, EdgesSeen, Awaited, LastEdge
  <2> QED
    BY <2>1, <2>2 DEF IInv, BitsRight
<1> DEFINE sent(b) == IF b < 4 THEN climate[b] ELSE CheckByte(Sum(climate))
<1>3. Sum(climate) \in 0 .. Value(Bits)
  BY <1>1, SumRange
<1>4. CheckByte(Sum(climate)) \in Bytes /\ Value(CheckByte(Sum(climate))) = Sum(climate)
  BY <1>3, CheckByteValue
<1> SUFFICES ASSUME NEW bad \in 0 .. 5 * ByteBits - 1, Wrong(bad) PROVE FALSE
  <2>1. \A b \in 0 .. 4 : data[b] = sent(b) \/ \E k \in 0 .. 5 * ByteBits - 1 : Wrong(k)
    BY BytesRight
  <2> QED
    BY <2>1
<1> DEFINE C == bad \div ByteBits
<1>5. C \in 0 .. 4 /\ Place(bad) \in Bits /\ (bad < 4 * ByteBits <=> C < 4)
  BY PlaceRange
<1>6. \A b \in 0 .. 4 : b # C => data[b] = sent(b)
  BY <1>2, BytesRight
<1>7. sent(C) \in Bytes /\ data[C] \in Bytes /\ Sent(bad) = sent(C)
  BY <1>1, <1>4, <1>5 DEF Sent
<1>8. \A b \in Bits \ {Place(bad)} : b \in data[C] <=> b \in sent(C)
  <2> SUFFICES ASSUME NEW b \in Bits \ {Place(bad)} PROVE b \in data[C] <=> b \in sent(C)
    OBVIOUS
  <2>1. PICK k \in 0 .. 5 * ByteBits - 1 : k \div ByteBits = C /\ Place(k) = b
    BY <1>5, EveryPlace
  <2>2. ~Wrong(k)
    BY <1>2, <2>1
  <2>3. Sent(k) = sent(C)
    BY <2>1, PlaceRange DEF Sent
  <2> QED
    BY <2>1, <2>2, <2>3 DEF Wrong, Got
<1>9. Value(data[C]) # Value(sent(C))
  <2>1. ~(Place(bad) \in data[C] <=> Place(bad) \in sent(C))
    BY <1>7 DEF Wrong, Got
  <2> HIDE DEF sent, C
  <2> QED
    BY <1>5, <1>7, <1>8, <2>1, OneBitShows
<1>10. CASE C = 4
  <2>1. Sum(data) = Sum(climate)
    BY <1>6, <1>10 DEF Sum
  <2>2. data[C] = data[4] /\ sent(C) = CheckByte(Sum(climate))
    BY <1>10
  <2> HIDE DEF sent, C
  <2> QED
    BY <1>4, <1>9, <2>1, <2>2
<1>11. CASE C \in 0 .. 3
  <2>1. Value(data[4]) = Sum(climate)
    BY <1>4, <1>6, <1>11
  <2> DEFINE v(b) == Value(data[b])
             w(b) == Value(climate[b])
  <2>2. \A b \in 0 .. 3 : v(b) \in 0 .. Value(Bits) /\ w(b) \in 0 .. Value(Bits)
    BY <1>1, ValueRange
  <2>3. v(C) # w(C) /\ \A b \in 0 .. 3 : b # C => v(b) = w(b)
    BY <1>6, <1>9, <1>11
  <2>4. Sum(data) = (v(0) + v(1) + v(2) + v(3)) % (Value(Bits) + 1)
        /\ Sum(climate) = (w(0) + w(1) + w(2) + w(3)) % (Value(Bits) + 1)
    BY DEF Sum
  <2> HIDE DEF v, w, C
  <2> DEFINE x == v(0) + v(1) + v(2) + v(3)
             y == w(0) + w(1) + w(2) + w(3)
  <2>5. x \in Nat /\ y \in Nat /\ x # y /\ x - y <= Value(Bits) /\ y - x <= Value(Bits)
    <3>1. /\ v(0) \in Nat /\ v(1) \in Nat /\ v(2) \in Nat /\ v(3) \in Nat
          /\ w(0) \in Nat /\ w(1) \in Nat /\ w(2) \in Nat /\ w(3) \in Nat
          /\ Value(Bits) \in Nat
      BY <2>2, BytesHold
    <3>2. v(C) - w(C) <= Value(Bits) /\ w(C) - v(C) <= Value(Bits)
      BY <1>11, <2>2, BytesHold
    <3>3. x - y = v(C) - w(C)
      <4>1. C = 0 \/ C = 1 \/ C = 2 \/ C = 3
        BY <1>11
      <4> QED
        BY <2>3, <3>1, <4>1
    <3>4. v(C) \in Nat /\ w(C) \in Nat /\ v(C) # w(C) /\ x \in Nat /\ y \in Nat
      BY <1>11, <2>3, <3>1
    <3> HIDE DEF x, y
    <3> QED
      BY <3>1, <3>2, <3>3, <3>4
  <2>6. x % (Value(Bits) + 1) # y % (Value(Bits) + 1)
    <3> HIDE DEF x, y
    <3> QED
      BY <2>5, CloseNumbers
  <2> QED
    BY <2>1, <2>4, <2>6
<1> QED
  BY <1>5, <1>10, <1>11

\* A step of the dialogue is a step of the reading it promises.
LEMMA StepPromised ==
    ASSUME IInv, MaxFaults <= 1, [Next]_dhtVars
    PROVE  [Reader!Begin \/ Reader!Return]_(Reader!sensorVars)
<1> USE DEF Reader!Begin, Reader!Return, Reader!sensorVars
<1>1. CASE Start
  BY <1>1 DEF Start, Reader!Begin
<1>2. CASE AnswerEdge \/ Rise \/ Sample \/ BitEnd \/ Unseen
  BY <1>2 DEF AnswerEdge, Rise, Sample, BitEnd, Unseen
<1>3. CASE ReturnData
  <2>1. Sum(data) = Value(data[4]) => [k \in 0 .. 3 |-> data[k]] = climate
    <3>1. pc = "fall" /\ i = 5 * ByteBits /\ coming <= LastEdge
      BY <1>3 DEF ReturnData, WaitForLevel
    <3>2. climate \in [0 .. 3 -> Bytes]
      BY DhtAssumption DEF IInv, TypeOK
    <3> QED
      BY <3>1, <3>2, CheckDetects
  <2> QED
    BY <1>3, <2>1 DEF ReturnData
<1>4. CASE TimeOut
  BY <1>4 DEF TimeOut, Overdue
<1>5. CASE UNCHANGED dhtVars
  BY <1>5 DEF dhtVars
<1> QED
  BY <1>1, <1>2, <1>3, <1>4, <1>5 DEF Next, Go

\* The dialogue implements the safety of SensorRead: with at most one pulse of a
\* reading out of tolerance, of any width (also so short that edges go unseen and
\* every bit after it is the next one's), what read_dht returns is what the sensor
\* sent, or a failure.
THEOREM ReadingsGenuine ==
    ASSUME MaxFaults <= 1
    PROVE  Spec => ReadsGenuine
<1>1. Init => Reader!SensorInit
  BY DEF Init, Reader!SensorInit
<1>2. IInv /\ [Next]_dhtVars => [Reader!Begin \/ Reader!Return]_(Reader!sensorVars)
  BY StepPromised
<1> QED
  BY <1>1, <1>2, Invariance, PTL DEF Spec, ReadsGenuine, Reader!SensorSafe
=============================================================================

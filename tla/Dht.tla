--------------------------------- MODULE Dht ---------------------------------
(***************************************************************************)
(* The one-wire dialogue with the DHT sensor of node A, edge by edge.      *)
(*   node_a/pico/src/project0.c   read_dht, wait_for_level                 *)
(*                                                                         *)
(* The board pulls the line low for 20 ms, lets it go, and then waits for  *)
(* one edge after the other, each within a time-out, all with interrupts   *)
(* off.  The sensor (external) answers with three edges and five bytes,    *)
(* each bit a low and a high pulse whose width tells the bit; the last     *)
(* byte is the sum of the others, and a last low pulse ends the frame.     *)
(* The board counts the edges it sees, the sensor those it sends: two of   *)
(* them may pass between two looks at the line.  Times are in              *)
(* microseconds, and a byte is the set of its bits that are 1.             *)
(***************************************************************************)
EXTENDS Integers, Sequences

CONSTANTS
    ByteBits,           \* 8 in the code
    Climates,           \* what the sensor may send: four bytes
    Answer,             \* widths of the pulses before the first bit
    Low, High,          \* widths of the low pulse, and of the high pulse of bit b
    Faulty, MaxFaults,  \* widths out of tolerance, and how many in a reading
    Late                \* how late a wait may notice an edge or its time-out

Bits   == 0 .. ByteBits - 1
Bytes  == SUBSET Bits
Failed == <<>>
SampleAfter == 30       \* from a rising edge to the look at the line
LastEdge == 10 * ByteBits + 3   \* the number of the edge that ends the frame

ASSUME DhtAssumption ==
    /\ ByteBits \in 1 .. 8 /\ Climates \subseteq [0 .. 3 -> Bytes]
    /\ MaxFaults \in Nat /\ Late \in Nat
    /\ Answer \in [1 .. 3 -> SUBSET Int] /\ Low \subseteq Nat
    /\ High \in [0 .. 1 -> SUBSET Nat] /\ Faulty \subseteq Nat

\* Proper widths tell the bits apart, and with none but proper ones no two edges
\* pass between two looks of the board, late or asleep.  Of the others nothing is
\* assumed: a pulse that is out of tolerance has any width.
ASSUME WidthAssumption ==
    /\ \A w \in High[0] : w < SampleAfter
    /\ \A w \in High[1] : w > SampleAfter + Late
    /\ \A w \in Answer[2] \cup Answer[3] \cup Low \cup High[0] : w > Late
    /\ \A first \in Answer[1], w \in Answer[2] : first + w > 0
    /\ \A high \in High[0] \cup High[1], low \in Low : high + low > SampleAfter + Late

VARIABLES
    pc,         \* "idle", or the wait: "answer", then "rise", "sleep" and
                \* "fall" of a bit
    climate,    \* the four bytes the sensor sends
    measured,   \* what the last reading returned
    edges,      \* edges of the answer seen
    i, data,    \* as in read_dht
    coming,     \* the number of the sensor's next edge, from 0
    left,       \* time until it, since the board waits; negative when it is past
    faults,     \* pulses out of tolerance in this reading
    spent       \* how long interrupts have been off in it

dhtVars == <<pc, climate, measured, edges, i, data, coming, left, faults, spent>>

Init ==
    /\ pc = "idle" /\ climate \in Climates /\ measured = Failed
    /\ edges = 0 /\ i = 0 /\ data = [k \in 0 .. 4 |-> {}]
    /\ coming = 0 /\ left = 0 /\ faults = 0 /\ spent = 0

Bit(byte, b) == IF b \in byte THEN 1 ELSE 0
Value(byte) ==
    128 * Bit(byte, 7) + 64 * Bit(byte, 6) + 32 * Bit(byte, 5) + 16 * Bit(byte, 4)
      + 8 * Bit(byte, 3) + 4 * Bit(byte, 2) + 2 * Bit(byte, 1) + Bit(byte, 0)

\* The sum of the first four bytes, cast to one byte; and that byte.
Sum(d) ==
    (Value(d[0]) + Value(d[1]) + Value(d[2]) + Value(d[3])) % (Value(Bits) + 1)
CheckByte(n) == {b \in Bits : (n \div Value({b})) % 2 = 1}

\* Mutant: the shift starts one too high.
PlaceTooHigh(k) == ByteBits - (k % ByteBits)

\* Bit k of the reading is this one of its byte; and what the sensor sends there.
Place(k) == ByteBits - 1 - (k % ByteBits)
Sent(k) ==
    IF k < 4 * ByteBits THEN climate[k \div ByteBits] ELSE CheckByte(Sum(climate))
SentBit(k) == Bit(Sent(k), Place(k))

\* The pulse that begins with edge k: its proper widths, and with each width
\* whether it is a fault.  With the last edge the line is high, and stays so past
\* any look of the board.
Proper(k) ==
    CASE k < 2                  -> Answer[k + 2]
      [] k >= 2 /\ k % 2 = 0    -> Low
      [] k >= 2 /\ k % 2 = 1    -> High[SentBit((k - 3) \div 2)]
Pulses(k) ==
    IF k = LastEdge THEN {<<SampleAfter + Late + 1, 0>>}
    ELSE (Proper(k) \X {0}) \cup (Faulty \X {1})

\* The next edge is seen "ago" after it, in the pulse that it began, and the board
\* sleeps: the edge after it is next.
Pulse(ago, sleep) ==
    \E p \in Pulses(coming) :
        /\ p[1] >= ago /\ left' = p[1] - ago - sleep /\ coming' = coming + 1
        /\ faults + p[2] <= MaxFaults /\ faults' = faults + p[2]

\* The first part of read_dht: from the 20 ms to the release of the line.
Start ==
    /\ pc = "idle" /\ pc' = "answer"
    /\ climate' \in Climates /\ edges' = 0 /\ i' = 0
    /\ data' = [k \in 0 .. 4 |-> {}] /\ spent' = 20030
    /\ coming' = 0 /\ left' \in Answer[1] \cup (IF MaxFaults > 0 THEN Faulty ELSE {})
    /\ faults' = (IF left' \in Answer[1] THEN 0 ELSE 1)
    /\ measured' = Failed

\* Mutant: a level that is late is waited for as long as it takes.
WaitForLevelEver(timeout, ago, sleep) ==
    /\ coming <= LastEdge
    /\ IF left > 0 THEN ago \in 0 .. Late /\ spent' = spent + left + ago + sleep
       ELSE ago = -left /\ spent' = spent + sleep

\* wait_for_level returns true, "ago" after the edge; then a sleep.
WaitForLevel(timeout, ago, sleep) ==
    /\ coming <= LastEdge
    /\ IF left > 0 THEN /\ ago \in 0 .. Late /\ left + ago <= timeout + Late
                        /\ spent' = spent + left + ago + sleep
       ELSE ago = -left /\ spent' = spent + sleep

\* How long after an edge a wait for it may return.
Ago == IF left > 0 THEN 0 .. Late ELSE {-left}

AnswerEdge ==
    /\ pc = "answer" /\ edges' = edges + 1
    /\ \E ago \in Ago : WaitForLevel(100, ago, 0) /\ Pulse(ago, 0)
    /\ pc' = IF edges = 2 THEN "rise" ELSE pc
    /\ UNCHANGED <<climate, measured, i, data>>

\* A bit begins: the board sees its rising edge and sleeps 30 us.
Rise ==
    /\ pc = "rise" /\ pc' = "sleep"
    /\ \E ago \in Ago : WaitForLevel(70, ago, SampleAfter) /\ Pulse(ago, SampleAfter)
    /\ UNCHANGED <<climate, measured, edges, i, data>>

\* It looks at the line: the bit, 1 before the falling edge and 0 after it.
Sample ==
    /\ pc = "sleep" /\ pc' = "fall" /\ i' = i + 1
    /\ \E bit \in 0 .. 1 :
          /\ left > 0 => bit = 1
          /\ left < 0 => bit = 0
          /\ data' = IF bit = 0 THEN data
                     ELSE [data EXCEPT ![i \div ByteBits] = @ \cup {Place(i)}]
    /\ UNCHANGED <<climate, measured, edges, coming, left, faults, spent>>

BitEnd ==
    /\ pc = "fall" /\ i < 5 * ByteBits /\ pc' = "rise"
    /\ \E ago \in Ago : WaitForLevel(70, ago, 0) /\ Pulse(ago, 0)
    /\ UNCHANGED <<climate, measured, edges, i, data>>

Patience == IF pc = "answer" THEN 100 ELSE 70

\* A pulse of width w goes unseen: between two looks of a wait, or before the look
\* the board is to take (and after a look that saw it, not for longer).
Hidden(w) ==
    \/ pc # "sleep" /\ left \in 1 .. Patience + Late /\ w <= Late
    \/ left <= 0 /\ left + w <= 0 /\ (pc = "fall" => left + w = 0)

\* Two edges pass unseen, and the board still waits for the same level.
Unseen ==
    /\ pc # "idle" /\ coming < LastEdge /\ coming' = coming + 2
    /\ \E p \in Pulses(coming), q \in Pulses(coming + 1) :
          /\ Hidden(p[1]) /\ left' = left + p[1] + q[1]
          /\ faults + p[2] + q[2] <= MaxFaults /\ faults' = faults + p[2] + q[2]
    /\ UNCHANGED <<pc, climate, measured, edges, i, data, spent>>

\* Mutant: the checksum is not compared.
ReturnUnchecked ==
    /\ pc = "fall" /\ i = 5 * ByteBits /\ pc' = "idle"
    /\ \E ago \in Ago : WaitForLevel(70, ago, 0)
    /\ measured' = [k \in 0 .. 3 |-> data[k]]
    /\ UNCHANGED <<climate, edges, i, data, coming, left, faults>>

\* The last bit is over: interrupts are restored, the checksum is compared.
ReturnData ==
    /\ pc = "fall" /\ i = 5 * ByteBits /\ pc' = "idle"
    /\ \E ago \in Ago : WaitForLevel(70, ago, 0)
    /\ measured' = IF Sum(data) = Value(data[4]) THEN [k \in 0 .. 3 |-> data[k]] ELSE Failed
    /\ UNCHANGED <<climate, edges, i, data, coming, left, faults>>

\* No edge comes in the wait, or none before its last look, which was a little
\* before the time-out.
Overdue == pc \notin {"idle", "sleep"} /\ (coming > LastEdge \/ left > Patience - Late)

\* Mutant: no time-out, the wait goes on.
TimeOutNever == Overdue /\ UNCHANGED dhtVars

\* wait_for_level returns false, "goto fail".
TimeOut ==
    /\ Overdue /\ pc' = "idle"
    /\ spent' = spent + Patience + Late
    /\ measured' = Failed
    /\ UNCHANGED <<climate, edges, i, data, coming, left, faults>>

Go == AnswerEdge \/ Rise \/ Sample \/ BitEnd \/ Unseen \/ ReturnData \/ TimeOut
Next == Start \/ Go

\* The processor runs.
Spec == Init /\ [][Next]_dhtVars /\ WF_dhtVars(Go)
-----------------------------------------------------------------------------
TypeOK ==
    /\ pc \in {"idle", "answer", "rise", "sleep", "fall"}
    /\ climate \in Climates /\ measured \in [0 .. 3 -> Bytes] \cup {Failed}
    /\ edges \in 0 .. 3 /\ i \in 0 .. 5 * ByteBits /\ data \in [0 .. 4 -> Bytes]
    /\ coming \in 0 .. LastEdge + 1 /\ left \in Int /\ faults \in 0 .. MaxFaults /\ spent \in Nat

\* The dialogue implements the promise of SensorRead: as long as no more than
\* one pulse of a reading is out of tolerance, of whatever width, the reading
\* returns the climate sent or a failure: a bit that is wrong shows in the sum, and
\* edges that went unseen are missing in the end.
Reader == INSTANCE SensorRead WITH reading <- pc # "idle"
ReadsGenuine == Reader!SensorSafe

\* And every reading that was begun returns; the two together are SensorSpec.
ReadsReturn == Reader!SensorReturns

\* No reading keeps interrupts off, and with them the radio and the callbacks,
\* for longer than its waits can add up to (27.3 ms for eight bits to a byte).
BlackoutBounded ==
    spent <= 20030 + 3 * (100 + Late) + 5 * ByteBits * (SampleAfter + 2 * (70 + Late))
=============================================================================

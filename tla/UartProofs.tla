----------------------------- MODULE UartProofs -----------------------------
(***************************************************************************)
(* Every byte arrives intact over the line, for every number of clocks per *)
(* bit, every drift of the two clocks that leaves the samples within their *)
(* bits, and glitches shorter than half a bit.                             *)
(*                                                                         *)
(* Time is counted from the edge that loads a byte into the transmitter:   *)
(* "pos" in the transmitter's clocks, "elapsed" in the receiver's.  The    *)
(* first says what is on the line, the second where the receiver is.       *)
(***************************************************************************)
EXTENDS UartLink, SequenceTheorems, TLAPS

H == CLKS_PER_BIT \div 2

\* The clocks of a number of bits.
Bits(n) == n * CLKS_PER_BIT

sent == 10 - bits_left
pos == Bits(sent) + tx_count
elapsed == pos - skew

\* Every register keeps its width.
Types ==
  /\ bits_left \in 0 .. 10 /\ tx_count \in 0 .. CLKS_PER_BIT - 1 /\ tx \in Binary
  /\ tx_shift \in Seq(Binary) /\ Len(tx_shift) = 10
  /\ state \in {"IDLE", "START", "DATA", "STOP"}
  /\ count \in 0 .. CLKS_PER_BIT - 1 /\ bit_index \in 0 .. 7
  /\ state # "IDLE" => count <= Middle
  /\ shift \in Octet
  /\ rx_meta \in Binary /\ rx_sync \in Binary /\ valid \in BOOLEAN
  /\ skew \in -SKEW .. SKEW /\ glitch \in 0 .. GLITCH /\ hold_off \in 0 .. RECOVERY
  /\ in_flight \in Seq(Octet)

\* The bits of the frame around the youngest byte on its way.
Youngest == in_flight[Len(in_flight)]
frame == [k \in 0 .. 9 |-> IF k = 0 THEN 0 ELSE IF k = 9 THEN 1 ELSE Youngest[k]]

\* What the transmitter has still to send of it, and what is on the line.
ToSend == \A i \in 1 .. 10 - sent : tx_shift[i] = frame[sent + i - 1]
now == IF tx_count = 0 THEN sent - 1 ELSE sent
OnLine == tx = IF pos = 0 THEN 1 ELSE frame[now]

\* At the receiver's edge n, whatever the drift, this bit is on the line; the
\* synchronizer holds what was there at the last two edges.
Within(k, n) == Bits(k) + 1 <= n - SKEW /\ (k = 9 \/ n + SKEW <= Bits(k + 1))
Sampled ==
  \A k \in 0 .. 9 :
    /\ Within(k, elapsed - 1) => rx_meta = frame[k]
    /\ Within(k, elapsed - 2) => rx_sync = frame[k]

\* The edge at which the receiver samples the beginning of the start bit.
Start(n) == n \in 0 .. SKEW + 1

\* A byte that is at the port, and n on their way behind it.
Port(n) == IF valid THEN Len(in_flight) = n + 1 /\ data = in_flight[1]
                    ELSE Len(in_flight) = n

\* Where the receiver can be: still in the stop bit of the byte before, ...
Late == /\ elapsed \in 0 .. 1 /\ state = "STOP" /\ count >= CLKS_PER_BIT - 2 + elapsed
        /\ rx_sync = 1 /\ (elapsed = 0 => rx_meta = 1)
        /\ ~valid /\ Len(in_flight) = 2 /\ shift = in_flight[1]
Unseen == /\ state = "IDLE" /\ rx_sync = 1 /\ rx_meta = 1 /\ elapsed \in 0 .. SKEW + 1
          /\ Port(1)
Noticed == /\ state = "IDLE" /\ Port(1)
           /\ \/ rx_sync = 1 /\ rx_meta = 0 /\ Start(elapsed - 1)
              \/ rx_sync = 0 /\ Start(elapsed - 2)
Starting == state = "START" /\ Start(elapsed - 3 - count) /\ ~valid /\ Len(in_flight) = 1
Reading == /\ state = "DATA" /\ Start(elapsed - 3 - H - Bits(bit_index) - count)
           /\ ~valid /\ Len(in_flight) = 1
           /\ \A i \in 1 .. bit_index : shift[8 - bit_index + i] = Youngest[i]
Stopping == /\ state = "STOP" /\ Start(elapsed - 3 - H - Bits(8) - count)
            /\ ~valid /\ in_flight = <<shift>>
Done == state = "IDLE" /\ elapsed >= 3 + H + Bits(9) /\ Port(0)
Receiving == Late \/ Unseen \/ Noticed \/ Starting \/ Reading \/ Stopping \/ Done

\* A byte is being sent.
InByte ==
  /\ hold_off = 0 /\ glitch = 0 /\ pos <= Bits(10)
  /\ ToSend /\ OnLine /\ Sampled /\ Receiving
Sending == ~ready /\ InByte

\* The line is at rest; the receiver may have up to three clocks to go.
Resting ==
  /\ ready /\ hold_off = 0 /\ glitch = 0 /\ tx = 1 /\ rx_meta = 1 /\ rx_sync = 1
  /\ \/ state = "IDLE" /\ Port(0)
     \/ state = "STOP" /\ count >= CLKS_PER_BIT - 3 /\ ~valid /\ in_flight = <<shift>>

\* The line has glitched, so many clocks ago; at last it is at rest again.
since == RECOVERY - hold_off
Glitching ==
  /\ ready /\ tx = 1 /\ ~valid /\ in_flight = << >>
  /\ glitch > 0 => glitch + since <= GLITCH
  /\ since = 0 => glitch > 0
  /\ rx_meta = 0 => since \in 1 .. GLITCH
  /\ rx_sync = 0 => since \in 2 .. GLITCH + 1
  /\ since = 1 => rx_meta = 0
  /\ since = 2 => rx_sync = 0
  /\ \/ state = "IDLE" /\ since \notin 3 .. H + 2
     \/ state = "START" /\ since = 3 + count

LinkInv == Types /\ (Sending \/ Resting \/ Glitching)
-----------------------------------------------------------------------------
(* Numbers. *)

\* What the arithmetic needs to know of the constants.
LEMMA LinkNumbers ==
  /\ CLKS_PER_BIT \in Nat /\ CLKS_PER_BIT > 2
  /\ H \in Nat /\ H > 0 /\ 2 * H <= CLKS_PER_BIT /\ CLKS_PER_BIT <= 2 * H + 1
  /\ SKEW \in Nat /\ 2 * SKEW < CLKS_PER_BIT - H /\ SKEW < H
  /\ GLITCH \in Nat /\ GLITCH <= H
  /\ RECOVERY \in Nat /\ RECOVERY >= H + 3
BY LinkAssumption DEF H

\* Bits, as sums.
LEMMA BitsFacts ==
  /\ \A n \in 0 .. 10 : Bits(n) \in Nat
  /\ \A n \in 0 .. 9 : Bits(n + 1) = Bits(n) + CLKS_PER_BIT
  /\ Bits(0) = 0
  /\ \A m, n \in 0 .. 10 : m < n => Bits(m) + CLKS_PER_BIT <= Bits(n)
<1>1. CLKS_PER_BIT \in Nat
  BY LinkNumbers
<1>2. \A n \in 0 .. 10 : Bits(n) \in Nat
  BY <1>1 DEF Bits
<1>3. \A n \in 0 .. 9 : Bits(n + 1) = Bits(n) + CLKS_PER_BIT
  BY <1>1 DEF Bits
<1>4. Bits(0) = 0
  BY <1>1 DEF Bits
<1>5. \A m, n \in 0 .. 10 : m < n => Bits(m) + CLKS_PER_BIT <= Bits(n)
  <2> TAKE m, n \in 0 .. 10
  <2> SUFFICES ASSUME m < n PROVE Bits(m) + CLKS_PER_BIT <= Bits(n)
    OBVIOUS
  <2>1. PICK d \in Nat : n = m + 1 + d
    <3>1. n - m - 1 \in Nat /\ n = m + 1 + (n - m - 1)
      OBVIOUS
    <3> QED
      BY <3>1
  <2>2. n * CLKS_PER_BIT = (m + 1 + d) * CLKS_PER_BIT
    BY <2>1
  <2>3. (m + 1 + d) * CLKS_PER_BIT = m * CLKS_PER_BIT + CLKS_PER_BIT + d * CLKS_PER_BIT
    BY <1>1, <2>1
  <2>4. d * CLKS_PER_BIT \in Nat
    BY <1>1, <2>1
  <2>5. m * CLKS_PER_BIT \in Nat
    BY <1>1
  <2> QED
    BY <1>1, <2>2, <2>3, <2>4, <2>5 DEF Bits
<1> QED
  BY <1>2, <1>3, <1>4, <1>5

\* The count of a wait never wraps.
LEMMA CountFits ==
  ASSUME Types, state # "IDLE", count # Middle
  PROVE  /\ count < Middle /\ (count + 1) % 2^CW = count + 1
         /\ Middle <= CLKS_PER_BIT - 1
<1>1. count \in Nat /\ count <= Middle
  BY DEF Types
<1>2. Middle \in Int /\ Middle <= CLKS_PER_BIT - 1
  BY LinkNumbers DEF Middle, H
<1>3. count < Middle /\ count + 1 < CLKS_PER_BIT
  BY <1>1, <1>2, LinkNumbers
<1> DEFINE m == 2^CW
<1>4. m \in Nat /\ CLKS_PER_BIT <= m
  BY WidthAssumption
<1> HIDE DEF m
<1>5. (count + 1) % m = count + 1
  BY <1>1, <1>3, <1>4, LinkNumbers
<1> QED
  BY <1>2, <1>3, <1>5 DEF m

-----------------------------------------------------------------------------
(* The transmitter. *)

\* A shift register, shifted by one place.
LEMMA Shifted ==
  ASSUME NEW S, NEW s \in Seq(S), NEW x \in S, Len(s) # 0
  PROVE  /\ Append(Tail(s), x) \in Seq(S) /\ Len(Append(Tail(s), x)) = Len(s)
         /\ \A i \in 1 .. Len(s) - 1 : Append(Tail(s), x)[i] = s[i + 1]
         /\ Append(Tail(s), x)[Len(s)] = x
<1>1. s # << >> /\ Len(s) \in Nat \ {0}
  BY EmptySeq, LenProperties
<1> DEFINE t == Tail(s)
<1>2. /\ t \in Seq(S) /\ Len(t) = Len(s) - 1
      /\ \A i \in 1 .. Len(t) : t[i] = s[i + 1]
  BY <1>1, HeadTailProperties
<1> HIDE DEF t
<1>3. /\ Append(t, x) \in Seq(S) /\ Len(Append(t, x)) = Len(t) + 1
      /\ \A i \in 1 .. Len(t) : Append(t, x)[i] = t[i]
      /\ Append(t, x)[Len(t) + 1] = x
  BY <1>2, AppendProperties
<1>4. Len(t) + 1 = Len(s)
  BY <1>1, <1>2
<1>5. Append(t, x) \in Seq(S) /\ Len(Append(t, x)) = Len(s) /\ Append(t, x)[Len(s)] = x
  BY <1>3, <1>4
<1>6. \A i \in 1 .. Len(s) - 1 : Append(t, x)[i] = s[i + 1]
  BY <1>2, <1>3
<1> QED
  BY <1>5, <1>6, Zenon DEF t

\* How far a byte is, on either clock.
LEMMA Position ==
  ASSUME Types
  PROVE  /\ sent \in 0 .. 10 /\ tx_count \in Nat /\ tx_count < CLKS_PER_BIT
         /\ Bits(sent) \in Nat /\ pos \in Nat /\ pos = Bits(sent) + tx_count
         /\ elapsed \in Int /\ skew \in Int /\ pos = elapsed + skew
         /\ -SKEW <= skew /\ skew <= SKEW
         /\ ready <=> sent = 10
<1>1. sent \in 0 .. 10 /\ (ready <=> sent = 10)
  BY DEF Types, sent, ready
<1>2. Bits(sent) \in Nat
  BY <1>1, BitsFacts
<1>3. /\ tx_count \in Nat /\ tx_count < CLKS_PER_BIT
      /\ skew \in Int /\ -SKEW <= skew /\ skew <= SKEW
  BY LinkNumbers DEF Types
<1>4. pos \in Nat /\ pos = Bits(sent) + tx_count
  BY <1>2, <1>3 DEF pos
<1>5. elapsed \in Int /\ pos = elapsed + skew
  BY <1>3, <1>4 DEF elapsed
<1> QED
  BY <1>1, <1>2, <1>3, <1>4, <1>5

\* While it sends, the transmitter is one clock further with each edge.
LEMMA TransmitMoves ==
  ASSUME Types, ~ready, NEW offered, TransmitEdge(offered)
  PROVE  /\ bits_left' \in 0 .. 10 /\ tx_count' \in 0 .. CLKS_PER_BIT - 1
         /\ tx_shift' \in Seq(Binary) /\ Len(tx_shift') = 10 /\ tx' \in Binary
         /\ tx' = tx_shift[1]
         /\ \/ /\ sent' = sent + 1 /\ tx_count' = 0 /\ tx_count = CLKS_PER_BIT - 1
               /\ \A i \in 1 .. 9 : tx_shift'[i] = tx_shift[i + 1]
            \/ sent' = sent /\ tx_count' = tx_count + 1 /\ tx_shift' = tx_shift
         /\ pos' = pos + 1
<1>1. /\ tx_shift \in Seq(Binary) /\ Len(tx_shift) = 10 /\ bits_left \in 1 .. 10
      /\ tx_count \in 0 .. CLKS_PER_BIT - 1
  BY DEF Types, ready
<1>2. tx' = tx_shift[1]
  BY DEF TransmitEdge
<1>3. tx_shift[1] \in Binary /\ 1 \in Binary
  BY <1>1, ElementOfSeq DEF Binary
<1>4. NextBit \/ HoldBit
  BY DEF TransmitEdge, Load, Idle
<1>5. sent \in 0 .. 9
  BY <1>1 DEF sent
<1>6. CASE NextBit
  <2>1. /\ tx_count = CLKS_PER_BIT - 1 /\ tx_shift' = Append(Tail(tx_shift), 1)
        /\ bits_left' = bits_left - 1 /\ tx_count' = 0
    BY <1>6 DEF NextBit
  <2>2. /\ tx_shift' \in Seq(Binary) /\ Len(tx_shift') = Len(tx_shift)
        /\ \A i \in 1 .. Len(tx_shift) - 1 : tx_shift'[i] = tx_shift[i + 1]
    <3> DEFINE t == Append(Tail(tx_shift), 1)
    <3>1. Len(tx_shift) # 0
      BY <1>1
    <3>2. /\ t \in Seq(Binary) /\ Len(t) = Len(tx_shift)
          /\ \A i \in 1 .. Len(tx_shift) - 1 : t[i] = tx_shift[i + 1]
      <4>1. tx_shift \in Seq(Binary) /\ 1 \in Binary
        BY <1>1, <1>3
      <4> QED
        BY <3>1, <4>1, Shifted, Zenon
    <3>3. tx_shift' = t
      BY <2>1
    <3> HIDE DEF t
    <3> QED
      BY <3>2, <3>3
  <2>3. /\ tx_shift' \in Seq(Binary) /\ Len(tx_shift') = 10
        /\ \A i \in 1 .. 9 : tx_shift'[i] = tx_shift[i + 1]
    <3>1. Len(tx_shift) = 10 /\ 10 - 1 = 9
      BY <1>1
    <3> QED
      BY <2>2, <3>1, Zenon
  <2>4. sent' = sent + 1
    BY <1>1, <2>1 DEF sent
  <2>5. Bits(sent + 1) = Bits(sent) + CLKS_PER_BIT /\ Bits(sent) \in Nat
    BY <1>5, BitsFacts
  <2>6. pos' = pos + 1
    <3>1. pos' = Bits(sent') + tx_count'
      BY DEF pos
    <3>2. pos = Bits(sent) + tx_count
      BY DEF pos
    <3>3. Bits(sent') = Bits(sent + 1)
      BY <2>4
    <3> QED
      BY <1>1, <2>1, <2>5, <3>1, <3>2, <3>3, LinkNumbers
  <2> QED
    <3>1. bits_left' \in 0 .. 10 /\ tx_count' \in 0 .. CLKS_PER_BIT - 1
      BY <1>1, <2>1, LinkNumbers
    <3> QED
      BY <1>2, <1>3, <2>1, <2>3, <2>4, <2>6, <3>1, Zenon
<1>7. CASE HoldBit
  <2>1. /\ tx_count # CLKS_PER_BIT - 1 /\ tx_count' = tx_count + 1
        /\ tx_shift' = tx_shift /\ bits_left' = bits_left
    BY <1>7 DEF HoldBit
  <2>2. sent' = sent /\ Bits(sent) \in Nat
    BY <1>5, <2>1, BitsFacts DEF sent
  <2>3. pos' = pos + 1
    <3>1. pos' = Bits(sent') + tx_count'
      BY DEF pos
    <3>2. pos = Bits(sent) + tx_count
      BY DEF pos
    <3>3. Bits(sent') = Bits(sent)
      BY <2>2
    <3> QED
      BY <1>1, <2>1, <2>2, <3>1, <3>2, <3>3
  <2> QED
    BY <1>1, <1>2, <1>3, <2>1, <2>2, <2>3, LinkNumbers
<1> QED
  BY <1>4, <1>6, <1>7

\* What is on the line is the bit whose time it is.
LEMMA LineHas ==
  ASSUME Types, OnLine, NEW k \in 0 .. 9, Bits(k) + 1 <= pos, k = 9 \/ pos <= Bits(k + 1),
         pos <= Bits(10)
  PROVE  tx = frame[k]
<1>1. /\ sent \in 0 .. 10 /\ tx_count \in Nat /\ tx_count < CLKS_PER_BIT
      /\ pos = Bits(sent) + tx_count /\ Bits(sent) \in Nat /\ Bits(k) \in Nat
  BY Position, BitsFacts
<1>2. pos <= Bits(k + 1)
  BY SMT
<1>3. pos # 0
  BY <1>1
<1>4. tx = frame[IF tx_count = 0 THEN sent - 1 ELSE sent]
  BY <1>3 DEF OnLine, now
<1>5. Bits(k + 1) = Bits(k) + CLKS_PER_BIT /\ k + 1 \in 0 .. 10 /\ k \in 0 .. 10
  BY BitsFacts
<1>6. CASE tx_count = 0
  <2>1. ~(sent < k + 1)
    <3>1. sent < k + 1 => sent < k \/ sent = k
      BY <1>1
    <3>2. sent < k => Bits(sent) + CLKS_PER_BIT <= Bits(k)
      BY <1>1, <1>5, BitsFacts
    <3> QED
      BY <1>1, <1>6, <3>1, <3>2, LinkNumbers
  <2>2. ~(k + 1 < sent)
    <3>1. k + 1 < sent => Bits(k + 1) + CLKS_PER_BIT <= Bits(sent)
      BY <1>1, <1>5, BitsFacts
    <3> QED
      BY <1>1, <1>2, <1>5, <1>6, <3>1, LinkNumbers
  <2>3. sent - 1 = k
    BY <1>1, <2>1, <2>2
  <2> QED
    BY <1>4, <1>6, <2>3
<1>7. CASE tx_count # 0
  <2>1. ~(sent < k)
    <3>1. sent < k => Bits(sent) + CLKS_PER_BIT <= Bits(k)
      BY <1>1, <1>5, BitsFacts
    <3> QED
      BY <1>1, <3>1, LinkNumbers
  <2>2. ~(k < sent)
    <3>1. k < sent => k + 1 = sent \/ k + 1 < sent
      BY <1>1
    <3>2. k + 1 < sent => Bits(k + 1) + CLKS_PER_BIT <= Bits(sent)
      BY <1>1, <1>5, BitsFacts
    <3> QED
      BY <1>1, <1>2, <1>5, <1>7, <3>1, <3>2, LinkNumbers
  <2>3. sent = k
    BY <1>1, <2>1, <2>2
  <2> QED
    BY <1>4, <1>7, <2>3
<1> QED
  BY <1>6, <1>7

\* An edge keeps the line true to the frame, if what is left of that stays.
LEMMA TransmitKeeps ==
  ASSUME Types, ~ready, ToSend, OnLine, NEW offered, TransmitEdge(offered),
         \A k \in sent .. 9 : frame'[k] = frame[k]
  PROVE  ToSend' /\ OnLine' /\ pos' <= Bits(10)
<1>1. /\ tx' = tx_shift[1] /\ pos' = pos + 1
      /\ \/ /\ sent' = sent + 1 /\ tx_count' = 0 /\ tx_count = CLKS_PER_BIT - 1
            /\ \A i \in 1 .. 9 : tx_shift'[i] = tx_shift[i + 1]
         \/ sent' = sent /\ tx_count' = tx_count + 1 /\ tx_shift' = tx_shift
  BY TransmitMoves
<1>2. /\ sent \in 0 .. 9 /\ pos \in Nat /\ tx_count \in Nat /\ tx_count < CLKS_PER_BIT
      /\ pos = Bits(sent) + tx_count /\ Bits(sent) \in Nat
  BY Position
<1>3. \A i \in 1 .. 10 - sent : tx_shift[i] = frame[sent + i - 1]
  BY DEF ToSend
<1>4. tx' = frame'[sent]
  <2>1. tx_shift[1] = frame[sent + 1 - 1] /\ sent + 1 - 1 = sent /\ sent \in sent .. 9
    BY <1>2, <1>3
  <2>2. frame'[sent] = frame[sent]
    BY <2>1
  <2> QED
    BY <1>1, <2>1, <2>2, Zenon
<1>5. pos' # 0
  BY <1>1, <1>2
<1>6. pos' <= Bits(10)
  <2>1. Bits(sent + 1) = Bits(sent) + CLKS_PER_BIT
    BY <1>2, BitsFacts
  <2>2. Bits(sent + 1) <= Bits(10)
    <3>1. CASE sent = 9
      <4>1. Bits(sent + 1) = Bits(10) /\ Bits(10) \in Nat
        BY <3>1, BitsFacts
      <4> QED
        BY <4>1
    <3>2. CASE sent # 9
      <4>1. sent + 1 \in 0 .. 10 /\ 10 \in 0 .. 10 /\ sent + 1 < 10
        BY <1>2, <3>2
      <4>2. Bits(sent + 1) + CLKS_PER_BIT <= Bits(10)
        BY <4>1, BitsFacts
      <4>3. Bits(sent + 1) \in Nat /\ Bits(10) \in Nat
        BY <4>1, BitsFacts
      <4> QED
        BY <4>2, <4>3, LinkNumbers
    <3> QED
      BY <3>1, <3>2
  <2>3. Bits(10) \in Nat
    BY BitsFacts
  <2> QED
    BY <1>1, <1>2, <2>1, <2>2, <2>3, LinkNumbers
<1>7. CASE /\ sent' = sent + 1 /\ tx_count' = 0 /\ tx_count = CLKS_PER_BIT - 1
           /\ \A i \in 1 .. 9 : tx_shift'[i] = tx_shift[i + 1]
  <2>1. OnLine'
    <3>1. tx_count' = 0 /\ sent' - 1 = sent
      BY <1>2, <1>7
    <3> QED
      BY <1>4, <1>5, <3>1 DEF OnLine, now
  <2>2. ToSend'
    <3>1. ASSUME NEW i \in 1 .. 10 - sent'
          PROVE  tx_shift'[i] = frame'[sent' + i - 1]
      <4>1. /\ i \in 1 .. 9 /\ i + 1 \in 1 .. 10 - sent
            /\ sent' + i - 1 = sent + (i + 1) - 1 /\ sent + (i + 1) - 1 \in sent .. 9
        BY <1>2, <1>7
      <4>2. tx_shift'[i] = tx_shift[i + 1]
        BY <1>7, <4>1
      <4>3. tx_shift[i + 1] = frame[sent + (i + 1) - 1]
        BY <1>3, <4>1
      <4>4. frame'[sent + (i + 1) - 1] = frame[sent + (i + 1) - 1]
        BY <4>1
      <4> QED
        BY <4>1, <4>2, <4>3, <4>4, Zenon
    <3> QED
      BY <3>1 DEF ToSend
  <2> QED
    BY <1>6, <2>1, <2>2
<1>8. CASE sent' = sent /\ tx_count' = tx_count + 1 /\ tx_shift' = tx_shift
  <2>1. OnLine'
    <3>1. tx_count' # 0
      BY <1>2, <1>8
    <3> QED
      BY <1>4, <1>5, <1>8, <3>1 DEF OnLine, now
  <2>2. ToSend'
    <3>1. ASSUME NEW i \in 1 .. 10 - sent'
          PROVE  tx_shift'[i] = frame'[sent' + i - 1]
      <4>1. i \in 1 .. 10 - sent /\ sent + i - 1 \in sent .. 9
        BY <1>2, <1>8
      <4>2. frame'[sent + i - 1] = frame[sent + i - 1]
        BY <4>1
      <4>3. tx_shift[i] = frame[sent + i - 1]
        BY <1>3, <4>1
      <4> QED
        BY <1>8, <4>2, <4>3
    <3> QED
      BY <3>1 DEF ToSend
  <2> QED
    BY <1>6, <2>1, <2>2
<1> QED
  BY <1>1, <1>7, <1>8

-----------------------------------------------------------------------------
(* The receiver. *)

\* What its two synchronizer registers hold after an edge.
LEMMA SampleMoves ==
  ASSUME Types, OnLine, Sampled, pos <= Bits(10), rx_meta' = tx, rx_sync' = rx_meta,
         elapsed' = elapsed + 1,
         \A k \in 0 .. 9 : Within(k, elapsed) \/ Within(k, elapsed - 1) => frame'[k] = frame[k]
  PROVE  Sampled'
<1>1. /\ elapsed \in Int /\ skew \in Int /\ pos = elapsed + skew
      /\ -SKEW <= skew /\ skew <= SKEW /\ pos \in Nat
  BY Position
<1>2. elapsed' - 1 = elapsed /\ elapsed' - 2 = elapsed - 1
  BY <1>1
<1>3. ASSUME NEW k \in 0 .. 9, Within(k, elapsed)
      PROVE  rx_meta' = frame'[k]
  <2>1. Bits(k) \in Nat /\ Bits(k + 1) \in Nat
    <3>1. k \in 0 .. 10 /\ k + 1 \in 0 .. 10
      OBVIOUS
    <3> QED
      BY <3>1, BitsFacts
  <2>2. Bits(k) + 1 <= pos /\ (k = 9 \/ pos <= Bits(k + 1))
    BY <1>1, <1>3, <2>1, LinkNumbers DEF Within
  <2>3. tx = frame[k]
    BY <2>2, LineHas
  <2> QED
    BY <1>3, <2>3
<1>4. ASSUME NEW k \in 0 .. 9, Within(k, elapsed - 1)
      PROVE  rx_sync' = frame'[k]
  BY <1>4 DEF Sampled
<1>5. \A k \in 0 .. 9 : /\ Within(k, elapsed' - 1) => rx_meta' = frame'[k]
                        /\ Within(k, elapsed' - 2) => rx_sync' = frame'[k]
  BY <1>2, <1>3, <1>4
<1> QED
  BY <1>5 DEF Sampled, Within

\* An edge keeps the width of every register.
LEMMA ReceiverTypes ==
  ASSUME Types, NEW level \in Binary, ReceiveEdge(level)
  PROVE  /\ state' \in {"IDLE", "START", "DATA", "STOP"}
         /\ count' \in 0 .. CLKS_PER_BIT - 1 /\ bit_index' \in 0 .. 7
         /\ state' # "IDLE" => count' <= Middle'
         /\ shift' \in Octet
         /\ rx_meta' \in Binary /\ rx_sync' \in Binary /\ valid' \in BOOLEAN
<1>1. /\ state \in {"IDLE", "START", "DATA", "STOP"}
      /\ count \in 0 .. CLKS_PER_BIT - 1 /\ bit_index \in 0 .. 7 /\ shift \in Octet
      /\ rx_meta \in Binary /\ rx_sync \in Binary
  BY DEF Types
<1>2. rx_meta' = level /\ rx_sync' = rx_meta
  BY DEF ReceiveEdge
<1>3. rx_meta' \in Binary /\ rx_sync' \in Binary
  BY <1>1, <1>2
<1>4. /\ CLKS_PER_BIT \in Nat /\ CLKS_PER_BIT > 2 /\ CLKS_PER_BIT \div 2 \in Nat
      /\ 0 <= CLKS_PER_BIT \div 2 - 1
  BY LinkNumbers DEF H
<1>5. Middle' = IF state' = "START" THEN CLKS_PER_BIT \div 2 - 1 ELSE CLKS_PER_BIT - 1
  BY DEF Middle
<1>6. CASE WatchLine
  <2>1. state' \in {"IDLE", "START"} /\ count' = 0 /\ bit_index' = bit_index
        /\ shift' = shift /\ valid' = FALSE
    BY <1>6 DEF WatchLine
  <2>2. count' \in 0 .. CLKS_PER_BIT - 1 /\ count' <= Middle'
    BY <1>4, <1>5, <2>1
  <2> QED
    BY <1>1, <1>3, <2>1, <2>2, Zenon
<1>7. CASE KeepCounting
  <2>1. /\ state # "IDLE" /\ count # Middle /\ count' = (count + 1) % 2^CW
        /\ state' = state /\ bit_index' = bit_index /\ shift' = shift /\ valid' = FALSE
    BY <1>7 DEF KeepCounting
  <2>2. count' = count + 1 /\ count < Middle /\ Middle <= CLKS_PER_BIT - 1
    BY <2>1, CountFits
  <2>3. Middle' = Middle
    BY <2>1 DEF Middle
  <2>4. count' \in 0 .. CLKS_PER_BIT - 1 /\ count' <= Middle'
    <3>1. Middle \in Int
      BY <1>4 DEF Middle
    <3> QED
      BY <1>1, <1>4, <2>2, <2>3, <3>1
  <2> QED
    BY <1>1, <1>3, <2>1, <2>4, Zenon
<1>8. CASE CheckStart
  <2>1. /\ state' \in {"IDLE", "DATA"} /\ count' = 0 /\ bit_index' = 0
        /\ shift' = shift /\ valid' = FALSE
    BY <1>8 DEF CheckStart
  <2>2. count' \in 0 .. CLKS_PER_BIT - 1 /\ count' <= Middle' /\ bit_index' \in 0 .. 7
    BY <1>4, <1>5, <2>1
  <2> QED
    BY <1>1, <1>3, <2>1, <2>2, Zenon
<1>9. CASE SampleBit
  <2>1. /\ state' \in {"DATA", "STOP"} /\ count' = 0
        /\ bit_index' = bit_index \/ (bit_index # 7 /\ bit_index' = bit_index + 1)
        /\ shift' = Append(Tail(shift), rx_sync) /\ valid' = FALSE
    BY <1>9 DEF SampleBit
  <2>2. count' \in 0 .. CLKS_PER_BIT - 1 /\ count' <= Middle' /\ bit_index' \in 0 .. 7
    BY <1>1, <1>4, <1>5, <2>1
  <2>3. shift' \in Octet
    <3>1. shift \in Seq(Binary) /\ Len(shift) = 8 /\ Len(shift) # 0
      BY <1>1 DEF Octet
    <3>2. /\ Append(Tail(shift), rx_sync) \in Seq(Binary)
          /\ Len(Append(Tail(shift), rx_sync)) = Len(shift)
      BY <1>1, <3>1, Shifted
    <3> QED
      BY <2>1, <3>1, <3>2 DEF Octet
  <2> QED
    BY <1>1, <1>3, <2>1, <2>2, <2>3, Zenon
<1>10. CASE CheckStop
  <2>1. /\ state' = "IDLE" /\ count' = count /\ bit_index' = bit_index
        /\ shift' = shift /\ valid' \in BOOLEAN
    BY <1>10 DEF CheckStop
  <2> QED
    BY <1>1, <1>3, <2>1, Zenon
<1> QED
  BY <1>6, <1>7, <1>8, <1>9, <1>10 DEF ReceiveEdge

\* In the middle of each wait, nothing but the count moves.
LEMMA Waits ==
  ASSUME Types, state # "IDLE", count # Middle, NEW level, ReceiveEdge(level)
  PROVE  /\ state' = state /\ count' = count + 1 /\ bit_index' = bit_index
         /\ shift' = shift /\ valid' = FALSE /\ count < Middle
<1>1. KeepCounting
  BY DEF ReceiveEdge, WatchLine, CheckStart, SampleBit, CheckStop
<1>2. count < Middle /\ (count + 1) % 2^CW = count + 1
  BY CountFits
<1> QED
  BY <1>1, <1>2 DEF KeepCounting

\* The byte that was received leaves the line; those behind it stay.
LEMMA Arrives ==
  ASSUME Types, NEW n \in Nat, Port(n), in_flight' = Arrived
  PROVE  /\ in_flight' \in Seq(Octet) /\ Len(in_flight') = n
         /\ n > 0 => Youngest' = Youngest
<1>1. in_flight \in Seq(Octet) /\ valid \in BOOLEAN
  BY DEF Types
<1>2. CASE valid
  <2>1. Len(in_flight) = n + 1 /\ in_flight # << >>
    <3>1. Len(in_flight) = n + 1
      BY <1>2 DEF Port
    <3> QED
      BY <1>1, <3>1, EmptySeq
  <2>2. in_flight' = Tail(in_flight)
    BY <1>2, <2>1 DEF Arrived
  <2> DEFINE t == Tail(in_flight)
  <2>3. /\ t \in Seq(Octet) /\ Len(t) = Len(in_flight) - 1
        /\ \A i \in 1 .. Len(t) : t[i] = in_flight[i + 1]
    BY <1>1, <2>1, HeadTailProperties
  <2> HIDE DEF t
  <2>4. Len(t) = n
    BY <2>1, <2>3
  <2>5. n > 0 => t[Len(t)] = in_flight[Len(in_flight)]
    <3>1. n > 0 => n \in 1 .. Len(t)
      BY <2>4
    <3>2. n > 0 => t[n] = in_flight[n + 1]
      BY <2>3, <3>1
    <3> QED
      BY <2>1, <2>4, <3>2
  <2>6. in_flight' = t
    BY <2>2 DEF t
  <2> QED
    BY <2>3, <2>4, <2>5, <2>6 DEF Youngest
<1>3. CASE ~valid
  <2>1. in_flight' = in_flight
    BY <1>3 DEF Arrived
  <2> QED
    BY <1>1, <1>3, <2>1 DEF Port, Youngest
<1> QED
  BY <1>2, <1>3

\* The frame stays, as far as it matters still.
LEMMA FrameKept ==
  ASSUME Types, pos <= Bits(10), Receiving, in_flight' = Arrived
  PROVE  /\ in_flight' \in Seq(Octet)
         /\ ~Done => Youngest' = Youngest
         /\ ~Done => Len(in_flight') = IF Late THEN 2 ELSE 1
         /\ \A k \in sent .. 9 : frame'[k] = frame[k]
         /\ frame'[now] = frame[now]
         /\ \A k \in 0 .. 9 : Within(k, elapsed) \/ Within(k, elapsed - 1) => frame'[k] = frame[k]
<1>1. in_flight \in Seq(Octet) /\ valid \in BOOLEAN
  BY DEF Types
<1>2. /\ sent \in 0 .. 10 /\ tx_count \in Nat /\ tx_count < CLKS_PER_BIT
      /\ pos = Bits(sent) + tx_count /\ Bits(sent) \in Nat
      /\ elapsed \in Int /\ skew \in Int /\ pos = elapsed + skew
      /\ -SKEW <= skew /\ skew <= SKEW
  BY Position
<1>3. ASSUME ~Done
      PROVE  /\ in_flight' \in Seq(Octet)
             /\ Youngest' = Youngest /\ Len(in_flight') = IF Late THEN 2 ELSE 1
  <2>1. CASE Unseen \/ Noticed
    <3>1. Port(1) /\ 1 \in Nat /\ 1 > 0 /\ ~Late
      BY <2>1 DEF Unseen, Noticed, Late
    <3>2. in_flight' \in Seq(Octet) /\ Len(in_flight') = 1 /\ (1 > 0 => Youngest' = Youngest)
      BY <3>1, Arrives
    <3> QED
      BY <3>1, <3>2
  <2>2. CASE Late \/ Starting \/ Reading \/ Stopping
    <3>1. ~valid
      BY <2>2 DEF Late, Starting, Reading, Stopping
    <3>2. in_flight' = in_flight
      BY <3>1 DEF Arrived
    <3>3. Len(in_flight) = IF Late THEN 2 ELSE 1
      <4>1. Late => Len(in_flight) = 2
        BY DEF Late
      <4>2. Starting \/ Reading => Len(in_flight) = 1
        BY DEF Starting, Reading
      <4>3. Stopping => Len(in_flight) = 1
        BY DEF Stopping
      <4> QED
        BY <2>2, <4>1, <4>2, <4>3
    <3> QED
      BY <1>1, <3>2, <3>3 DEF Youngest
  <2> QED
    BY <1>3, <2>1, <2>2 DEF Receiving
<1>4. CASE ~Done
  <2>1. frame' = frame
    BY <1>3, <1>4 DEF frame
  <2> QED
    BY <1>3, <1>4, <2>1
<1>5. CASE Done
  <2>1. in_flight' \in Seq(Octet)
    <3>1. Port(0) /\ 0 \in Nat
      BY <1>5 DEF Done
    <3> QED
      BY <3>1, Arrives
  <2>2. frame'[9] = frame[9]
    BY DEF frame
  <2>3. elapsed >= 3 + H + Bits(9) /\ Bits(9) \in Nat
    BY <1>5, BitsFacts DEF Done
  <2>4. sent >= 9
    <3>1. sent < 9 => Bits(sent) + CLKS_PER_BIT <= Bits(9)
      BY <1>2, BitsFacts
    <3> QED
      BY <1>2, <2>3, <3>1, LinkNumbers
  <2>5. ASSUME NEW k \in 0 .. 9, Within(k, elapsed) \/ Within(k, elapsed - 1)
        PROVE  k = 9
    <3>1. k # 9 => Bits(k + 1) <= Bits(9) /\ Bits(k + 1) \in Nat
      <4>1. k # 9 => k + 1 \in 0 .. 10 /\ (k + 1 = 9 \/ k + 1 < 9)
        OBVIOUS
      <4>2. k + 1 \in 0 .. 10 => Bits(k + 1) \in Nat
        BY BitsFacts
      <4>3. k + 1 \in 0 .. 10 /\ k + 1 < 9 => Bits(k + 1) + CLKS_PER_BIT <= Bits(9)
        BY BitsFacts
      <4>4. k + 1 = 9 => Bits(k + 1) = Bits(9)
        OBVIOUS
      <4> QED
        BY <2>3, <4>1, <4>2, <4>3, <4>4, LinkNumbers
    <3>2. k # 9 => elapsed - 1 + SKEW <= Bits(k + 1)
      BY <1>2, <2>5, <3>1, LinkNumbers DEF Within
    <3> QED
      BY <1>2, <2>3, <3>1, <3>2, LinkNumbers
  <2>6. \A k \in sent .. 9 : k = 9
    BY <1>2, <2>4
  <2>7. now = 9
    <3>1. sent = 9 => Bits(sent) = Bits(9)
      OBVIOUS
    <3>2. sent = 10 => Bits(sent) = Bits(10) /\ Bits(10) \in Nat
      BY BitsFacts
    <3>3. CASE tx_count = 0
      <4>1. sent # 9
        BY <1>2, <2>3, <3>1, <3>3, LinkNumbers
      <4> QED
        BY <1>2, <2>4, <3>3, <4>1 DEF now
    <3>4. CASE tx_count # 0
      <4>1. sent # 10
        BY <1>2, <3>2, <3>4
      <4> QED
        BY <1>2, <2>4, <3>4, <4>1 DEF now
    <3> QED
      BY <3>3, <3>4
  <2> QED
    BY <1>5, <2>1, <2>2, <2>5, <2>6, <2>7, Zenon
<1> QED
  BY <1>4, <1>5

-----------------------------------------------------------------------------
(* The receiver within a byte. *)

\* The receiver's edge within a byte: "elapsed" is one more, by the receiver's
\* own clock or by both.
ByteEdge == ReceiveEdge(tx) /\ in_flight' = Arrived /\ elapsed' = elapsed + 1

\* The start bit is on the line when it can be seen at the latest.
LEMMA LineFalls ==
  ASSUME Types, OnLine, pos <= Bits(10), elapsed = SKEW + 1
  PROVE  tx = 0
<1>1. /\ pos \in Nat /\ skew \in Int /\ pos = elapsed + skew
      /\ -SKEW <= skew /\ skew <= SKEW
  BY Position
<1>2. Bits(0) = 0 /\ Bits(0 + 1) = Bits(0) + CLKS_PER_BIT
  BY BitsFacts
<1>3. Bits(0) + 1 <= pos /\ pos <= Bits(0 + 1)
  BY <1>1, <1>2, LinkNumbers
<1>4. tx = frame[0]
  BY <1>3, LineHas
<1> QED
  BY <1>4 DEF frame

\* A sample in the middle of a bit is that bit, whatever the drift.
LEMMA MiddleSample ==
  ASSUME Types, Sampled, NEW k \in 0 .. 9, NEW d \in 0 .. SKEW + 1,
         elapsed = 2 + H + Bits(k) + d
  PROVE  rx_sync = frame[k]
<1>1. Bits(k) \in Nat /\ Bits(k + 1) = Bits(k) + CLKS_PER_BIT
  BY BitsFacts
<1>2. Bits(k) + 1 <= elapsed - 2 - SKEW /\ elapsed - 2 + SKEW <= Bits(k + 1)
  BY <1>1, LinkNumbers
<1>3. Within(k, elapsed - 2)
  BY <1>2 DEF Within
<1> QED
  BY <1>3 DEF Sampled

\* The stop bit of the byte before is sampled before this byte's start bit is.
LEMMA LateMoves ==
  ASSUME Types, OnLine, pos <= Bits(10), Late, ByteEdge
  PROVE  Receiving'
<1>1. /\ elapsed \in 0 .. 1 /\ state = "STOP" /\ count >= CLKS_PER_BIT - 2 + elapsed
      /\ rx_sync = 1 /\ (elapsed = 0 => rx_meta = 1)
      /\ ~valid /\ Len(in_flight) = 2 /\ shift = in_flight[1]
  BY DEF Late
<1>2. rx_meta' = tx /\ rx_sync' = rx_meta /\ elapsed' = elapsed + 1 /\ in_flight' = in_flight
  BY <1>1 DEF ByteEdge, ReceiveEdge, Arrived
<1>3. Middle = CLKS_PER_BIT - 1 /\ count <= Middle /\ count \in Nat
  BY <1>1 DEF Types, Middle
<1>4. rx_meta \in Binary /\ tx \in Binary
  BY DEF Types
<1>5. CASE count # Middle
  <2>1. state' = state /\ count' = count + 1 /\ shift' = shift /\ valid' = FALSE
    BY <1>1, <1>5, Waits DEF ByteEdge
  <2>2. elapsed = 0
    BY <1>1, <1>3, <1>5, LinkNumbers
  <2>3. elapsed' = 1 /\ elapsed' \in 0 .. 1 /\ count' >= CLKS_PER_BIT - 2 + elapsed'
    BY <1>1, <1>2, <1>3, <2>1, <2>2, LinkNumbers
  <2>4. rx_sync' = 1 /\ (elapsed' = 0 => rx_meta' = 1)
    BY <1>1, <1>2, <2>2, <2>3
  <2>5. Late'
    BY <1>1, <1>2, <2>1, <2>3, <2>4 DEF Late
  <2> QED
    BY <2>5 DEF Receiving
<1>6. CASE count = Middle
  <2>1. CheckStop
    BY <1>1, <1>6 DEF ByteEdge, ReceiveEdge, WatchLine, KeepCounting, CheckStart, SampleBit
  <2>2. state' = "IDLE" /\ valid' = TRUE /\ data' = shift
    BY <1>1, <2>1, Zenon DEF CheckStop
  <2>3. Port(1)'
    <3>1. Len(in_flight') = 1 + 1 /\ data' = in_flight'[1]
      BY <1>1, <1>2, <2>2
    <3> QED
      BY <2>2, <3>1 DEF Port
  <2>4. CASE rx_sync' = 1 /\ rx_meta' = 1
    <3>1. elapsed' \in 0 .. SKEW + 1
      <4>1. CASE elapsed = 0
        BY <1>2, <4>1, LinkNumbers
      <4>2. CASE elapsed = 1
        <5>1. elapsed # SKEW + 1
          BY <1>2, <2>4, LineFalls
        <5> QED
          BY <1>2, <4>2, <5>1, LinkNumbers
      <4> QED
        BY <1>1, <4>1, <4>2
    <3> QED
      BY <2>2, <2>3, <2>4, <3>1 DEF Receiving, Unseen
  <2>5. CASE rx_sync' = 1 /\ rx_meta' = 0
    <3>1. Start(elapsed' - 1)
      BY <1>1, <1>2, LinkNumbers DEF Start
    <3>2. Noticed'
      BY <2>2, <2>3, <2>5, <3>1 DEF Noticed, Start
    <3> QED
      BY <3>2 DEF Receiving
  <2>6. CASE rx_sync' = 0
    <3>1. elapsed = 1
      BY <1>1, <1>2, <2>6
    <3>2. Start(elapsed' - 2)
      BY <1>2, <3>1, LinkNumbers DEF Start
    <3>3. Noticed'
      BY <2>2, <2>3, <2>6, <3>2 DEF Noticed, Start
    <3> QED
      BY <3>3 DEF Receiving
  <2> QED
    BY <1>2, <1>4, <2>4, <2>5, <2>6 DEF Binary
<1> QED
  BY <1>5, <1>6

\* The line is high until the start bit is there.
LEMMA UnseenMoves ==
  ASSUME Types, OnLine, pos <= Bits(10), Unseen, ByteEdge
  PROVE  Receiving'
<1>1. state = "IDLE" /\ rx_sync = 1 /\ rx_meta = 1 /\ elapsed \in 0 .. SKEW + 1 /\ Port(1)
  BY DEF Unseen
<1>2. rx_meta' = tx /\ rx_sync' = 1 /\ elapsed' = elapsed + 1
  BY <1>1 DEF ByteEdge, ReceiveEdge
<1>3. state' = "IDLE" /\ valid' = FALSE
  BY <1>1 DEF ByteEdge, ReceiveEdge, WatchLine, KeepCounting, CheckStart, SampleBit, CheckStop
<1>4. Port(1)'
  <2>1. Len(in_flight') = 1
    <3>1. 1 \in Nat /\ in_flight' = Arrived
      BY DEF ByteEdge
    <3> QED
      BY <1>1, <3>1, Arrives
  <2> QED
    BY <1>3, <2>1 DEF Port
<1>5. CASE tx = 0
  <2>1. Start(elapsed' - 1)
    BY <1>1, <1>2, LinkNumbers DEF Start
  <2>2. Noticed'
    BY <1>2, <1>3, <1>4, <1>5, <2>1 DEF Noticed, Start
  <2> QED
    BY <2>2 DEF Receiving
<1>6. CASE tx = 1
  <2>1. elapsed # SKEW + 1
    BY <1>6, LineFalls
  <2>2. elapsed' \in 0 .. SKEW + 1
    BY <1>1, <1>2, <2>1, LinkNumbers
  <2>3. Unseen'
    BY <1>2, <1>3, <1>4, <1>6, <2>2 DEF Unseen
  <2> QED
    BY <2>3 DEF Receiving
<1> QED
  BY <1>5, <1>6 DEF Types, Binary

\* The start bit goes through the synchronizer.
LEMMA NoticedMoves ==
  ASSUME Types, Noticed, ByteEdge
  PROVE  Receiving'
<1>1. /\ state = "IDLE" /\ Port(1)
      /\ \/ rx_sync = 1 /\ rx_meta = 0 /\ Start(elapsed - 1)
         \/ rx_sync = 0 /\ Start(elapsed - 2)
  BY DEF Noticed
<1>2. rx_meta' = tx /\ rx_sync' = rx_meta /\ elapsed' = elapsed + 1 /\ elapsed \in Int
  BY Position DEF ByteEdge, ReceiveEdge
<1>3. /\ state' = IF rx_sync = 0 THEN "START" ELSE "IDLE"
      /\ count' = 0 /\ valid' = FALSE
  BY <1>1 DEF ByteEdge, ReceiveEdge, WatchLine, KeepCounting, CheckStart, SampleBit, CheckStop
<1>4. Len(in_flight') = 1
  <2>1. 1 \in Nat /\ in_flight' = Arrived
    BY DEF ByteEdge
  <2> QED
    BY <1>1, <2>1, Arrives
<1>5. CASE rx_sync = 1 /\ rx_meta = 0 /\ Start(elapsed - 1)
  <2>1. Start(elapsed' - 2)
    <3>1. elapsed' - 2 = elapsed - 1
      BY <1>2
    <3> QED
      BY <1>5, <3>1
  <2>2. state' = "IDLE" /\ rx_sync' = 0 /\ Port(1)'
    BY <1>2, <1>3, <1>4, <1>5 DEF Port
  <2>3. Noticed'
    BY <2>1, <2>2 DEF Noticed, Start
  <2> QED
    BY <2>3 DEF Receiving
<1>6. CASE rx_sync = 0 /\ Start(elapsed - 2)
  <2>1. Start(elapsed' - 3 - count')
    <3>1. elapsed' - 3 - count' = elapsed - 2
      BY <1>2, <1>3
    <3> QED
      BY <1>6, <3>1
  <2>2. Starting'
    BY <1>3, <1>4, <1>6, <2>1 DEF Starting, Start
  <2> QED
    BY <2>2 DEF Receiving
<1> QED
  BY <1>1, <1>5, <1>6

\* The start bit is still there when it is checked.
LEMMA StartingMoves ==
  ASSUME Types, Sampled, Starting, ByteEdge
  PROVE  Receiving'
<1>1. state = "START" /\ Start(elapsed - 3 - count) /\ ~valid /\ Len(in_flight) = 1
  BY DEF Starting
<1>2. /\ elapsed' = elapsed + 1 /\ elapsed \in Int /\ in_flight' = in_flight
      /\ count \in Nat /\ rx_sync \in Binary
  BY <1>1, Position, LinkNumbers DEF ByteEdge, Arrived, Types
<1>3. CASE count # Middle
  <2>1. state' = state /\ count' = count + 1 /\ valid' = FALSE
    BY <1>1, <1>3, Waits DEF ByteEdge
  <2>2. elapsed' - 3 - count' = elapsed - 3 - count
    BY <1>2, <2>1
  <2>3. Starting'
    BY <1>1, <1>2, <2>1, <2>2 DEF Starting, Start
  <2> QED
    BY <2>3 DEF Receiving
<1>4. CASE count = Middle
  <2>1. CheckStart
    BY <1>1, <1>4 DEF ByteEdge, ReceiveEdge, WatchLine, KeepCounting, SampleBit, CheckStop
  <2>2. Middle = H - 1
    BY <1>1 DEF Middle, H
  <2> DEFINE d == elapsed - 3 - count
  <2>3. d \in 0 .. SKEW + 1
    BY <1>1 DEF Start
  <2>4. rx_sync = 0
    <3>1. elapsed = 2 + H + Bits(0) + d
      BY <1>2, <1>4, <2>2, LinkNumbers, BitsFacts
    <3> HIDE DEF d
    <3>2. rx_sync = frame[0]
      BY <2>3, <3>1, MiddleSample
    <3> QED
      BY <3>2 DEF frame
  <2>5. state' = "DATA" /\ count' = 0 /\ bit_index' = 0 /\ valid' = FALSE
    BY <2>1, <2>4 DEF CheckStart
  <2>6. Start(elapsed' - 3 - H - Bits(bit_index') - count')
    <3>1. Bits(bit_index') = 0
      BY <2>5, BitsFacts
    <3>2. elapsed' - 3 - H - Bits(bit_index') - count' = d
      BY <1>2, <1>4, <2>2, <2>5, <3>1, LinkNumbers
    <3> QED
      BY <2>3, <3>2 DEF Start
  <2>7. \A i \in 1 .. bit_index' : shift'[8 - bit_index' + i] = Youngest'[i]
    BY <2>5
  <2>8. Reading'
    BY <1>1, <1>2, <2>5, <2>6, <2>7 DEF Reading, Start
  <2> QED
    BY <2>8 DEF Receiving
<1> QED
  BY <1>3, <1>4

\* Each data bit is sampled in its middle and shifted in behind those before.
LEMMA ReadingMoves ==
  ASSUME Types, Sampled, Reading, ByteEdge
  PROVE  Receiving'
<1>1. /\ state = "DATA" /\ Start(elapsed - 3 - H - Bits(bit_index) - count)
      /\ ~valid /\ Len(in_flight) = 1
      /\ \A i \in 1 .. bit_index : shift[8 - bit_index + i] = Youngest[i]
  BY DEF Reading
<1>2. /\ elapsed' = elapsed + 1 /\ elapsed \in Int /\ in_flight' = in_flight
      /\ count \in Nat /\ rx_sync \in Binary /\ bit_index \in 0 .. 7
  BY <1>1, Position, LinkNumbers DEF ByteEdge, Arrived, Types
<1>3. Bits(bit_index) \in Nat /\ Bits(bit_index + 1) = Bits(bit_index) + CLKS_PER_BIT
  BY <1>2, BitsFacts
<1>4. Youngest' = Youngest
  BY <1>2 DEF Youngest
<1>5. CASE count # Middle
  <2>1. /\ state' = state /\ count' = count + 1 /\ bit_index' = bit_index
        /\ shift' = shift /\ valid' = FALSE
    BY <1>1, <1>5, Waits DEF ByteEdge
  <2>2. elapsed' - 3 - H - Bits(bit_index') - count' = elapsed - 3 - H - Bits(bit_index) - count
    BY <1>2, <1>3, <2>1, LinkNumbers
  <2>3. Start(elapsed' - 3 - H - Bits(bit_index') - count')
    BY <1>1, <2>2
  <2>4. \A i \in 1 .. bit_index' : shift'[8 - bit_index' + i] = Youngest'[i]
    BY <1>1, <1>4, <2>1
  <2>5. Reading'
    BY <1>1, <1>2, <2>1, <2>3, <2>4 DEF Reading, Start
  <2> QED
    BY <2>5 DEF Receiving
<1>6. CASE count = Middle
  <2>1. SampleBit
    BY <1>1, <1>6 DEF ByteEdge, ReceiveEdge, WatchLine, KeepCounting, CheckStart, CheckStop
  <2>2. count = CLKS_PER_BIT - 1
    BY <1>1, <1>6 DEF Middle
  <2> DEFINE d == elapsed - 3 - H - Bits(bit_index) - count
  <2>3. d \in 0 .. SKEW + 1
    BY <1>1 DEF Start
  <2>4. elapsed = 2 + H + Bits(bit_index + 1) + d
    BY <1>2, <1>3, <2>2, LinkNumbers
  <2> HIDE DEF d
  <2>5. rx_sync = Youngest[bit_index + 1]
    <3>1. bit_index + 1 \in 0 .. 9 /\ bit_index + 1 # 0 /\ bit_index + 1 # 9
      BY <1>2
    <3>2. rx_sync = frame[bit_index + 1]
      BY <2>3, <2>4, <3>1, MiddleSample
    <3> QED
      BY <3>1, <3>2 DEF frame
  <2>6. /\ shift' \in Seq(Binary) /\ Len(shift') = 8 /\ shift'[8] = rx_sync
        /\ \A i \in 1 .. 7 : shift'[i] = shift[i + 1]
    <3>1. shift \in Seq(Binary) /\ Len(shift) = 8 /\ Len(shift) # 0
      <4>1. shift \in Octet
        BY DEF Types
      <4> QED
        BY <4>1 DEF Octet
    <3>2. shift' = Append(Tail(shift), rx_sync)
      BY <2>1 DEF SampleBit
    <3> DEFINE t == Append(Tail(shift), rx_sync)
    <3>3. /\ t \in Seq(Binary) /\ Len(t) = Len(shift)
          /\ \A i \in 1 .. Len(shift) - 1 : t[i] = shift[i + 1]
          /\ t[Len(shift)] = rx_sync
      <4>1. rx_sync \in Binary
        BY <1>2
      <4> QED
        BY <3>1, <4>1, Shifted, Zenon
    <3> HIDE DEF t
    <3>4. Len(shift) - 1 = 7
      BY <3>1
    <3>5. /\ t \in Seq(Binary) /\ Len(t) = 8 /\ t[8] = rx_sync
          /\ \A i \in 1 .. 7 : t[i] = shift[i + 1]
      BY <3>1, <3>3, <3>4, Zenon
    <3>6. shift' = t
      BY <3>2 DEF t
    <3> QED
      BY <3>5, <3>6
  <2>7. \A i \in 1 .. bit_index + 1 : shift'[7 - bit_index + i] = Youngest[i]
    <3> SUFFICES ASSUME NEW i \in 1 .. bit_index + 1
                 PROVE  shift'[7 - bit_index + i] = Youngest[i]
      OBVIOUS
    <3>1. CASE i = bit_index + 1
      <4>1. 7 - bit_index + i = 8
        BY <1>2, <3>1
      <4> QED
        BY <2>5, <2>6, <3>1, <4>1
    <3>2. CASE i # bit_index + 1
      <4>1. /\ i \in 1 .. bit_index /\ 7 - bit_index + i \in 1 .. 7
            /\ 7 - bit_index + i + 1 = 8 - bit_index + i
        BY <1>2, <3>2
      <4>2. shift'[7 - bit_index + i] = shift[7 - bit_index + i + 1]
        BY <2>6, <4>1
      <4>3. shift[8 - bit_index + i] = Youngest[i]
        BY <1>1, <4>1
      <4> QED
        BY <4>1, <4>2, <4>3
    <3> QED
      BY <3>1, <3>2
  <2>8. CASE bit_index # 7
    <3>1. state' = "DATA" /\ count' = 0 /\ bit_index' = bit_index + 1 /\ valid' = FALSE
      BY <1>1, <2>1, <2>8 DEF SampleBit
    <3>2. Start(elapsed' - 3 - H - Bits(bit_index') - count')
      <4>1. Bits(bit_index') = Bits(bit_index) + CLKS_PER_BIT
        BY <1>3, <3>1
      <4>2. elapsed' - 3 - H - Bits(bit_index') - count' = d
        BY <1>2, <1>3, <2>2, <3>1, <4>1, LinkNumbers DEF d
      <4> QED
        BY <2>3, <4>2 DEF Start
    <3>3. \A i \in 1 .. bit_index' : shift'[8 - bit_index' + i] = Youngest'[i]
      <4>1. 8 - bit_index' = 7 - bit_index
        BY <1>2, <3>1
      <4> QED
        BY <1>4, <2>7, <3>1, <4>1
    <3>4. Reading'
      BY <1>1, <1>2, <3>1, <3>2, <3>3 DEF Reading, Start
    <3> QED
      BY <3>4 DEF Receiving
  <2>9. CASE bit_index = 7
    <3>1. state' = "STOP" /\ count' = 0 /\ valid' = FALSE
      BY <2>1, <2>9 DEF SampleBit
    <3>2. Start(elapsed' - 3 - H - Bits(8) - count')
      <4>1. Bits(8) = Bits(bit_index) + CLKS_PER_BIT
        <5>1. bit_index + 1 = 8
          BY <2>9
        <5> QED
          BY <1>3, <5>1
      <4>2. elapsed' - 3 - H - Bits(8) - count' = d
        BY <1>2, <1>3, <2>2, <3>1, <4>1, LinkNumbers DEF d
      <4> QED
        BY <2>3, <4>2 DEF Start
    <3>3. in_flight' = <<shift'>>
      <4>1. in_flight \in Seq(Octet) /\ Len(in_flight) = 1
        BY <1>1 DEF Types
      <4>2. in_flight[1] \in Octet
        BY <4>1, ElementOfSeq
      <4>3. Youngest = in_flight[1]
        BY <4>1 DEF Youngest
      <4>4. \A i \in 1 .. 8 : shift'[i] = in_flight[1][i]
        <5>1. 7 - bit_index = 0 /\ bit_index + 1 = 8
          BY <2>9
        <5>2. \A i \in 1 .. 8 : 0 + i = i
          OBVIOUS
        <5> QED
          BY <2>7, <4>3, <5>1, <5>2
      <4>5. shift' = in_flight[1]
        <5>1. in_flight[1] \in Seq(Binary) /\ Len(in_flight[1]) = 8
          BY <4>2 DEF Octet
        <5> QED
          BY <2>6, <4>4, <5>1, SeqEqual
      <4>6. in_flight = <<in_flight[1]>>
        BY <4>1
      <4> QED
        BY <1>2, <4>5, <4>6
    <3>4. Stopping'
      BY <3>1, <3>2, <3>3 DEF Stopping, Start
    <3> QED
      BY <3>4 DEF Receiving
  <2> QED
    BY <2>8, <2>9
<1> QED
  BY <1>5, <1>6

\* The stop bit is high in its middle, and the byte is at the port.
LEMMA StoppingMoves ==
  ASSUME Types, Sampled, Stopping, ByteEdge
  PROVE  Receiving'
<1>1. /\ state = "STOP" /\ Start(elapsed - 3 - H - Bits(8) - count)
      /\ ~valid /\ in_flight = <<shift>>
  BY DEF Stopping
<1>2. /\ elapsed' = elapsed + 1 /\ elapsed \in Int /\ in_flight' = in_flight
      /\ count \in Nat /\ rx_sync \in Binary
  BY <1>1, Position, LinkNumbers DEF ByteEdge, Arrived, Types
<1>3. Bits(8) \in Nat /\ Bits(9) = Bits(8) + CLKS_PER_BIT
  <2>1. Bits(8 + 1) = Bits(8) + CLKS_PER_BIT /\ Bits(8) \in Nat
    BY BitsFacts
  <2>2. 8 + 1 = 9
    OBVIOUS
  <2> QED
    BY <2>1, <2>2
<1>4. CASE count # Middle
  <2>1. state' = state /\ count' = count + 1 /\ shift' = shift /\ valid' = FALSE
    BY <1>1, <1>4, Waits DEF ByteEdge
  <2>2. elapsed' - 3 - H - Bits(8) - count' = elapsed - 3 - H - Bits(8) - count
    BY <1>2, <1>3, <2>1, LinkNumbers
  <2>3. Stopping'
    BY <1>1, <1>2, <2>1, <2>2 DEF Stopping, Start, Bits
  <2> QED
    BY <2>3 DEF Receiving
<1>5. CASE count = Middle
  <2>1. CheckStop
    BY <1>1, <1>5 DEF ByteEdge, ReceiveEdge, WatchLine, KeepCounting, CheckStart, SampleBit
  <2>2. count = CLKS_PER_BIT - 1
    BY <1>1, <1>5 DEF Middle
  <2> DEFINE d == elapsed - 3 - H - Bits(8) - count
  <2>3. d \in 0 .. SKEW + 1
    BY <1>1 DEF Start
  <2>4. elapsed = 2 + H + Bits(9) + d
    BY <1>2, <1>3, <2>2, LinkNumbers
  <2> HIDE DEF d
  <2>5. rx_sync = 1
    <3>1. rx_sync = frame[9]
      BY <2>3, <2>4, MiddleSample
    <3> QED
      BY <3>1 DEF frame
  <2>6. state' = "IDLE" /\ valid' = TRUE /\ data' = shift
    BY <2>1, <2>5, Zenon DEF CheckStop
  <2>7. elapsed' >= 3 + H + Bits(9)
    BY <1>2, <1>3, <2>3, <2>4, LinkNumbers
  <2>8. Port(0)'
    <3>1. Len(in_flight') = 0 + 1 /\ data' = in_flight'[1]
      BY <1>1, <1>2, <2>6
    <3> QED
      BY <2>6, <3>1 DEF Port
  <2>9. Done'
    BY <2>6, <2>7, <2>8 DEF Done, Bits
  <2> QED
    BY <2>9 DEF Receiving
<1> QED
  BY <1>4, <1>5

\* Nothing more is seen of the byte.
LEMMA DoneMoves ==
  ASSUME Types, Sampled, pos <= Bits(10), Done, ByteEdge
  PROVE  Receiving'
<1>1. state = "IDLE" /\ elapsed >= 3 + H + Bits(9) /\ Port(0)
  BY DEF Done
<1>2. /\ elapsed' = elapsed + 1 /\ elapsed \in Int /\ in_flight' = Arrived
      /\ Bits(9) \in Nat
  BY Position, BitsFacts DEF ByteEdge
<1>3. rx_sync = 1
  <2>1. Within(9, elapsed - 2)
    BY <1>1, <1>2, LinkNumbers DEF Within
  <2>2. rx_sync = frame[9]
    BY <2>1 DEF Sampled
  <2> QED
    BY <2>2 DEF frame
<1>4. state' = "IDLE" /\ valid' = FALSE
  BY <1>1, <1>3 DEF ByteEdge, ReceiveEdge, WatchLine, KeepCounting, CheckStart, SampleBit, CheckStop
<1>5. Len(in_flight') = 0
  <2>1. 0 \in Nat
    OBVIOUS
  <2> QED
    BY <1>1, <1>2, <2>1, Arrives
<1>6. elapsed' >= 3 + H + Bits(9)
  BY <1>1, <1>2, LinkNumbers
<1>7. Done'
  BY <1>4, <1>5, <1>6 DEF Done, Port, Bits
<1> QED
  BY <1>7 DEF Receiving

\* A receiver's edge within a byte, wherever the receiver is.
LEMMA ReceivingMoves ==
  ASSUME Types, OnLine, Sampled, pos <= Bits(10), Receiving, ByteEdge
  PROVE  Receiving' /\ Sampled'
<1>1. Receiving'
  BY LateMoves, UnseenMoves, NoticedMoves, StartingMoves, ReadingMoves, StoppingMoves,
     DoneMoves DEF Receiving
<1>2. /\ rx_meta' = tx /\ rx_sync' = rx_meta /\ elapsed' = elapsed + 1
      /\ in_flight' = Arrived
  BY DEF ByteEdge, ReceiveEdge
<1>3. \A k \in 0 .. 9 : Within(k, elapsed) \/ Within(k, elapsed - 1) => frame'[k] = frame[k]
  BY <1>2, FrameKept
<1>4. Sampled'
  BY <1>2, <1>3, SampleMoves
<1> QED
  BY <1>1, <1>4

-----------------------------------------------------------------------------
(* From one byte to the next. *)

\* When the stop bit has been sent, the receiver is in the middle of it or past.
LEMMA Rested ==
  ASSUME Types, InByte, ready
  PROVE  Resting
<1>1. /\ hold_off = 0 /\ glitch = 0 /\ pos <= Bits(10) /\ OnLine /\ Sampled /\ Receiving
  BY DEF InByte
<1>2. /\ sent = 10 /\ tx_count \in Nat /\ pos = Bits(sent) + tx_count
      /\ elapsed \in Int /\ skew \in Int /\ pos = elapsed + skew
      /\ -SKEW <= skew /\ skew <= SKEW
  BY Position
<1>3. /\ Bits(7) \in Nat /\ Bits(8) = Bits(7) + CLKS_PER_BIT /\ Bits(9) = Bits(8) + CLKS_PER_BIT
      /\ Bits(10) = Bits(9) + CLKS_PER_BIT /\ Bits(6) + CLKS_PER_BIT <= Bits(7)
      /\ Bits(6) \in Nat
  BY LinkNumbers DEF Bits
<1>4. tx_count = 0 /\ pos = Bits(10)
  <2>1. Bits(sent) = Bits(10)
    BY <1>2
  <2> QED
    BY <1>1, <1>2, <1>3, <2>1, LinkNumbers
<1>5. elapsed >= Bits(10) - SKEW /\ elapsed <= Bits(10) + SKEW
  BY <1>2, <1>3, <1>4, LinkNumbers
<1>6. tx = 1
  <2>1. pos # 0 /\ sent - 1 = 9 /\ tx_count = 0
    BY <1>2, <1>3, <1>4, LinkNumbers
  <2>2. tx = frame[9]
    BY <1>1, <1>4, <2>1 DEF OnLine, now
  <2> QED
    BY <2>2 DEF frame
<1>7. rx_meta = 1 /\ rx_sync = 1
  <2>1. Within(9, elapsed - 1) /\ Within(9, elapsed - 2)
    BY <1>2, <1>3, <1>5, LinkNumbers DEF Within
  <2>2. rx_meta = frame[9] /\ rx_sync = frame[9]
    BY <1>1, <2>1 DEF Sampled
  <2> QED
    BY <2>2 DEF frame
<1>8. \/ state = "IDLE" /\ Port(0)
      \/ state = "STOP" /\ count >= CLKS_PER_BIT - 3 /\ ~valid /\ in_flight = <<shift>>
  <2>1. ~Late /\ ~Unseen /\ ~Noticed
    <3>1. elapsed > SKEW + 3
      BY <1>2, <1>3, <1>5, LinkNumbers
    <3> QED
      BY <1>2, <3>1, LinkNumbers DEF Late, Unseen, Noticed, Start
  <2>2. ~Starting
    <3>1. ASSUME Starting PROVE FALSE
      <4>1. state = "START" /\ elapsed - 3 - count \in 0 .. SKEW + 1
        BY <3>1 DEF Starting, Start
      <4>2. count <= H - 1 /\ count \in Nat
        BY <4>1, LinkNumbers DEF Types, Middle, H
      <4> QED
        BY <1>2, <1>3, <1>5, <4>1, <4>2, LinkNumbers
    <3> QED
      BY <3>1
  <2>3. ~Reading
    <3>1. ASSUME Reading PROVE FALSE
      <4>1. elapsed - 3 - H - Bits(bit_index) - count \in 0 .. SKEW + 1
        BY <3>1 DEF Reading, Start
      <4>2. count <= CLKS_PER_BIT - 1 /\ count \in Nat /\ bit_index \in 0 .. 7
        BY LinkNumbers DEF Types
      <4>3. Bits(bit_index) <= Bits(7) /\ Bits(bit_index) \in Nat
        <5>1. bit_index < 7 => Bits(bit_index) + CLKS_PER_BIT <= Bits(7)
          BY <4>2, BitsFacts
        <5>2. bit_index = 7 => Bits(bit_index) = Bits(7)
          OBVIOUS
        <5>3. Bits(bit_index) \in Nat
          BY <4>2, BitsFacts
        <5> QED
          BY <1>3, <4>2, <5>1, <5>2, <5>3, LinkNumbers
      <4> QED
        BY <1>2, <1>3, <1>5, <4>1, <4>2, <4>3, LinkNumbers
    <3> QED
      BY <3>1
  <2>4. CASE Stopping
    <3>1. /\ state = "STOP" /\ elapsed - 3 - H - Bits(8) - count \in 0 .. SKEW + 1
          /\ ~valid /\ in_flight = <<shift>>
      BY <2>4 DEF Stopping, Start
    <3>2. count \in Nat
      BY LinkNumbers DEF Types
    <3>3. count >= CLKS_PER_BIT - 3
      BY <1>2, <1>3, <1>5, <3>1, <3>2, LinkNumbers
    <3> QED
      BY <3>1, <3>3
  <2>5. CASE Done
    BY <2>5 DEF Done
  <2> QED
    BY <1>1, <2>1, <2>2, <2>3, <2>4, <2>5 DEF Receiving
<1> QED
  BY <1>1, <1>6, <1>7, <1>8 DEF Resting

\* When a glitch has been long ago, the receiver waits for the next byte.
LEMMA Recovered ==
  ASSUME Types, Glitching, hold_off = 0
  PROVE  Resting
<1>1. since = RECOVERY
  BY LinkNumbers DEF since
<1>2. /\ rx_meta \in Binary /\ rx_sync \in Binary /\ glitch \in Nat
      /\ state = "START" => count <= H - 1 /\ count \in Nat
  BY LinkNumbers DEF Types, Middle, H
<1>3. glitch = 0
  BY <1>1, <1>2, LinkNumbers DEF Glitching
<1>4. rx_meta = 1 /\ rx_sync = 1
  BY <1>1, <1>2, LinkNumbers DEF Glitching, Binary
<1>5. state = "IDLE"
  BY <1>1, <1>2, LinkNumbers DEF Glitching
<1>6. ready /\ tx = 1 /\ ~valid /\ in_flight = << >>
  BY DEF Glitching
<1>7. Port(0)
  BY <1>6 DEF Port
<1> QED
  BY <1>3, <1>4, <1>5, <1>6, <1>7 DEF Resting

-----------------------------------------------------------------------------
(* The steps. *)

\* A byte on its way goes on, when both clocks tick.
LEMMA SendingBothTick ==
  ASSUME Types, Sending, BothTick
  PROVE  Types' /\ InByte'
<1>1. /\ ~ready /\ hold_off = 0 /\ glitch = 0 /\ pos <= Bits(10)
      /\ ToSend /\ OnLine /\ Sampled /\ Receiving
  BY DEF Sending, InByte
<1>2. PICK offered : TransmitEdge(offered)
  BY DEF BothTick
<1>3. /\ in_flight' = Arrived /\ skew' = skew /\ ReceiveEdge(tx)
      /\ hold_off' = 0 /\ glitch' = 0
  BY <1>1 DEF BothTick, Line, Level
<1>4. /\ bits_left' \in 0 .. 10 /\ tx_count' \in 0 .. CLKS_PER_BIT - 1
      /\ tx_shift' \in Seq(Binary) /\ Len(tx_shift') = 10 /\ tx' \in Binary
      /\ pos' = pos + 1
  BY <1>1, <1>2, TransmitMoves
<1>5. elapsed' = elapsed + 1
  <2>1. elapsed' = pos' - skew' /\ elapsed = pos - skew
    BY DEF elapsed
  <2>2. pos \in Nat /\ skew \in Int
    BY Position
  <2>3. pos' = pos + 1 /\ skew' = skew
    BY <1>3, <1>4
  <2> QED
    BY <2>1, <2>2, <2>3
<1>6. ByteEdge
  BY <1>3, <1>5 DEF ByteEdge
<1>7. Receiving' /\ Sampled'
  BY <1>1, <1>6, ReceivingMoves
<1>8. in_flight' \in Seq(Octet) /\ \A k \in sent .. 9 : frame'[k] = frame[k]
  BY <1>1, <1>3, FrameKept
<1>9. ToSend' /\ OnLine' /\ pos' <= Bits(10)
  BY <1>1, <1>2, <1>8, TransmitKeeps
<1>10. Types'
  <2>1. tx \in Binary /\ skew \in -SKEW .. SKEW
    BY DEF Types
  <2>2. /\ state' \in {"IDLE", "START", "DATA", "STOP"}
        /\ count' \in 0 .. CLKS_PER_BIT - 1 /\ bit_index' \in 0 .. 7
        /\ state' # "IDLE" => count' <= Middle'
        /\ shift' \in Octet
        /\ rx_meta' \in Binary /\ rx_sync' \in Binary /\ valid' \in BOOLEAN
    BY <1>3, <2>1, ReceiverTypes
  <2>3. glitch' \in 0 .. GLITCH /\ hold_off' \in 0 .. RECOVERY
    BY <1>3, LinkNumbers
  <2> QED
    BY <1>3, <1>4, <1>8, <2>1, <2>2, <2>3 DEF Types
<1> QED
  BY <1>3, <1>7, <1>9, <1>10 DEF InByte, Bits

\* ... when the receiver's clock is ahead ...
LEMMA SendingReceiverTicks ==
  ASSUME Types, Sending, ReceiverTicks
  PROVE  Types' /\ InByte'
<1>1. /\ ~ready /\ hold_off = 0 /\ glitch = 0 /\ pos <= Bits(10)
      /\ ToSend /\ OnLine /\ Sampled /\ Receiving
  BY DEF Sending, InByte
<1>2. /\ in_flight' = Arrived /\ skew > -SKEW /\ skew' = skew - 1 /\ ReceiveEdge(tx)
      /\ hold_off' = 0 /\ glitch' = 0
      /\ tx_shift' = tx_shift /\ bits_left' = bits_left /\ tx_count' = tx_count /\ tx' = tx
  BY <1>1 DEF ReceiverTicks, Line, Level, transmitVars
<1>3. sent' = sent /\ pos' = pos
  BY <1>2 DEF sent, pos
<1>4. elapsed' = elapsed + 1
  <2>1. elapsed' = pos' - skew' /\ elapsed = pos - skew
    BY DEF elapsed
  <2>2. pos \in Nat /\ skew \in Int
    BY Position
  <2>3. pos' = pos /\ skew' = skew - 1
    BY <1>2, <1>3
  <2> QED
    BY <2>1, <2>2, <2>3
<1>5. ByteEdge
  BY <1>2, <1>4 DEF ByteEdge
<1>6. Receiving' /\ Sampled'
  BY <1>1, <1>5, ReceivingMoves
<1>7. in_flight' \in Seq(Octet) /\ \A k \in sent .. 9 : frame'[k] = frame[k]
  BY <1>1, <1>2, FrameKept
<1>8. ToSend'
  <2> SUFFICES ASSUME NEW i \in 1 .. 10 - sent'
               PROVE  tx_shift'[i] = frame'[sent' + i - 1]
    BY DEF ToSend
  <2>1. i \in 1 .. 10 - sent /\ sent + i - 1 \in sent .. 9
    BY <1>3, Position
  <2>2. tx_shift[i] = frame[sent + i - 1] /\ frame'[sent + i - 1] = frame[sent + i - 1]
    BY <1>1, <1>7, <2>1 DEF ToSend
  <2> QED
    BY <1>2, <1>3, <2>2
<1>9. OnLine'
  <2>1. now' = now /\ frame'[now] = frame[now]
    BY <1>1, <1>2, <1>3, FrameKept DEF now
  <2> QED
    BY <1>1, <1>2, <1>3, <2>1 DEF OnLine
<1>10. Types'
  <2>1. tx \in Binary /\ skew \in -SKEW .. SKEW
    BY DEF Types
  <2>2. /\ state' \in {"IDLE", "START", "DATA", "STOP"}
        /\ count' \in 0 .. CLKS_PER_BIT - 1 /\ bit_index' \in 0 .. 7
        /\ state' # "IDLE" => count' <= Middle'
        /\ shift' \in Octet
        /\ rx_meta' \in Binary /\ rx_sync' \in Binary /\ valid' \in BOOLEAN
    BY <1>2, <2>1, ReceiverTypes
  <2>3. glitch' \in 0 .. GLITCH /\ hold_off' \in 0 .. RECOVERY /\ skew' \in -SKEW .. SKEW
    BY <1>2, <2>1, LinkNumbers
  <2>4. /\ bits_left' \in 0 .. 10 /\ tx_count' \in 0 .. CLKS_PER_BIT - 1 /\ tx' \in Binary
        /\ tx_shift' \in Seq(Binary) /\ Len(tx_shift') = 10
    BY <1>2 DEF Types
  <2> QED
    BY <1>7, <2>2, <2>3, <2>4 DEF Types
<1> QED
  BY <1>1, <1>2, <1>3, <1>6, <1>8, <1>9, <1>10 DEF InByte, Bits

\* ... and when the transmitter's is.
LEMMA SendingTransmitterTicks ==
  ASSUME Types, Sending, TransmitterTicks
  PROVE  Types' /\ InByte'
<1>1. /\ ~ready /\ hold_off = 0 /\ glitch = 0 /\ pos <= Bits(10)
      /\ ToSend /\ OnLine /\ Sampled /\ Receiving
  BY DEF Sending, InByte
<1>2. /\ TransmitEdge(<< >>) /\ skew < SKEW /\ skew' = skew + 1
      /\ state' = state /\ count' = count /\ bit_index' = bit_index /\ shift' = shift
      /\ rx_meta' = rx_meta /\ rx_sync' = rx_sync /\ data' = data /\ valid' = valid
      /\ glitch' = glitch /\ hold_off' = hold_off /\ in_flight' = in_flight
  BY DEF TransmitterTicks, receiveVars
<1>3. /\ bits_left' \in 0 .. 10 /\ tx_count' \in 0 .. CLKS_PER_BIT - 1
      /\ tx_shift' \in Seq(Binary) /\ Len(tx_shift') = 10 /\ tx' \in Binary
      /\ pos' = pos + 1
  BY <1>1, <1>2, TransmitMoves
<1>4. elapsed' = elapsed
  <2>1. elapsed' = pos' - skew' /\ elapsed = pos - skew
    BY DEF elapsed
  <2>2. pos \in Nat /\ skew \in Int
    BY Position
  <2>3. pos' = pos + 1 /\ skew' = skew + 1
    BY <1>2, <1>3
  <2> QED
    BY <2>1, <2>2, <2>3
<1>5. Youngest' = Youngest /\ frame' = frame
  BY <1>2 DEF Youngest, frame
<1>6. ToSend' /\ OnLine' /\ pos' <= Bits(10)
  BY <1>1, <1>2, <1>5, TransmitKeeps
<1>7. Sampled'
  BY <1>1, <1>2, <1>4, <1>5 DEF Sampled, Within, Bits
<1>8. Receiving'
  <2>1. Late' = Late /\ Unseen' = Unseen /\ Noticed' = Noticed /\ Starting' = Starting
    BY <1>2, <1>4 DEF Late, Unseen, Noticed, Starting, Start, Port
  <2>2. Reading' = Reading
    BY <1>2, <1>4, <1>5 DEF Reading, Start, Bits
  <2>3. Stopping' = Stopping /\ Done' = Done
    BY <1>2, <1>4 DEF Stopping, Done, Start, Bits, Port
  <2> QED
    BY <1>1, <2>1, <2>2, <2>3 DEF Receiving
<1>9. Types'
  <2>1. Middle' = Middle
    BY <1>2 DEF Middle
  <2>2. skew' \in -SKEW .. SKEW
    BY <1>2, LinkNumbers DEF Types
  <2> QED
    BY <1>2, <1>3, <2>1, <2>2 DEF Types
<1> QED
  BY <1>1, <1>2, <1>6, <1>7, <1>8, <1>9 DEF InByte, Bits

\* A byte is offered, or none, when the line is at rest.
LEMMA RestingReceives ==
  ASSUME Types, Resting, ReceiveEdge(tx)
  PROVE  /\ rx_meta' = 1 /\ rx_sync' = 1
         /\ \/ state' = "IDLE" /\ valid' = FALSE /\ Arrived = << >>
            \/ state' = "IDLE" /\ valid' = TRUE /\ Arrived = <<data'>>
            \/ /\ state' = "STOP" /\ valid' = FALSE /\ Arrived = <<shift'>>
               /\ count' >= CLKS_PER_BIT - 2
<1>1. /\ tx = 1 /\ rx_meta = 1 /\ rx_sync = 1
      /\ \/ state = "IDLE" /\ Port(0)
         \/ state = "STOP" /\ count >= CLKS_PER_BIT - 3 /\ ~valid /\ in_flight = <<shift>>
  BY DEF Resting
<1>2. rx_meta' = 1 /\ rx_sync' = 1
  BY <1>1 DEF ReceiveEdge
<1>3. in_flight \in Seq(Octet) /\ valid \in BOOLEAN /\ count \in Nat
  BY LinkNumbers DEF Types
<1>4. CASE state = "IDLE" /\ Port(0)
  <2>1. state' = "IDLE" /\ valid' = FALSE
    BY <1>1, <1>4 DEF ReceiveEdge, WatchLine, KeepCounting, CheckStart, SampleBit, CheckStop
  <2>2. Arrived = << >>
    <3>1. CASE valid
      <4>1. Len(in_flight) = 1 /\ in_flight # << >>
        <5>1. Len(in_flight) = 0 + 1
          BY <1>4, <3>1 DEF Port
        <5> QED
          BY <1>3, <5>1, EmptySeq
      <4>2. Tail(in_flight) \in Seq(Octet) /\ Len(Tail(in_flight)) = 0
        <5>1. /\ Tail(in_flight) \in Seq(Octet)
              /\ Len(Tail(in_flight)) = Len(in_flight) - 1
          BY <1>3, <4>1, HeadTailProperties
        <5> QED
          BY <4>1, <5>1
      <4>3. Tail(in_flight) = << >>
        BY <4>2, EmptySeq
      <4> QED
        BY <3>1, <4>1, <4>3 DEF Arrived
    <3>2. CASE ~valid
      <4>1. in_flight = << >>
        BY <1>3, <1>4, <3>2, EmptySeq DEF Port
      <4> QED
        BY <4>1, <3>2 DEF Arrived
    <3> QED
      BY <3>1, <3>2
  <2> QED
    BY <1>2, <2>1, <2>2
<1>5. CASE state = "STOP" /\ count >= CLKS_PER_BIT - 3 /\ ~valid /\ in_flight = <<shift>>
  <2>1. Arrived = <<shift>>
    BY <1>5 DEF Arrived
  <2>2. CASE count # Middle
    <3>1. state' = "STOP" /\ count' = count + 1 /\ shift' = shift /\ valid' = FALSE
      BY <1>5, <2>2, Waits
    <3>2. count' >= CLKS_PER_BIT - 2
      BY <1>3, <1>5, <3>1, LinkNumbers
    <3> QED
      BY <1>2, <2>1, <3>1, <3>2
  <2>3. CASE count = Middle
    <3>1. CheckStop
      BY <1>5, <2>3 DEF ReceiveEdge, WatchLine, KeepCounting, CheckStart, SampleBit
    <3>2. state' = "IDLE" /\ valid' = TRUE /\ data' = shift
      BY <1>1, <3>1, Zenon DEF CheckStop
    <3> QED
      BY <1>2, <2>1, <3>2
  <2> QED
    BY <2>2, <2>3
<1> QED
  BY <1>1, <1>4, <1>5

\* A tuple of one element.
LEMMA OneElement ==
  ASSUME NEW x
  PROVE  Len(<<x>>) = 1 /\ <<x>>[1] = x
OBVIOUS

\* The line stays at rest.
LEMMA RestingIdles ==
  ASSUME Types, Resting, BothTick, TransmitEdge(<< >>), in_flight' = Arrived \o << >>
  PROVE  Types' /\ Resting'
<1>1. ready /\ hold_off = 0 /\ glitch = 0 /\ tx = 1
  BY DEF Resting
<1>2. /\ tx_shift' = tx_shift /\ bits_left' = bits_left /\ tx_count' = tx_count /\ tx' = 1
  BY <1>1 DEF TransmitEdge, Load, Idle, NextBit, HoldBit
<1>3. skew' = 0 /\ ReceiveEdge(tx) /\ hold_off' = 0 /\ glitch' = 0
  BY <1>1 DEF BothTick, Line, Level
<1>4. /\ rx_meta' = 1 /\ rx_sync' = 1
      /\ \/ state' = "IDLE" /\ valid' = FALSE /\ Arrived = << >>
         \/ state' = "IDLE" /\ valid' = TRUE /\ Arrived = <<data'>>
         \/ /\ state' = "STOP" /\ valid' = FALSE /\ Arrived = <<shift'>>
            /\ count' >= CLKS_PER_BIT - 2
  BY <1>3, RestingReceives
<1>5. Arrived \in Seq(Octet)
  <2>1. in_flight \in Seq(Octet)
    BY DEF Types
  <2>2. in_flight # << >> => Tail(in_flight) \in Seq(Octet)
    BY <2>1, HeadTailProperties
  <2> QED
    BY <2>1, <2>2, Zenon DEF Arrived
<1>6. in_flight' = Arrived
  BY <1>5, ConcatEmptySeq
<1>7. ready'
  BY <1>1, <1>2 DEF ready
<1>8. Types'
  <2>1. tx \in Binary
    BY DEF Types
  <2>2. /\ state' \in {"IDLE", "START", "DATA", "STOP"}
        /\ count' \in 0 .. CLKS_PER_BIT - 1 /\ bit_index' \in 0 .. 7
        /\ state' # "IDLE" => count' <= Middle'
        /\ shift' \in Octet
        /\ rx_meta' \in Binary /\ rx_sync' \in Binary /\ valid' \in BOOLEAN
    BY <1>3, <2>1, ReceiverTypes
  <2>3. glitch' \in 0 .. GLITCH /\ hold_off' \in 0 .. RECOVERY /\ skew' \in -SKEW .. SKEW
    BY <1>3, LinkNumbers
  <2>4. /\ bits_left' \in 0 .. 10 /\ tx_count' \in 0 .. CLKS_PER_BIT - 1 /\ tx' \in Binary
        /\ tx_shift' \in Seq(Binary) /\ Len(tx_shift') = 10
    BY <1>1, <1>2, <2>1 DEF Types
  <2>5. in_flight' \in Seq(Octet)
    BY <1>5, <1>6
  <2> QED
    BY <2>2, <2>3, <2>4, <2>5 DEF Types
<1>9. \/ state' = "IDLE" /\ Port(0)'
      \/ state' = "STOP" /\ count' >= CLKS_PER_BIT - 3 /\ ~valid' /\ in_flight' = <<shift'>>
  <2>1. CASE state' = "IDLE" /\ valid' = FALSE /\ Arrived = << >>
    <3>1. Len(in_flight') = 0
      BY <1>6, <2>1
    <3> QED
      BY <2>1, <3>1 DEF Port
  <2>2. CASE state' = "IDLE" /\ valid' = TRUE /\ Arrived = <<data'>>
    <3>1. Len(in_flight') = 0 + 1 /\ data' = in_flight'[1]
      BY <1>6, <2>2, OneElement
    <3> QED
      BY <2>2, <3>1 DEF Port
  <2>3. CASE /\ state' = "STOP" /\ valid' = FALSE /\ Arrived = <<shift'>>
             /\ count' >= CLKS_PER_BIT - 2
    <3>1. count' \in Nat
      BY <1>8, LinkNumbers DEF Types
    <3>2. count' >= CLKS_PER_BIT - 3
      BY <2>3, <3>1, LinkNumbers
    <3> QED
      BY <1>6, <2>3, <3>2
  <2> QED
    BY <1>4, <2>1, <2>2, <2>3
<1> QED
  BY <1>2, <1>3, <1>4, <1>7, <1>8, <1>9 DEF Resting

\* The start bit, the bits of the byte and the stop bit.
LEMMA FrameBits ==
  ASSUME NEW b \in Octet
  PROVE  /\ Frame(b) \in Seq(Binary) /\ Len(Frame(b)) = 10
         /\ Frame(b)[1] = 0 /\ Frame(b)[10] = 1
         /\ \A i \in 1 .. 8 : Frame(b)[i + 1] = b[i]
<1>1. b \in Seq(Binary) /\ Len(b) = 8
  BY DEF Octet
<1>2. <<0>> \in Seq(Binary) /\ <<1>> \in Seq(Binary)
  BY DEF Binary
<1> DEFINE s == <<0>> \o b
<1>3. /\ s \in Seq(Binary) /\ Len(s) = 9 /\ s[1] = 0
      /\ \A i \in 1 .. 8 : s[i + 1] = b[i]
  <2>1. s \in Seq(Binary)
    BY <1>1, <1>2, ConcatProperties
  <2>2. Len(s) = 9 /\ s[1] = 0 /\ \A i \in 1 .. 8 : s[i + 1] = b[i]
    <3>1. Len(<<0>>) = 1 /\ <<0>>[1] = 0
      BY OneElement
    <3>2. /\ Len(s) = Len(<<0>>) + Len(b)
          /\ \A i \in 1 .. Len(<<0>>) + Len(b) :
               s[i] = IF i <= Len(<<0>>) THEN <<0>>[i] ELSE b[i - Len(<<0>>)]
      BY <1>1, <1>2, ConcatProperties, Zenon
    <3> HIDE DEF s
    <3>3. Len(s) = 9 /\ \A i \in 1 .. 9 : s[i] = IF i <= 1 THEN <<0>>[i] ELSE b[i - 1]
      BY <1>1, <3>1, <3>2
    <3>4. s[1] = 0
      BY <3>1, <3>3
    <3>5. ASSUME NEW i \in 1 .. 8
          PROVE  s[i + 1] = b[i]
      <4>1. i + 1 \in 1 .. 9 /\ ~(i + 1 <= 1) /\ (i + 1) - 1 = i
        OBVIOUS
      <4> QED
        BY <3>3, <4>1
    <3> QED
      BY <3>3, <3>4, <3>5
  <2> QED
    BY <2>1, <2>2
<1> HIDE DEF s
<1>4. s \o <<1>> \in Seq(Binary)
  BY <1>2, <1>3, ConcatProperties
<1>5. /\ Len(s \o <<1>>) = 10 /\ (s \o <<1>>)[10] = 1
      /\ \A i \in 1 .. 9 : (s \o <<1>>)[i] = s[i]
  <2> DEFINE t == s \o <<1>>
  <2>1. Len(<<1>>) = 1 /\ <<1>>[1] = 1
    BY OneElement
  <2>2. /\ Len(t) = Len(s) + Len(<<1>>)
        /\ \A i \in 1 .. Len(s) + Len(<<1>>) :
             t[i] = IF i <= Len(s) THEN s[i] ELSE <<1>>[i - Len(s)]
    BY <1>2, <1>3, ConcatProperties, Zenon
  <2> HIDE DEF t
  <2>3. Len(t) = 10 /\ \A i \in 1 .. 10 : t[i] = IF i <= 9 THEN s[i] ELSE <<1>>[i - 9]
    BY <1>3, <2>1, <2>2
  <2>4. t[10] = 1
    <3>1. 10 \in 1 .. 10 /\ ~(10 <= 9) /\ 10 - 9 = 1
      OBVIOUS
    <3> QED
      BY <2>1, <2>3, <3>1
  <2> QED
    BY <2>3, <2>4 DEF t
<1>6. Frame(b) = s \o <<1>>
  BY DEF Frame, s
<1>7. /\ Frame(b) \in Seq(Binary) /\ Len(Frame(b)) = 10 /\ Frame(b)[10] = 1
      /\ \A i \in 1 .. 9 : Frame(b)[i] = s[i]
  BY <1>4, <1>5, <1>6
<1>8. ASSUME NEW i \in 1 .. 8
      PROVE  Frame(b)[i + 1] = b[i]
  <2>1. i + 1 \in 1 .. 9
    OBVIOUS
  <2> QED
    BY <1>3, <1>7, <2>1
<1>9. Frame(b)[1] = 0
  BY <1>3, <1>7
<1> QED
  BY <1>7, <1>8, <1>9

\* A byte put behind those that are on their way.
LEMMA Behind ==
  ASSUME NEW S, NEW s \in Seq(S), NEW x \in S
  PROVE  /\ s \o <<x>> \in Seq(S) /\ Len(s \o <<x>>) = Len(s) + 1
         /\ (s \o <<x>>)[Len(s) + 1] = x
         /\ Len(s) > 0 => (s \o <<x>>)[1] = s[1]
<1> DEFINE t == s \o <<x>>
<1>1. Len(<<x>>) = 1 /\ <<x>>[1] = x
  BY OneElement
<1>2. <<x>> \in Seq(S)
  OBVIOUS
<1>3. /\ t \in Seq(S) /\ Len(t) = Len(s) + Len(<<x>>)
      /\ \A i \in 1 .. Len(s) + Len(<<x>>) :
           t[i] = IF i <= Len(s) THEN s[i] ELSE <<x>>[i - Len(s)]
  BY <1>2, ConcatProperties, Zenon
<1> HIDE DEF t
<1>4. Len(s) \in Nat
  BY LenProperties
<1>5. /\ Len(t) = Len(s) + 1
      /\ \A i \in 1 .. Len(s) + 1 : t[i] = IF i <= Len(s) THEN s[i] ELSE <<x>>[i - Len(s)]
  BY <1>1, <1>3
<1>6. t[Len(s) + 1] = x
  <2>1. /\ Len(s) + 1 \in 1 .. Len(s) + 1 /\ ~(Len(s) + 1 <= Len(s))
        /\ Len(s) + 1 - Len(s) = 1
    BY <1>4
  <2> QED
    BY <1>1, <1>5, <2>1
<1>7. Len(s) > 0 => t[1] = s[1]
  <2>1. Len(s) > 0 => 1 \in 1 .. Len(s) + 1 /\ 1 <= Len(s)
    BY <1>4
  <2> QED
    BY <1>5, <2>1
<1> QED
  BY <1>3, <1>5, <1>6, <1>7 DEF t

\* A byte is taken, and begins on a line at rest.
LEMMA RestingLoads ==
  ASSUME Types, Resting, BothTick, NEW b \in Bytes, TransmitEdge(<<b>>),
         in_flight' = Arrived \o <<b>>
  PROVE  Types' /\ InByte'
<1>1. ready /\ hold_off = 0 /\ glitch = 0 /\ tx = 1
  BY DEF Resting
<1>2. b \in Octet
  BY LinkAssumption
<1>3. tx_shift' = Frame(b) /\ bits_left' = 10 /\ tx_count' = 0 /\ tx' = 1
  <2>1. <<b>> # << >> /\ Head(<<b>>) = b
    OBVIOUS
  <2>2. Load(b)
    BY <1>1, <2>1 DEF TransmitEdge, NextBit, HoldBit
  <2> QED
    BY <1>1, <2>2 DEF TransmitEdge, Load
<1>4. skew' = 0 /\ ReceiveEdge(tx) /\ hold_off' = 0 /\ glitch' = 0
  BY <1>1 DEF BothTick, Line, Level
<1>5. /\ rx_meta' = 1 /\ rx_sync' = 1
      /\ \/ state' = "IDLE" /\ valid' = FALSE /\ Arrived = << >>
         \/ state' = "IDLE" /\ valid' = TRUE /\ Arrived = <<data'>>
         \/ /\ state' = "STOP" /\ valid' = FALSE /\ Arrived = <<shift'>>
            /\ count' >= CLKS_PER_BIT - 2
  BY <1>4, RestingReceives
<1>6. Arrived \in Seq(Octet)
  <2>1. in_flight \in Seq(Octet)
    BY DEF Types
  <2>2. in_flight # << >> => Tail(in_flight) \in Seq(Octet)
    BY <2>1, HeadTailProperties
  <2> QED
    BY <2>1, <2>2, Zenon DEF Arrived
<1> DEFINE a == Arrived
           after == a \o <<b>>
<1>7. /\ after \in Seq(Octet) /\ Len(after) = Len(a) + 1
      /\ after[Len(a) + 1] = b
      /\ Len(a) > 0 => after[1] = a[1]
  <2> HIDE DEF a
  <2>1. a \in Seq(Octet)
    BY <1>6 DEF a
  <2> QED
    BY <1>2, <2>1, Behind, Zenon
<1>8. in_flight' = after /\ a = Arrived
  OBVIOUS
<1> HIDE DEF a, after
<1>9. /\ in_flight' \in Seq(Octet) /\ Len(in_flight') = Len(a) + 1
      /\ in_flight'[Len(a) + 1] = b
      /\ Len(a) > 0 => in_flight'[1] = a[1]
  BY <1>7, <1>8
<1>10. Youngest' = b
  BY <1>9 DEF Youngest
<1>11. Types'
  <2>1. tx \in Binary
    BY DEF Types
  <2>2. /\ state' \in {"IDLE", "START", "DATA", "STOP"}
        /\ count' \in 0 .. CLKS_PER_BIT - 1 /\ bit_index' \in 0 .. 7
        /\ state' # "IDLE" => count' <= Middle'
        /\ shift' \in Octet
        /\ rx_meta' \in Binary /\ rx_sync' \in Binary /\ valid' \in BOOLEAN
    BY <1>4, <2>1, ReceiverTypes
  <2>3. /\ glitch' \in 0 .. GLITCH /\ hold_off' \in 0 .. RECOVERY /\ skew' \in -SKEW .. SKEW
        /\ bits_left' \in 0 .. 10 /\ tx_count' \in 0 .. CLKS_PER_BIT - 1
    BY <1>3, <1>4, LinkNumbers
  <2>4. tx' \in Binary /\ tx_shift' \in Seq(Binary) /\ Len(tx_shift') = 10
    BY <1>1, <1>2, <1>3, <2>1, FrameBits
  <2> QED
    BY <1>9, <2>2, <2>3, <2>4 DEF Types
<1>12. sent' = 0 /\ pos' = 0 /\ elapsed' = 0 /\ pos' <= Bits(10)
  <2>1. sent' = 0
    BY <1>3 DEF sent
  <2>2. Bits(0) = 0 /\ Bits(10) \in Nat
    BY BitsFacts
  <2>3. pos' = Bits(sent') + tx_count' /\ elapsed' = pos' - skew'
    BY DEF pos, elapsed, Bits
  <2> QED
    BY <1>3, <1>4, <2>1, <2>2, <2>3
<1>13. ToSend'
  <2> SUFFICES ASSUME NEW i \in 1 .. 10
               PROVE  tx_shift'[i] = frame'[i - 1]
    <3>1. 10 - sent' = 10 /\ \A i \in 1 .. 10 : sent' + i - 1 = i - 1
      BY <1>12
    <3> QED
      BY <3>1 DEF ToSend
  <2>1. /\ Frame(b)[1] = 0 /\ Frame(b)[10] = 1
        /\ \A j \in 1 .. 8 : Frame(b)[j + 1] = b[j]
    BY <1>2, FrameBits
  <2>2. frame'[i - 1] = IF i - 1 = 0 THEN 0 ELSE IF i - 1 = 9 THEN 1 ELSE b[i - 1]
    BY <1>10 DEF frame
  <2>3. i \in 2 .. 9 => Frame(b)[i] = b[i - 1]
    <3>1. i \in 2 .. 9 => i - 1 \in 1 .. 8 /\ (i - 1) + 1 = i
      OBVIOUS
    <3> QED
      BY <2>1, <3>1
  <2>4. i = 1 \/ i = 10 \/ (i \in 2 .. 9 /\ i - 1 # 0 /\ i - 1 # 9)
    OBVIOUS
  <2> QED
    BY <1>3, <2>1, <2>2, <2>3, <2>4
<1>14. OnLine'
  BY <1>3, <1>12 DEF OnLine
<1>15. Sampled'
  <2>1. ASSUME NEW k \in 0 .. 9
        PROVE  ~(Bits(k) + 1 <= elapsed' - 1 - SKEW) /\ ~(Bits(k) + 1 <= elapsed' - 2 - SKEW)
    <3>1. Bits(k) \in Nat
      <4>1. k \in 0 .. 10
        OBVIOUS
      <4> QED
        BY <4>1, BitsFacts
    <3> QED
      BY <1>12, <3>1, LinkNumbers
  <2> QED
    BY <2>1 DEF Sampled, Within, Bits
<1>16. Receiving'
  <2>1. CASE state' = "IDLE" /\ valid' = FALSE /\ a = << >>
    <3>1. Len(in_flight') = 1
      BY <1>9, <2>1
    <3>2. Unseen'
      BY <1>5, <1>12, <2>1, <3>1, LinkNumbers DEF Unseen, Port
    <3> QED
      BY <3>2 DEF Receiving
  <2>2. CASE state' = "IDLE" /\ valid' = TRUE /\ a = <<data'>>
    <3>1. Len(a) = 1 /\ a[1] = data'
      BY <2>2, OneElement
    <3>2. Len(in_flight') = 1 + 1 /\ data' = in_flight'[1]
      BY <1>9, <3>1
    <3>3. Unseen'
      BY <1>5, <1>12, <2>2, <3>2, LinkNumbers DEF Unseen, Port
    <3> QED
      BY <3>3 DEF Receiving
  <2>3. CASE /\ state' = "STOP" /\ valid' = FALSE /\ a = <<shift'>>
             /\ count' >= CLKS_PER_BIT - 2
    <3>1. Len(a) = 1 /\ a[1] = shift'
      BY <2>3, OneElement
    <3>2. Len(in_flight') = 2 /\ shift' = in_flight'[1]
      BY <1>9, <3>1
    <3>3. count' >= CLKS_PER_BIT - 2 + elapsed' /\ elapsed' \in 0 .. 1
      BY <1>12, <2>3, LinkNumbers
    <3>4. Late'
      BY <1>5, <2>3, <3>2, <3>3 DEF Late
    <3> QED
      BY <3>4 DEF Receiving
  <2> QED
    BY <1>5, <1>8, <2>1, <2>2, <2>3
<1> QED
  BY <1>4, <1>11, <1>12, <1>13, <1>14, <1>15, <1>16 DEF InByte, Bits

\* A glitch begins.
LEMMA RestingGlitches ==
  ASSUME Types, Resting, Glitch
  PROVE  Types' /\ Glitching'
<1>1. /\ ready /\ hold_off = 0 /\ glitch = 0 /\ tx = 1 /\ rx_meta = 1 /\ rx_sync = 1
      /\ \/ state = "IDLE" /\ Port(0)
         \/ state = "STOP" /\ count >= CLKS_PER_BIT - 3 /\ ~valid /\ in_flight = <<shift>>
  BY DEF Resting
<1>2. /\ in_flight = << >> /\ glitch' \in 1 .. GLITCH /\ hold_off' = RECOVERY
      /\ UNCHANGED transmitVars /\ UNCHANGED receiveVars
      /\ skew' = skew /\ in_flight' = in_flight
  BY DEF Glitch
<1>3. state = "IDLE" /\ ~valid
  <2>1. Len(in_flight) = 0 /\ in_flight # <<shift>>
    <3>1. Len(in_flight) = 0 /\ Len(<<shift>>) = 1
      BY <1>2, OneElement
    <3> QED
      BY <3>1
  <2> QED
    BY <1>1, <2>1 DEF Port
<1>4. /\ bits_left' = bits_left /\ tx_shift' = tx_shift /\ tx_count' = tx_count /\ tx' = tx
      /\ state' = state /\ count' = count /\ bit_index' = bit_index /\ shift' = shift
      /\ rx_meta' = rx_meta /\ rx_sync' = rx_sync /\ valid' = valid
  BY <1>2 DEF transmitVars, receiveVars
<1>5. Types'
  <2>1. glitch' \in 0 .. GLITCH /\ hold_off' \in 0 .. RECOVERY /\ Middle' = Middle
    BY <1>2, <1>4, LinkNumbers DEF Middle
  <2> QED
    BY <1>2, <1>4, <2>1 DEF Types
<1>6. since' = 0
  BY <1>2, LinkNumbers DEF since
<1>7. /\ glitch' > 0 /\ glitch' + since' <= GLITCH /\ since' \notin 3 .. H + 2
  <2>1. glitch' \in Nat /\ glitch' > 0 /\ glitch' <= GLITCH
    BY <1>2, LinkNumbers
  <2>2. \A g \in Nat : g + 0 = g
    OBVIOUS
  <2>3. glitch' + since' = glitch'
    BY <1>6, <2>1, <2>2
  <2>4. 0 \notin 3 .. H + 2
    OBVIOUS
  <2> QED
    BY <1>6, <2>1, <2>3, <2>4
<1>8. ready'
  BY <1>1, <1>4 DEF ready
<1>9. Glitching'
  BY <1>1, <1>2, <1>3, <1>4, <1>6, <1>7, <1>8 DEF Glitching
<1> QED
  BY <1>5, <1>9

\* The glitch is over before the receiver checks the start bit.
LEMMA GlitchingTicks ==
  ASSUME Types, Glitching, hold_off > 0, BothTick
  PROVE  Types' /\ Glitching'
<1>1. /\ ready /\ tx = 1 /\ ~valid /\ in_flight = << >>
      /\ glitch > 0 => glitch + since <= GLITCH
      /\ since = 0 => glitch > 0
      /\ rx_meta = 0 => since \in 1 .. GLITCH
      /\ rx_sync = 0 => since \in 2 .. GLITCH + 1
      /\ since = 1 => rx_meta = 0
      /\ since = 2 => rx_sync = 0
      /\ \/ state = "IDLE" /\ since \notin 3 .. H + 2
         \/ state = "START" /\ since = 3 + count
  BY DEF Glitching
<1>2. /\ hold_off \in Nat /\ hold_off <= RECOVERY /\ glitch \in Nat /\ glitch <= GLITCH
      /\ since \in Nat /\ since < RECOVERY /\ count \in Nat
      /\ rx_meta \in Binary /\ rx_sync \in Binary /\ tx \in Binary
  BY LinkNumbers DEF Types, since
<1>3. PICK offered \in Offers :
        /\ TransmitEdge(offered)
        /\ in_flight' = IF ready THEN Arrived \o offered ELSE Arrived
        /\ skew' = IF ready THEN 0 ELSE skew
  BY DEF BothTick
<1>4. offered = << >>
  BY <1>2, <1>3 DEF Offers, Quiet
<1>5. /\ tx_shift' = tx_shift /\ bits_left' = bits_left /\ tx_count' = tx_count /\ tx' = 1
  BY <1>1, <1>3, <1>4 DEF TransmitEdge, Load, Idle, NextBit, HoldBit
<1>6. in_flight' = << >> /\ skew' = 0
  <2>1. Arrived = << >>
    BY <1>1 DEF Arrived
  <2>2. << >> \o << >> = << >>
    OBVIOUS
  <2> QED
    BY <1>1, <1>3, <1>4, <2>1, <2>2
<1>7. /\ hold_off' = hold_off - 1 /\ glitch' = IF glitch > 0 THEN glitch - 1 ELSE 0
      /\ ReceiveEdge(Level)
  BY <1>2 DEF BothTick, Line
<1>8. /\ rx_meta' = IF glitch > 0 THEN 0 ELSE 1
      /\ rx_sync' = rx_meta
  BY <1>1, <1>7 DEF ReceiveEdge, Level
<1>9. since' = since + 1
  BY <1>2, <1>7, LinkNumbers DEF since
<1>10. Types'
  <2>1. Level \in Binary
    BY <1>2 DEF Level, Binary
  <2>2. /\ state' \in {"IDLE", "START", "DATA", "STOP"}
        /\ count' \in 0 .. CLKS_PER_BIT - 1 /\ bit_index' \in 0 .. 7
        /\ state' # "IDLE" => count' <= Middle'
        /\ shift' \in Octet
        /\ rx_meta' \in Binary /\ rx_sync' \in Binary /\ valid' \in BOOLEAN
    BY <1>7, <2>1, ReceiverTypes
  <2>3. glitch' \in 0 .. GLITCH /\ hold_off' \in 0 .. RECOVERY /\ skew' \in -SKEW .. SKEW
    BY <1>2, <1>6, <1>7, LinkNumbers
  <2>4. /\ bits_left' \in 0 .. 10 /\ tx_count' \in 0 .. CLKS_PER_BIT - 1 /\ tx' \in Binary
        /\ tx_shift' \in Seq(Binary) /\ Len(tx_shift') = 10
    BY <1>1, <1>5 DEF Types
  <2>5. in_flight' \in Seq(Octet)
    BY <1>6
  <2> QED
    BY <2>2, <2>3, <2>4, <2>5 DEF Types
<1>11. /\ glitch' > 0 => glitch' + since' <= GLITCH
       /\ since' # 0
       /\ rx_meta' = 0 => since' \in 1 .. GLITCH
       /\ rx_sync' = 0 => since' \in 2 .. GLITCH + 1
       /\ since' = 1 => rx_meta' = 0
       /\ since' = 2 => rx_sync' = 0
  BY <1>1, <1>2, <1>7, <1>8, <1>9, LinkNumbers
<1>12. /\ valid' = FALSE
       /\ \/ state' = "IDLE" /\ since' \notin 3 .. H + 2
          \/ state' = "START" /\ since' = 3 + count'
  <2>1. CASE state = "IDLE" /\ since \notin 3 .. H + 2
    <3>1. /\ state' = IF rx_sync = 0 THEN "START" ELSE "IDLE"
          /\ count' = 0 /\ valid' = FALSE
      BY <1>7, <2>1
         DEF ReceiveEdge, WatchLine, KeepCounting, CheckStart, SampleBit, CheckStop
    <3>2. CASE rx_sync = 0
      <4>1. since = 2
        BY <1>1, <1>2, <2>1, <3>2, LinkNumbers
      <4> QED
        BY <1>9, <3>1, <3>2, <4>1
    <3>3. CASE rx_sync # 0
      <4>1. since # 2
        BY <1>1, <3>3
      <4>2. since' \notin 3 .. H + 2
        BY <1>2, <1>9, <2>1, <4>1, LinkNumbers
      <4> QED
        BY <3>1, <3>3, <4>2
    <3> QED
      BY <3>2, <3>3
  <2>2. CASE state = "START" /\ since = 3 + count
    <3>1. Middle = H - 1
      BY <2>2 DEF Middle, H
    <3>2. CASE count # Middle
      <4>1. state' = state /\ count' = count + 1 /\ valid' = FALSE
        BY <1>7, <2>2, <3>2, Waits
      <4> QED
        BY <1>2, <1>9, <2>2, <4>1
    <3>3. CASE count = Middle
      <4>1. CheckStart
        BY <1>7, <2>2, <3>3 DEF ReceiveEdge, WatchLine, KeepCounting, SampleBit, CheckStop
      <4>2. rx_sync = 1
        BY <1>1, <1>2, <2>2, <3>1, <3>3, LinkNumbers DEF Binary
      <4>3. state' = "IDLE" /\ valid' = FALSE
        BY <4>1, <4>2 DEF CheckStart
      <4>4. since' \notin 3 .. H + 2
        BY <1>2, <1>9, <2>2, <3>1, <3>3, LinkNumbers
      <4> QED
        BY <4>3, <4>4
    <3> QED
      BY <3>2, <3>3
  <2> QED
    BY <1>1, <2>1, <2>2
<1>13. ready'
  BY <1>1, <1>5 DEF ready
<1> QED
  BY <1>5, <1>6, <1>10, <1>11, <1>12, <1>13 DEF Glitching

\* Reset, and the beginning: both ends at rest.
LEMMA LinkInit == Init => LinkInv
<1> SUFFICES ASSUME Init PROVE LinkInv
  OBVIOUS
<1>1. Zeros \in Octet /\ Ones \in Seq(Binary) /\ Len(Ones) = 10
  <2>1. Zeros \in Seq(Binary) /\ Len(Zeros) = 8
    BY DEF Zeros, Binary
  <2>2. Ones \in Seq(Binary) /\ Len(Ones) = 10
    BY DEF Ones, Binary
  <2> QED
    BY <2>1, <2>2 DEF Octet
<1>2. Types
  <2>1. 0 \in Binary /\ 1 \in Binary
    BY DEF Binary
  <2>2. << >> \in Seq(Octet)
    OBVIOUS
  <2> QED
    <3>1. /\ bits_left = 0 /\ tx_count = 0 /\ tx = 1 /\ tx_shift = Ones
          /\ state = "IDLE" /\ count = 0 /\ bit_index = 0 /\ shift = Zeros
          /\ rx_meta = 1 /\ rx_sync = 1 /\ valid = FALSE
          /\ skew = 0 /\ glitch = 0 /\ hold_off = 0 /\ in_flight = << >>
      BY DEF Init, TransmitInit, ReceiveInit
    <3>2. /\ 0 \in 0 .. CLKS_PER_BIT - 1 /\ 0 \in -SKEW .. SKEW /\ 0 \in 0 .. GLITCH
          /\ 0 \in 0 .. RECOVERY /\ 0 \in 0 .. 10 /\ 0 \in 0 .. 7
      BY LinkNumbers
    <3> QED
      BY <1>1, <2>1, <2>2, <3>1, <3>2 DEF Types
<1>3. Resting
  <2>1. in_flight = << >> /\ valid = FALSE /\ state = "IDLE"
    BY DEF Init, ReceiveInit
  <2>2. Port(0)
    BY <2>1 DEF Port
  <2> QED
    BY <2>1, <2>2 DEF Init, TransmitInit, ReceiveInit, Resting, ready
<1> QED
  BY <1>2, <1>3 DEF LinkInv

\* The same after a reset.
LEMMA LinkReset == Reset => LinkInv'
<1> SUFFICES ASSUME Reset PROVE LinkInv'
  OBVIOUS
<1>1. Zeros \in Octet /\ Ones \in Seq(Binary) /\ Len(Ones) = 10
  <2>1. Zeros \in Seq(Binary) /\ Len(Zeros) = 8
    BY DEF Zeros, Binary
  <2>2. Ones \in Seq(Binary) /\ Len(Ones) = 10
    BY DEF Ones, Binary
  <2> QED
    BY <2>1, <2>2 DEF Octet
<1>2. Types'
  <2>1. 0 \in Binary /\ 1 \in Binary
    BY DEF Binary
  <2>2. << >> \in Seq(Octet)
    OBVIOUS
  <2> QED
    <3>1. /\ bits_left' = 0 /\ tx_count' = 0 /\ tx' = 1 /\ tx_shift' = Ones
          /\ state' = "IDLE" /\ count' = 0 /\ bit_index' = 0 /\ shift' = Zeros
          /\ rx_meta' = 1 /\ rx_sync' = 1 /\ valid' = FALSE
          /\ skew' = 0 /\ glitch' = 0 /\ hold_off' = 0 /\ in_flight' = << >>
      BY DEF Reset, TransmitReset, ReceiveReset
    <3>2. /\ 0 \in 0 .. CLKS_PER_BIT - 1 /\ 0 \in -SKEW .. SKEW /\ 0 \in 0 .. GLITCH
          /\ 0 \in 0 .. RECOVERY /\ 0 \in 0 .. 10 /\ 0 \in 0 .. 7
      BY LinkNumbers
    <3> QED
      BY <1>1, <2>1, <2>2, <3>1, <3>2 DEF Types
<1>3. Resting'
  <2>1. in_flight' = << >> /\ valid' = FALSE /\ state' = "IDLE"
    BY DEF Reset, ReceiveReset
  <2>2. Port(0)'
    BY <2>1 DEF Port
  <2> QED
    BY <2>1, <2>2 DEF Reset, TransmitReset, ReceiveReset, Resting, ready
<1> QED
  BY <1>2, <1>3 DEF LinkInv

-----------------------------------------------------------------------------
(* The theorem. *)

\* Nothing that is at the port was not sent, and it is the oldest on its way.
LEMMA LinkInvIntact == LinkInv => BytesArriveIntact
<1> SUFFICES ASSUME LinkInv, valid
             PROVE  in_flight # << >> /\ data = Head(in_flight)
  BY DEF BytesArriveIntact
<1>1. in_flight \in Seq(Octet) /\ valid \in BOOLEAN
  BY DEF LinkInv, Types
<1>2. Port(0) \/ Port(1)
  BY DEF LinkInv, Sending, Resting, Glitching, InByte, Receiving, Late, Unseen, Noticed,
         Starting, Reading, Stopping, Done
<1>3. Len(in_flight) # 0 /\ data = in_flight[1]
  BY <1>2 DEF Port
<1>4. in_flight # << >>
  BY <1>1, <1>3, EmptySeq
<1>5. Head(in_flight) = in_flight[1]
  BY <1>1, <1>4
<1> QED
  BY <1>3, <1>4, <1>5

\* uart_tx.sv and uart_rx.sv: LinkInv holds, at every number of clocks per bit,
\* drift and glitch length that LinkAssumption allows, whatever bytes are sent.
THEOREM LinkInvHolds == Spec => []LinkInv
<1>1. Init => LinkInv
  BY LinkInit
<1>2. (Types /\ InByte /\ ready => Resting)'
  BY Rested, PTL
<1>3. (Types /\ Glitching /\ hold_off = 0 => Resting)'
  BY Recovered, PTL
<1>4. LinkInv /\ [Next]_vars => LinkInv'
  <2> SUFFICES ASSUME LinkInv, [Next]_vars
               PROVE  LinkInv'
    OBVIOUS
  <2> USE DEF LinkInv
  <2>1. ASSUME Types' /\ InByte' PROVE LinkInv'
    BY <1>2, <2>1 DEF Sending
  <2>2. CASE UNCHANGED vars
    <3>1. /\ bits_left' = bits_left /\ tx_shift' = tx_shift /\ tx_count' = tx_count /\ tx' = tx
          /\ state' = state /\ count' = count /\ bit_index' = bit_index /\ shift' = shift
          /\ rx_meta' = rx_meta /\ rx_sync' = rx_sync /\ data' = data /\ valid' = valid
          /\ skew' = skew /\ glitch' = glitch /\ hold_off' = hold_off
          /\ in_flight' = in_flight
      BY <2>2 DEF vars, transmitVars, receiveVars
    <3>2. /\ Types' = Types /\ ready' = ready /\ since' = since /\ frame' = frame /\ now' = now
          /\ pos' = pos /\ elapsed' = elapsed /\ sent' = sent /\ Youngest' = Youngest
      BY <3>1 DEF Types, Middle, ready, since, frame, now, pos, elapsed, sent, Youngest, Bits
    <3>3. ToSend' = ToSend /\ OnLine' = OnLine /\ Sampled' = Sampled
      BY <3>1, <3>2 DEF ToSend, OnLine, Sampled, Within, Bits
    <3>4. Receiving' = Receiving
      <4>1. Late' = Late /\ Unseen' = Unseen /\ Noticed' = Noticed /\ Starting' = Starting
        BY <3>1, <3>2 DEF Late, Unseen, Noticed, Starting, Start, Port
      <4>2. Reading' = Reading
        BY <3>1, <3>2 DEF Reading, Start, Bits
      <4>3. Stopping' = Stopping /\ Done' = Done
        BY <3>1, <3>2 DEF Stopping, Done, Start, Bits, Port
      <4> QED
        BY <4>1, <4>2, <4>3 DEF Receiving
    <3>5. Sending' = Sending
      BY <3>1, <3>2, <3>3, <3>4 DEF Sending, InByte, Bits
    <3>6. Resting' = Resting /\ Glitching' = Glitching
      BY <3>1, <3>2 DEF Resting, Glitching, Port
    <3> QED
      BY <3>2, <3>5, <3>6
  <2>3. CASE Reset
    BY <2>3, LinkReset
  <2>4. CASE BothTick
    <3>1. CASE Sending
      BY <2>1, <2>4, <3>1, SendingBothTick
    <3>2. CASE Resting
      <4>1. PICK offered \in Offers :
              /\ TransmitEdge(offered)
              /\ in_flight' = IF ready THEN Arrived \o offered ELSE Arrived
        BY <2>4 DEF BothTick
      <4>2. in_flight' = Arrived \o offered
        BY <3>2, <4>1 DEF Resting
      <4>3. CASE offered = << >>
        BY <2>4, <3>2, <4>1, <4>2, <4>3, RestingIdles
      <4>4. CASE \E b \in Bytes : offered = <<b>>
        <5>1. PICK b \in Bytes : offered = <<b>>
          BY <4>4
        <5> QED
          BY <2>1, <2>4, <3>2, <4>1, <4>2, <5>1, RestingLoads
      <4> QED
        BY <4>1, <4>3, <4>4 DEF Offers
    <3>3. CASE Glitching
      <4>1. CASE hold_off > 0
        BY <2>4, <3>3, <4>1, GlitchingTicks
      <4>2. CASE ~(hold_off > 0)
        <5>1. hold_off = 0
          BY <4>2, LinkNumbers DEF Types
        <5>2. Resting
          BY <3>3, <5>1, Recovered
        <5> QED
          BY <3>2, <5>2
      <4> QED
        BY <4>1, <4>2
    <3> QED
      BY <3>1, <3>2, <3>3
  <2>5. CASE ReceiverTicks
    <3>1. Sending
      BY <2>5 DEF ReceiverTicks, Resting, Glitching
    <3> QED
      BY <2>1, <2>5, <3>1, SendingReceiverTicks
  <2>6. CASE TransmitterTicks
    <3>1. Sending
      BY <2>6 DEF TransmitterTicks, Resting, Glitching
    <3> QED
      BY <2>1, <2>6, <3>1, SendingTransmitterTicks
  <2>7. CASE Glitch
    <3>1. ready /\ hold_off = 0
      BY <2>7 DEF Glitch, Quiet
    <3>2. Resting
      BY <3>1, Recovered DEF Sending
    <3> QED
      BY <2>7, <3>2, RestingGlitches
  <2> QED
    BY <2>2, <2>3, <2>4, <2>5, <2>6, <2>7 DEF Next
<1> QED
  BY <1>1, <1>4, PTL DEF Spec

\* uart_rx.sv:2-3: every byte received is the oldest one on its way, bit for bit.
THEOREM BytesArrive == Spec => []BytesArriveIntact
BY LinkInvHolds, LinkInvIntact, PTL
=============================================================================

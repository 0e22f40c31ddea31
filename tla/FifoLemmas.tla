----------------------------- MODULE FifoLemmas -----------------------------
(***************************************************************************)
(* Facts about the pointers of the board's FIFOs and the words they span,  *)
(* for the proofs about SyncFifo and BramFifo.  The first group replaces   *)
(* each remainder by a case distinction; nothing after it expands one.     *)
(***************************************************************************)
EXTENDS FifoPointers, SequenceTheorems, TLAPS

-----------------------------------------------------------------------------
(* Pointers. *)

\* All that the arithmetic needs to know of the depth.
LEMMA DepthIsNumber == DEPTH \in Nat /\ DEPTH > 1
BY DepthAssumption

\* A remainder of a number below four times the divisor.
LEMMA Remainder ==
  ASSUME NEW n \in Nat, n > 0, NEW k \in 0 .. 4 * n - 1
  PROVE  k % n = IF k < n THEN k ELSE IF k < 2 * n THEN k - n
                 ELSE IF k < 3 * n THEN k - 2 * n ELSE k - 3 * n
<1>1. CASE k < n
  BY <1>1, SMT
<1>2. CASE n <= k /\ k < 2 * n
  BY <1>2, SMT
<1>3. CASE 2 * n <= k /\ k < 3 * n
  BY <1>3, SMT
<1>4. CASE 3 * n <= k
  BY <1>4, SMT
<1> QED
  BY <1>1, <1>2, <1>3, <1>4, SMT

\* The address of a place less than a turn and a half behind a pointer.
LEMMA AddressIs ==
  ASSUME NEW k \in 0 .. 4 * DEPTH - 1
  PROVE  /\ Address(k) \in 0 .. DEPTH - 1
         /\ Address(k) = IF k < DEPTH THEN k ELSE IF k < 2 * DEPTH THEN k - DEPTH
                         ELSE IF k < 3 * DEPTH THEN k - 2 * DEPTH
                         ELSE k - 3 * DEPTH
<1>1. Address(k) = IF k < DEPTH THEN k ELSE IF k < 2 * DEPTH THEN k - DEPTH
                   ELSE IF k < 3 * DEPTH THEN k - 2 * DEPTH ELSE k - 3 * DEPTH
  BY DepthIsNumber, Remainder, SMT DEF Address
<1> QED
  BY <1>1, DepthIsNumber, SMT

\* A pointer moves up by one and wraps around.
LEMMA FollowingMoves ==
  ASSUME NEW p \in Pointer
  PROVE  /\ Following(p) \in Pointer
         /\ Following(p) = IF p = 2 * DEPTH - 1 THEN 0 ELSE p + 1
<1> DEFINE turn == 2 * DEPTH
<1>1. turn \in Nat /\ turn > 0 /\ p \in 0 .. turn - 1
  BY DepthIsNumber, SMT DEF Pointer
<1>2. Following(p) = (p + 1) % turn /\ Pointer = 0 .. turn - 1
  BY DEF Following, Pointer
<1> SUFFICES /\ Following(p) \in 0 .. turn - 1
             /\ Following(p) = IF p = turn - 1 THEN 0 ELSE p + 1
  BY <1>2
<1> HIDE DEF turn
<1>3. (p + 1) % turn = IF p + 1 < turn THEN p + 1 ELSE p + 1 - turn
  <2>1. p + 1 \in 0 .. 4 * turn - 1 /\ p + 1 < 2 * turn
    BY <1>1, SMT
  <2> QED
    BY <1>1, <2>1, Remainder
<1> QED
  BY <1>1, <1>2, <1>3, SMT

\* The distance is what the pointers are apart, around the end if need be.
LEMMA DistanceIs ==
  ASSUME NEW a \in Pointer, NEW b \in Pointer
  PROVE  /\ Distance(a, b) \in Pointer
         /\ Distance(a, b) = IF a >= b THEN a - b ELSE a - b + 2 * DEPTH
<1> DEFINE turn == 2 * DEPTH
<1>1. turn \in Nat /\ turn > 0 /\ a \in 0 .. turn - 1 /\ b \in 0 .. turn - 1
  BY DepthIsNumber, SMT DEF Pointer
<1>2. Distance(a, b) = (a - b) % turn /\ Pointer = 0 .. turn - 1
  BY DEF Distance, Pointer
<1> SUFFICES /\ Distance(a, b) \in 0 .. turn - 1
             /\ Distance(a, b) = IF a >= b THEN a - b ELSE a - b + turn
  BY <1>2
<1> HIDE DEF turn
<1>3. CASE a >= b
  <2>1. a - b \in 0 .. 4 * turn - 1 /\ a - b < turn
    BY <1>1, <1>3, SMT
  <2>2. (a - b) % turn = a - b
    BY <1>1, <2>1, Remainder
  <2> QED
    BY <1>1, <1>2, <1>3, <2>2, SMT
<1>4. CASE a < b
  <2>1. (a - b) % turn = a - b + turn
    BY <1>1, <1>4, SMT
  <2> QED
    BY <1>1, <1>2, <1>4, <2>1, SMT
<1> QED
  BY <1>1, <1>3, <1>4, SMT

\* It is a number.
LEMMA DistanceIsNumber ==
  ASSUME NEW a \in Pointer, NEW b \in Pointer
  PROVE  Distance(a, b) \in Nat
<1>1. Distance(a, b) \in Pointer
  BY DistanceIs
<1> QED
  BY <1>1, DepthIsNumber, SMT DEF Pointer

\* Moving the pointer ahead adds one, moving the one behind takes one away.
LEMMA DistanceMoves ==
  ASSUME NEW a \in Pointer, NEW b \in Pointer
  PROVE  /\ Distance(a, b) < 2 * DEPTH - 1
              => Distance(Following(a), b) = Distance(a, b) + 1
         /\ Distance(a, b) > 0
              => Distance(a, Following(b)) = Distance(a, b) - 1
<1> DEFINE fa == Following(a)
           fb == Following(b)
<1>1. fa \in Pointer /\ fa = IF a = 2 * DEPTH - 1 THEN 0 ELSE a + 1
  BY FollowingMoves
<1>2. fb \in Pointer /\ fb = IF b = 2 * DEPTH - 1 THEN 0 ELSE b + 1
  BY FollowingMoves
<1> HIDE DEF fa, fb
<1>3. Distance(a, b) = IF a >= b THEN a - b ELSE a - b + 2 * DEPTH
  BY DistanceIs
<1>4. Distance(fa, b) = IF fa >= b THEN fa - b ELSE fa - b + 2 * DEPTH
  BY <1>1, DistanceIs
<1>5. Distance(a, fb) = IF a >= fb THEN a - fb ELSE a - fb + 2 * DEPTH
  BY <1>2, DistanceIs
<1>6. a \in Nat /\ b \in Nat /\ a < 2 * DEPTH /\ b < 2 * DEPTH
  BY DepthIsNumber, SMT DEF Pointer
<1>7. Distance(a, b) < 2 * DEPTH - 1 => Distance(fa, b) = Distance(a, b) + 1
  BY <1>1, <1>3, <1>4, <1>6, DepthIsNumber, SMT
<1>8. Distance(a, b) > 0 => Distance(a, fb) = Distance(a, b) - 1
  BY <1>2, <1>3, <1>5, <1>6, DepthIsNumber, SMT
<1> QED
  BY <1>7, <1>8 DEF fa, fb

\* A pointer is as far from itself as nothing.
LEMMA DistanceFromItself ==
  ASSUME NEW p \in Pointer PROVE Distance(p, p) = 0
BY DistanceIs, DepthIsNumber, SMT DEF Pointer

\* A place behind the next pointer is one place further behind this one.
LEMMA AddressFollowing ==
  ASSUME NEW p \in Pointer, NEW i \in 0 .. DEPTH
  PROVE  Address(Following(p) + i) = Address(p + 1 + i)
<1> DEFINE f == Following(p)
<1>1. f = IF p = 2 * DEPTH - 1 THEN 0 ELSE p + 1
  BY FollowingMoves
<1> HIDE DEF f
<1>2. f + i \in 0 .. 4 * DEPTH - 1 /\ p + 1 + i \in 0 .. 4 * DEPTH - 1
  BY <1>1, DepthIsNumber, SMT DEF Pointer
<1>3. Address(f + i) = Address(p + 1 + i)
  BY <1>1, <1>2, AddressIs, DepthIsNumber, SMT DEF Pointer
<1> QED
  BY <1>3 DEF f

\* The place after the last word is the one the pointer ahead stands on.
LEMMA AddressAhead ==
  ASSUME NEW a \in Pointer, NEW b \in Pointer
  PROVE  Address(b + Distance(a, b)) = Address(a)
<1>1. b + Distance(a, b) = a \/ b + Distance(a, b) = a + 2 * DEPTH
  <2>1. Distance(a, b) = IF a >= b THEN a - b ELSE a - b + 2 * DEPTH
    BY DistanceIs
  <2>2. a \in Nat /\ b \in Nat
    BY DepthIsNumber, SMT DEF Pointer
  <2> QED
    BY <2>1, <2>2, DepthIsNumber, SMT
<1>2. a \in 0 .. 4 * DEPTH - 1 /\ a + 2 * DEPTH \in 0 .. 4 * DEPTH - 1
  BY DepthIsNumber, SMT DEF Pointer
<1>3. Address(a + 2 * DEPTH) = Address(a)
  BY <1>2, AddressIs, DepthIsNumber, SMT DEF Pointer
<1> QED
  BY <1>1, <1>3

\* Two places less than the depth apart have different addresses.
LEMMA AddressesDiffer ==
  ASSUME NEW p \in Pointer, NEW i \in 0 .. DEPTH, NEW j \in 0 .. DEPTH,
         i < j, j - i < DEPTH
  PROVE  Address(p + i) # Address(p + j)
<1>1. p + i \in 0 .. 4 * DEPTH - 1 /\ p + j \in 0 .. 4 * DEPTH - 1
  BY DepthIsNumber, SMT DEF Pointer
<1> QED
  BY <1>1, AddressIs, DepthIsNumber, SMT DEF Pointer

-----------------------------------------------------------------------------
(* The words between two pointers. *)

\* They are a sequence of words of the memory, as long as was asked for.
LEMMA WordsAreSequence ==
  ASSUME NEW m \in Memory, NEW p \in Pointer, NEW n \in 0 .. DEPTH
  PROVE  /\ Words(m, p, n) \in Seq(Word)
         /\ Len(Words(m, p, n)) = n
         /\ \A i \in 1 .. n : Words(m, p, n)[i] = m[Address(p + i - 1)]
<1>1. n \in Nat
  BY DepthIsNumber, SMT
<1>2. \A i \in 1 .. n : m[Address(p + i - 1)] \in Word
  <2>1. TAKE i \in 1 .. n
  <2>2. p + i - 1 \in 0 .. 4 * DEPTH - 1
    BY DepthIsNumber, SMT DEF Pointer
  <2> QED
    BY <2>2, AddressIs DEF Memory
<1>3. Words(m, p, n) \in [1 .. n -> Word]
  BY <1>2 DEF Words
<1>4. Words(m, p, n) \in Seq(Word) /\ Len(Words(m, p, n)) = n
  BY <1>1, <1>3, SMT
<1> QED
  BY <1>4 DEF Words

\* There are none of them exactly when none was asked for.
LEMMA NoWords ==
  ASSUME NEW m \in Memory, NEW p \in Pointer, NEW n \in 0 .. DEPTH
  PROVE  Words(m, p, n) = << >> <=> n = 0
BY WordsAreSequence, EmptySeq, SMT

\* One more word makes them one longer at the end.
LEMMA OneMoreWord ==
  ASSUME NEW m \in Memory, NEW p \in Pointer, NEW n \in 0 .. DEPTH - 1
  PROVE  Words(m, p, n + 1) = Words(m, p, n) \o <<m[Address(p + n)]>>
<1> DEFINE longer == Words(m, p, n + 1)
           shorter == Words(m, p, n)
           last == m[Address(p + n)]
<1>1. n \in 0 .. DEPTH /\ n + 1 \in 0 .. DEPTH /\ n \in Nat
  BY DepthIsNumber, SMT
<1>2. p + n \in 0 .. 4 * DEPTH - 1 /\ p \in Int
  BY DepthIsNumber, SMT DEF Pointer
<1>3. last \in Word
  BY <1>2, AddressIs DEF Memory
<1>4. /\ longer \in Seq(Word) /\ Len(longer) = n + 1
      /\ \A i \in 1 .. n + 1 : longer[i] = m[Address(p + i - 1)]
  BY <1>1, WordsAreSequence
<1>5. /\ shorter \in Seq(Word) /\ Len(shorter) = n
      /\ \A i \in 1 .. n : shorter[i] = m[Address(p + i - 1)]
  BY <1>1, WordsAreSequence
<1>6. longer[n + 1] = last
  <2>1. p + (n + 1) - 1 = p + n
    BY <1>1, <1>2, SMT
  <2> QED
    BY <1>1, <1>4, <2>1, SMT
<1>7. \A i \in 1 .. n : longer[i] = shorter[i]
  BY <1>1, <1>4, <1>5, SMT
<1> HIDE DEF longer, shorter, last
<1>8. longer = shorter \o <<last>>
  BY <1>1, <1>3, <1>4, <1>5, <1>6, <1>7, SMT
<1> QED
  BY <1>8 DEF longer, shorter, last

\* The first of them stands at the pointer, the others follow it.
LEMMA FirstWord ==
  ASSUME NEW m \in Memory, NEW p \in Pointer, NEW n \in 1 .. DEPTH
  PROVE  /\ Head(Words(m, p, n)) = m[Address(p)]
         /\ Tail(Words(m, p, n)) = Words(m, Following(p), n - 1)
<1> DEFINE all == Words(m, p, n)
           others == Words(m, Following(p), n - 1)
<1>1. n \in 0 .. DEPTH /\ n - 1 \in 0 .. DEPTH /\ n \in Nat /\ p \in Int
  BY DepthIsNumber, SMT DEF Pointer
<1>2. /\ all \in Seq(Word) /\ Len(all) = n
      /\ \A i \in 1 .. n : all[i] = m[Address(p + i - 1)]
  BY <1>1, WordsAreSequence
<1>3. /\ others \in Seq(Word) /\ Len(others) = n - 1
      /\ \A i \in 1 .. n - 1 : others[i] = m[Address(Following(p) + i - 1)]
  BY <1>1, FollowingMoves, WordsAreSequence
<1>4. \A i \in 1 .. n - 1 : others[i] = all[i + 1]
  <2>1. TAKE i \in 1 .. n - 1
  <2>2. i - 1 \in 0 .. DEPTH /\ i + 1 \in 1 .. n
    BY <1>1, DepthIsNumber, SMT
  <2>3. Address(Following(p) + (i - 1)) = Address(p + 1 + (i - 1))
    BY <2>2, AddressFollowing
  <2>4. /\ Following(p) + (i - 1) = Following(p) + i - 1
        /\ p + 1 + (i - 1) = p + (i + 1) - 1
    BY <1>1, FollowingMoves, SMT DEF Pointer
  <2> QED
    BY <1>2, <1>3, <2>2, <2>3, <2>4
<1>5. all[1] = m[Address(p)]
  <2>1. 1 \in 1 .. n /\ p + 1 - 1 = p
    BY <1>1, SMT
  <2> QED
    BY <1>2, <2>1
<1> HIDE DEF all, others
<1>6. Head(all) = m[Address(p)]
  BY <1>1, <1>2, <1>5, SMT
<1>7. Tail(all) = others
  <2>1. all # << >>
    BY <1>1, <1>2, EmptySeq, SMT
  <2>2. /\ Tail(all) \in Seq(Word) /\ Len(Tail(all)) = n - 1
        /\ \A i \in 1 .. n - 1 : Tail(all)[i] = all[i + 1]
    BY <1>2, <2>1, HeadTailProperties
  <2>3. \A i \in 1 .. Len(others) : Tail(all)[i] = others[i]
    BY <1>3, <1>4, <2>2
  <2> QED
    BY <1>3, <2>2, <2>3, SeqEqual
<1> QED
  BY <1>6, <1>7 DEF all, others

\* A word stored behind them leaves them alone.
LEMMA WordsKept ==
  ASSUME NEW m \in Memory, NEW p \in Pointer, NEW n \in 0 .. DEPTH,
         NEW k \in 0 .. DEPTH - 1, n <= k, NEW word \in Word
  PROVE  Words([m EXCEPT ![Address(p + k)] = word], p, n) = Words(m, p, n)
<1> DEFINE written == [m EXCEPT ![Address(p + k)] = word]
<1>1. ASSUME NEW i \in 1 .. n
      PROVE  written[Address(p + i - 1)] = m[Address(p + i - 1)]
  <2>1. /\ i - 1 \in 0 .. DEPTH /\ k \in 0 .. DEPTH
        /\ i - 1 < k /\ k - (i - 1) < DEPTH
    BY DepthIsNumber, SMT
  <2>2. Address(p + (i - 1)) # Address(p + k)
    BY <2>1, AddressesDiffer
  <2>3. p + (i - 1) = p + i - 1 /\ p + i - 1 \in 0 .. 4 * DEPTH - 1
    BY DepthIsNumber, SMT DEF Pointer
  <2> QED
    BY <2>2, <2>3, AddressIs DEF Memory
<1> QED
  BY <1>1 DEF Words

-----------------------------------------------------------------------------
(* The same between two pointers that move. *)

\* One word.
LEMMA OneWord ==
  ASSUME NEW m \in Memory, NEW p \in Pointer
  PROVE  Words(m, p, 1) = <<m[Address(p)]>> /\ m[Address(p)] \in Word
<1>1. p + 0 = p /\ p \in 0 .. 4 * DEPTH - 1 /\ 0 \in 0 .. DEPTH - 1 /\ 0 + 1 = 1
      /\ 0 \in 0 .. DEPTH
  BY DepthIsNumber, SMT DEF Pointer
<1>2. m[Address(p)] \in Word
  BY <1>1, AddressIs DEF Memory
<1>3. Words(m, p, 0) = << >>
  BY <1>1, NoWords
<1>4. Words(m, p, 0 + 1) = Words(m, p, 0) \o <<m[Address(p + 0)]>>
  BY <1>1, OneMoreWord
<1>5. <<m[Address(p)]>> \in Seq(Word)
  BY <1>2
<1> QED
  BY <1>1, <1>2, <1>3, <1>4, <1>5, ConcatEmptySeq

\* The pointer ahead moves on over the word it stands on.
LEMMA SpanGrows ==
  ASSUME NEW m \in Memory, NEW a \in Pointer, NEW b \in Pointer,
         Distance(a, b) < DEPTH
  PROVE  /\ Distance(Following(a), b) = Distance(a, b) + 1
         /\ Words(m, b, Distance(Following(a), b))
              = Words(m, b, Distance(a, b)) \o <<m[Address(a)]>>
<1>1. Distance(a, b) \in 0 .. DEPTH - 1 /\ Distance(a, b) < 2 * DEPTH - 1
  <2>1. Distance(a, b) \in Nat
    BY DistanceIsNumber
  <2> QED
    BY <2>1, DepthIsNumber, SMT
<1>2. Distance(Following(a), b) = Distance(a, b) + 1
  BY <1>1, DistanceMoves
<1> QED
  BY <1>1, <1>2, OneMoreWord, AddressAhead

\* The pointer behind moves on over the first word.
LEMMA SpanShrinks ==
  ASSUME NEW m \in Memory, NEW a \in Pointer, NEW b \in Pointer,
         Distance(a, b) # 0, Distance(a, b) <= DEPTH
  PROVE  /\ Distance(a, Following(b)) = Distance(a, b) - 1
         /\ Words(m, b, Distance(a, b)) # << >>
         /\ Head(Words(m, b, Distance(a, b))) = m[Address(b)]
         /\ Tail(Words(m, b, Distance(a, b)))
              = Words(m, Following(b), Distance(a, Following(b)))
<1>1. /\ Distance(a, b) \in 1 .. DEPTH /\ Distance(a, b) \in 0 .. DEPTH
      /\ Distance(a, b) > 0
  <2>1. Distance(a, b) \in Nat
    BY DistanceIsNumber
  <2> QED
    BY <2>1, DepthIsNumber, SMT
<1>2. Distance(a, Following(b)) = Distance(a, b) - 1
  BY <1>1, DistanceMoves
<1> QED
  BY <1>1, <1>2, FirstWord, NoWords

\* A word stored at the pointer ahead leaves the words alone.
LEMMA SpanKept ==
  ASSUME NEW m \in Memory, NEW a \in Pointer, NEW b \in Pointer,
         Distance(a, b) < DEPTH, NEW word \in Word
  PROVE  Words([m EXCEPT ![Address(a)] = word], b, Distance(a, b))
           = Words(m, b, Distance(a, b))
<1>1. /\ Distance(a, b) \in 0 .. DEPTH - 1 /\ Distance(a, b) \in 0 .. DEPTH
      /\ Distance(a, b) <= Distance(a, b)
  <2>1. Distance(a, b) \in Nat
    BY DistanceIsNumber
  <2> QED
    BY <2>1, DepthIsNumber, SMT
<1> QED
  BY <1>1, WordsKept, AddressAhead

\* The two pointers stand on different addresses, unless all or nothing is
\* between them.
LEMMA SpanEndsDiffer ==
  ASSUME NEW a \in Pointer, NEW b \in Pointer,
         Distance(a, b) # 0, Distance(a, b) < DEPTH
  PROVE  Address(a) # Address(b)
<1>1. /\ 0 \in 0 .. DEPTH /\ Distance(a, b) \in 0 .. DEPTH
      /\ 0 < Distance(a, b) /\ Distance(a, b) - 0 < DEPTH
  <2>1. Distance(a, b) \in Nat
    BY DistanceIsNumber
  <2> QED
    BY <2>1, DepthIsNumber, SMT
<1>2. Address(b + 0) # Address(b + Distance(a, b))
  BY <1>1, AddressesDiffer
<1>3. b + 0 = b
  BY DepthIsNumber, SMT DEF Pointer
<1> QED
  BY <1>2, <1>3, AddressAhead

\* A pointer is one ahead of the pointer before it.
LEMMA DistanceOfFollowing ==
  ASSUME NEW p \in Pointer PROVE Distance(Following(p), p) = 1
<1>1. Distance(p, p) = 0 /\ 0 < 2 * DEPTH - 1 /\ 0 + 1 = 1
  BY DistanceFromItself, DepthIsNumber, SMT
<1> QED
  BY <1>1, DistanceMoves

\* Storing a word keeps the memory a memory.
LEMMA StoringKeepsMemory ==
  ASSUME NEW m \in Memory, NEW p \in Pointer, NEW word \in Word
  PROVE  /\ [m EXCEPT ![Address(p)] = word] \in Memory
         /\ [m EXCEPT ![Address(p)] = word][Address(p)] = word
<1>1. p \in 0 .. 4 * DEPTH - 1
  BY DepthIsNumber, SMT DEF Pointer
<1> QED
  BY <1>1, AddressIs DEF Memory
=============================================================================

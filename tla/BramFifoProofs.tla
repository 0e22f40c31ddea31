--------------------------- MODULE BramFifoProofs ---------------------------
(***************************************************************************)
(* bram_fifo is a FIFO of DEPTH places that shows a word one edge after it *)
(* was written, for every depth and every set of words.  FifoInvariant is  *)
(* inductive; a clock edge is a Transfer of LaggedFifo.                    *)
(***************************************************************************)
EXTENDS BramFifo, FifoLemmas

\* The reader's write pointer is at most one word behind.
LagIsOne == wr_ptr = wr_ptr_visible \/ wr_ptr = Following(wr_ptr_visible)

FifoInvariant ==
  /\ TypeOK
  /\ StoredWithinDepth
  /\ HeadIsShown
  /\ LagIsOne

\* What a clock edge does to the pointers and to what is between them.
LEMMA EdgeMovesPointers ==
  ASSUME FifoInvariant, NEW wr_en \in BOOLEAN, NEW word \in Word,
         NEW rd_en \in BOOLEAN, Clock(wr_en, word, rd_en)
  PROVE  /\ TypeOK'
         /\ wr_ptr_visible' = wr_ptr
         /\ Distance(wr_ptr, rd_ptr') \in Nat
         /\ Distance(wr_ptr, rd_ptr') <= stored
         /\ \/ full /\ wr_ptr' = wr_ptr /\ mem' = mem
            \/ ~wr_en /\ wr_ptr' = wr_ptr /\ mem' = mem
            \/ /\ wr_en /\ ~full /\ wr_ptr' = Following(wr_ptr)
               /\ stored < DEPTH
               /\ mem' = [mem EXCEPT ![Address(wr_ptr)] = word]
         /\ \/ ~do_read(rd_en) /\ rd_ptr' = rd_ptr
            \/ do_read(rd_en) /\ count # 0 /\ rd_ptr' = Following(rd_ptr)
<1>1. TypeOK /\ StoredWithinDepth
  BY DEF FifoInvariant
<1>2. /\ mem' = IF wr_en /\ ~full
                THEN [mem EXCEPT ![Address(wr_ptr)] = word] ELSE mem
      /\ rd_data' = mem[Address(rd_ptr')]
      /\ wr_ptr' = IF wr_en /\ ~full THEN Following(wr_ptr) ELSE wr_ptr
      /\ wr_ptr_visible' = wr_ptr
      /\ rd_ptr' = rd_ptr_next(rd_en)
  BY DEF Clock, AccessMemory
<1>3. \/ ~do_read(rd_en) /\ rd_ptr' = rd_ptr
      \/ do_read(rd_en) /\ count # 0 /\ rd_ptr' = Following(rd_ptr)
  BY <1>2 DEF rd_ptr_next, do_read, empty
<1>4. rd_ptr' \in Pointer /\ wr_ptr' \in Pointer /\ wr_ptr_visible' \in Pointer
  BY <1>1, <1>2, <1>3, FollowingMoves DEF TypeOK
<1>5. mem' \in Memory
  BY <1>1, <1>2, StoringKeepsMemory DEF TypeOK
<1>6. rd_data' \in Word
  BY <1>1, <1>2, <1>4, OneWord DEF TypeOK
<1>7. stored \in Nat /\ count \in Nat /\ Distance(wr_ptr, rd_ptr') \in Nat
  BY <1>1, <1>4, DistanceIsNumber DEF TypeOK, stored, count
<1>8. Distance(wr_ptr, rd_ptr') <= stored
  <2>1. CASE rd_ptr' = rd_ptr
    BY <1>7, <2>1, SMT DEF stored
  <2>2. CASE count # 0 /\ rd_ptr' = Following(rd_ptr)
    <3>1. stored > 0
      BY <1>1, <1>7, <2>2, SMT DEF StoredWithinDepth
    <3>2. Distance(wr_ptr, rd_ptr') = stored - 1
      BY <1>1, <2>2, <3>1, DistanceMoves DEF TypeOK, stored
    <3> QED
      BY <1>7, <3>2, SMT
  <2> QED
    BY <1>3, <2>1, <2>2
<1>9. ~full => stored < DEPTH
  BY <1>7, DepthIsNumber, SMT DEF full
<1> QED
  BY <1>2, <1>3, <1>4, <1>5, <1>6, <1>7, <1>8, <1>9 DEF TypeOK

\* The word that the read port fetches is not the one being written, if it is
\* going to be shown.
LEMMA FetchAvoidsWrite ==
  ASSUME FifoInvariant, NEW wr_en \in BOOLEAN, NEW word \in Word,
         NEW rd_en \in BOOLEAN, Clock(wr_en, word, rd_en), wr_en, ~full, ~empty'
  PROVE  Address(wr_ptr) # Address(rd_ptr')
<1>1. /\ rd_ptr' \in Pointer /\ wr_ptr \in Pointer /\ wr_ptr_visible' = wr_ptr
      /\ Distance(wr_ptr, rd_ptr') \in Nat
      /\ Distance(wr_ptr, rd_ptr') <= stored
      /\ stored < DEPTH
  BY EdgeMovesPointers DEF FifoInvariant, TypeOK
<1>2. Distance(wr_ptr, rd_ptr') # 0
  BY <1>1 DEF empty, count
<1>3. Distance(wr_ptr, rd_ptr') < DEPTH
  <2>1. stored \in Nat
    BY DistanceIsNumber DEF FifoInvariant, TypeOK, stored
  <2> QED
    BY <1>1, <2>1, DepthIsNumber, SMT
<1> QED
  BY <1>1, <1>2, <1>3, SpanEndsDiffer

\* FifoInvariant holds in every state.
LEMMA BramInvariantHolds == Spec => []FifoInvariant
<1>1. Init => FifoInvariant
  <2> SUFFICES ASSUME Init PROVE FifoInvariant
    OBVIOUS
  <2>1. TypeOK
    BY DepthIsNumber, SMT DEF Init, TypeOK, Pointer
  <2>2. count = 0 /\ stored = 0
    BY <2>1, DistanceFromItself DEF Init, TypeOK, count, stored
  <2>3. StoredWithinDepth
    BY <2>2, DepthIsNumber, SMT DEF StoredWithinDepth
  <2>4. HeadIsShown /\ LagIsOne
    BY <2>2 DEF HeadIsShown, LagIsOne, empty, Init
  <2> QED
    BY <2>1, <2>3, <2>4 DEF FifoInvariant
<1>2. FifoInvariant /\ [Next]_vars => FifoInvariant'
  <2> SUFFICES ASSUME FifoInvariant, [Next]_vars PROVE FifoInvariant'
    OBVIOUS
  <2>1. ASSUME NEW wr_en \in BOOLEAN, NEW word \in Word, NEW rd_en \in BOOLEAN,
               Reset(wr_en, word, rd_en)
        PROVE  FifoInvariant'
    <3>1. 0 \in Pointer
      BY DepthIsNumber, SMT DEF Pointer
    <3>2. mem' \in Memory /\ rd_data' \in Word
      <4>1. rd_ptr_next(rd_en) \in Pointer
        BY FollowingMoves DEF FifoInvariant, TypeOK, rd_ptr_next
      <4> QED
        BY <2>1, <4>1, StoringKeepsMemory, OneWord
        DEF Reset, AccessMemory, FifoInvariant, TypeOK
    <3>3. wr_ptr' = 0 /\ wr_ptr_visible' = 0 /\ rd_ptr' = 0
      BY <2>1 DEF Reset
    <3>4. count' = 0 /\ stored' = 0
      BY <3>1, <3>3, DistanceFromItself DEF count, stored
    <3>5. TypeOK'
      BY <3>1, <3>2, <3>3 DEF TypeOK
    <3>6. StoredWithinDepth'
      BY <3>4, DepthIsNumber, SMT DEF StoredWithinDepth
    <3>7. HeadIsShown' /\ LagIsOne'
      BY <3>3, <3>4 DEF HeadIsShown, LagIsOne, empty
    <3> QED
      BY <3>5, <3>6, <3>7 DEF FifoInvariant
  <2>2. ASSUME NEW wr_en \in BOOLEAN, NEW word \in Word, NEW rd_en \in BOOLEAN,
               Clock(wr_en, word, rd_en)
        PROVE  FifoInvariant'
    <3>1. /\ TypeOK'
          /\ wr_ptr_visible' = wr_ptr
          /\ Distance(wr_ptr, rd_ptr') \in Nat
          /\ Distance(wr_ptr, rd_ptr') <= stored
          /\ \/ wr_ptr' = wr_ptr
             \/ wr_ptr' = Following(wr_ptr) /\ stored < DEPTH
      BY <2>2, EdgeMovesPointers
    <3>2. LagIsOne'
      BY <3>1 DEF LagIsOne
    <3>3. count' = Distance(wr_ptr, rd_ptr')
      BY <3>1 DEF count
    <3>4. StoredWithinDepth'
      <4>1. stored \in Nat /\ stored <= DEPTH
        BY DistanceIsNumber DEF FifoInvariant, TypeOK, StoredWithinDepth, stored
      <4>2. CASE wr_ptr' = wr_ptr
        BY <3>1, <3>3, <4>1, <4>2, DepthIsNumber, SMT DEF StoredWithinDepth, stored
      <4>3. CASE wr_ptr' = Following(wr_ptr) /\ stored < DEPTH
        <5>1. Distance(wr_ptr, rd_ptr') < 2 * DEPTH - 1
          BY <3>1, <4>1, <4>3, DepthIsNumber, SMT
        <5>2. stored' = Distance(wr_ptr, rd_ptr') + 1
          BY <3>1, <4>3, <5>1, DistanceMoves DEF FifoInvariant, TypeOK, stored
        <5> QED
          BY <3>1, <3>3, <4>1, <4>3, <5>2, DepthIsNumber, SMT DEF StoredWithinDepth
      <4> QED
        BY <3>1, <4>2, <4>3
    <3>5. HeadIsShown'
      <4> SUFFICES ASSUME ~empty' PROVE rd_data' = mem'[Address(rd_ptr')]
        BY DEF HeadIsShown
      <4>1. /\ rd_data' = mem[Address(rd_ptr')]
            /\ mem' = IF wr_en /\ ~full
                      THEN [mem EXCEPT ![Address(wr_ptr)] = word] ELSE mem
        BY <2>2 DEF Clock, AccessMemory
      <4>2. CASE wr_en /\ ~full
        <5>1. Address(wr_ptr) # Address(rd_ptr')
          BY <2>2, <4>2, FetchAvoidsWrite
        <5>2. rd_ptr' \in 0 .. 4 * DEPTH - 1 /\ mem \in Memory
          BY <3>1, DepthIsNumber, SMT DEF FifoInvariant, TypeOK, Pointer
        <5> QED
          BY <4>1, <4>2, <5>1, <5>2, AddressIs DEF Memory
      <4>3. CASE ~(wr_en /\ ~full)
        BY <4>1, <4>3
      <4> QED
        BY <4>2, <4>3
    <3> QED
      BY <3>1, <3>2, <3>4, <3>5 DEF FifoInvariant
  <2>3. CASE UNCHANGED vars
    BY <2>3 DEF vars, FifoInvariant, TypeOK, StoredWithinDepth, HeadIsShown,
                LagIsOne, count, stored, empty
  <2> QED
    BY <2>1, <2>2, <2>3 DEF Next
<1> QED
  BY <1>1, <1>2, PTL DEF Spec

\* The types (bram_fifo.sv:26-30).
THEOREM BramTypeCorrect == Spec => []TypeOK
<1>1. FifoInvariant => TypeOK
  BY DEF FifoInvariant
<1> QED
  BY <1>1, BramInvariantHolds, PTL

\* "stored never exceeds DEPTH" (bram_fifo.sv:33).
THEOREM BramStoredWithinDepth == Spec => []StoredWithinDepth
<1>1. FifoInvariant => StoredWithinDepth
  BY DEF FifoInvariant
<1> QED
  BY <1>1, BramInvariantHolds, PTL

\* The registered output shows the head of the FIFO (bram_fifo.sv:5).
THEOREM BramHeadIsShown == Spec => []HeadIsShown
<1>1. FifoInvariant => HeadIsShown
  BY DEF FifoInvariant
<1> QED
  BY <1>1, BramInvariantHolds, PTL

\* A fetch that collides with a write is never shown (bram_fifo.sv:6-8).
THEOREM BramCollisionIsNotShown == Spec => CollisionIsNotShown
<1>1. FifoInvariant /\ [Next]_vars
        => [port'.accepted # << >> /\ Address(wr_ptr) = Address(rd_ptr')
              => empty']_vars
  <2> SUFFICES ASSUME FifoInvariant, [Next]_vars, port'.accepted # << >>,
                      Address(wr_ptr) = Address(rd_ptr'), ~(UNCHANGED vars)
               PROVE  empty'
    OBVIOUS
  <2>1. ASSUME NEW wr_en \in BOOLEAN, NEW word \in Word, NEW rd_en \in BOOLEAN,
               Reset(wr_en, word, rd_en)
        PROVE  FALSE
    BY <2>1 DEF Reset, IdlePort
  <2>2. ASSUME NEW wr_en \in BOOLEAN, NEW word \in Word, NEW rd_en \in BOOLEAN,
               Clock(wr_en, word, rd_en)
        PROVE  empty'
    <3>1. wr_en /\ ~full
      BY <2>2 DEF Clock, OneIf
    <3> QED
      BY <2>2, <3>1, FetchAvoidsWrite
  <2> QED
    BY <2>1, <2>2 DEF Next
<1> QED
  BY <1>1, BramInvariantHolds, PTL DEF Spec, CollisionIsNotShown

-----------------------------------------------------------------------------
(* Refinement of LaggedFifo. *)

visible == Words(mem, rd_ptr, count)
arriving == Words(mem, wr_ptr_visible, Distance(wr_ptr, wr_ptr_visible))

\* What is arriving: nothing, or the word at the reader's write pointer.
LEMMA ArrivingCases ==
  ASSUME FifoInvariant
  PROVE  /\ wr_ptr = wr_ptr_visible \/ wr_ptr = Following(wr_ptr_visible)
         /\ wr_ptr = wr_ptr_visible => arriving = << >> /\ Len(arriving) = 0
         /\ wr_ptr = Following(wr_ptr_visible) =>
              /\ arriving = <<mem[Address(wr_ptr_visible)]>>
              /\ Len(arriving) = 1
<1>1. mem \in Memory /\ wr_ptr_visible \in Pointer
  BY DEF FifoInvariant, TypeOK
<1>2. 0 \in 0 .. DEPTH
  BY DepthIsNumber, SMT
<1>3. wr_ptr = wr_ptr_visible => arriving = << >>
  BY <1>1, <1>2, DistanceFromItself, NoWords DEF arriving
<1>4. wr_ptr = Following(wr_ptr_visible)
        => arriving = <<mem[Address(wr_ptr_visible)]>>
  BY <1>1, DistanceOfFollowing, OneWord DEF arriving
<1> QED
  BY <1>3, <1>4 DEF FifoInvariant, LagIsOne

\* What is visible and what is arriving make up what is stored.
LEMMA StoredIsBothParts ==
  ASSUME FifoInvariant
  PROVE  /\ count \in 0 .. DEPTH
         /\ visible \in Seq(Word)
         /\ Len(visible) = count
         /\ visible = << >> <=> empty
         /\ stored \in Nat
         /\ Len(arriving) \in Nat
         /\ stored = count + Len(arriving)
<1>1. TypeOK /\ StoredWithinDepth
  BY DEF FifoInvariant
<1>2. count \in Nat /\ stored \in Nat
  BY <1>1, DistanceIsNumber DEF TypeOK, count, stored
<1>3. count \in 0 .. DEPTH
  BY <1>1, <1>2, DepthIsNumber, SMT DEF StoredWithinDepth
<1>4. /\ visible \in Seq(Word) /\ Len(visible) = count
      /\ visible = << >> <=> empty
  BY <1>1, <1>3, WordsAreSequence, NoWords DEF TypeOK, visible, empty
<1>5. stored = count + Len(arriving) /\ Len(arriving) \in Nat
  <2>1. CASE wr_ptr = wr_ptr_visible
    BY <1>2, <2>1, ArrivingCases, SMT DEF stored, count
  <2>2. CASE wr_ptr = Following(wr_ptr_visible)
    <3>1. count < 2 * DEPTH - 1
      BY <1>3, DepthIsNumber, SMT
    <3>2. stored = count + 1
      BY <1>1, <2>2, <3>1, DistanceMoves DEF TypeOK, stored, count
    <3>3. Len(arriving) = 1
      BY <2>2, ArrivingCases
    <3> QED
      BY <1>2, <3>2, <3>3, SMT
  <2> QED
    BY <2>1, <2>2, ArrivingCases
<1> QED
  BY <1>2, <1>3, <1>4, <1>5

\* A clock edge is a Transfer.
LEMMA BramClockIsTransfer ==
  ASSUME FifoInvariant, FifoInvariant', NEW wr_en \in BOOLEAN, NEW word \in Word,
         NEW rd_en \in BOOLEAN, Clock(wr_en, word, rd_en)
  PROVE  Lagged!Transfer(OneIf(wr_en, word), rd_en)
<1> DEFINE accepted == IF Len(visible) + Len(arriving) < DEPTH
                       THEN OneIf(wr_en, word) ELSE << >>
           delivered == IF rd_en /\ visible # << >> THEN <<Head(visible)>> ELSE << >>
           kept == IF delivered = << >> THEN visible ELSE Tail(visible)
<1>1. TypeOK /\ StoredWithinDepth /\ HeadIsShown
  BY DEF FifoInvariant
<1>2. accepted = OneIf(wr_en /\ ~full, word)
  <2>1. Len(visible) + Len(arriving) < DEPTH <=> ~full
    BY StoredIsBothParts, DepthIsNumber, SMT DEF full
  <2> QED
    BY <2>1 DEF OneIf
<1>3. ~empty => /\ Head(visible) = rd_data
                /\ Tail(visible) = Words(mem, Following(rd_ptr),
                     Distance(wr_ptr_visible, Following(rd_ptr)))
                /\ Distance(wr_ptr_visible, Following(rd_ptr)) = count - 1
  <2>1. count <= DEPTH
    BY StoredIsBothParts, DepthIsNumber, SMT
  <2> QED
    BY <1>1, <2>1, SpanShrinks DEF TypeOK, visible, count, empty, HeadIsShown
<1>4. delivered = OneIf(do_read(rd_en), rd_data)
  BY <1>3, StoredIsBothParts DEF OneIf, do_read
<1>5. /\ TypeOK'
      /\ wr_ptr_visible' = wr_ptr
      /\ \/ ~(wr_en /\ ~full) /\ wr_ptr' = wr_ptr /\ mem' = mem
         \/ /\ wr_en /\ ~full /\ wr_ptr' = Following(wr_ptr)
            /\ stored < DEPTH
            /\ mem' = [mem EXCEPT ![Address(wr_ptr)] = word]
      /\ \/ ~do_read(rd_en) /\ rd_ptr' = rd_ptr
         \/ do_read(rd_en) /\ rd_ptr' = Following(rd_ptr)
      /\ Distance(wr_ptr, rd_ptr') \in Nat
      /\ Distance(wr_ptr, rd_ptr') <= stored
  BY EdgeMovesPointers
<1>6. /\ mem \in Memory /\ wr_ptr \in Pointer /\ wr_ptr_visible \in Pointer
      /\ rd_ptr' \in Pointer
  BY <1>1, <1>5 DEF TypeOK
<1>7. kept = Words(mem, rd_ptr', Distance(wr_ptr_visible, rd_ptr'))
      /\ Distance(wr_ptr_visible, rd_ptr') <= count
  <2>1. CASE do_read(rd_en) /\ rd_ptr' = Following(rd_ptr)
    <3>1. kept = Tail(visible)
      BY <2>1, StoredIsBothParts DEF do_read
    <3>2. ~empty
      BY <2>1 DEF do_read
    <3> QED
      BY <1>3, <2>1, <3>1, <3>2, StoredIsBothParts, DepthIsNumber, SMT
  <2>2. CASE ~do_read(rd_en) /\ rd_ptr' = rd_ptr
    <3>1. kept = visible
      BY <2>2, StoredIsBothParts DEF do_read
    <3> QED
      BY <2>2, <3>1, StoredIsBothParts, SMT DEF visible, count
  <2> QED
    BY <1>5, <2>1, <2>2
<1> HIDE DEF kept, accepted, delivered
<1>8. Words(mem, rd_ptr', Distance(wr_ptr, rd_ptr')) = kept \o arriving
  <2>1. CASE wr_ptr = wr_ptr_visible
    <3>1. Distance(wr_ptr_visible, rd_ptr') \in 0 .. DEPTH
      <4>1. Distance(wr_ptr_visible, rd_ptr') \in Nat
        BY <1>6, DistanceIsNumber
      <4> QED
        BY <1>7, <4>1, StoredIsBothParts, DepthIsNumber, SMT
    <3>2. kept \in Seq(Word)
      BY <1>6, <1>7, <3>1, WordsAreSequence
    <3> QED
      BY <1>7, <2>1, <3>2, ArrivingCases, ConcatEmptySeq
  <2>2. CASE wr_ptr = Following(wr_ptr_visible)
    <3>1. Distance(wr_ptr_visible, rd_ptr') < DEPTH
      <4>1. Distance(wr_ptr_visible, rd_ptr') \in Nat
        BY <1>6, DistanceIsNumber
      <4>2. count + 1 <= DEPTH
        <5>1. Len(arriving) = 1 /\ stored <= DEPTH
          BY <1>1, <2>2, ArrivingCases DEF StoredWithinDepth
        <5> QED
          BY <5>1, StoredIsBothParts, DepthIsNumber, SMT
      <4> QED
        BY <1>7, <4>1, <4>2, StoredIsBothParts, DepthIsNumber, SMT
    <3>2. Words(mem, rd_ptr', Distance(Following(wr_ptr_visible), rd_ptr'))
            = Words(mem, rd_ptr', Distance(wr_ptr_visible, rd_ptr'))
                \o <<mem[Address(wr_ptr_visible)]>>
      BY <1>6, <3>1, SpanGrows
    <3> QED
      BY <1>7, <2>2, <3>2, ArrivingCases
  <2> QED
    BY <2>1, <2>2, ArrivingCases
<1>9. visible' = kept \o arriving
  <2>1. visible' = Words(mem', rd_ptr', Distance(wr_ptr, rd_ptr'))
    BY <1>5 DEF visible, count
  <2>2. CASE mem' = mem
    BY <1>8, <2>1, <2>2
  <2>3. CASE stored < DEPTH /\ mem' = [mem EXCEPT ![Address(wr_ptr)] = word]
    <3>1. Distance(wr_ptr, rd_ptr') < DEPTH
      BY <1>5, <2>3, StoredIsBothParts, DepthIsNumber, SMT
    <3>2. Words([mem EXCEPT ![Address(wr_ptr)] = word], rd_ptr',
                Distance(wr_ptr, rd_ptr'))
            = Words(mem, rd_ptr', Distance(wr_ptr, rd_ptr'))
      BY <1>6, <3>1, SpanKept
    <3> QED
      BY <1>8, <2>1, <2>3, <3>2
  <2> QED
    BY <1>5, <2>2, <2>3
<1>10. arriving' = accepted
  <2>1. arriving' = Words(mem', wr_ptr, Distance(wr_ptr', wr_ptr))
    BY <1>5 DEF arriving
  <2>2. CASE ~(wr_en /\ ~full) /\ wr_ptr' = wr_ptr /\ mem' = mem
    <3>1. arriving' = << >>
      <4>1. 0 \in 0 .. DEPTH
        BY DepthIsNumber, SMT
      <4> QED
        BY <1>6, <2>1, <2>2, <4>1, DistanceFromItself, NoWords
    <3> QED
      BY <1>2, <2>2, <3>1 DEF OneIf
  <2>3. CASE /\ wr_en /\ ~full /\ wr_ptr' = Following(wr_ptr)
             /\ mem' = [mem EXCEPT ![Address(wr_ptr)] = word]
    <3>1. mem' \in Memory /\ mem'[Address(wr_ptr)] = word
      BY <1>6, <2>3, StoringKeepsMemory
    <3>2. arriving' = <<word>>
      BY <1>6, <2>1, <2>3, <3>1, DistanceOfFollowing, OneWord
    <3> QED
      BY <1>2, <2>3, <3>2 DEF OneIf
  <2> QED
    BY <1>5, <2>2, <2>3
<1>11. port' = [rst_n |-> TRUE, offered |-> OneIf(wr_en, word), wanted |-> rd_en,
                accepted |-> accepted, delivered |-> delivered]
  BY <1>2, <1>4 DEF Clock
<1> QED
  BY <1>9, <1>10, <1>11
  DEF Lagged!Transfer, Lagged!Move, Lagged!Accepted, Lagged!Delivered, Lagged!Kept,
      kept, accepted, delivered, visible, arriving

\* bram_fifo implements LaggedFifo (bram_fifo.sv:32-57).
THEOREM BramRefinesLaggedFifo == Spec => ImplementsLaggedFifo
<1>1. Init => Lagged!Init
  <2> SUFFICES ASSUME Init PROVE Lagged!Init
    OBVIOUS
  <2>1. 0 \in Pointer /\ 0 \in 0 .. DEPTH
    BY DepthIsNumber, SMT DEF Pointer
  <2>2. visible = << >> /\ arriving = << >>
    BY <2>1, DistanceFromItself, NoWords DEF Init, count, visible, arriving
  <2> QED
    BY <2>2 DEF Init, Lagged!Init, Lagged!IdlePort, IdlePort, visible, arriving
<1>2. FifoInvariant /\ FifoInvariant' /\ [Next]_vars
        => [Lagged!Next]_<<visible, arriving, port>>
  <2> SUFFICES ASSUME FifoInvariant, FifoInvariant', [Next]_vars
               PROVE  [Lagged!Next]_<<visible, arriving, port>>
    OBVIOUS
  <2>1. ASSUME NEW wr_en \in BOOLEAN, NEW word \in Word, NEW rd_en \in BOOLEAN,
               Reset(wr_en, word, rd_en)
        PROVE  Lagged!Clear
    <3>1. 0 \in Pointer /\ 0 \in 0 .. DEPTH /\ mem' \in Memory
      BY DepthIsNumber, SMT DEF Pointer, FifoInvariant, TypeOK
    <3>2. visible' = << >> /\ arriving' = << >>
      BY <2>1, <3>1, DistanceFromItself, NoWords
      DEF Reset, count, visible, arriving
    <3> QED
      BY <2>1, <3>2
      DEF Reset, Lagged!Clear, Lagged!Empty, Lagged!IdlePort, IdlePort, visible, arriving
  <2>2. ASSUME NEW wr_en \in BOOLEAN, NEW word \in Word, NEW rd_en \in BOOLEAN,
               Clock(wr_en, word, rd_en)
        PROVE  Lagged!Next
    <3>1. Lagged!Transfer(OneIf(wr_en, word), rd_en)
      BY <2>2, BramClockIsTransfer
    <3>2. OneIf(wr_en, word) \in Lagged!AtMostOne
      BY DEF OneIf, Lagged!AtMostOne
    <3> QED
      BY <3>1, <3>2 DEF Lagged!Next
  <2>3. CASE UNCHANGED vars
    BY <2>3 DEF vars, count, visible, arriving
  <2> QED
    BY <2>1, <2>2, <2>3 DEF Next, Lagged!Next
<1>3. [Lagged!Next]_<<visible, arriving, port>>
        <=> [Lagged!Next]_<<Words(mem, rd_ptr, count),
                            Words(mem, wr_ptr_visible,
                                  Distance(wr_ptr, wr_ptr_visible)), port>>
  BY DEF visible, arriving
<1> QED
  BY <1>1, <1>2, <1>3, BramInvariantHolds, PTL
  DEF Spec, ImplementsLaggedFifo, Lagged!Spec
=============================================================================

--------------------------- MODULE SyncFifoProofs ---------------------------
(***************************************************************************)
(* sync_fifo is a FIFO of DEPTH places, for every depth and every set of   *)
(* words.  TypeOK and CountWithinDepth together are inductive, and a clock *)
(* edge is a Transfer of ByteFifo: a pop takes the first of the words      *)
(* between the pointers away, a write adds one behind them.                *)
(***************************************************************************)
EXTENDS SyncFifo, FifoLemmas

\* The pointers stay pointers and the memory a memory, and never are more
\* words counted than there are places (sync_fifo.sv:25-44).
LEMMA CountInvariant == Spec => [](TypeOK /\ CountWithinDepth)
<1>1. Init => TypeOK /\ CountWithinDepth
  <2> SUFFICES ASSUME Init PROVE TypeOK /\ CountWithinDepth
    OBVIOUS
  <2>1. TypeOK
    BY DepthIsNumber, SMT DEF Init, TypeOK, Pointer
  <2>2. count = 0
    BY <2>1, DistanceFromItself DEF Init, TypeOK, count
  <2> QED
    BY <2>1, <2>2, DepthIsNumber, SMT DEF CountWithinDepth
<1>2. TypeOK /\ CountWithinDepth /\ [Next]_vars => (TypeOK /\ CountWithinDepth)'
  <2> SUFFICES ASSUME TypeOK, CountWithinDepth, [Next]_vars
               PROVE  TypeOK' /\ CountWithinDepth'
    OBVIOUS
  <2>1. ASSUME NEW wr_en \in BOOLEAN, NEW word \in Word, Store(wr_en, word)
        PROVE  mem' \in Memory
    BY <2>1, StoringKeepsMemory DEF Store, TypeOK
  <2>2. ASSUME NEW wr_en \in BOOLEAN, NEW word \in Word, Reset(wr_en, word)
        PROVE  TypeOK' /\ CountWithinDepth'
    <3>1. mem' \in Memory /\ wr_ptr' = 0 /\ rd_ptr' = 0
      BY <2>1, <2>2 DEF Reset
    <3>2. 0 \in Pointer
      BY DepthIsNumber, SMT DEF Pointer
    <3>3. count' = 0
      BY <3>1, <3>2, DistanceFromItself DEF count
    <3> QED
      BY <3>1, <3>2, <3>3, DepthIsNumber, SMT DEF TypeOK, CountWithinDepth
  <2>3. ASSUME NEW wr_en \in BOOLEAN, NEW word \in Word, NEW rd_en \in BOOLEAN,
               Clock(wr_en, word, rd_en)
        PROVE  TypeOK' /\ CountWithinDepth'
    <3>1. mem' \in Memory
      BY <2>1, <2>3 DEF Clock
    <3>2. /\ wr_ptr' = IF wr_en /\ ~full THEN Following(wr_ptr) ELSE wr_ptr
          /\ rd_ptr' = IF rd_en /\ ~empty THEN Following(rd_ptr) ELSE rd_ptr
      BY <2>3 DEF Clock
    <3>3. wr_ptr' \in Pointer /\ rd_ptr' \in Pointer
      BY <3>2, FollowingMoves DEF TypeOK
    <3>4. /\ count \in Nat /\ Distance(wr_ptr, rd_ptr') \in Nat
          /\ Distance(wr_ptr, rd_ptr') <= count
      <4>1. count \in Nat /\ Distance(wr_ptr, rd_ptr') \in Nat
        BY <3>3, DistanceIsNumber DEF TypeOK, count
      <4>2. rd_ptr' = rd_ptr \/ (count # 0 /\ rd_ptr' = Following(rd_ptr))
        BY <3>2 DEF empty
      <4>3. count > 0 => Distance(wr_ptr, Following(rd_ptr)) = count - 1
        BY DistanceMoves DEF TypeOK, count
      <4> QED
        BY <4>1, <4>2, <4>3, SMT DEF count
    <3>5. wr_ptr' = wr_ptr \/ (count < DEPTH /\ wr_ptr' = Following(wr_ptr))
      BY <3>2, <3>4, DepthIsNumber, SMT DEF full
    <3>6. Distance(wr_ptr', rd_ptr') <= DEPTH
      <4>1. Distance(wr_ptr, rd_ptr') < 2 * DEPTH - 1
              => Distance(Following(wr_ptr), rd_ptr')
                   = Distance(wr_ptr, rd_ptr') + 1
        BY <3>3, DistanceMoves DEF TypeOK
      <4> QED
        BY <3>4, <3>5, <4>1, DepthIsNumber, SMT DEF CountWithinDepth
    <3> QED
      BY <3>1, <3>3, <3>6 DEF TypeOK, CountWithinDepth, count
  <2>4. CASE UNCHANGED vars
    BY <2>4 DEF vars, TypeOK, CountWithinDepth, count
  <2> QED
    BY <2>2, <2>3, <2>4 DEF Next
<1> QED
  BY <1>1, <1>2, PTL DEF Spec

\* The types (sync_fifo.sv:21-23).
THEOREM SyncTypeCorrect == Spec => []TypeOK
BY CountInvariant, PTL

\* "count never exceeds DEPTH" (sync_fifo.sv:26).
THEOREM SyncCountWithinDepth == Spec => []CountWithinDepth
BY CountInvariant, PTL

-----------------------------------------------------------------------------
(* Refinement of ByteFifo. *)

\* A clock edge is a Transfer.
LEMMA SyncClockIsTransfer ==
  ASSUME TypeOK, CountWithinDepth, NEW wr_en \in BOOLEAN, NEW word \in Word,
         NEW rd_en \in BOOLEAN, Clock(wr_en, word, rd_en)
  PROVE  Fifo!Transfer(OneIf(wr_en, word), rd_en)
<1> DEFINE queue == Words(mem, rd_ptr, count)
           accepted == IF Len(queue) < DEPTH THEN OneIf(wr_en, word) ELSE << >>
           delivered == IF rd_en /\ queue # << >> THEN <<Head(queue)>> ELSE << >>
           kept == IF delivered = << >> THEN queue ELSE Tail(queue)
<1>1. count \in 0 .. DEPTH
  <2>1. count \in Nat
    BY DistanceIsNumber DEF TypeOK, count
  <2> QED
    BY <2>1, DepthIsNumber, SMT DEF CountWithinDepth
<1>2. Len(queue) = count /\ (queue = << >> <=> empty)
  BY <1>1, WordsAreSequence, NoWords DEF TypeOK, empty
<1>3. accepted = OneIf(wr_en /\ ~full, word)
  <2>1. Len(queue) < DEPTH <=> ~full
    BY <1>1, <1>2, DepthIsNumber, SMT DEF full
  <2> QED
    BY <2>1 DEF OneIf
<1>4. ~empty => /\ Head(queue) = rd_data
                /\ Tail(queue) = Words(mem, Following(rd_ptr),
                                       Distance(wr_ptr, Following(rd_ptr)))
                /\ Distance(wr_ptr, Following(rd_ptr)) = count - 1
  BY SpanShrinks DEF TypeOK, CountWithinDepth, count, empty, rd_data
<1>5. delivered = OneIf(rd_en /\ ~empty, rd_data)
  BY <1>2, <1>4 DEF OneIf
<1>6. /\ wr_ptr' = IF wr_en /\ ~full THEN Following(wr_ptr) ELSE wr_ptr
      /\ rd_ptr' = IF rd_en /\ ~empty THEN Following(rd_ptr) ELSE rd_ptr
      /\ mem' = IF wr_en /\ ~full THEN [mem EXCEPT ![Address(wr_ptr)] = word]
                ELSE mem
      /\ port' = [rst_n |-> TRUE, offered |-> OneIf(wr_en, word), wanted |-> rd_en,
                  accepted |-> OneIf(wr_en /\ ~full, word),
                  delivered |-> OneIf(rd_en /\ ~empty, rd_data)]
  BY DEF Clock, Store
<1>7. rd_ptr' \in Pointer /\ wr_ptr \in Pointer /\ mem \in Memory
  BY <1>6, FollowingMoves DEF TypeOK
<1>8. kept = Words(mem, rd_ptr', Distance(wr_ptr, rd_ptr'))
  <2>1. CASE rd_en /\ ~empty
    BY <1>2, <1>4, <1>6, <2>1
  <2>2. CASE ~(rd_en /\ ~empty)
    BY <1>2, <1>6, <2>2 DEF count
  <2> QED
    BY <2>1, <2>2
<1> HIDE DEF kept, accepted
<1>9. (Words(mem, rd_ptr, count))' = kept \o accepted
  <2>1. CASE wr_en /\ ~full
    <3>1. Distance(wr_ptr, rd_ptr') < DEPTH
      BY <1>1, <1>4, <1>6, <2>1, DepthIsNumber, SMT DEF full, count
    <3>2. /\ mem' \in Memory /\ mem'[Address(wr_ptr)] = word
          /\ mem' = [mem EXCEPT ![Address(wr_ptr)] = word]
          /\ wr_ptr' = Following(wr_ptr)
      BY <1>6, <1>7, <2>1, StoringKeepsMemory
    <3>3. Words(mem', rd_ptr', Distance(wr_ptr', rd_ptr'))
            = Words(mem', rd_ptr', Distance(wr_ptr, rd_ptr')) \o <<word>>
      BY <1>7, <3>1, <3>2, SpanGrows
    <3>4. Words(mem', rd_ptr', Distance(wr_ptr, rd_ptr')) = kept
      <4>1. Words([mem EXCEPT ![Address(wr_ptr)] = word], rd_ptr',
                  Distance(wr_ptr, rd_ptr'))
              = Words(mem, rd_ptr', Distance(wr_ptr, rd_ptr'))
        BY <1>7, <3>1, SpanKept
      <4> QED
        BY <1>8, <3>2, <4>1
    <3>5. accepted = <<word>>
      BY <1>3, <2>1 DEF OneIf
    <3> QED
      BY <3>3, <3>4, <3>5 DEF count
  <2>2. CASE ~(wr_en /\ ~full)
    <3>1. accepted = << >>
      BY <1>3, <2>2 DEF OneIf
    <3>2. Words(mem', rd_ptr', Distance(wr_ptr', rd_ptr')) = kept
      BY <1>6, <1>8, <2>2
    <3>3. kept \in Seq(Word)
      <4>1. Distance(wr_ptr, rd_ptr') \in 0 .. DEPTH
        BY <1>1, <1>4, <1>6, DepthIsNumber, SMT DEF empty, count
      <4> QED
        BY <1>7, <1>8, <4>1, WordsAreSequence
    <3> QED
      BY <3>1, <3>2, <3>3, ConcatEmptySeq DEF count
  <2> QED
    BY <2>1, <2>2
<1> HIDE DEF queue, delivered
<1> QED
  BY <1>3, <1>5, <1>6, <1>9
  DEF Fifo!Transfer, Fifo!Move, Fifo!Accepted, Fifo!Delivered, Fifo!Kept,
      queue, accepted, delivered, kept

\* sync_fifo implements ByteFifo (sync_fifo.sv:25-44).
THEOREM SyncRefinesByteFifo == Spec => ImplementsFifo
<1>1. Init => Fifo!Init
  <2> SUFFICES ASSUME Init PROVE Fifo!Init
    OBVIOUS
  <2>1. 0 \in Pointer /\ 0 \in 0 .. DEPTH
    BY DepthIsNumber, SMT DEF Pointer
  <2>2. Words(mem, rd_ptr, count) = << >>
    BY <2>1, DistanceFromItself, NoWords DEF Init, count
  <2> QED
    BY <2>2 DEF Init, Fifo!Init, Fifo!IdlePort, IdlePort
<1>2. TypeOK /\ CountWithinDepth /\ TypeOK' /\ [Next]_vars
        => [Fifo!Next]_<<Words(mem, rd_ptr, count), port>>
  <2> SUFFICES ASSUME TypeOK, CountWithinDepth, TypeOK', [Next]_vars
               PROVE  [Fifo!Next]_<<Words(mem, rd_ptr, count), port>>
    OBVIOUS
  <2>1. ASSUME NEW wr_en \in BOOLEAN, NEW word \in Word, Reset(wr_en, word)
        PROVE  Fifo!Clear
    <3>1. 0 \in Pointer /\ 0 \in 0 .. DEPTH
      BY DepthIsNumber, SMT DEF Pointer
    <3>2. (Words(mem, rd_ptr, count))' = << >>
      BY <2>1, <3>1, DistanceFromItself, NoWords DEF Reset, count, TypeOK
    <3> QED
      BY <2>1, <3>2 DEF Reset, Fifo!Clear, Fifo!Empty, Fifo!IdlePort, IdlePort
  <2>2. ASSUME NEW wr_en \in BOOLEAN, NEW word \in Word, NEW rd_en \in BOOLEAN,
               Clock(wr_en, word, rd_en)
        PROVE  Fifo!Next
    <3>1. Fifo!Transfer(OneIf(wr_en, word), rd_en)
      BY <2>2, SyncClockIsTransfer
    <3>2. OneIf(wr_en, word) \in Fifo!AtMostOne
      BY DEF OneIf, Fifo!AtMostOne
    <3> QED
      BY <3>1, <3>2 DEF Fifo!Next
  <2>3. CASE UNCHANGED vars
    BY <2>3 DEF vars, count
  <2> QED
    BY <2>1, <2>2, <2>3 DEF Next, Fifo!Next
<1> QED
  BY <1>1, <1>2, CountInvariant, PTL DEF Spec, ImplementsFifo, Fifo!Spec
=============================================================================

---------------------------- MODULE HwCoreProofs ----------------------------
(***************************************************************************)
(* The board between the two UARTs, for every depth of its FIFOs, any      *)
(* commands, and any pace of the host, the board and the filter inside.    *)
(*                                                                         *)
(* First: the command parser never pops an empty RX FIFO.  Then the board  *)
(* invariant CoreInv: what each part promises of an edge (FilterMoves,     *)
(* ParserCases, SliceCases) gives, frame by frame, how the parser, the     *)
(* slice and the filter hand a frame on, so that frames follow each other  *)
(* without a mix of their bytes and each is judged by its own              *)
(* configuration.  Then WireInv: what the filter's ports have given to the *)
(* serializer reaches the host's parser answer by answer.                  *)
(*                                                                         *)
(* Then HostInv, with the host of HostSession for any plan and any size   *)
(* of a batch: what the host has written and the parser has not read is    *)
(* the rest of the batch, because the parser reads command by command      *)
(* (ParserReads), and as many frames are on their way through slice,       *)
(* filter, serializer and wire as the host has no response to              *)
(* (ParserFrameMoves).                                                     *)
(*                                                                         *)
(* Last, ResponseInv: the bytes of the plan on that way, in order.  Slice, *)
(* filter and host each hand on what the invariant says they hold          *)
(* (SliceMatches, FilterTurns, AnswersMatch), and BytesMove puts their     *)
(* steps together.                                                         *)
(***************************************************************************)
EXTENDS CommandStream, HostInvariant, SequenceTheorems, FiniteSetTheorems, TLAPS

\* The property is inductive once it is known that the registers it speaks of
\* are numbers, and the FIFO's parts sequences of bytes.
ParserInvariant ==
  /\ rx_visible \in Seq(Byte) /\ rx_arriving \in Seq(Byte)
  /\ line \in Seq(Byte)
  /\ frame_len \in Nat /\ remaining \in Nat
  /\ StreamNeverStarves

-----------------------------------------------------------------------------
(* The RX FIFO on one edge. *)

\* What comes in is at most one byte, and what the reader sees loses at most its
\* head, and that only when the parser pops.
LEMMA FifoMoves ==
  ASSUME ParserInvariant, NEW rx \in {<< >>} \cup {<<b>> : b \in Byte},
         RxFifo!Move(rx, rxf_pop)
  PROVE  /\ rx_visible' \in Seq(Byte) /\ rx_arriving' \in Seq(Byte)
         /\ ~rxf_pop => Len(rx_visible') >= Len(rx_visible)
         /\ Len(rx_visible') >= Len(rx_visible) - 1
<1> DEFINE left == RxFifo!Kept(rxf_pop)
<1>1. rx_visible \in Seq(Byte) /\ rx_arriving \in Seq(Byte)
  BY DEF ParserInvariant
<1>2. Len(rx_visible) \in Nat /\ Len(rx_arriving) \in Nat
  BY <1>1, LenProperties
<1>3. /\ left \in Seq(Byte)
      /\ ~rxf_pop => Len(left) >= Len(rx_visible)
      /\ Len(left) >= Len(rx_visible) - 1
  <2>1. CASE rxf_pop /\ rx_visible # << >>
    <3>1. left = Tail(rx_visible)
      BY <2>1 DEF RxFifo!Kept, RxFifo!Delivered
    <3>2. Tail(rx_visible) \in Seq(Byte) /\ Len(Tail(rx_visible)) = Len(rx_visible) - 1
      BY <1>1, <2>1, HeadTailProperties
    <3>3. rxf_pop
      BY <2>1
    <3> HIDE DEF left
    <3> QED
      BY <1>2, <3>1, <3>2, <3>3
  <2>2. CASE ~(rxf_pop /\ rx_visible # << >>)
    <3>1. left = rx_visible
      BY <2>2 DEF RxFifo!Kept, RxFifo!Delivered
    <3> HIDE DEF left
    <3> QED
      BY <1>1, <1>2, <3>1
  <2> QED
    BY <2>1, <2>2
<1>4. rx_visible' = left \o rx_arriving /\ rx_arriving' \in {rx, << >>}
  BY DEF RxFifo!Move, RxFifo!Accepted
<1>5. rx_arriving' \in Seq(Byte)
  <2>1. << >> \in Seq(Byte) /\ \A b \in Byte : <<b>> \in Seq(Byte)
    OBVIOUS
  <2> QED
    BY <1>4, <2>1
<1> HIDE DEF left
<1>6. /\ rx_visible' \in Seq(Byte)
      /\ Len(rx_visible') = Len(left) + Len(rx_arriving)
  BY <1>1, <1>3, <1>4, ConcatProperties
<1>7. Len(left) \in Nat
  BY <1>3, LenProperties
<1> QED
  BY <1>2, <1>3, <1>5, <1>6, <1>7

\* The byte at the head of the FIFO is a number.
LEMMA HeadIsByte ==
  ASSUME ParserInvariant
  PROVE  rxf_data \in Nat
<1>1. CASE rx_visible = << >>
  BY <1>1 DEF rxf_data, rxf_empty
<1>2. CASE rx_visible # << >>
  <2>1. Head(rx_visible) \in Byte
    BY <1>2, HeadTailProperties DEF ParserInvariant
  <2>2. rxf_data = Head(rx_visible)
    BY <1>2, Zenon DEF rxf_data, rxf_empty
  <2>3. Byte \subseteq Nat
    BY DEF Byte, Unsigned
  <2> QED
    BY <2>1, <2>2, <2>3, Zenon
<1> QED
  BY <1>1, <1>2

\* Both halves of a length register are numbers.
LEMMA Halves ==
  ASSUME NEW k \in Nat
  PROVE  k % 256 \in Nat /\ k \div 256 \in Nat
OBVIOUS

-----------------------------------------------------------------------------
(* The parser on one edge. *)

\* Every state of the parser leaves its registers numbers, and no edge leaves
\* it in C_STREAM with more of the frame to come than the FIFO holds.
LEMMA ParserStep ==
  ASSUME ParserInvariant, CommandParser,
         rx_visible' \in Seq(Byte),
         ~rxf_pop => Len(rx_visible') >= Len(rx_visible),
         Len(rx_visible') >= Len(rx_visible) - 1
  PROVE  frame_len' \in Nat /\ remaining' \in Nat /\ StreamNeverStarves'
<1> DEFINE before == Len(rx_visible)
           after == Len(rx_visible')
<1>1. before \in Nat /\ after \in Nat
  BY LenProperties DEF ParserInvariant
<1>2. (~rxf_pop => after >= before) /\ after >= before - 1
  OBVIOUS
<1>3. frame_len \in Nat /\ remaining \in Nat
  BY DEF ParserInvariant
<1>4. StreamNeverStarves' <=> (cmd' = "C_STREAM" => remaining' \in 1 .. after)
  BY DEF StreamNeverStarves, rxf_count
<1>5. cmd = "C_STREAM" => remaining \in 1 .. before
  BY DEF ParserInvariant, StreamNeverStarves, rxf_count
<1> HIDE DEF before, after
<1>6. ASSUME AwaitByte \/ StartFrame \/ StartReset \/ SkipByte \/ ReadConfig
             \/ ReadStall \/ HoldReset \/ ReleaseReset
      PROVE  cmd' # "C_STREAM" /\ UNCHANGED <<frame_len, remaining>>
  <2>1. CASE AwaitByte
    BY <2>1 DEF AwaitByte, reading_header, commandVars
  <2>2. CASE StartFrame
    BY <2>2 DEF StartFrame
  <2>3. CASE StartReset
    BY <2>3 DEF StartReset
  <2>4. CASE SkipByte
    BY <2>4 DEF SkipByte, commandVars
  <2>5. CASE ReadConfig
    BY <2>5 DEF ReadConfig
  <2>6. CASE ReadStall
    BY <2>6 DEF ReadStall
  <2>7. CASE HoldReset
    BY <2>7 DEF HoldReset
  <2>8. CASE ReleaseReset
    BY <2>8 DEF ReleaseReset
  <2> QED
    BY <1>6, <2>1, <2>2, <2>3, <2>4, <2>5, <2>6, <2>7, <2>8
<1>7. CASE ReadLength
  <2>1. cmd' # "C_STREAM" /\ remaining' = remaining
    BY <1>7 DEF ReadLength
  <2>2. \/ frame_len' = rxf_data * 256 + (frame_len % 256)
        \/ frame_len' = (frame_len \div 256) * 256 + rxf_data
    BY <1>7 DEF ReadLength
  <2>3. rxf_data \in Nat /\ frame_len % 256 \in Nat /\ frame_len \div 256 \in Nat
    BY <1>3, HeadIsByte, Halves
  <2>4. frame_len' \in Nat
    BY <2>2, <2>3, SMT
  <2> QED
    BY <1>3, <1>4, <2>1, <2>4
<1>8. CASE Wait
  <2>1. ~rxf_pop
    BY <1>8 DEF Wait, rxf_pop, reading_header
  <2>2. frame_len' = frame_len /\ remaining' \in {remaining, frame_len}
    BY <1>8 DEF Wait
  <2>3. cmd' = "C_STREAM" => /\ frame_len # 0 /\ before >= frame_len
                             /\ remaining' = frame_len
    BY <1>8 DEF Wait, rxf_count, before
  <2>4. cmd' = "C_STREAM" => remaining' \in 1 .. after
    BY <1>1, <1>2, <1>3, <2>1, <2>3
  <2> QED
    BY <1>3, <1>4, <2>2, <2>4
<1>9. CASE Stream
  <2>1. cmd = "C_STREAM" /\ frame_len' = frame_len /\ remaining \in 1 .. before
    BY <1>5, <1>9 DEF Stream
  <2>2. CASE pipe_ready
    <3>1. /\ remaining' = remaining - 1
          /\ cmd' = "C_STREAM" => remaining # 1
      BY <1>9, <2>2 DEF Stream
    <3> QED
      BY <1>1, <1>2, <1>3, <1>4, <2>1, <3>1
  <2>3. CASE ~pipe_ready
    <3>1. ~rxf_pop
      BY <2>1, <2>3 DEF rxf_pop, reading_header
    <3>2. remaining' = remaining
      BY <1>9, <2>3 DEF Stream
    <3> QED
      BY <1>1, <1>2, <1>3, <1>4, <2>1, <3>1, <3>2
  <2> QED
    BY <2>2, <2>3
<1> QED
  BY <1>3, <1>4, <1>6, <1>7, <1>8, <1>9 DEF CommandParser

\* What the host has yet to send of a command is made of bytes, and so is what
\* its UART delivers.
LEMMA HostSendsBytes ==
  ASSUME ParserInvariant, NEW t \in Texts
  PROVE  Head(t) \in Byte /\ Tail(t) \in Seq(Byte)
<1>1. t \in Seq(Byte) /\ t # << >>
  BY CommandsAssumption DEF Texts, ParserInvariant
<1> QED
  BY <1>1, HeadTailProperties

-----------------------------------------------------------------------------
(* The theorem. *)

\* The invariant of the command parser holds at first,
LEMMA ParserInit == Init => ParserInvariant
<1> SUFFICES ASSUME Init PROVE ParserInvariant
  OBVIOUS
<1>1. /\ rx_visible = << >> /\ rx_arriving = << >> /\ line = << >>
      /\ frame_len = 0 /\ remaining = 0 /\ cmd = "C_IDLE"
  BY DEF Init, CoreInit
<1>2. << >> \in Seq(Byte)
  OBVIOUS
<1> QED
  BY <1>1, <1>2 DEF ParserInvariant, StreamNeverStarves

\* and every edge preserves it.
LEMMA ParserNext == ParserInvariant /\ [Next]_vars => ParserInvariant'
<1> SUFFICES ASSUME ParserInvariant, [Next]_vars
             PROVE  ParserInvariant'
  OBVIOUS
<1>1. CASE Reset
  <2>1. /\ rx_visible' = << >> /\ rx_arriving' = << >> /\ line' = line
        /\ frame_len' = 0 /\ remaining' = 0 /\ cmd' = "C_IDLE"
    BY <1>1 DEF Reset, BoardReset
  <2>2. << >> \in Seq(Byte)
    OBVIOUS
  <2> QED
    BY <2>1, <2>2 DEF ParserInvariant, StreamNeverStarves
<1>2. CASE Tick
  <2>1. PICK byte \in {<< >>} \cup {<<Head(t)>> : t \in Texts},
             pass \in Passes, tx_ready \in TxReady :
          LET in == [rx |-> byte, beat_pass |-> pass, result_pass |-> pass,
                     tx_ready |-> tx_ready]
          IN Clock(in) /\ (SendsNothing(in) \/ SendsByte(in))
    BY <1>2 DEF Tick
  <2> DEFINE in == [rx |-> byte, beat_pass |-> pass, result_pass |-> pass,
                    tx_ready |-> tx_ready]
  <2>2. /\ RxFifo!Move(in.rx, rxf_pop) /\ CommandParser
        /\ SendsNothing(in) \/ SendsByte(in)
    BY <2>1 DEF Clock
  <2>3. in.rx \in {<< >>} \cup {<<b>> : b \in Byte}
    <3>1. in.rx = byte
      OBVIOUS
    <3> QED
      BY <3>1, HostSendsBytes
  <2> HIDE DEF in
  <2>4. /\ rx_visible' \in Seq(Byte) /\ rx_arriving' \in Seq(Byte)
        /\ ~rxf_pop => Len(rx_visible') >= Len(rx_visible)
        /\ Len(rx_visible') >= Len(rx_visible) - 1
    BY <2>2, <2>3, FifoMoves
  <2>5. frame_len' \in Nat /\ remaining' \in Nat /\ StreamNeverStarves'
    BY <2>2, <2>4, ParserStep
  <2>6. line' \in Seq(Byte)
    <3>1. CASE SendsNothing(in)
      BY <3>1 DEF SendsNothing, ParserInvariant
    <3>2. CASE SendsByte(in)
      BY <3>2, HostSendsBytes DEF SendsByte
    <3> QED
      BY <2>2, <3>1, <3>2
  <2> QED
    BY <2>4, <2>5, <2>6 DEF ParserInvariant
<1>3. CASE UNCHANGED vars
  BY <1>3 DEF vars, coreVars, commandVars, ParserInvariant, StreamNeverStarves, rxf_count
<1> QED
  BY <1>1, <1>2, <1>3 DEF Next

\* Whatever the host sends and whenever the board is reset, the byte that the
\* parser pops in C_STREAM without looking at "empty" (hw_test_core.sv:74) is
\* there, and so is the rest of the frame.
THEOREM StreamAlwaysFed == Spec => []StreamNeverStarves
<1>1. ParserInvariant => StreamNeverStarves
  BY DEF ParserInvariant
<1> QED
  BY <1>1, ParserInit, ParserNext, PTL DEF Spec

-----------------------------------------------------------------------------
(* The filter on one edge. *)

\* What is left of the buffered beats.
LEMMA BeatsLeft ==
  ASSUME NEW in, beats \in Seq(Filter!Beat)
  PROVE  /\ Filter!Kept(in) \in Seq(Filter!Beat)
         /\ Len(Filter!Kept(in)) <= Len(beats)
         /\ beats = << >> => Filter!Kept(in) = << >>
<1>1. CASE beats # << >> /\ in.m_ready
  <2>1. Filter!Kept(in) = Tail(beats)
    BY <1>1 DEF Filter!Kept, Filter!m_tvalid
  <2>2. Tail(beats) \in Seq(Filter!Beat) /\ Len(Tail(beats)) = Len(beats) - 1
    BY <1>1, HeadTailProperties
  <2>3. Len(beats) \in Nat
    BY LenProperties
  <2> QED
    BY <1>1, <2>1, <2>2, <2>3
<1>2. CASE ~(beats # << >> /\ in.m_ready)
  <2>1. Filter!Kept(in) = beats
    BY <1>2 DEF Filter!Kept, Filter!m_tvalid
  <2>2. Len(beats) \in Nat
    BY LenProperties
  <2> QED
    BY <2>1, <2>2
<1> QED
  BY <1>1, <1>2

\* The number of the next record wraps around.
LEMMA NextNumber ==
  ASSUME sequence \in 0 .. SEQUENCE_MODULUS - 1
  PROVE  (sequence + 1) % SEQUENCE_MODULUS \in 0 .. SEQUENCE_MODULUS - 1
<1>1. SEQUENCE_MODULUS \in Nat /\ SEQUENCE_MODULUS > 0
  BY CoreAssumption
<1>2. \A n \in Nat, d \in Nat : d > 0 => n % d \in 0 .. d - 1
  OBVIOUS
<1>3. sequence + 1 \in Nat
  BY <1>1
<1> QED
  BY <1>1, <1>2, <1>3

\* A frame that has ended is reported unless a beat of it is left.
LEMMA FinishIs ==
  ASSUME NEW left, Filter!Finish(left),
         sequence \in 0 .. SEQUENCE_MODULUS - 1, record \in Filter!Record
  PROVE  /\ phase' \in {"ended", "record"}
         /\ phase' = "record" => left = << >>
         /\ sequence' \in 0 .. SEQUENCE_MODULUS - 1
         /\ record' \in Filter!Record
<1>1. CASE left = << >>
  <2>1. phase' = "record" /\ sequence' = (sequence + 1) % SEQUENCE_MODULUS
    BY <1>1 DEF Filter!Finish
  <2>2. PICK accept \in BOOLEAN : record' = [accept |-> accept, sequence |-> sequence]
    BY <1>1 DEF Filter!Finish
  <2>3. record' \in Filter!Record
    BY <2>2 DEF Filter!Record
  <2> QED
    BY <1>1, <2>1, <2>3, NextNumber
<1>2. CASE left # << >>
  BY <1>2 DEF Filter!Finish
<1> QED
  BY <1>1, <1>2

\* What an edge makes of the filter's state, whatever its inputs are.  A byte
\* that it takes puts it inside a frame or ends the frame; it takes any first
\* byte, with the configuration of that cycle.
FilterFollows(in) ==
  /\ Filter!ServiceTypeOK'
  /\ BeatsFollowPhase'
  /\ in.tvalid /\ Filter!s_tready =>
       /\ phase \in {"idle", "inside"} /\ phase' # "idle"
       /\ phase' = "inside" <=> ~in.tlast
  /\ ~(in.tvalid /\ Filter!s_tready) =>
       /\ phase' = "inside" <=> phase = "inside"
       /\ phase' # "idle" => phase # "idle"
  /\ phase = "idle" => Filter!s_tready
  /\ phase = "idle" /\ in.tvalid => sampled' = in.cfg
  /\ ~(phase = "idle" /\ in.tvalid) => sampled' = sampled

\* FrameService promises that of every edge, whichever of its steps it takes.
LEMMA FilterMoves ==
  ASSUME NEW in, in.cfg \in Config, in.tdata \in Byte,
         Filter!ServiceTypeOK, BeatsFollowPhase, Filter!ServiceEdge(in)
  PROVE  FilterFollows(in)
<1> DEFINE left == Filter!Kept(in)
           Same == UNCHANGED <<phase, sequence, record>>
<1>1. /\ phase \in {"idle", "inside", "ended", "record"} /\ sampled \in Config
      /\ payload \in {"none", "open", "closed"}
      /\ beats \in Seq(Filter!Beat) /\ Len(beats) <= 2
      /\ sequence \in 0 .. SEQUENCE_MODULUS - 1 /\ record \in Filter!Record
  BY DEF Filter!ServiceTypeOK
<1>2. /\ left \in Seq(Filter!Beat) /\ Len(left) <= Len(beats)
      /\ beats = << >> => left = << >>
  BY <1>1, BeatsLeft
<1>3. /\ phase = "idle" => payload = "none"
      /\ payload = "none" => beats = << >>
      /\ phase = "record" => beats = << >>
  BY DEF BeatsFollowPhase
<1>4. Len(beats) \in Nat /\ Len(left) \in Nat
  BY <1>1, <1>2, LenProperties
<1>5. /\ phase = "idle" => Filter!s_tready
      /\ Filter!s_tready => phase \in {"idle", "inside"}
      /\ Filter!s_tready /\ payload = "open" => Len(beats) < 2
  BY <1>3 DEF Filter!s_tready
<1>6. Filter!Finish(left) =>
        /\ phase' \in {"ended", "record"} /\ (phase' = "record" => left = << >>)
        /\ sequence' \in 0 .. SEQUENCE_MODULUS - 1 /\ record' \in Filter!Record
  BY <1>1, FinishIs
<1>7. Filter!ServiceTypeOK' <=>
        /\ phase' \in {"idle", "inside", "ended", "record"} /\ sampled' \in Config
        /\ payload' \in {"none", "open", "closed"}
        /\ beats' \in Seq(Filter!Beat) /\ Len(beats') <= 2
        /\ sequence' \in 0 .. SEQUENCE_MODULUS - 1 /\ record' \in Filter!Record
  BY DEF Filter!ServiceTypeOK
<1>8. BeatsFollowPhase' <=>
        /\ phase' = "idle" => payload' = "none"
        /\ payload' = "none" \/ phase' = "record" => beats' = << >>
  BY DEF BeatsFollowPhase
<1>9. CASE Filter!Wait(in)
  <2>1. /\ ~(in.tvalid /\ Filter!s_tready) /\ beats' = left
        /\ IF phase = "ended" THEN Filter!Finish(left) ELSE Same
        /\ sampled' = sampled /\ payload' = payload
    BY <1>9 DEF Filter!Wait
  <2>2. ~(phase = "idle" /\ in.tvalid)
    BY <1>5, <2>1
  <2> HIDE DEF left
  <2>3. CASE phase = "ended"
    BY <1>1, <1>2, <1>3, <1>4, <1>6, <1>7, <1>8, <2>1, <2>2, <2>3 DEF FilterFollows
  <2>4. CASE phase # "ended"
    BY <1>1, <1>2, <1>3, <1>4, <1>5, <1>7, <1>8, <2>1, <2>2, <2>4 DEF FilterFollows
  <2> QED
    BY <2>3, <2>4
<1>10. CASE Filter!Begin(in)
  <2>1. /\ phase = "idle" /\ in.tvalid /\ sampled' = in.cfg /\ payload' = "none"
        /\ beats' = left
    BY <1>10 DEF Filter!Begin
  <2>2. Filter!s_tready /\ left = << >>
    BY <1>2, <1>3, <1>5, <2>1
  <2>3. CASE in.tlast
    <3>1. Filter!Finish(left)
      BY <1>10, <2>3 DEF Filter!Begin
    <3> HIDE DEF left
    <3> QED
      BY <1>1, <1>2, <1>4, <1>6, <1>7, <1>8, <2>1, <2>2, <2>3, <3>1 DEF FilterFollows
  <2>4. CASE ~in.tlast
    <3>1. /\ phase' = "inside" /\ sequence' = sequence
          /\ record' = [record EXCEPT !.accept = FALSE]
      BY <1>10, <2>4 DEF Filter!Begin
    <3>2. record' \in Filter!Record
      BY <1>1, <3>1 DEF Filter!Record
    <3> HIDE DEF left
    <3> QED
      BY <1>1, <1>2, <1>4, <1>7, <1>8, <2>1, <2>2, <2>4, <3>1, <3>2 DEF FilterFollows
  <2> QED
    BY <2>3, <2>4
<1>11. CASE Filter!Drop(in)
  <2>1. /\ phase = "inside" /\ in.tvalid /\ Filter!s_tready /\ beats' = left
        /\ IF in.tlast THEN Filter!Finish(left) ELSE Same
        /\ sampled' = sampled
    BY <1>11 DEF Filter!Drop
  <2>2. payload' \in {payload, "open"}
    BY <1>11 DEF Filter!Drop
  <2> HIDE DEF left
  <2>3. CASE in.tlast
    BY <1>1, <1>2, <1>3, <1>4, <1>6, <1>7, <1>8, <2>1, <2>2, <2>3 DEF FilterFollows
  <2>4. CASE ~in.tlast
    BY <1>1, <1>2, <1>3, <1>4, <1>7, <1>8, <2>1, <2>2, <2>4 DEF FilterFollows
  <2> QED
    BY <2>3, <2>4
<1>12. CASE Filter!Forward(in)
  <2>1. /\ phase = "inside" /\ in.tvalid /\ Filter!s_tready /\ payload # "closed"
        /\ phase' = IF in.tlast THEN "ended" ELSE "inside"
        /\ sampled' = sampled /\ sequence' = sequence /\ record' = record
    BY <1>12 DEF Filter!Forward
  <2>2. PICK last \in BOOLEAN, error \in BOOLEAN :
          /\ beats' = Append(left, [data |-> in.tdata, last |-> last, error |-> error])
          /\ payload' = IF last THEN "closed" ELSE "open"
    BY <1>12 DEF Filter!Forward
  <2>3. [data |-> in.tdata, last |-> last, error |-> error] \in Filter!Beat
    BY DEF Filter!Beat
  <2> HIDE DEF left
  <2>4. beats' \in Seq(Filter!Beat) /\ Len(beats') = Len(left) + 1
    BY <1>2, <2>2, <2>3, AppendProperties
  <2>5. Len(left) < 2
    <3>1. CASE payload = "open"
      BY <1>2, <1>4, <1>5, <2>1, <3>1
    <3>2. CASE payload = "none"
      <4>1. left = << >>
        BY <1>2, <1>3, <3>2
      <4>2. Len(left) = 0
        BY <4>1, EmptySeq
      <4> QED
        BY <4>2
    <3> QED
      BY <1>1, <2>1, <3>1, <3>2
  <2>6. Len(beats') <= 2
    BY <1>4, <2>4, <2>5
  <2>7. payload' \in {"open", "closed"}
    BY <2>2
  <2>8. phase' \in {"ended", "inside"} /\ (phase' = "inside" <=> ~in.tlast)
    BY <2>1
  <2> QED
    BY <1>1, <1>7, <1>8, <2>1, <2>4, <2>6, <2>7, <2>8 DEF FilterFollows
<1>13. CASE Filter!Report(in)
  <2>1. /\ phase = "record" /\ phase' = "idle" /\ payload' = "none"
        /\ sampled' = sampled /\ beats' = beats /\ sequence' = sequence
        /\ record' = record
    BY <1>13 DEF Filter!Report, Filter!result_valid
  <2>2. ~Filter!s_tready
    BY <2>1 DEF Filter!s_tready
  <2> QED
    BY <1>1, <1>3, <1>7, <1>8, <2>1, <2>2 DEF FilterFollows
<1> QED
  BY <1>9, <1>10, <1>11, <1>12, <1>13 DEF Filter!ServiceEdge

-----------------------------------------------------------------------------
(* The parser and the slice on one edge, as the bookkeeping of frames sees *)
(* them.  A byte is pushed into the slice, or popped into the filter.      *)

Pushes == cmd = "C_STREAM" /\ ~skid_valid_q
Pops == out_valid_q /\ Filter!s_tready
begun == cmd = "C_WAIT" /\ cmd' = "C_STREAM"

CommandKept == frame_len' = frame_len /\ cfg' = cfg /\ stall_level' = stall_level

\* The parser streams a byte, waits for the slice, starts a frame, or is not
\* streaming before or after.
ParserStreams ==
  /\ Pushes /\ CommandKept /\ remaining' = remaining - 1
  /\ cmd' = IF remaining = 1 THEN "C_IDLE" ELSE "C_STREAM"
ParserStalls == 
  cmd = "C_STREAM" /\ skid_valid_q /\ CommandKept /\ remaining' = remaining /\ cmd' = cmd
ParserBegins == begun /\ CommandKept /\ frame_len # 0 /\ remaining' = frame_len
ParserElsewhere == cmd # "C_STREAM" /\ cmd' # "C_STREAM"

\* On every edge the parser does one of these.
LEMMA ParserCases ==
  ASSUME CommandParser
  PROVE  ParserStreams \/ ParserStalls \/ ParserBegins \/ ParserElsewhere
<1>1. CASE AwaitByte
  BY <1>1 DEF AwaitByte, reading_header, commandVars, ParserElsewhere
<1>2. CASE StartFrame
  BY <1>2 DEF StartFrame, ParserElsewhere
<1>3. CASE StartReset
  BY <1>3 DEF StartReset, ParserElsewhere
<1>4. CASE SkipByte
  BY <1>4 DEF SkipByte, commandVars, ParserElsewhere
<1>5. CASE ReadConfig
  BY <1>5 DEF ReadConfig, ParserElsewhere
<1>6. CASE ReadStall
  BY <1>6 DEF ReadStall, ParserElsewhere
<1>7. CASE ReadLength
  BY <1>7 DEF ReadLength, ParserElsewhere
<1>8. CASE Wait
  <2>1. CASE cmd' = "C_STREAM"
    BY <1>8, <2>1 DEF Wait, ParserBegins, begun, CommandKept
  <2>2. CASE cmd' # "C_STREAM"
    BY <1>8, <2>2 DEF Wait, ParserElsewhere
  <2> QED
    BY <2>1, <2>2
<1>9. CASE Stream
  <2>1. CASE skid_valid_q
    BY <1>9, <2>1 DEF Stream, pipe_ready, Slice!s_ready, ParserStalls, CommandKept
  <2>2. CASE ~skid_valid_q
    BY <1>9, <2>2 DEF Stream, pipe_ready, Slice!s_ready, ParserStreams, Pushes, CommandKept
  <2> QED
    BY <2>1, <2>2
<1>10. CASE HoldReset
  BY <1>10 DEF HoldReset, ParserElsewhere
<1>11. CASE ReleaseReset
  BY <1>11 DEF ReleaseReset, reset_done, ParserElsewhere
<1> QED
  BY <1>1, <1>2, <1>3, <1>4, <1>5, <1>6, <1>7, <1>8, <1>9, <1>10, <1>11
  DEF CommandParser

\* The byte in the skid register moves up, a pushed byte passes through or
\* lands in the skid register, or nothing moves.
SliceRefills ==
  /\ out_valid_q => Pops
  /\ skid_valid_q
  /\ out_q' = skid_q /\ out_valid_q' /\ ~skid_valid_q'
SlicePasses ==
  /\ out_valid_q => Pops
  /\ ~skid_valid_q /\ ~skid_valid_q'
  /\ out_valid_q' <=> Pushes
  /\ Pushes => out_q' = SliceBeat
SliceSkids ==
  /\ out_valid_q /\ ~Pops /\ ~skid_valid_q /\ Pushes
  /\ out_valid_q' /\ skid_valid_q' /\ out_q' = out_q /\ skid_q' = SliceBeat
SliceStalls ==
  /\ out_valid_q /\ ~Pops /\ ~Pushes
  /\ out_q' = out_q /\ skid_q' = skid_q
  /\ out_valid_q' /\ (skid_valid_q' <=> skid_valid_q)

\* On every edge the slice does one of these.
LEMMA SliceCases ==
  ASSUME Slice!BufferTypeOK,
         Slice!Edge(cmd = "C_STREAM", SliceBeat, Filter!s_tready)
  PROVE  SliceRefills \/ SlicePasses \/ SliceSkids \/ SliceStalls
<1> DEFINE push == cmd = "C_STREAM"
           ready == Filter!s_tready
<1>1. out_valid_q \in BOOLEAN /\ skid_valid_q \in BOOLEAN
  BY DEF Slice!BufferTypeOK
<1>2. CASE Slice!RefillFromSkid(ready)
  BY <1>2 DEF Slice!RefillFromSkid, Slice!out_free, SliceRefills, Pops
<1>3. CASE Slice!PassThrough(push, SliceBeat, ready)
  BY <1>1, <1>3 DEF Slice!PassThrough, Slice!out_free, SlicePasses, Pops, Pushes
<1>4. CASE Slice!Skid(push, SliceBeat, ready)
  BY <1>1, <1>4 DEF Slice!Skid, Slice!out_free, SliceSkids, Pops, Pushes
<1>5. CASE Slice!Stall(push, ready)
  BY <1>1, <1>5 DEF Slice!Stall, Slice!out_free, Slice!bufferVars, SliceStalls, Pops, Pushes
<1> HIDE DEF push, ready
<1> QED
  BY <1>2, <1>3, <1>4, <1>5 DEF Slice!Edge, push, ready

\* The registers of the slice stay beats, whichever of these happens.
LEMMA SliceTypes ==
  ASSUME Slice!BufferTypeOK, rxf_data \in Byte,
         Slice!Edge(cmd = "C_STREAM", SliceBeat, Filter!s_tready)
  PROVE  Slice!BufferTypeOK'
<1>1. SliceBeat \in Slice!Beat
  BY DEF SliceBeat, Slice!Beat
<1> HIDE DEF SliceBeat
<1> QED
  BY <1>1 DEF Slice!BufferTypeOK, Slice!Edge, Slice!RefillFromSkid, Slice!PassThrough,
              Slice!Skid, Slice!Stall, Slice!bufferVars

-----------------------------------------------------------------------------
(* Frames in the slice. *)

\* The values of a register as inequalities, without enumerating them.
LEMMA WordRange == \A N \in Int : \A n : n \in Unsigned(N) <=> n \in Int /\ 0 <= n /\ n < N
BY DEF Unsigned

\* A 16-bit register is a number.
LEMMA WordIsNumber ==
  ASSUME NEW n \in Word16
  PROVE  n \in Nat
BY WordRange, SMT DEF Word16

\* What the slice and the parser look like after an edge is known from what
\* they did; so is whether the filter is inside a frame.
PhaseFollows ==
  /\ Pops => /\ phase \in {"idle", "inside"} /\ phase' # "idle"
             /\ phase' = "inside" <=> ~out_q.last
  /\ ~Pops => /\ phase' = "inside" <=> phase = "inside"
              /\ phase' # "idle" => phase # "idle"
  /\ phase = "idle" => Filter!s_tready

LastByte == remaining = 1

\* The parser's part of it.
StreamingFollows ==
  /\ ParserStreams => /\ Streaming' <=> ~LastByte
                      /\ ~NextParser'
  /\ ParserStalls => /\ Streaming' <=> Streaming
                     /\ NextParser' <=> NextParser
  /\ ParserBegins => ~Streaming' /\ NextParser'
  /\ ParserElsewhere => ~Streaming' /\ ~NextParser'

\* Whether a byte of the frame in progress is still to be streamed.
LEMMA StreamingMoves ==
  ASSUME frame_len \in Word16, remaining \in Word16, SliceFollowsParser
  PROVE  StreamingFollows
<1>1. cmd = "C_STREAM" => remaining \in 1 .. frame_len
  BY DEF SliceFollowsParser
<1>2. frame_len \in Nat /\ remaining \in Nat
  BY WordIsNumber
<1>3. /\ Streaming' <=> cmd' = "C_STREAM" /\ remaining' # frame_len'
      /\ NextParser' <=> cmd' = "C_STREAM" /\ remaining' = frame_len'
  BY DEF Streaming, NextParser
<1>4. CASE ParserStreams
  <2>1. /\ remaining \in 1 .. frame_len /\ frame_len' = frame_len
        /\ remaining' = remaining - 1
        /\ cmd' = "C_STREAM" <=> ~LastByte
    BY <1>1, <1>4 DEF ParserStreams, Pushes, CommandKept, LastByte
  <2>2. remaining' # frame_len'
    BY <1>2, <2>1
  <2>3. ~ParserStalls /\ ~ParserBegins /\ ~ParserElsewhere
    BY <1>4 DEF ParserStreams, Pushes, ParserStalls, ParserBegins, begun, ParserElsewhere
  <2> QED
    BY <1>3, <2>1, <2>2, <2>3, Zenon DEF StreamingFollows
<1>5. CASE ParserStalls
  <2>1. ~ParserStreams /\ ~ParserBegins /\ ~ParserElsewhere
    BY <1>5 DEF ParserStreams, Pushes, ParserStalls, ParserBegins, begun, ParserElsewhere
  <2>2. cmd' = cmd /\ remaining' = remaining /\ frame_len' = frame_len
    BY <1>5 DEF ParserStalls, CommandKept
  <2> QED
    BY <1>3, <2>1, <2>2 DEF StreamingFollows, Streaming, NextParser
<1>6. CASE ParserBegins
  <2>1. ~ParserStreams /\ ~ParserStalls /\ ~ParserElsewhere
    BY <1>6 DEF ParserStreams, Pushes, ParserStalls, ParserBegins, begun, ParserElsewhere
  <2>2. cmd' = "C_STREAM" /\ remaining' = frame_len'
    BY <1>6 DEF ParserBegins, begun, CommandKept
  <2> QED
    BY <1>3, <2>1, <2>2 DEF StreamingFollows
<1>7. CASE ParserElsewhere
  <2>1. ~ParserStreams /\ ~ParserStalls /\ ~ParserBegins
    BY <1>7 DEF ParserStreams, Pushes, ParserStalls, ParserBegins, begun, ParserElsewhere
  <2> QED
    BY <1>3, <1>7, <2>1 DEF StreamingFollows, ParserElsewhere
<1> QED
  BY <1>4, <1>5, <1>6, <1>7 DEF StreamingFollows

\* The slice keeps following the parser.
LEMMA SliceStep ==
  ASSUME frame_len \in Word16, remaining \in Word16, SliceFollowsParser,
         ParserStreams \/ ParserStalls \/ ParserBegins \/ ParserElsewhere,
         SliceRefills \/ SlicePasses \/ SliceSkids \/ SliceStalls,
         PhaseFollows
  PROVE  SliceFollowsParser'
<1>1. cmd' = "C_STREAM" => remaining' \in 1 .. frame_len'
  <2>1. cmd = "C_STREAM" => remaining \in 1 .. frame_len
    BY DEF SliceFollowsParser
  <2>2. frame_len \in Nat /\ remaining \in Nat
    BY WordIsNumber
  <2>3. CASE ParserStreams
    <3>1. /\ remaining \in 1 .. frame_len /\ frame_len' = frame_len
          /\ remaining' = remaining - 1 /\ (cmd' = "C_STREAM" => remaining # 1)
      BY <2>1, <2>3 DEF ParserStreams, Pushes, CommandKept
    <3> QED
      BY <2>2, <3>1
  <2>4. CASE ParserStalls
    BY <2>1, <2>4 DEF ParserStalls, CommandKept
  <2>5. CASE ParserBegins
    BY <2>2, <2>5 DEF ParserBegins, begun, CommandKept
  <2>6. CASE ParserElsewhere
    BY <2>6 DEF ParserElsewhere
  <2> QED
    BY <2>3, <2>4, <2>5, <2>6
<1>2. StreamingFollows
  BY StreamingMoves
<1>3. /\ skid_valid_q => out_valid_q
      /\ skid_valid_q => (skid_q.last <=> ~Streaming)
      /\ out_valid_q /\ ~skid_valid_q => (out_q.last <=> ~Streaming)
      /\ Streaming \/ phase = "inside" => out_valid_q
  BY DEF SliceFollowsParser
<1>4. SliceBeat.last <=> LastByte
  BY DEF SliceBeat, LastByte
<1>5. /\ Streaming => cmd = "C_STREAM"
      /\ ParserStreams <=> Pushes /\ ParserStreams
      /\ ParserStalls => ~Pushes /\ skid_valid_q
      /\ ParserBegins => ~Pushes /\ ~Streaming
      /\ ParserElsewhere => ~Pushes /\ ~Streaming
  BY DEF Streaming, ParserStreams, ParserStalls, ParserBegins, ParserElsewhere, Pushes, begun
<1> SUFFICES /\ skid_valid_q' => out_valid_q'
             /\ skid_valid_q' => (skid_q'.last <=> ~Streaming')
             /\ out_valid_q' /\ ~skid_valid_q' => (out_q'.last <=> ~Streaming')
             /\ Streaming' \/ phase' = "inside" => out_valid_q'
  BY <1>1 DEF SliceFollowsParser
<1>6. CASE SliceRefills
  <2>1. /\ out_valid_q => Pops
        /\ skid_valid_q /\ out_q' = skid_q /\ out_valid_q' /\ ~skid_valid_q'
    BY <1>6 DEF SliceRefills
  <2>2. ~Pushes
    BY <2>1 DEF Pushes
  <2>3. out_q'.last <=> skid_q.last
    BY <2>1
  <2> QED
    BY <1>2, <1>3, <1>5, <2>1, <2>2, <2>3 DEF StreamingFollows
<1>7. CASE SlicePasses
  <2>1. /\ out_valid_q => Pops
        /\ ~skid_valid_q /\ ~skid_valid_q'
        /\ out_valid_q' <=> Pushes
    BY <1>7 DEF SlicePasses
  <2>2. Pushes => (out_q'.last <=> LastByte)
    BY <1>4, <1>7 DEF SlicePasses
  <2>3. Pushes => ParserStreams
    BY <1>5
  <2>4. Streaming' => Pushes
    BY <1>2, <1>5, <2>1 DEF StreamingFollows
  <2>5. phase' = "inside" => Pushes
    <3>1. CASE out_valid_q
      BY <1>3, <2>1, <3>1 DEF PhaseFollows, Streaming, Pushes
    <3>2. CASE ~out_valid_q
      BY <1>3, <3>2 DEF PhaseFollows, Pops
    <3> QED
      BY <3>1, <3>2
  <2> QED
    BY <1>2, <2>1, <2>2, <2>3, <2>4, <2>5 DEF StreamingFollows
<1>8. CASE SliceSkids
  <2>1. /\ Pushes /\ out_valid_q' /\ skid_valid_q' /\ skid_q' = SliceBeat
    BY <1>8 DEF SliceSkids
  <2>2. skid_q'.last <=> LastByte
    BY <1>4, <2>1
  <2> QED
    BY <1>2, <1>5, <2>1, <2>2 DEF StreamingFollows
<1>9. CASE SliceStalls
  <2>1. /\ out_valid_q /\ ~Pops /\ ~Pushes /\ out_valid_q' /\ (skid_valid_q' <=> skid_valid_q)
        /\ out_q'.last <=> out_q.last
        /\ skid_q'.last <=> skid_q.last
    BY <1>9 DEF SliceStalls
  <2>2. Streaming' <=> Streaming
    BY <1>2, <1>5, <2>1 DEF StreamingFollows
  <2> QED
    BY <1>3, <2>1, <2>2
<1> QED
  BY <1>6, <1>7, <1>8, <1>9

-----------------------------------------------------------------------------
(* Frames that the filter has taken no byte of. *)

\* Their number changes with the first byte that the filter takes of one and
\* with the start of another, wherever the bytes move in between.
LEMMA PlacesMove ==
  ASSUME SliceFollowsParser, PhaseFollows, StreamingFollows,
         ParserStreams \/ ParserStalls \/ ParserBegins \/ ParserElsewhere,
         SliceRefills \/ SlicePasses \/ SliceSkids \/ SliceStalls
  PROVE  Places' = Places - OneBit(FirstByteTaken) + OneBit(begun)
<1>1. /\ skid_valid_q => out_valid_q
      /\ out_valid_q /\ ~skid_valid_q => (out_q.last <=> ~Streaming)
      /\ Streaming \/ phase = "inside" => out_valid_q
  BY DEF SliceFollowsParser
<1>2. /\ FirstByteTaken <=> Pops /\ phase = "idle"
      /\ Pops => out_valid_q /\ phase \in {"idle", "inside"}
  BY DEF FirstByteTaken, Slice!m_valid, PhaseFollows, Pops
<1>3. /\ ParserStreams => Pushes /\ ~begun
      /\ ParserStalls => ~Pushes /\ ~begun
      /\ ParserBegins => ~Pushes /\ begun /\ ~NextParser
      /\ ParserElsewhere => ~Pushes /\ ~begun /\ ~NextParser
  BY DEF ParserStreams, ParserStalls, ParserBegins, ParserElsewhere, Pushes, begun, NextParser
<1>4. /\ Pushes => (NextParser' <=> FALSE) /\ ~begun
      /\ ~Pushes => (NextParser' <=> NextParser \/ begun) /\ ~(NextParser /\ begun)
  BY <1>3 DEF StreamingFollows
<1>5. /\ NextOut <=> out_valid_q /\ phase # "inside"
      /\ NextSkid <=> skid_valid_q /\ out_q.last
      /\ NextOut' <=> out_valid_q' /\ phase' # "inside"
      /\ NextSkid' <=> skid_valid_q' /\ out_q'.last
  BY DEF NextOut, NextSkid
<1>6. Pushes => (NextParser <=> ~Streaming)
  BY DEF Pushes, NextParser, Streaming
<1>7. CASE SliceRefills
  <2>1. /\ Pops /\ skid_valid_q /\ out_valid_q' /\ ~skid_valid_q' /\ ~Pushes
    BY <1>1, <1>7 DEF SliceRefills, Pushes
  <2>2. phase' = "inside" <=> ~out_q.last
    BY <2>1 DEF PhaseFollows
  <2>3. /\ NextOut' <=> NextSkid
        /\ ~NextSkid'
        /\ NextParser' <=> NextParser \/ begun
        /\ ~(NextParser /\ begun)
        /\ NextOut <=> FirstByteTaken
    BY <1>2, <1>4, <1>5, <2>1, <2>2
  <2> QED
    BY <2>3 DEF OneBit, Places
<1>8. CASE SlicePasses
  <2>1. /\ out_valid_q => Pops
        /\ ~skid_valid_q /\ ~skid_valid_q'
        /\ out_valid_q' <=> Pushes
    BY <1>8 DEF SlicePasses
  <2>2. NextOut <=> FirstByteTaken
    BY <1>1, <1>2, <1>5, <2>1
  <2>3. ~NextSkid /\ ~NextSkid'
    BY <1>5, <2>1
  <2>4. CASE Pushes
    <3>1. NextOut' <=> NextParser
      <4>1. CASE out_valid_q
        <5>1. (phase' = "inside" <=> ~out_q.last) /\ (out_q.last <=> ~Streaming)
          BY <1>1, <2>1, <4>1 DEF PhaseFollows
        <5> QED
          BY <1>5, <1>6, <2>1, <2>4, <5>1
      <4>2. CASE ~out_valid_q
        <5>1. phase' # "inside" /\ ~Streaming
          BY <1>1, <1>2, <4>2 DEF PhaseFollows
        <5> QED
          BY <1>5, <1>6, <2>1, <2>4, <5>1
      <4> QED
        BY <4>1, <4>2
    <3>2. ~NextParser' /\ ~begun
      BY <1>4, <2>4
    <3> QED
      BY <2>2, <2>3, <3>1, <3>2 DEF OneBit, Places
  <2>5. CASE ~Pushes
    <3>1. ~NextOut'
      BY <1>5, <2>1, <2>5
    <3>2. (NextParser' <=> NextParser \/ begun) /\ ~(NextParser /\ begun)
      BY <1>4, <2>5
    <3> QED
      BY <2>2, <2>3, <3>1, <3>2 DEF OneBit, Places
  <2> QED
    BY <2>4, <2>5
<1>9. CASE SliceSkids
  <2>1. /\ out_valid_q /\ ~Pops /\ ~skid_valid_q /\ Pushes
        /\ out_valid_q' /\ skid_valid_q'
        /\ out_q'.last <=> out_q.last
    BY <1>9 DEF SliceSkids
  <2>2. phase' = "inside" <=> phase = "inside"
    BY <2>1 DEF PhaseFollows
  <2>3. /\ NextOut' <=> NextOut
        /\ NextSkid' <=> NextParser
        /\ ~NextSkid /\ ~FirstByteTaken /\ ~NextParser' /\ ~begun
    BY <1>1, <1>2, <1>4, <1>5, <1>6, <2>1, <2>2
  <2> QED
    BY <2>3 DEF OneBit, Places
<1>10. CASE SliceStalls
  <2>1. /\ out_valid_q /\ ~Pops /\ ~Pushes
        /\ out_valid_q' /\ (skid_valid_q' <=> skid_valid_q)
        /\ out_q'.last <=> out_q.last
    BY <1>10 DEF SliceStalls
  <2>2. phase' = "inside" <=> phase = "inside"
    BY <2>1 DEF PhaseFollows
  <2>3. /\ NextOut' <=> NextOut
        /\ NextSkid' <=> NextSkid
        /\ ~FirstByteTaken
        /\ NextParser' <=> NextParser \/ begun
        /\ ~(NextParser /\ begun)
    BY <1>2, <1>4, <1>5, <2>1, <2>2
  <2> QED
    BY <2>3 DEF OneBit, Places
<1> QED
  BY <1>7, <1>8, <1>9, <1>10

\* The frames owed after the filter's part of an edge, and after the parser's.
StillOwed == IF FirstByteTaken THEN Tail(owed) ELSE owed
OwedAfter == owed' = IF begun THEN Append(StillOwed, Commanded) ELSE StillOwed

\* A frame that the filter begins is one of those owed, the first; the others
\* stay in order.
LEMMA StillOwedIs ==
  ASSUME OwedFollowsSlice, PhaseFollows
  PROVE  /\ FirstByteTaken => owed # << >>
         /\ StillOwed \in Seq(Frame)
         /\ Len(StillOwed) = Len(owed) - OneBit(FirstByteTaken)
         /\ \A i \in 1 .. Len(StillOwed) :
              IF cmd = "C_STREAM" /\ i = Len(StillOwed)
                THEN StillOwed[i] = Commanded ELSE StillOwed[i].len <= 2
<1>1. /\ owed \in Seq(Frame)
      /\ Len(owed) = Places
      /\ \A i \in 1 .. Len(owed) :
           IF cmd = "C_STREAM" /\ i = Len(owed) THEN owed[i] = Commanded ELSE owed[i].len <= 2
  BY DEF OwedFollowsSlice, Frame
<1>2. Len(owed) \in Nat
  BY <1>1, LenProperties, Zenon
<1>3. CASE FirstByteTaken
  <2>1. NextOut
    BY <1>3 DEF FirstByteTaken, Slice!m_valid, NextOut
  <2>2. Len(owed) # 0
    BY <1>1, <2>1 DEF Places, OneBit
  <2>3. owed # << >>
    BY <1>1, <2>2, EmptySeq
  <2>4. StillOwed = Tail(owed) /\ OneBit(FirstByteTaken) = 1
    BY <1>3 DEF StillOwed, OneBit
  <2>5. /\ Tail(owed) \in Seq(Frame) /\ Len(Tail(owed)) = Len(owed) - 1
        /\ \A i \in 1 .. Len(Tail(owed)) : Tail(owed)[i] = owed[i + 1]
    BY <1>1, <2>3, HeadTailProperties
  <2> DEFINE rest == Tail(owed)
  <2>6. ASSUME NEW i \in 1 .. Len(rest)
        PROVE  IF cmd = "C_STREAM" /\ i = Len(rest) THEN rest[i] = Commanded
                                                    ELSE rest[i].len <= 2
    <3>1. i + 1 \in 1 .. Len(owed) /\ (i = Len(rest) <=> i + 1 = Len(owed))
      BY <1>2, <2>5
    <3>2. rest[i] = owed[i + 1]
      BY <2>5
    <3> HIDE DEF rest
    <3>3. IF cmd = "C_STREAM" /\ i + 1 = Len(owed) THEN owed[i + 1] = Commanded
                                                   ELSE owed[i + 1].len <= 2
      BY <1>1, <3>1
    <3> QED
      BY <3>1, <3>2, <3>3
  <2> QED
    BY <2>3, <2>4, <2>5, <2>6, Zenon
<1>4. CASE ~FirstByteTaken
  <2>1. StillOwed = owed /\ OneBit(FirstByteTaken) = 0
    BY <1>4 DEF StillOwed, OneBit
  <2> QED
    BY <1>1, <1>2, <1>4, <2>1
<1> QED
  BY <1>3, <1>4

\* The bytes that a frame has in the slice when none of it has gone further.
LEMMA BytesInSlice ==
  ASSUME frame_len \in Word16, remaining \in Word16,
         SliceFollowsParser, OwedFollowsSlice, PhaseFollows, StreamingFollows,
         ParserStreams \/ ParserStalls \/ ParserBegins \/ ParserElsewhere,
         SliceRefills \/ SlicePasses \/ SliceSkids \/ SliceStalls,
         OwedAfter, Streaming', owed' # << >>
  PROVE  frame_len' - remaining' = IF skid_valid_q' /\ ~out_q'.last THEN 2 ELSE 1
<1>1. /\ out_valid_q /\ ~skid_valid_q => (out_q.last <=> ~Streaming)
      /\ Streaming => out_valid_q
  BY DEF SliceFollowsParser
<1>2. /\ Len(owed) = Places
      /\ Streaming /\ owed # << >> =>
           frame_len - remaining = IF skid_valid_q /\ ~out_q.last THEN 2 ELSE 1
      /\ owed \in Seq(Frame)
  BY DEF OwedFollowsSlice, Frame
<1>3. frame_len \in Nat /\ remaining \in Nat
  BY WordIsNumber
<1>4. ParserStreams \/ (ParserStalls /\ Streaming)
  BY DEF StreamingFollows
<1>5. ~begun
  BY <1>4 DEF ParserStreams, ParserStalls, Pushes, begun
<1>6. owed' = StillOwed
  BY <1>5 DEF OwedAfter
<1>7. owed # << >>
  <2>1. StillOwed # << >>
    BY <1>6
  <2>2. FirstByteTaken => owed # << >>
    BY StillOwedIs
  <2> QED
    BY <2>1, <2>2 DEF StillOwed
<1>8. Len(StillOwed) # 0 /\ Len(StillOwed) = Len(owed) - OneBit(FirstByteTaken)
  <2>1. StillOwed \in Seq(Frame) /\ Len(StillOwed) = Len(owed) - OneBit(FirstByteTaken)
    BY StillOwedIs
  <2> QED
    BY <1>6, <2>1, EmptySeq
\* If the frame has gone no further than the slice, its first byte stays there.
<1>9. ASSUME Streaming, ~NextSkid
      PROVE  ~Pops
  <2>1. ~NextParser
    BY <1>9 DEF Streaming, NextParser
  <2>2. Len(owed) = OneBit(NextOut)
    BY <1>2, <1>9, <2>1 DEF Places, OneBit
  <2>3. NextOut /\ ~FirstByteTaken
    BY <1>8, <2>2 DEF OneBit
  <2> QED
    BY <2>3 DEF NextOut, FirstByteTaken, Slice!m_valid, PhaseFollows, Pops
<1>10. CASE ParserStreams
  <2>1. /\ Pushes /\ ~skid_valid_q /\ cmd = "C_STREAM"
        /\ frame_len' = frame_len /\ remaining' = remaining - 1
    BY <1>10 DEF ParserStreams, Pushes, CommandKept
  <2>2. SlicePasses \/ SliceSkids
    BY <2>1 DEF SliceRefills, SliceStalls
  <2>3. ~NextSkid
    BY <2>1 DEF NextSkid
  <2>4. CASE Streaming
    <3>1. out_valid_q /\ ~Pops /\ ~out_q.last
      BY <1>1, <1>9, <2>1, <2>3, <2>4
    <3>2. SliceSkids
      BY <2>2, <3>1 DEF SlicePasses
    <3>3. skid_valid_q' /\ ~out_q'.last
      BY <3>1, <3>2 DEF SliceSkids
    <3>4. frame_len - remaining = 1
      BY <1>2, <1>7, <2>1, <2>4
    <3> QED
      BY <1>3, <2>1, <3>3, <3>4
  <2>5. CASE ~Streaming
    <3>1. remaining = frame_len
      BY <2>1, <2>5 DEF Streaming
    <3>2. ~(skid_valid_q' /\ ~out_q'.last)
      BY <1>1, <2>1, <2>2, <2>5 DEF SlicePasses, SliceSkids
    <3> QED
      BY <1>3, <2>1, <3>1, <3>2
  <2> QED
    BY <2>4, <2>5
<1>11. CASE ParserStalls /\ Streaming
  <2>1. /\ skid_valid_q /\ ~Pushes
        /\ frame_len' = frame_len /\ remaining' = remaining
    BY <1>11 DEF ParserStalls, Pushes, CommandKept
  <2>2. frame_len - remaining = IF ~out_q.last THEN 2 ELSE 1
    BY <1>2, <1>7, <1>11, <2>1
  <2>3. SliceRefills \/ SliceStalls
    BY <2>1 DEF SlicePasses, SliceSkids
  <2>4. CASE SliceRefills
    <3>1. Pops /\ ~skid_valid_q'
      BY <1>1, <1>11, <2>4 DEF SliceRefills
    <3>2. NextSkid
      BY <1>9, <1>11, <3>1
    <3> QED
      BY <2>1, <2>2, <3>1, <3>2 DEF NextSkid
  <2>5. CASE SliceStalls
    <3>1. skid_valid_q' /\ (out_q'.last <=> out_q.last)
      BY <2>1, <2>5 DEF SliceStalls
    <3> QED
      BY <2>1, <2>2, <3>1
  <2> QED
    BY <2>3, <2>4, <2>5
<1> QED
  BY <1>4, <1>10, <1>11

\* The frames owed keep following the slice.
LEMMA OwedStep ==
  ASSUME frame_len \in Word16, remaining \in Word16, cfg \in Config, stall_level \in Byte,
         SliceFollowsParser, OwedFollowsSlice, PhaseFollows,
         ParserStreams \/ ParserStalls \/ ParserBegins \/ ParserElsewhere,
         SliceRefills \/ SlicePasses \/ SliceSkids \/ SliceStalls,
         OwedAfter
  PROVE  OwedFollowsSlice'
<1>1. StreamingFollows
  BY StreamingMoves
<1>2. /\ StillOwed \in Seq(Frame)
      /\ Len(StillOwed) = Len(owed) - OneBit(FirstByteTaken)
      /\ \A i \in 1 .. Len(StillOwed) :
           IF cmd = "C_STREAM" /\ i = Len(StillOwed)
             THEN StillOwed[i] = Commanded ELSE StillOwed[i].len <= 2
  BY StillOwedIs
<1>3. Len(StillOwed) \in Nat
  BY <1>2, LenProperties
<1>4. /\ owed \in Seq(Frame)
      /\ Len(owed) = Places
  BY DEF OwedFollowsSlice, Frame
<1>5. begun <=> ParserBegins
  BY DEF begun, ParserStreams, Pushes, ParserStalls, ParserBegins, ParserElsewhere
<1>6. ParserBegins => Commanded \in Frame
  <2>1. ParserBegins => frame_len \in Word16 \ {0}
    BY DEF ParserBegins
  <2> QED
    BY <2>1 DEF Commanded, Frame
<1>7. ~ParserElsewhere => Commanded' = Commanded
  BY DEF ParserStreams, ParserStalls, ParserBegins, CommandKept, Commanded
<1>8. /\ owed' \in Seq(Frame)
      /\ Len(owed') = Len(StillOwed) + OneBit(begun)
      /\ \A i \in 1 .. Len(StillOwed) : owed'[i] = StillOwed[i]
      /\ begun => owed'[Len(owed')] = Commanded
  <2>1. CASE begun
    <3>1. owed' = Append(StillOwed, Commanded) /\ Commanded \in Frame
      BY <1>5, <1>6, <2>1 DEF OwedAfter
    <3> HIDE DEF Commanded, StillOwed
    <3> QED
      BY <1>2, <1>3, <2>1, <3>1, AppendProperties DEF OneBit
  <2>2. CASE ~begun
    BY <1>2, <1>3, <2>2 DEF OwedAfter, OneBit
  <2> QED
    BY <2>1, <2>2
<1>9. Len(owed') = Places'
  <2>1. Places' = Places - OneBit(FirstByteTaken) + OneBit(begun)
    BY <1>1, PlacesMove
  <2> QED
    BY <1>2, <1>4, <1>8, <2>1
<1>10. ASSUME NEW i \in 1 .. Len(owed')
       PROVE  IF cmd' = "C_STREAM" /\ i = Len(owed')
                THEN owed'[i] = Commanded' ELSE owed'[i].len <= 2
  <2>1. CASE ParserBegins
    <3>1. /\ cmd # "C_STREAM" /\ cmd' = "C_STREAM" /\ begun
          /\ Len(owed') = Len(StillOwed) + 1
      BY <1>8, <2>1 DEF ParserBegins, begun, OneBit
    <3>2. CASE i = Len(owed')
      BY <1>7, <1>8, <2>1, <3>1, <3>2 DEF ParserElsewhere
    <3>3. CASE i # Len(owed')
      <4>1. i \in 1 .. Len(StillOwed)
        BY <1>3, <3>1, <3>3
      <4> QED
        BY <1>2, <1>8, <3>1, <3>3, <4>1
    <3> QED
      BY <3>2, <3>3
  <2>2. CASE ~ParserBegins
    <3>1. owed' = StillOwed
      BY <1>5, <2>2 DEF OwedAfter
    <3>2. i \in 1 .. Len(StillOwed)
      BY <3>1
    <3>3. IF cmd = "C_STREAM" /\ i = Len(StillOwed)
            THEN StillOwed[i] = Commanded ELSE StillOwed[i].len <= 2
      BY <1>2, <3>2
    <3>4. CASE cmd' = cmd /\ ~ParserElsewhere
      BY <1>7, <3>1, <3>3, <3>4
    <3>5. CASE ParserElsewhere
      BY <3>1, <3>3, <3>5 DEF ParserElsewhere
    <3>6. CASE cmd' # cmd /\ ParserStreams
      <4>1. cmd' # "C_STREAM" /\ remaining = 1 /\ Pushes /\ cmd = "C_STREAM"
        BY <3>6 DEF ParserStreams, Pushes
      <4>2. frame_len \in Nat /\ remaining \in Nat
        BY WordIsNumber
      <4>3. frame_len <= 2
        <5>1. CASE Streaming
          <6>1. owed # << >>
            <7>1. StillOwed # << >>
              BY <1>2, <3>2, EmptySeq
            <7>2. FirstByteTaken => owed # << >>
              BY StillOwedIs
            <7> QED
              BY <7>1, <7>2 DEF StillOwed
          <6>2. frame_len - remaining = 1
            BY <4>1, <5>1, <6>1 DEF OwedFollowsSlice, Pushes
          <6> QED
            BY <4>1, <4>2, <6>2
        <5>2. CASE ~Streaming
          BY <4>1, <4>2, <5>2 DEF Streaming
        <5> QED
          BY <5>1, <5>2
      <4>4. Commanded.len <= 2
        BY <4>3 DEF Commanded
      <4>5. StillOwed[i].len <= 2
        BY <3>3, <4>4
      <4> QED
        BY <3>1, <4>1, <4>5
    <3>7. ParserStalls => cmd' = cmd
      BY DEF ParserStalls
    <3>8. ~(ParserElsewhere /\ (ParserStreams \/ ParserStalls))
      BY DEF ParserStreams, ParserStalls, ParserElsewhere, Pushes
    <3> QED
      BY <2>2, <3>4, <3>5, <3>6, <3>7, <3>8
  <2> QED
    BY <2>1, <2>2
<1>11. Streaming' /\ owed' # << >> =>
         frame_len' - remaining' = IF skid_valid_q' /\ ~out_q'.last THEN 2 ELSE 1
  BY <1>1, BytesInSlice
<1>12. /\ owed' \in Seq(Frame')
       /\ Frame' = [len : Word16 \ {0}, cfg : Config, stall : Byte]
  BY <1>8 DEF Frame, Word16, Config, Byte
<1> QED
  BY <1>9, <1>10, <1>11, <1>12 DEF OwedFollowsSlice, Frame

-----------------------------------------------------------------------------
(* The other registers keep their types. *)

\* Of a header byte and a length register comes a length register.
LEMMA HalvesOfWord ==
  ASSUME NEW b \in Byte, NEW w \in Word16
  PROVE  b * 256 + (w % 256) \in Word16 /\ (w \div 256) * 256 + b \in Word16
BY WordRange, SMT DEF Byte, Word16

\* The parser's registers on one edge, with whatever is at the head of the FIFO.
CommandTypes ==
  /\ cmd \in CommandStates /\ cfg \in Config
  /\ stall_level \in Byte /\ frame_len \in Word16 /\ remaining \in Word16
  /\ reset_timer \in 0 .. RESET_CYCLES

\* Every edge of the parser keeps the widths of its registers.
LEMMA CommandTypesStep ==
  ASSUME CommandTypes, SliceFollowsParser, CommandParser, rxf_data \in Byte
  PROVE  CommandTypes'
<1>1. /\ cmd \in CommandStates /\ cfg \in Config
      /\ stall_level \in Byte /\ frame_len \in Word16 /\ remaining \in Word16
      /\ reset_timer \in 0 .. RESET_CYCLES
  BY DEF CommandTypes
<1>2. /\ cmd' \in CommandStates /\ cfg' \in Config
      /\ stall_level' \in Byte /\ frame_len' \in Word16 /\ remaining' \in Word16
      /\ reset_timer' \in 0 .. RESET_CYCLES
      => CommandTypes'
  BY DEF CommandTypes, CommandStates, HeaderStates, Config, Byte, Word16
<1>3. RESET_CYCLES \in Nat
  BY CoreAssumption
<1>4. CASE AwaitByte
  BY <1>1, <1>2, <1>4 DEF AwaitByte, commandVars
<1>5. CASE StartFrame
  BY <1>1, <1>2, <1>5 DEF StartFrame, CommandStates, HeaderStates
<1>6. CASE StartReset
  BY <1>1, <1>2, <1>3, <1>6 DEF StartReset, CommandStates
<1>7. CASE SkipByte
  BY <1>1, <1>2, <1>7 DEF SkipByte, commandVars
<1>8. CASE ReadConfig
  <2>1. cfg.dst_port \in Word16 /\ cfg.msg_type \in Byte /\ cfg.msg_type_enable \in BOOLEAN
    BY <1>1 DEF Config
  <2>2. /\ rxf_data * 256 + (cfg.dst_port % 256) \in Word16
        /\ (cfg.dst_port \div 256) * 256 + rxf_data \in Word16
    BY <2>1, HalvesOfWord
  <2>3. /\ \A w \in Word16 : [cfg EXCEPT !.dst_port = w] \in Config
        /\ \A e \in BOOLEAN : [cfg EXCEPT !.msg_type_enable = e] \in Config
        /\ \A m \in Byte : [cfg EXCEPT !.msg_type = m] \in Config
    BY <1>1 DEF Config
  <2>4. cfg' \in Config
    <3> DEFINE high == rxf_data * 256 + (cfg.dst_port % 256)
               low == (cfg.dst_port \div 256) * 256 + rxf_data
    <3>1. \/ cfg' = [cfg EXCEPT !.dst_port = high]
          \/ cfg' = [cfg EXCEPT !.dst_port = low]
          \/ cfg' = [cfg EXCEPT !.msg_type_enable = (rxf_data % 2 = 1)]
          \/ cfg' = [cfg EXCEPT !.msg_type = rxf_data]
      BY <1>8, Zenon DEF ReadConfig
    <3>2. (rxf_data % 2 = 1) \in BOOLEAN /\ high \in Word16 /\ low \in Word16
      BY <2>2
    <3> HIDE DEF high, low
    <3> QED
      BY <3>1, <3>2, <2>3, Zenon
  <2>5. cmd' \in CommandStates
    BY <1>8 DEF ReadConfig, CommandStates, HeaderStates
  <2> QED
    BY <1>1, <1>2, <1>8, <2>4, <2>5 DEF ReadConfig
<1>9. CASE ReadStall
  BY <1>1, <1>2, <1>9 DEF ReadStall, CommandStates, HeaderStates
<1>10. CASE ReadLength
  <2>1. /\ rxf_data * 256 + (frame_len % 256) \in Word16
        /\ (frame_len \div 256) * 256 + rxf_data \in Word16
    BY <1>1, HalvesOfWord
  <2>2. frame_len' \in Word16
    BY <1>10, <2>1 DEF ReadLength
  <2>3. cmd' \in CommandStates
    BY <1>10 DEF ReadLength, CommandStates, HeaderStates
  <2> QED
    BY <1>1, <1>2, <1>10, <2>2, <2>3 DEF ReadLength
<1>11. CASE Wait
  BY <1>1, <1>2, <1>11 DEF Wait, CommandStates
<1>12. CASE Stream
  <2>1. cmd = "C_STREAM" /\ remaining \in 1 .. frame_len
    BY <1>12 DEF Stream, SliceFollowsParser
  <2>2. frame_len \in Nat
    BY <1>1, WordIsNumber
  <2>3. remaining - 1 \in Word16
    BY <1>1, <2>1, <2>2, WordRange, SMT DEF Word16
  <2>4. remaining' \in Word16
    BY <1>1, <1>12, <2>3 DEF Stream
  <2>5. cmd' \in CommandStates
    BY <1>1, <1>12 DEF Stream, CommandStates
  <2> QED
    BY <1>1, <1>2, <1>12, <2>4, <2>5 DEF Stream
<1>13. CASE HoldReset
  BY <1>1, <1>2, <1>3, <1>13 DEF HoldReset
<1>14. CASE ReleaseReset
  BY <1>1, <1>2, <1>14 DEF ReleaseReset, CommandStates
<1> QED
  BY <1>4, <1>5, <1>6, <1>7, <1>8, <1>9, <1>10, <1>11, <1>12, <1>13, <1>14
  DEF CommandParser

\* What leaves the TX FIFO, and what stays or comes in.
LEMMA PushTypes ==
  ASSUME NEW in, NEW bytes \in Seq(Byte), tx_queue \in Seq(Byte), Push(bytes, in)
  PROVE  tx_queue' \in Seq(Byte)
<1>1. TxFifo!Kept(in.tx_ready) \in Seq(Byte)
  <2>1. tx_queue # << >> => Tail(tx_queue) \in Seq(Byte)
    BY HeadTailProperties
  <2> QED
    BY <2>1 DEF TxFifo!Kept, TxFifo!Delivered
<1>2. TxFifo!Accepted(bytes) \in Seq(Byte)
  <2>1. << >> \in Seq(Byte)
    OBVIOUS
  <2> QED
    BY <2>1 DEF TxFifo!Accepted
<1>3. tx_queue' = TxFifo!Kept(in.tx_ready) \o TxFifo!Accepted(bytes)
  BY DEF Push, TxFifo!Move
<1> QED
  BY <1>1, <1>2, <1>3, ConcatProperties

\* The bytes of a record.
LEMMA ResultBytesType ==
  ASSUME NEW r \in Filter!Record
  PROVE  ResultBytes(r) \in Seq(Byte) /\ Len(ResultBytes(r)) = RESULT_BYTES
<1>1. RESULT_BYTES \in Nat /\ FIELD_BYTE \in 0 .. 255 /\ SEQUENCE_MODULUS \in 1 .. 256
  BY CoreAssumption
<1>2. r.sequence \in 0 .. SEQUENCE_MODULUS - 1
  BY DEF Filter!Record
<1>3. r.sequence \in Byte /\ FIELD_BYTE \in Byte /\ 0 \in Byte /\ 1 \in Byte
  BY <1>1, <1>2 DEF Byte, Unsigned
<1>4. OneBit(r.accept) \in Byte
  BY <1>3 DEF OneBit
<1>5. ResultBytes(r) \in [1 .. RESULT_BYTES -> Byte]
  BY <1>3, <1>4 DEF ResultBytes
<1>6. \A n \in Nat : \A f \in [1 .. n -> Byte] : f \in Seq(Byte) /\ Len(f) = n
  OBVIOUS
<1> QED
  BY <1>1, <1>5, <1>6

\* The registers of the serializer.
SerializerTypes ==
  /\ ser \in {"S_IDLE", "S_BEAT", "S_RESULT"} /\ beat_data \in Byte
  /\ result_shift \in Seq(Byte) /\ results_sent \in Word16
  /\ tx_queue \in Seq(Byte)

\* Bytes that are not the zero of a type.
LEMMA SmallBytes ==
  /\ RSP_RESET \in Byte /\ TAG_RESULT \in Byte
  /\ \A a \in {0, 1}, b \in {0, 1} : TAG_BEAT + 2 * a + b \in Byte
BY DEF RSP_RESET, TAG_RESULT, TAG_BEAT, Byte, Unsigned

\* The count of records wraps around within its 16 bits.
LEMMA CountWraps ==
  ASSUME results_sent \in Word16
  PROVE  (results_sent + 1) % RESULTS_MODULUS \in Word16
<1>1. RESULTS_MODULUS \in Nat \ {0} /\ RESULTS_MODULUS <= 65536
  BY CoreAssumption
<1>2. \A n \in Nat, d \in Nat : d > 0 => n % d \in 0 .. d - 1
  OBVIOUS
<1>3. results_sent + 1 \in Nat
  BY WordIsNumber
<1>4. (results_sent + 1) % RESULTS_MODULUS \in 0 .. RESULTS_MODULUS - 1
  BY <1>1, <1>2, <1>3
<1> DEFINE n == (results_sent + 1) % RESULTS_MODULUS
<1>5. n \in 0 .. RESULTS_MODULUS - 1
  BY <1>4
<1> HIDE DEF n
<1>6. n \in Word16
  BY <1>1, <1>5, WordRange, SMT DEF Word16
<1> QED
  BY <1>6 DEF n

\* The serializer on one edge.
LEMMA SerializerStep ==
  ASSUME NEW in, SerializerTypes, ShiftHasBytes, Filter!ServiceTypeOK, Serializer(in)
  PROVE  SerializerTypes' /\ ShiftHasBytes'
<1>1. /\ ser \in {"S_IDLE", "S_BEAT", "S_RESULT"} /\ beat_data \in Byte
      /\ result_shift \in Seq(Byte) /\ results_sent \in Word16
      /\ tx_queue \in Seq(Byte)
  BY DEF SerializerTypes
<1>2. /\ ser' \in {"S_IDLE", "S_BEAT", "S_RESULT"} /\ beat_data' \in Byte
      /\ result_shift' \in Seq(Byte) /\ results_sent' \in Word16
      /\ tx_queue' \in Seq(Byte)
      => SerializerTypes'
  BY DEF SerializerTypes, Byte, Word16
<1>3. ShiftHasBytes' <=> (ser' = "S_RESULT" => result_shift' # << >>)
  BY DEF ShiftHasBytes
<1>4. \A b \in Byte : <<b>> \in Seq(Byte)
  OBVIOUS
<1>5. CASE SendAck(in)
  <2>1. tx_queue' \in Seq(Byte)
    BY <1>1, <1>4, <1>5, SmallBytes, PushTypes DEF SendAck
  <2>2. /\ ser' = ser /\ beat_data' = beat_data /\ result_shift' = result_shift
        /\ results_sent' = results_sent
    BY <1>5 DEF SendAck
  <2> QED
    BY <1>1, <1>2, <1>3, <2>1, <2>2 DEF ShiftHasBytes
<1>6. CASE SendBeatTag(in)
  <2> DEFINE b == Head(beats)
             tag == TAG_BEAT + 2 * OneBit(b.last) + OneBit(b.error)
  <2>1. beats # << >> /\ beats \in Seq(Filter!Beat)
    BY <1>6 DEF SendBeatTag, BeatTaken, m_tvalid, Filter!m_tvalid, Filter!ServiceTypeOK
  <2>2. b \in Filter!Beat
    BY <2>1, HeadTailProperties
  <2>3. b.data \in Byte
    BY <2>2 DEF Filter!Beat
  <2>4. OneBit(b.last) \in {0, 1} /\ OneBit(b.error) \in {0, 1}
    BY DEF OneBit
  <2>5. tag \in Byte
    BY <2>4, SmallBytes
  <2>6. Push(<<tag>>, in)
    BY <1>6 DEF SendBeatTag
  <2>7. /\ ser' = "S_BEAT" /\ beat_data' = b.data
        /\ result_shift' = result_shift /\ results_sent' = results_sent
    BY <1>6 DEF SendBeatTag
  <2> HIDE DEF b, tag
  <2>8. tx_queue' \in Seq(Byte)
    BY <1>1, <1>4, <2>5, <2>6, PushTypes
  <2> QED
    BY <1>1, <1>2, <1>3, <2>3, <2>7, <2>8
<1>7. CASE SendResultTag(in)
  <2>1. tx_queue' \in Seq(Byte)
    BY <1>1, <1>4, <1>7, SmallBytes, PushTypes DEF SendResultTag
  <2>2. /\ ser' = "S_RESULT" /\ beat_data' = beat_data
        /\ result_shift' = ResultBytes(record)
        /\ results_sent' = (results_sent + 1) % RESULTS_MODULUS
    BY <1>7 DEF SendResultTag
  <2>3. ResultBytes(record) \in Seq(Byte) /\ Len(ResultBytes(record)) = RESULT_BYTES
    BY ResultBytesType DEF Filter!ServiceTypeOK
  <2>4. RESULT_BYTES > 1
    BY CoreAssumption
  <2>5. ResultBytes(record) # << >>
    BY <2>3, <2>4, EmptySeq
  <2>6. results_sent' \in Word16
    BY <1>1, <2>2, CountWraps
  <2> QED
    BY <1>1, <1>2, <1>3, <2>1, <2>2, <2>3, <2>5, <2>6
<1>8. CASE SendBeatData(in)
  <2>1. tx_queue' \in Seq(Byte)
    BY <1>1, <1>4, <1>8, PushTypes DEF SendBeatData
  <2> QED
    BY <1>1, <1>2, <1>3, <1>8, <2>1 DEF SendBeatData
<1>9. CASE SendResultByte(in)
  <2>1. result_shift # << >>
    BY <1>9 DEF SendResultByte, ShiftHasBytes
  <2>2. /\ Head(result_shift) \in Byte /\ Tail(result_shift) \in Seq(Byte)
        /\ Len(Tail(result_shift)) = Len(result_shift) - 1
    BY <1>1, <2>1, HeadTailProperties
  <2>3. tx_queue' \in Seq(Byte)
    BY <1>1, <1>4, <1>9, <2>2, PushTypes DEF SendResultByte
  <2>4. /\ result_shift' = Tail(result_shift) /\ beat_data' = beat_data
        /\ results_sent' = results_sent /\ ser' \in {"S_IDLE", "S_RESULT"}
        /\ ser' = "S_RESULT" => Len(result_shift) # 1
    BY <1>9 DEF SendResultByte
  <2>5. Len(result_shift) # 1 => Tail(result_shift) # << >>
    <3>1. \A s : s = << >> => Len(s) = 0
      OBVIOUS
    <3>2. Len(result_shift) \in Nat
      BY <1>1, LenProperties
    <3> QED
      BY <2>2, <3>1, <3>2
  <2> QED
    BY <1>1, <1>2, <1>3, <2>2, <2>3, <2>4, <2>5
<1>10. CASE SendNothing(in)
  <2>1. << >> \in Seq(Byte)
    OBVIOUS
  <2>2. tx_queue' \in Seq(Byte)
    BY <1>1, <1>10, <2>1, PushTypes DEF SendNothing
  <2>3. /\ ser' = ser /\ beat_data' = beat_data /\ result_shift' = result_shift
        /\ results_sent' = results_sent
    BY <1>10 DEF SendNothing
  <2> QED
    BY <1>1, <1>2, <1>3, <2>2, <2>3 DEF ShiftHasBytes
<1> QED
  BY <1>5, <1>6, <1>7, <1>8, <1>9, <1>10 DEF Serializer

\* What the host's parser has of an answer is made of bytes.
LEMMA BufferTypeStep ==
  ASSUME NEW in, buffer \in Seq(Byte), tx_queue \in Seq(Byte), Reads(in)
  PROVE  buffer' \in Seq(Byte)
<1>1. Delivered(in) \in Seq(Byte)
  <2>1. tx_queue # << >> => Head(tx_queue) \in Byte
    BY HeadTailProperties
  <2>2. << >> \in Seq(Byte) /\ \A b \in Byte : <<b>> \in Seq(Byte)
    OBVIOUS
  <2> QED
    BY <2>1, <2>2 DEF Delivered, TxFifo!Delivered
<1>2. Arrived(in) \in Seq(Byte)
  BY <1>1, ConcatProperties DEF Arrived
<1>3. << >> \in Seq(Byte)
  OBVIOUS
<1> QED
  BY <1>2, <1>3 DEF Reads

\* Every acknowledgement is one of a reset that was carried out, and a reset
\* that was carried out is acknowledged.
LEMMA AckStep ==
  ASSUME unanswered \in Nat, AckIsOwed,
         ack_pending' = (reset_done \/ (ack_pending /\ ~ack_sent)),
         unanswered' = unanswered + (IF reset_done THEN 1 ELSE 0)
                                  - (IF ack_sent THEN 1 ELSE 0)
  PROVE  unanswered' \in Nat /\ AckIsOwed'
<1>1. ack_sent => ack_pending
  BY DEF ack_sent
<1>2. ack_pending => unanswered > 0
  BY DEF AckIsOwed
<1>3. ack_pending' <=> reset_done \/ (ack_pending /\ ~ack_sent)
  OBVIOUS
<1>4. AckIsOwed' <=> (ack_pending' => unanswered' > 0)
  BY DEF AckIsOwed
<1> QED
  BY <1>1, <1>2, <1>3, <1>4

-----------------------------------------------------------------------------
(* The invariant of the whole board core. *)

\* The part of it that is about types, by component.
CoreTypes ==
  /\ rx_visible \in Seq(Byte) /\ rx_arriving \in Seq(Byte) /\ rx_overflow \in BOOLEAN
  /\ CommandTypes /\ ack_pending \in BOOLEAN
  /\ Slice!BufferTypeOK /\ Filter!ServiceTypeOK /\ SerializerTypes
  /\ buffer \in Seq(Byte) /\ unanswered \in Nat

\* The frames owed have the types TypeOK asks for whenever they follow the slice.
LEMMA TypesTogether ==
  ASSUME OwedFollowsSlice
  PROVE  TypeOK <=> CoreTypes
<1>1. owed \in Seq(Frame)
  BY DEF OwedFollowsSlice, Frame
<1>2. \A i \in DOMAIN owed : owed[i] \in Frame
  <2>1. DOMAIN owed = 1 .. Len(owed)
    BY <1>1, LenProperties
  <2> QED
    BY <1>1, <2>1, ElementOfSeq
<1>3. \A i \in DOMAIN owed : owed[i].len \in Word16 \ {0} /\ owed[i].cfg \in Config
  BY <1>2 DEF Frame
<1> QED
  BY <1>3, Zenon DEF TypeOK, CoreTypeOK, CoreTypes, CommandTypes, SerializerTypes

\* Apart from types, the invariant is about frames and about answers.
FramesInv ==
  /\ BeatsFollowPhase /\ SliceFollowsParser /\ OwedFollowsSlice /\ SampledFollowsCurrent

\* The conjuncts of CoreInv, in the groups the proof goes by.
LEMMA CoreInvParts ==
  CoreInv <=> /\ CoreTypes /\ FramesInv
              /\ line \in Seq(Byte) /\ AckIsOwed /\ ShiftHasBytes
BY TypesTogether, Zenon DEF CoreInv, FramesInv

\* The same after a step.
LEMMA CoreInvAfter ==
  ASSUME CoreTypes', FramesInv', line' \in Seq(Byte), AckIsOwed', ShiftHasBytes'
  PROVE  CoreInv'
<1>1. (CoreTypes /\ FramesInv /\ line \in Seq(Byte) /\ AckIsOwed /\ ShiftHasBytes => CoreInv)'
  BY CoreInvParts, PTL
<1> QED
  BY <1>1 DEF Byte, Unsigned

\* A reset of the filter and the slice forgets every frame, whether the board
\* or only those two are reset.
LEMMA SliceForgotten ==
  ASSUME Slice!ClearEdge, Filter!ClearEdge, cmd' # "C_STREAM"
  PROVE  /\ Slice!BufferTypeOK' /\ Filter!ServiceTypeOK'
         /\ BeatsFollowPhase' /\ SliceFollowsParser'
         /\ phase' = "idle" /\ ~out_valid_q' /\ ~Streaming' /\ Places' = 0
<1>1. Slice!BufferTypeOK'
  <2>1. Slice!NoBeat \in Slice!Beat
    BY DEF Slice!NoBeat, Slice!Beat, Byte, Unsigned
  <2> QED
    BY <2>1 DEF Slice!ClearEdge, Slice!BufferTypeOK
<1>2. Filter!ServiceTypeOK'
  <2>1. /\ phase' = "idle" /\ sampled' = ResetConfig /\ payload' = "none" /\ beats' = << >>
        /\ sequence' = 0 /\ record' = [accept |-> FALSE, sequence |-> 0]
    BY DEF Filter!ClearEdge
  <2>2. 0 \in Word16 /\ 0 \in Byte
    BY WordRange, SMT DEF Word16, Byte
  <2>3. ResetConfig \in Config
    BY <2>2 DEF ResetConfig, Config
  <2>4. 0 \in 0 .. SEQUENCE_MODULUS - 1
    BY CoreAssumption
  <2>5. [accept |-> FALSE, sequence |-> 0] \in Filter!Record
    BY <2>4 DEF Filter!Record
  <2>6. << >> \in Seq(Filter!Beat) /\ Len(<< >>) <= 2
    BY EmptySeq
  <2> QED
    BY <2>1, <2>3, <2>4, <2>5, <2>6 DEF Filter!ServiceTypeOK
<1>3. BeatsFollowPhase'
  BY DEF Filter!ClearEdge, BeatsFollowPhase
<1>4. ~out_valid_q' /\ ~skid_valid_q' /\ phase' = "idle"
  BY DEF Slice!ClearEdge, Filter!ClearEdge
<1>5. ~Streaming' /\ ~NextOut' /\ ~NextSkid' /\ ~NextParser'
  BY <1>4 DEF Streaming, NextOut, NextSkid, NextParser
<1>6. SliceFollowsParser'
  BY <1>4, <1>5 DEF SliceFollowsParser
<1>7. Places' = 0
  BY <1>5 DEF Places, OneBit
<1> QED
  BY <1>1, <1>2, <1>3, <1>4, <1>5, <1>6, <1>7

\* With them the frames owed.
LEMMA FramesForgotten ==
  ASSUME Slice!ClearEdge, Filter!ClearEdge, owed' = << >>, in_filter' = NoFrame,
         cmd' # "C_STREAM"
  PROVE  Slice!BufferTypeOK' /\ Filter!ServiceTypeOK' /\ FramesInv'
<1>1. /\ Slice!BufferTypeOK' /\ Filter!ServiceTypeOK'
      /\ BeatsFollowPhase' /\ SliceFollowsParser'
      /\ phase' = "idle" /\ ~Streaming' /\ Places' = 0
  BY SliceForgotten
<1>2. OwedFollowsSlice'
  <2>1. << >> \in Seq(Frame) /\ Len(<< >>) = 0
    BY EmptySeq
  <2>2. owed' \in Seq(Frame') /\ Len(owed') = 0
    BY <2>1 DEF Frame, Word16, Config, Byte
  <2> QED
    BY <1>1, <2>2 DEF OwedFollowsSlice
<1>3. SampledFollowsCurrent'
  BY <1>1 DEF SampledFollowsCurrent
<1> QED
  BY <1>1, <1>2, <1>3 DEF FramesInv

\* While the filter is not reset, the configuration that it samples is that of
\* the frame it begins, if that is long enough for it to matter.
LEMMA SampledStep ==
  ASSUME OwedFollowsSlice, SampledFollowsCurrent, PhaseFollows,
         FirstByteTaken => sampled' = cfg,
         ~FirstByteTaken => sampled' = sampled,
         in_filter' = IF FirstByteTaken THEN Head(owed) ELSE in_filter
  PROVE  SampledFollowsCurrent'
<1> SUFFICES ASSUME phase' # "idle", in_filter'.len > 2
             PROVE  sampled' = in_filter'.cfg
  BY DEF SampledFollowsCurrent
<1>1. CASE FirstByteTaken
  <2>1. /\ owed \in Seq(Frame) /\ owed # << >>
        /\ \A i \in 1 .. Len(owed) :
             IF cmd = "C_STREAM" /\ i = Len(owed) THEN owed[i] = Commanded
                                                  ELSE owed[i].len <= 2
    BY <1>1, StillOwedIs DEF OwedFollowsSlice, Frame
  <2>2. Len(owed) \in Nat \ {0}
    BY <2>1, EmptySeq
  <2>3. Head(owed) = owed[1] /\ 1 \in 1 .. Len(owed)
    BY <2>1, <2>2
  <2>4. owed[1] \in Frame
    BY <2>1, <2>3, ElementOfSeq
  <2>5. owed[1].len \in Nat /\ owed[1].len > 2
    BY <1>1, <2>3, <2>4, WordIsNumber DEF Frame
  <2>6. owed[1] = Commanded
    BY <2>1, <2>3, <2>5
  <2> QED
    BY <1>1, <2>3, <2>6 DEF Commanded
<1>2. CASE ~FirstByteTaken
  <2>1. phase # "idle"
    BY <1>2 DEF PhaseFollows, FirstByteTaken, Slice!m_valid, Pops
  <2> QED
    BY <1>2, <2>1 DEF SampledFollowsCurrent
<1> QED
  BY <1>1, <1>2

\* What command parser, slice and filter do on an edge, when the filter is not
\* in reset.
Flows ==
  /\ ParserStreams \/ ParserStalls \/ ParserBegins \/ ParserElsewhere
  /\ SliceRefills \/ SlicePasses \/ SliceSkids \/ SliceStalls
  /\ PhaseFollows
  /\ FirstByteTaken => sampled' = cfg
  /\ ~FirstByteTaken => sampled' = sampled

\* An edge without reset, and one on which the parser resets the filter.
LEMMA FlowStep ==
  ASSUME Slice!BufferTypeOK, Filter!ServiceTypeOK, CommandTypes,
         BeatsFollowPhase, SliceFollowsParser, NEW in, Clock(in), rxf_data \in Byte
  PROVE  /\ Slice!BufferTypeOK' /\ Filter!ServiceTypeOK'
         /\ BeatsFollowPhase' /\ SliceFollowsParser'
         /\ filter_rst_n => Flows
<1>1. ParserStreams \/ ParserStalls \/ ParserBegins \/ ParserElsewhere
  BY ParserCases DEF Clock
<1>2. CASE ~filter_rst_n
  <2>1. Slice!ClearEdge /\ Filter!ClearEdge
    BY <1>2 DEF Clock, FilterPath
  <2>2. cmd' # "C_STREAM"
    BY <1>1, <1>2 DEF filter_rst_n, ParserStreams, Pushes, ParserStalls, ParserBegins,
                      begun, ParserElsewhere
  <2> QED
    BY <1>2, <2>1, <2>2, SliceForgotten
<1>3. CASE filter_rst_n
  <2> DEFINE ports == FilterInput(in)
  <2>1. /\ Slice!Edge(cmd = "C_STREAM", SliceBeat, Filter!s_tready)
        /\ Filter!ServiceEdge(ports)
    BY <1>3 DEF Clock, FilterPath
  <2>2. /\ ports.cfg = cfg /\ ports.tdata = out_q.data
        /\ ports.tvalid <=> out_valid_q
        /\ ports.tlast <=> out_q.last
    BY DEF FilterInput, Slice!m_valid
  <2>3. ports.cfg \in Config /\ ports.tdata \in Byte
    BY <2>2 DEF CommandTypes, Slice!BufferTypeOK, Slice!Beat
  <2> HIDE DEF ports
  <2>4. FilterFollows(ports)
    BY <2>1, <2>3, FilterMoves
  <2>5. /\ Filter!ServiceTypeOK' /\ BeatsFollowPhase'
        /\ PhaseFollows
        /\ FirstByteTaken => sampled' = cfg
        /\ ~FirstByteTaken => sampled' = sampled
    BY <2>2, <2>4 DEF FilterFollows, PhaseFollows, Pops, FirstByteTaken, Slice!m_valid
  <2>6. SliceRefills \/ SlicePasses \/ SliceSkids \/ SliceStalls
    BY <2>1, SliceCases
  <2>7. Slice!BufferTypeOK'
    BY <2>1, SliceTypes
  <2>8. frame_len \in Word16 /\ remaining \in Word16
    BY DEF CommandTypes
  <2>9. SliceFollowsParser'
    BY <1>1, <2>5, <2>6, <2>8, SliceStep
  <2> QED
    BY <1>1, <2>5, <2>6, <2>7, <2>9 DEF Flows
<1> QED
  BY <1>2, <1>3

LEMMA FramesStep ==
  ASSUME CoreTypes, FramesInv, NEW in, Clock(in), Follow(in), rxf_data \in Byte
  PROVE  Slice!BufferTypeOK' /\ Filter!ServiceTypeOK' /\ FramesInv'
<1>1. /\ Slice!BufferTypeOK /\ Filter!ServiceTypeOK /\ CommandTypes
      /\ BeatsFollowPhase /\ SliceFollowsParser /\ OwedFollowsSlice
      /\ SampledFollowsCurrent
  BY DEF CoreTypes, FramesInv
<1>2. /\ Slice!BufferTypeOK' /\ Filter!ServiceTypeOK'
      /\ BeatsFollowPhase' /\ SliceFollowsParser'
      /\ filter_rst_n => Flows
  BY <1>1, FlowStep
<1>3. CASE ~filter_rst_n
  <2>1. Slice!ClearEdge /\ Filter!ClearEdge
    BY <1>3 DEF Clock, FilterPath
  <2>2. owed' = << >> /\ in_filter' = NoFrame
    BY <1>3 DEF Follow
  <2>3. ParserStreams \/ ParserStalls \/ ParserBegins \/ ParserElsewhere
    BY ParserCases DEF Clock
  <2>4. cmd' # "C_STREAM"
    BY <1>3, <2>3 DEF filter_rst_n, ParserStreams, Pushes, ParserStalls, ParserBegins,
                      begun, ParserElsewhere
  <2> QED
    BY <2>1, <2>2, <2>4, FramesForgotten
<1>4. CASE filter_rst_n
  <2>1. Flows
    BY <1>2, <1>4
  <2>2. frame_len \in Word16 /\ remaining \in Word16 /\ cfg \in Config /\ stall_level \in Byte
    BY <1>1 DEF CommandTypes
  <2>3. OwedAfter /\ in_filter' = IF FirstByteTaken THEN Head(owed) ELSE in_filter
    BY <1>4 DEF Follow, OwedAfter, StillOwed, begun, Commanded
  <2>4. OwedFollowsSlice'
    BY <1>1, <2>1, <2>2, <2>3, OwedStep DEF Flows
  <2>5. SampledFollowsCurrent'
    BY <1>1, <2>1, <2>3, SampledStep DEF Flows
  <2> QED
    BY <1>2, <2>4, <2>5 DEF FramesInv
<1> QED
  BY <1>3, <1>4

\* The invariant holds at first,
LEMMA CoreInvInit == Init => CoreInv
<1> SUFFICES ASSUME Init PROVE CoreInv
  OBVIOUS
<1>1. CoreInit /\ line = << >> /\ buffer = << >> /\ owed = << >> /\ in_filter = NoFrame
      /\ unanswered = 0
  BY DEF Init
<1>2. << >> \in Seq(Byte) /\ << >> \in Seq(Filter!Beat) /\ << >> \in Seq(Frame)
      /\ Len(<< >>) = 0
  BY EmptySeq
<1>3. 0 \in Byte /\ 0 \in Word16
  BY WordRange, SMT DEF Byte, Word16
<1>4. ResetConfig \in Config
  BY <1>3 DEF ResetConfig, Config
<1>5. CommandTypes /\ SerializerTypes
  <2>1. 0 \in 0 .. RESET_CYCLES
    BY CoreAssumption
  <2> QED
    BY <1>1, <1>2, <1>3, <1>4, <2>1
    DEF CoreInit, CommandTypes, CommandStates, HeaderStates, SerializerTypes
<1>6. Slice!BufferTypeOK
  BY <1>1, <1>3 DEF CoreInit, Slice!BufferInit, Slice!BufferTypeOK, Slice!NoBeat, Slice!Beat
<1>7. Filter!ServiceTypeOK
  <2>1. 0 \in 0 .. SEQUENCE_MODULUS - 1
    BY CoreAssumption
  <2>2. [accept |-> FALSE, sequence |-> 0] \in Filter!Record
    BY <2>1 DEF Filter!Record
  <2> QED
    BY <1>1, <1>2, <1>4, <2>1, <2>2 DEF CoreInit, Filter!ServiceInit, Filter!ServiceTypeOK
<1>8. /\ rx_visible = << >> /\ rx_arriving = << >> /\ rx_overflow = FALSE
      /\ ack_pending = FALSE /\ cmd = "C_IDLE" /\ ser = "S_IDLE"
      /\ out_valid_q = FALSE /\ skid_valid_q = FALSE
      /\ phase = "idle" /\ payload = "none" /\ beats = << >>
  BY <1>1 DEF CoreInit, Slice!BufferInit, Filter!ServiceInit
<1>9. CoreTypes
  BY <1>1, <1>2, <1>5, <1>6, <1>7, <1>8 DEF CoreTypes
<1>10. ~Streaming /\ ~NextOut /\ ~NextSkid /\ ~NextParser
  BY <1>8 DEF Streaming, NextOut, NextSkid, NextParser
<1>11. Places = 0
  BY <1>10 DEF Places, OneBit
<1>12. OwedFollowsSlice
  BY <1>1, <1>2, <1>10, <1>11 DEF OwedFollowsSlice, Frame
<1>13. BeatsFollowPhase /\ SliceFollowsParser /\ SampledFollowsCurrent
  BY <1>8, <1>10 DEF BeatsFollowPhase, SliceFollowsParser, SampledFollowsCurrent
<1>14. line \in Seq(Byte) /\ AckIsOwed /\ ShiftHasBytes
  BY <1>1, <1>2, <1>8 DEF AckIsOwed, ShiftHasBytes
<1> QED
  BY <1>9, <1>12, <1>13, <1>14, CoreInvParts DEF FramesInv

\* a reset of the board establishes it again,
LEMMA CoreInvReset == CoreInv /\ Reset => CoreInv'
<1> SUFFICES ASSUME CoreInv, Reset PROVE CoreInv'
  OBVIOUS
<1>1. /\ rx_visible' = << >> /\ rx_arriving' = << >> /\ rx_overflow' = FALSE
      /\ cmd' = "C_IDLE" /\ cfg' = ResetConfig /\ stall_level' = 0
      /\ frame_len' = 0 /\ remaining' = 0 /\ reset_timer' = 0 /\ ack_pending' = FALSE
      /\ ser' = "S_IDLE" /\ beat_data' = 0 /\ result_shift' = << >> /\ results_sent' = 0
      /\ tx_queue' = << >> /\ buffer' = << >> /\ unanswered' = 0 /\ line' = line
  BY DEF Reset, BoardReset
<1>2. Slice!BufferTypeOK' /\ Filter!ServiceTypeOK' /\ FramesInv'
  BY <1>1, FramesForgotten DEF Reset, BoardReset
<1>3. << >> \in Seq(Byte)
  OBVIOUS
<1>4. 0 \in Byte /\ 0 \in Word16
  BY WordRange, SMT DEF Byte, Word16
<1>5. ResetConfig \in Config
  BY <1>4 DEF ResetConfig, Config
<1>6. 0 \in 0 .. RESET_CYCLES
  BY CoreAssumption
<1>7. CommandTypes'
  BY <1>1, <1>4, <1>5, <1>6
  DEF CommandTypes, CommandStates, HeaderStates
<1>8. SerializerTypes'
  BY <1>1, <1>3, <1>4 DEF SerializerTypes
<1>9. CoreTypes'
  BY <1>1, <1>2, <1>3, <1>7, <1>8 DEF CoreTypes
<1>10. line' \in Seq(Byte) /\ AckIsOwed' /\ ShiftHasBytes'
  BY <1>1 DEF CoreInv, AckIsOwed, ShiftHasBytes
<1> QED
  BY <1>2, <1>9, <1>10, CoreInvAfter

\* and so does every clock edge without one.
LEMMA CoreInvTick == CoreInv /\ ParserInvariant /\ ParserInvariant' /\ Tick => CoreInv'
<1> SUFFICES ASSUME CoreInv, ParserInvariant, ParserInvariant', Tick PROVE CoreInv'
  OBVIOUS
<1>1. CoreTypes /\ FramesInv /\ line \in Seq(Byte) /\ AckIsOwed /\ ShiftHasBytes
  BY CoreInvParts
<1>2. PICK byte \in {<< >>} \cup {<<Head(t)>> : t \in Texts},
           pass \in Passes, tx_ready \in TxReady :
        LET in == [rx |-> byte, beat_pass |-> pass, result_pass |-> pass,
                   tx_ready |-> tx_ready]
        IN Clock(in) /\ Reads(in) /\ Follow(in)
  BY DEF Tick
<1> DEFINE in == [rx |-> byte, beat_pass |-> pass, result_pass |-> pass,
                  tx_ready |-> tx_ready]
<1>3. Clock(in) /\ Reads(in) /\ Follow(in)
  BY <1>2
<1> HIDE DEF in
<1>4. rxf_data \in Byte
  <2>1. rx_visible # << >> => Head(rx_visible) \in Byte
    BY <1>1, HeadTailProperties DEF CoreTypes
  <2>2. 0 \in Byte
    BY DEF Byte, Unsigned
  <2> QED
    BY <2>1, <2>2 DEF rxf_data, rxf_empty
<1>5. Slice!BufferTypeOK' /\ Filter!ServiceTypeOK' /\ FramesInv'
  BY <1>1, <1>3, <1>4, FramesStep
<1>6. CommandTypes'
  BY <1>1, <1>3, <1>4, CommandTypesStep DEF CoreTypes, FramesInv, Clock
<1>7. SerializerTypes' /\ ShiftHasBytes'
  BY <1>1, <1>3, SerializerStep DEF CoreTypes, Clock
<1>8. buffer' \in Seq(Byte)
  BY <1>1, <1>3, BufferTypeStep DEF CoreTypes, SerializerTypes
<1>9. unanswered' \in Nat /\ AckIsOwed'
  BY <1>1, <1>3, AckStep DEF CoreTypes, Clock, Follow
<1>10. /\ rx_visible' \in Seq(Byte) /\ rx_arriving' \in Seq(Byte) /\ line' \in Seq(Byte)
  BY DEF ParserInvariant, Byte, Unsigned
<1>11. rx_overflow' \in BOOLEAN /\ ack_pending' \in BOOLEAN
  BY <1>3 DEF Clock
<1>12. CoreTypes'
  BY <1>5, <1>6, <1>7, <1>8, <1>9, <1>10, <1>11 DEF CoreTypes, Byte, Unsigned
<1> QED
  BY <1>5, <1>7, <1>9, <1>10, <1>12, CoreInvAfter

\* Nor does anything else change it.
LEMMA CoreInvStutter == CoreInv /\ UNCHANGED vars => CoreInv'
BY DEF vars, coreVars, commandVars, ghostVars, CoreInv, TypeOK, CoreTypeOK,
       Slice!BufferTypeOK, Filter!ServiceTypeOK, BeatsFollowPhase, SliceFollowsParser,
       Streaming, OwedFollowsSlice, Places, NextOut, NextSkid, NextParser, Commanded,
       SampledFollowsCurrent, AckIsOwed, ShiftHasBytes

\* Whatever the host sends, however long the answers wait and whenever the
\* board is reset: command parser, input slice, filter and serializer agree on
\* the frames that are on their way (hw_test_core.sv, all always_ff blocks).
THEOREM CoreInvHolds == Spec => []CoreInv
<1>1. CoreInv /\ ParserInvariant /\ ParserInvariant' /\ [Next]_vars => CoreInv'
  BY CoreInvReset, CoreInvTick, CoreInvStutter, Zenon DEF Next
<1> QED
  BY <1>1, CoreInvInit, ParserInit, ParserNext, PTL DEF Spec

\* Every register of the board keeps its width.
THEOREM BoardTypeCorrect == Spec => []TypeOK
<1>1. CoreInv => TypeOK
  BY DEF CoreInv
<1> QED
  BY <1>1, CoreInvHolds, PTL

\* A frame that the filter has begun reaches it without a gap: the slice has
\* its next byte at every edge (docs/hardware-test.md, "with valid held high").
THEOREM FramesBackToBack == Spec => []FrameIsBackToBack
<1>1. CoreInv => FrameIsBackToBack
  BY DEF CoreInv, SliceFollowsParser, FrameIsBackToBack, Slice!m_valid
<1> QED
  BY <1>1, CoreInvHolds, PTL

\* The filter judges a frame of more than two bytes by the configuration of its
\* own command, although by then the parser may be in the header of the next
\* (hw_test_core.sv:52-82).
THEOREM ConfigurationsMatch == Spec => []ConfigIsCommands
<1>1. CoreInv => ConfigIsCommands
  BY DEF CoreInv, SampledFollowsCurrent, ConfigIsCommands
<1> QED
  BY <1>1, CoreInvHolds, PTL
-----------------------------------------------------------------------------
(* Answers are encoded one after the other.  FlattenSeq is recursive, so     *)
(* what it does with a longer sequence is shown from the least length at     *)
(* which it would fail.                                                      *)

Flatten(seqs) == Protocol!Sequence!FlattenSeq(seqs)

\* Every set of numbers has a least one.
LEMMA LeastNumber ==
  ASSUME NEW T \in SUBSET Nat, T # {}
  PROVE  \E n \in T : \A m \in T : n <= m
<1>1. PICK n \in T : \A m \in T : <<m, n>> \notin OpToRel(<, Nat)
  BY WFMin, NatLessThanWellFounded
<1>2. \A m \in T : ~(m < n)
  BY <1>1 DEF OpToRel
<1> QED
  BY <1>2

\* What FlattenSeq has joined after each sequence.
Joins(f, seqs, n) ==
  f = [i \in 1 .. n |-> IF i = 1 THEN seqs[i] ELSE f[i - 1] \o seqs[i]]

\* Its recursive definition defines something,
LEMMA JoinsExist ==
  ASSUME NEW seqs, NEW n \in Nat
  PROVE  \E f : Joins(f, seqs, n)
<1> DEFINE Bad == {m \in Nat : ~ \E f : Joins(f, seqs, m)}
<1> SUFFICES ASSUME Bad # {} PROVE FALSE
  OBVIOUS
<1>1. PICK m \in Bad : \A k \in Bad : m <= k
  BY LeastNumber
<1>2. m \in Nat /\ ~ \E f : Joins(f, seqs, m)
  OBVIOUS
<1>3. CASE m = 0
  <2>1. Joins([i \in 1 .. 0 |-> 0], seqs, 0)
    BY DEF Joins
  <2> QED
    BY <1>2, <1>3, <2>1
<1>4. CASE m # 0
  <2>1. m - 1 \in Nat /\ m - 1 \notin Bad
    BY <1>1, <1>2, <1>4
  <2>2. PICK g : Joins(g, seqs, m - 1)
    BY <2>1
  <2> DEFINE f == [i \in 1 .. m |-> IF i < m THEN g[i]
                                    ELSE IF i = 1 THEN seqs[i] ELSE g[i - 1] \o seqs[i]]
  <2>3. \A i \in 1 .. m - 1 : g[i] = IF i = 1 THEN seqs[i] ELSE g[i - 1] \o seqs[i]
    BY <2>2 DEF Joins
  <2>4. \A i \in 1 .. m : f[i] = IF i = 1 THEN seqs[i] ELSE f[i - 1] \o seqs[i]
    <3> TAKE i \in 1 .. m
    <3>1. CASE i = 1
      BY <1>2, <1>4, <2>3, <3>1
    <3>2. CASE i # 1
      <4>1. f[i - 1] = g[i - 1]
        BY <1>2, <3>2
      <4>2. f[i] = g[i - 1] \o seqs[i]
        <5>1. CASE i < m
          <6>1. i \in 1 .. m - 1
            BY <1>2, <5>1
          <6>2. f[i] = g[i]
            BY <5>1
          <6> QED
            BY <2>3, <3>2, <6>1, <6>2
        <5>2. CASE ~(i < m)
          BY <1>2, <3>2, <5>2
        <5> QED
          BY <5>1, <5>2
      <4> QED
        BY <3>2, <4>1, <4>2
    <3> QED
      BY <3>1, <3>2
  <2>5. Joins(f, seqs, m)
    BY <2>4 DEF Joins
  <2> QED
    BY <1>2, <2>5
<1> QED
  BY <1>2, <1>3, <1>4

\* and it joins sequences to a sequence.
LEMMA FlattenJoins ==
  ASSUME NEW S, NEW seqs \in Seq(Seq(S)), seqs # << >>
  PROVE  \E f : /\ f[1] = seqs[1]
                /\ \A i \in 2 .. Len(seqs) : f[i] = f[i - 1] \o seqs[i]
                /\ \A i \in 1 .. Len(seqs) : f[i] \in Seq(S)
                /\ Flatten(seqs) = f[Len(seqs)]
<1>1. Len(seqs) \in Nat \ {0}
  BY EmptySeq
<1> DEFINE f == CHOOSE g : g = [i \in 1 .. Len(seqs) |->
                                  IF i = 1 THEN seqs[i] ELSE g[i - 1] \o seqs[i]]
<1>2. Flatten(seqs) = f[Len(seqs)]
  BY <1>1, Zenon DEF Flatten, Protocol!Sequence!FlattenSeq
<1>3. Joins(f, seqs, Len(seqs))
  BY <1>1, JoinsExist, Zenon DEF Joins
<1> HIDE DEF f
<1>4. /\ f[1] = seqs[1]
      /\ \A i \in 2 .. Len(seqs) : f[i] = f[i - 1] \o seqs[i]
  <2>1. \A i \in 1 .. Len(seqs) : f[i] = IF i = 1 THEN seqs[i] ELSE f[i - 1] \o seqs[i]
    BY <1>3 DEF Joins
  <2>2. 1 \in 1 .. Len(seqs) /\ \A i \in 2 .. Len(seqs) : i \in 1 .. Len(seqs) /\ i # 1
    BY <1>1
  <2> QED
    BY <2>1, <2>2, Zenon
<1>5. \A i \in 1 .. Len(seqs) : f[i] \in Seq(S)
  <2> DEFINE Bad == {i \in 1 .. Len(seqs) : f[i] \notin Seq(S)}
  <2> SUFFICES ASSUME Bad # {} PROVE FALSE
    OBVIOUS
  <2>1. Bad \in SUBSET Nat
    BY <1>1
  <2>2. PICK i \in Bad : \A k \in Bad : i <= k
    BY <2>1, LeastNumber
  <2>3. i \in 1 .. Len(seqs) /\ f[i] \notin Seq(S)
    OBVIOUS
  <2>4. \A k \in 1 .. Len(seqs) : seqs[k] \in Seq(S)
    BY ElementOfSeq
  <2>5. i # 1
    BY <1>4, <2>3, <2>4
  <2>6. i \in 2 .. Len(seqs) /\ i - 1 \in 1 .. Len(seqs) /\ i - 1 \notin Bad
    BY <1>1, <2>2, <2>3, <2>5
  <2>7. f[i - 1] \in Seq(S) /\ f[i] = f[i - 1] \o seqs[i] /\ seqs[i] \in Seq(S)
    BY <1>4, <2>3, <2>4, <2>6
  <2> QED
    BY <2>3, <2>7, ConcatProperties
<1> QED
  BY <1>2, <1>4, <1>5

\* Nothing flattens to nothing, and one sequence to itself.
LEMMA FlattenOne ==
  ASSUME NEW S, NEW seqs \in Seq(Seq(S))
  PROVE  /\ seqs = << >> => Flatten(seqs) = << >>
         /\ Len(seqs) = 1 => Flatten(seqs) = seqs[1]
         /\ Flatten(seqs) \in Seq(S)
<1>1. CASE seqs = << >>
  <2>1. Flatten(seqs) = << >>
    BY <1>1 DEF Flatten, Protocol!Sequence!FlattenSeq
  <2>2. Len(seqs) # 1 /\ << >> \in Seq(S)
    BY <1>1
  <2> QED
    BY <2>1, <2>2
<1>2. CASE seqs # << >>
  <2>1. Len(seqs) \in Nat \ {0}
    BY <1>2, EmptySeq
  <2>2. PICK f : /\ f[1] = seqs[1]
                 /\ \A i \in 2 .. Len(seqs) : f[i] = f[i - 1] \o seqs[i]
                 /\ \A i \in 1 .. Len(seqs) : f[i] \in Seq(S)
                 /\ Flatten(seqs) = f[Len(seqs)]
    BY <1>2, FlattenJoins
  <2>3. Len(seqs) \in 1 .. Len(seqs)
    BY <2>1
  <2>4. Flatten(seqs) \in Seq(S)
    BY <2>2, <2>3, Zenon
  <2> QED
    BY <1>2, <2>2, <2>4, Zenon
<1> QED
  BY <1>1, <1>2

\* One sequence more at the end,
LEMMA FlattenLast ==
  ASSUME NEW S, NEW seqs \in Seq(Seq(S)), NEW e \in Seq(S)
  PROVE  Flatten(Append(seqs, e)) = Flatten(seqs) \o e
<1> DEFINE more == Append(seqs, e)
           n == Len(seqs)
<1>1. /\ more \in Seq(Seq(S)) /\ more # << >> /\ Len(more) = n + 1
      /\ \A i \in 1 .. n : more[i] = seqs[i]
      /\ more[n + 1] = e
  BY AppendProperties
<1>2. n \in Nat
  BY LenProperties
<1> HIDE DEF more
<1>3. CASE seqs = << >>
  <2>1. n = 0
    BY <1>3
  <2>2. Flatten(more) = more[1]
    BY <1>1, <2>1, FlattenOne
  <2>3. Flatten(seqs) = << >>
    BY <1>3, FlattenOne
  <2>4. Flatten(more) = e
    BY <1>1, <2>1, <2>2
  <2> QED
    BY <2>3, <2>4, ConcatEmptySeq DEF more
<1>4. CASE seqs # << >>
  <2>1. PICK f : /\ f[1] = seqs[1]
                 /\ \A i \in 2 .. n : f[i] = f[i - 1] \o seqs[i]
                 /\ Flatten(seqs) = f[n]
    BY <1>4, FlattenJoins
  <2>2. PICK g : /\ g[1] = more[1]
                 /\ \A i \in 2 .. n + 1 : g[i] = g[i - 1] \o more[i]
                 /\ Flatten(more) = g[n + 1]
    <3>1. PICK g : /\ g[1] = more[1]
                   /\ \A i \in 2 .. Len(more) : g[i] = g[i - 1] \o more[i]
                   /\ \A i \in 1 .. Len(more) : g[i] \in Seq(S)
                   /\ Flatten(more) = g[Len(more)]
      BY <1>1, FlattenJoins
    <3> QED
      BY <1>1, <3>1
  <2>3. n > 0
    BY <1>2, <1>4, EmptySeq
  <2> HIDE DEF n
  <2>4. \A i \in 1 .. n : g[i] = f[i]
    <3> DEFINE Bad == {i \in 1 .. n : g[i] # f[i]}
    <3> SUFFICES ASSUME Bad # {} PROVE FALSE
      OBVIOUS
    <3>1. Bad \in SUBSET Nat
      BY <1>2
    <3>2. PICK i \in Bad : \A k \in Bad : i <= k
      BY <3>1, LeastNumber
    <3>3. i \in 1 .. n /\ g[i] # f[i]
      OBVIOUS
    <3>4. i # 1
      BY <1>1, <2>1, <2>2, <2>3, <1>2, <3>3
    <3>5. i \in 2 .. n /\ i - 1 \in 1 .. n /\ i \in 2 .. n + 1 /\ ~(i <= i - 1)
      BY <1>2, <3>3, <3>4
    <3>9. i - 1 \notin Bad
      BY <3>2, <3>5, Zenon
    <3>6. g[i - 1] = f[i - 1]
      BY <3>5, <3>9
    <3>7. f[i] = f[i - 1] \o seqs[i] /\ g[i] = g[i - 1] \o more[i] /\ more[i] = seqs[i]
      BY <1>1, <2>1, <2>2, <3>3, <3>5
    <3> QED
      BY <3>3, <3>6, <3>7
  <2>5. g[n + 1] = g[n] \o more[n + 1]
    <3>1. n + 1 \in 2 .. n + 1 /\ (n + 1) - 1 = n
      BY <1>2, <2>3
    <3> QED
      BY <2>2, <3>1
  <2>6. g[n] = f[n]
    BY <1>2, <2>3, <2>4
  <2> QED
    BY <1>1, <2>1, <2>2, <2>5, <2>6 DEF more
<1> QED
  BY <1>3, <1>4

\* Concatenation, where it only matters that it is associative.
Join(a, b) == a \o b

LEMMA JoinAssociates ==
  ASSUME NEW S
  PROVE  \A a, b, c \in Seq(S) :
           Join(a, b) \in Seq(S) /\ Join(Join(a, b), c) = Join(a, Join(b, c))
<1> TAKE a, b, c \in Seq(S)
<1>1. a \o b \in Seq(S)
  BY ConcatProperties
<1>2. (a \o b) \o c = a \o (b \o c)
  BY ConcatAssociative
<1> QED
  BY <1>1, <1>2, Zenon DEF Join

\* and one less at the front.
LEMMA FlattenFirst ==
  ASSUME NEW S, NEW seqs \in Seq(Seq(S)), seqs # << >>
  PROVE  Flatten(seqs) = Head(seqs) \o Flatten(Tail(seqs))
<1> DEFINE rest == Tail(seqs)
           n == Len(rest)
           head == Head(seqs)
<1>0. \A a, b, c \in Seq(S) : Join(Join(a, b), c) = Join(a, Join(b, c))
  BY JoinAssociates
<1>1. /\ rest \in Seq(Seq(S)) /\ Len(seqs) = n + 1
      /\ \A i \in 1 .. n : rest[i] = seqs[i + 1]
      /\ head = seqs[1] /\ head \in Seq(S)
  BY HeadTailProperties, LenProperties
<1>2. n \in Nat
  BY <1>1, LenProperties
<1>3. PICK f : /\ f[1] = seqs[1]
               /\ \A i \in 2 .. n + 1 : f[i] = f[i - 1] \o seqs[i]
               /\ Flatten(seqs) = f[n + 1]
  <2>1. PICK f : /\ f[1] = seqs[1]
                 /\ \A i \in 2 .. Len(seqs) : f[i] = f[i - 1] \o seqs[i]
                 /\ \A i \in 1 .. Len(seqs) : f[i] \in Seq(S)
                 /\ Flatten(seqs) = f[Len(seqs)]
    BY FlattenJoins
  <2> QED
    BY <1>1, <2>1
<1> HIDE DEF rest, head
<1>4. CASE rest = << >>
  <2>1. n = 0
    BY <1>4
  <2>2. Flatten(seqs) = head
    BY <1>1, <1>3, <2>1
  <2>3. Flatten(rest) = << >>
    BY <1>1, <1>4, FlattenOne
  <2> QED
    BY <1>1, <2>2, <2>3, ConcatEmptySeq DEF rest, head
<1>5. CASE rest # << >>
  <2>1. PICK g : /\ g[1] = rest[1]
                 /\ \A i \in 2 .. n : g[i] = g[i - 1] \o rest[i]
                 /\ \A i \in 1 .. n : g[i] \in Seq(S)
                 /\ Flatten(rest) = g[n]
    BY <1>1, <1>5, FlattenJoins
  <2>2. n > 0
    BY <1>1, <1>2, <1>5, EmptySeq
  <2> HIDE DEF n
  <2>3. \A i \in 1 .. n : f[i + 1] = head \o g[i]
    <3> DEFINE Bad == {i \in 1 .. n : f[i + 1] # head \o g[i]}
    <3> SUFFICES ASSUME Bad # {} PROVE FALSE
      OBVIOUS
    <3>1. Bad \in SUBSET Nat
      BY <1>2
    <3>2. PICK i \in Bad : \A k \in Bad : i <= k
      BY <3>1, LeastNumber
    <3>3. i \in 1 .. n /\ f[i + 1] # head \o g[i]
      OBVIOUS
    <3>4. f[i + 1] = f[i] \o seqs[i + 1] /\ rest[i] = seqs[i + 1]
      <4>1. i + 1 \in 2 .. n + 1 /\ (i + 1) - 1 = i
        BY <1>2, <3>3
      <4> QED
        BY <1>1, <1>3, <3>3, <4>1
    <3>5. i # 1
      <4>1. ASSUME i = 1 PROVE f[2] = head \o g[1]
        BY <1>1, <1>3, <2>1, <3>4, <4>1
      <4> QED
        BY <3>3, <4>1
    <3>6. i \in 2 .. n /\ i - 1 \in 1 .. n /\ ~(i <= i - 1)
      BY <1>2, <3>3, <3>5
    <3>10. i - 1 \notin Bad
      BY <3>2, <3>6, Zenon
    <3>7. f[i] = head \o g[i - 1]
      <4>1. f[(i - 1) + 1] = head \o g[i - 1]
        BY <3>6, <3>10
      <4>2. (i - 1) + 1 = i
        BY <3>6, <1>2
      <4> QED
        BY <4>1, <4>2
    <3>8. g[i] = g[i - 1] \o rest[i] /\ g[i - 1] \in Seq(S) /\ rest[i] \in Seq(S)
      BY <1>1, <2>1, <3>3, <3>6, ElementOfSeq DEF n
    <3>9. Join(Join(head, g[i - 1]), rest[i]) = Join(head, Join(g[i - 1], rest[i]))
      <4>1. head \in Seq(S) /\ g[i - 1] \in Seq(S) /\ rest[i] \in Seq(S)
        BY <1>1, <3>8
      <4> QED
        BY <1>0, <4>1, Zenon
    <3> QED
      BY <3>3, <3>4, <3>7, <3>8, <3>9, Zenon DEF Join
  <2>4. f[n + 1] = head \o g[n]
    BY <1>2, <2>2, <2>3
  <2> QED
    BY <1>3, <2>1, <2>4 DEF rest, head
<1> QED
  BY <1>4, <1>5

-----------------------------------------------------------------------------
(* What an answer looks like on the wire. *)

\* The three encodings, in the serializer's terms.
LEMMA Encodings ==
  /\ Protocol!Encode(Protocol!Ack) = <<RSP_RESET>>
  /\ \A b \in Filter!Beat :
       Protocol!Encode(Protocol!PayloadBeat(b)) =
         <<TAG_BEAT + 2 * OneBit(b.last) + OneBit(b.error), b.data>>
  /\ \A r \in Filter!Record :
       Protocol!Encode(Protocol!ResultRecord(r)) = <<TAG_RESULT>> \o ResultBytes(r)
<1>1. Protocol!Encode(Protocol!Ack) = <<RSP_RESET>>
  BY DEF Protocol!Encode, Protocol!Ack, Protocol!RSP_RESET, RSP_RESET
<1>2. ASSUME NEW b \in Filter!Beat
      PROVE  Protocol!Encode(Protocol!PayloadBeat(b)) =
               <<TAG_BEAT + 2 * OneBit(b.last) + OneBit(b.error), b.data>>
  <2>1. Protocol!Encode(Protocol!PayloadBeat(b)) =
          <<TAG_BEAT + (IF b.last THEN 2 ELSE 0) + (IF b.error THEN 1 ELSE 0), b.data>>
    BY Zenon DEF Protocol!Encode, Protocol!PayloadBeat, Protocol!TAG_BEAT, TAG_BEAT
  <2>2. (IF b.last THEN 2 ELSE 0) = 2 * OneBit(b.last)
    BY DEF OneBit
  <2>3. (IF b.error THEN 1 ELSE 0) = OneBit(b.error)
    BY DEF OneBit
  <2> QED
    BY <2>1, <2>2, <2>3, Zenon
<1>3. ASSUME NEW r \in Filter!Record
      PROVE  Protocol!Encode(Protocol!ResultRecord(r)) = <<TAG_RESULT>> \o ResultBytes(r)
  <2>1. Protocol!Encode(Protocol!ResultRecord(r)) =
          <<TAG_RESULT, IF r.accept THEN 1 ELSE 0>>
            \o [i \in 1 .. RESULT_BYTES - 2 |-> FIELD_BYTE] \o <<r.sequence>>
    BY Zenon DEF Protocol!Encode, Protocol!ResultRecord, Protocol!TAG_RESULT, TAG_RESULT
  <2> DEFINE accept == IF r.accept THEN 1 ELSE 0
             fields == [i \in 1 .. RESULT_BYTES - 2 |-> FIELD_BYTE]
             left == <<TAG_RESULT, accept>> \o fields \o <<r.sequence>>
             right == <<TAG_RESULT>> \o ResultBytes(r)
  <2>2. RESULT_BYTES \in Nat /\ RESULT_BYTES > 1 /\ FIELD_BYTE \in Nat
    BY CoreAssumption
  <2>3. r.sequence \in Nat
    <3>1. SEQUENCE_MODULUS \in Nat
      BY CoreAssumption
    <3> QED
      BY <3>1 DEF Filter!Record
  <2>4. accept \in Nat /\ accept = OneBit(r.accept)
    BY DEF OneBit
  <2>5. /\ ResultBytes(r) \in Seq(Nat) /\ Len(ResultBytes(r)) = RESULT_BYTES
        /\ ResultBytes(r)[1] = accept
        /\ ResultBytes(r)[RESULT_BYTES] = r.sequence
        /\ \A i \in 2 .. RESULT_BYTES - 1 : ResultBytes(r)[i] = FIELD_BYTE
    <3>1. \A i \in 1 .. RESULT_BYTES :
            ResultBytes(r)[i] = IF i = 1 THEN accept
                                ELSE IF i = RESULT_BYTES THEN r.sequence ELSE FIELD_BYTE
      <4> HIDE DEF accept
      <4> QED
        BY <2>2, <2>4 DEF ResultBytes
    <3> HIDE DEF accept
    <3> QED
      BY <2>2, <2>3, <2>4, <3>1 DEF ResultBytes
  <2>6. fields \in Seq(Nat) /\ Len(fields) = RESULT_BYTES - 2
        /\ \A i \in 1 .. RESULT_BYTES - 2 : fields[i] = FIELD_BYTE
    BY <2>2
  <2> HIDE DEF accept, fields
  <2>7. left \in Seq(Nat) /\ right \in Seq(Nat) /\ Len(left) = Len(right)
    BY <2>2, <2>3, <2>4, <2>5, <2>6 DEF TAG_RESULT
  <2> DEFINE byte(i) == IF i = 1 THEN TAG_RESULT ELSE IF i = 2 THEN accept
                        ELSE IF i = RESULT_BYTES + 1 THEN r.sequence ELSE FIELD_BYTE
  <2>8. Len(left) = RESULT_BYTES + 1 /\ \A i \in 1 .. RESULT_BYTES + 1 : left[i] = byte(i)
    BY <2>2, <2>3, <2>4, <2>6 DEF TAG_RESULT
  <2>9. \A i \in 1 .. RESULT_BYTES + 1 : right[i] = byte(i)
    <3> TAKE i \in 1 .. RESULT_BYTES + 1
    <3>1. CASE i = 1
      BY <2>2, <2>5, <3>1 DEF TAG_RESULT
    <3>2. CASE i # 1
      <4>1. right[i] = ResultBytes(r)[i - 1]
        BY <2>2, <2>5, <3>2 DEF TAG_RESULT
      <4> QED
        BY <2>2, <2>5, <3>2, <4>1
    <3> QED
      BY <3>1, <3>2
  <2> HIDE DEF left, right, byte
  <2>10. left = right
    <3>1. \A i \in 1 .. Len(left) : left[i] = right[i]
      BY <2>8, <2>9
    <3> QED
      BY <2>7, <3>1, SeqEqual
  <2>11. Protocol!Encode(Protocol!ResultRecord(r)) = left
    BY <2>1, Zenon DEF left, accept, fields
  <2> QED
    BY <2>10, <2>11, Zenon DEF right
<1> QED
  BY <1>1, <1>2, <1>3

\* Only the record's tag announces a record, only a beat's tag a beat: the first
\* byte of an answer tells the parser how long it is.
LEMMA TagTells ==
  ASSUME NEW a \in Answer
  PROVE  /\ Protocol!Encode(a) \in Seq(Byte) /\ Protocol!Encode(a) # << >>
         /\ Len(Protocol!Encode(a)) = Protocol!Needed(Head(Protocol!Encode(a)))
         /\ ~Protocol!unexpected(Protocol!Encode(a))
<1> DEFINE x == Protocol!Encode(a)
<1>1. /\ \A n \in Nat : Protocol!IsBeat(n) <=> n \in {176, 177, 178, 179}
      /\ \A n \in Nat : Protocol!Needed(n) =
           IF n = 192 THEN 1 + RESULT_BYTES ELSE IF Protocol!IsBeat(n) THEN 2 ELSE 1
  <2>1. \A n \in Nat : n \div 4 = 44 <=> n \in {176, 177, 178, 179}
    OBVIOUS
  <2>2. 176 \div 4 = 44
    OBVIOUS
  <2> QED
    BY <2>1, <2>2
    DEF Protocol!IsBeat, Protocol!Needed, Protocol!TAG_BEAT, Protocol!TAG_RESULT
<1>2. \A s : Protocol!unexpected(s) <=>
               ~(Head(s) = 172 \/ Head(s) = 192 \/ Protocol!IsBeat(Head(s)))
  BY DEF Protocol!unexpected, Protocol!RSP_RESET, Protocol!TAG_RESULT
<1>3. CASE a = Protocol!Ack
  <2>1. x = <<172>>
    BY <1>3, Encodings DEF RSP_RESET
  <2>2. <<172>> \in Seq(Byte) /\ <<172>> # << >> /\ Len(<<172>>) = 1 /\ Head(<<172>>) = 172
    BY SmallBytes DEF RSP_RESET
  <2> HIDE DEF x
  <2>3. x \in Seq(Byte) /\ x # << >> /\ Len(x) = 1 /\ Head(x) = 172
    BY <2>1, <2>2, Zenon
  <2>4. Protocol!Needed(172) = 1
    BY <1>1
  <2> QED
    BY <1>2, <2>3, <2>4 DEF x
<1>4. ASSUME NEW b \in Filter!Beat, a = Protocol!PayloadBeat(b)
      PROVE  /\ x \in Seq(Byte) /\ x # << >>
             /\ Len(x) = Protocol!Needed(Head(x)) /\ ~Protocol!unexpected(x)
  <2> DEFINE tag == TAG_BEAT + 2 * OneBit(b.last) + OneBit(b.error)
  <2>1. x = <<tag, b.data>>
    BY <1>4, Encodings
  <2>2. tag \in {176, 177, 178, 179} /\ tag \in Nat /\ tag # 192
    BY DEF OneBit, TAG_BEAT
  <2>3. tag \in Byte /\ b.data \in Byte
    BY <2>2 DEF Byte, Unsigned, Filter!Beat
  <2> HIDE DEF tag
  <2>4. /\ <<tag, b.data>> \in Seq(Byte) /\ <<tag, b.data>> # << >>
        /\ Len(<<tag, b.data>>) = 2 /\ Head(<<tag, b.data>>) = tag
    BY <2>3
  <2> HIDE DEF x
  <2>5. x \in Seq(Byte) /\ x # << >> /\ Len(x) = 2 /\ Head(x) = tag
    BY <2>1, <2>4, Zenon
  <2>6. Protocol!IsBeat(tag) /\ Protocol!Needed(tag) = 2
    BY <1>1, <2>2
  <2> QED
    BY <1>2, <2>5, <2>6
<1>5. ASSUME NEW r \in Filter!Record, a = Protocol!ResultRecord(r)
      PROVE  /\ x \in Seq(Byte) /\ x # << >>
             /\ Len(x) = Protocol!Needed(Head(x)) /\ ~Protocol!unexpected(x)
  <2>1. x = <<192>> \o ResultBytes(r)
    BY <1>5, Encodings DEF TAG_RESULT
  <2>2. ResultBytes(r) \in Seq(Byte) /\ Len(ResultBytes(r)) = RESULT_BYTES
    BY ResultBytesType
  <2>3. <<192>> \in Seq(Byte) /\ Len(<<192>>) = 1 /\ <<192>>[1] = 192
    BY DEF Byte, Unsigned
  <2>4. RESULT_BYTES \in Nat
    BY CoreAssumption
  <2> HIDE DEF x
  <2>5. x \in Seq(Byte) /\ Len(x) = 1 + RESULT_BYTES /\ x[1] = 192
    BY <2>1, <2>2, <2>3, <2>4, ConcatProperties
  <2>6. x # << >> /\ Head(x) = 192
    BY <2>4, <2>5
  <2>7. Protocol!Needed(192) = 1 + RESULT_BYTES
    BY <1>1
  <2> QED
    BY <1>2, <2>5, <2>6, <2>7
<1> QED
  BY <1>3, <1>4, <1>5, Zenon DEF Answer

\* One answer more on the wire,
LEMMA EncodeLast ==
  ASSUME NEW answers \in Seq(Answer), NEW a \in Answer
  PROVE  /\ Protocol!EncodeAll(answers) \in Seq(Byte)
         /\ Protocol!EncodeAll(Append(answers, a)) =
              Protocol!EncodeAll(answers) \o Protocol!Encode(a)
<1> DEFINE more == Append(answers, a)
           encoded == [i \in DOMAIN answers |-> Protocol!Encode(answers[i])]
           longer == [i \in DOMAIN more |-> Protocol!Encode(more[i])]
           last == Protocol!Encode(a)
<1>1. \A x \in Answer : Protocol!Encode(x) \in Seq(Byte)
  BY TagTells
<1>2. /\ more \in Seq(Answer) /\ Len(more) = Len(answers) + 1
      /\ \A i \in 1 .. Len(answers) : more[i] = answers[i]
      /\ more[Len(answers) + 1] = a
      /\ DOMAIN more = 1 .. Len(more) /\ DOMAIN answers = 1 .. Len(answers)
      /\ Len(answers) \in Nat
  BY AppendProperties, LenProperties
<1>3. encoded \in Seq(Seq(Byte)) /\ last \in Seq(Byte)
  BY <1>1, <1>2
<1>4. longer \in Seq(Seq(Byte)) /\ Len(longer) = Len(answers) + 1
  BY <1>1, <1>2
<1>5. Len(encoded) = Len(answers)
  BY <1>2
<1>6. longer = Append(encoded, last)
  <2>1. /\ Append(encoded, last) \in Seq(Seq(Byte))
        /\ Len(Append(encoded, last)) = Len(answers) + 1
        /\ \A i \in 1 .. Len(answers) : Append(encoded, last)[i] = encoded[i]
        /\ Append(encoded, last)[Len(answers) + 1] = last
    BY <1>3, <1>5, AppendProperties
  <2>2. \A i \in 1 .. Len(answers) + 1 : longer[i] = Append(encoded, last)[i]
    BY <1>2, <2>1
  <2> HIDE DEF longer, encoded, last
  <2> QED
    BY <1>4, <2>1, <2>2, SeqEqual
<1> HIDE DEF encoded, longer, last
<1>7. Flatten(longer) = Flatten(encoded) \o last /\ Flatten(encoded) \in Seq(Byte)
  BY <1>3, <1>6, FlattenLast, FlattenOne
<1> QED
  BY <1>7 DEF Protocol!EncodeAll, Flatten, encoded, longer, last

\* and the oldest one gone.
LEMMA EncodeFirst ==
  ASSUME NEW answers \in Seq(Answer), answers # << >>
  PROVE  Protocol!EncodeAll(answers) =
           Protocol!Encode(Head(answers)) \o Protocol!EncodeAll(Tail(answers))
<1> DEFINE rest == Tail(answers)
           encoded == [i \in DOMAIN answers |-> Protocol!Encode(answers[i])]
           shorter == [i \in DOMAIN rest |-> Protocol!Encode(rest[i])]
<1>1. \A x \in Answer : Protocol!Encode(x) \in Seq(Byte)
  BY TagTells
<1>2. /\ rest \in Seq(Answer) /\ Len(rest) = Len(answers) - 1
      /\ \A i \in 1 .. Len(rest) : rest[i] = answers[i + 1]
      /\ DOMAIN rest = 1 .. Len(rest) /\ DOMAIN answers = 1 .. Len(answers)
      /\ Len(answers) \in Nat \ {0} /\ Head(answers) = answers[1]
  BY HeadTailProperties, LenProperties, EmptySeq
<1>3. encoded \in Seq(Seq(Byte)) /\ shorter \in Seq(Seq(Byte))
      /\ Len(encoded) = Len(answers) /\ Len(shorter) = Len(answers) - 1
  BY <1>1, <1>2
<1>4. encoded # << >> /\ Head(encoded) = Protocol!Encode(Head(answers))
  BY <1>2, <1>3
<1>5. Tail(encoded) = shorter
  <2>1. /\ Tail(encoded) \in Seq(Seq(Byte)) /\ Len(Tail(encoded)) = Len(answers) - 1
        /\ \A i \in 1 .. Len(Tail(encoded)) : Tail(encoded)[i] = encoded[i + 1]
    BY <1>3, <1>4, HeadTailProperties
  <2>2. \A i \in 1 .. Len(answers) - 1 : shorter[i] = Tail(encoded)[i]
    BY <1>2, <2>1
  <2> HIDE DEF shorter, encoded
  <2> QED
    BY <1>3, <2>1, <2>2, SeqEqual
<1> HIDE DEF encoded, shorter
<1>6. Flatten(encoded) = Head(encoded) \o Flatten(shorter)
  BY <1>3, <1>4, <1>5, FlattenFirst
<1> QED
  BY <1>4, <1>6 DEF Protocol!EncodeAll, Flatten, encoded, shorter

-----------------------------------------------------------------------------
(* The wire from the filter's ports to the host. *)

\* What the serializer still has to send, state by state.
LEMMA InSerializerIs ==
  ASSUME SerializerTypes
  PROVE  /\ ser = "S_IDLE" => InSerializer = << >>
         /\ ser = "S_BEAT" => InSerializer = <<beat_data>>
         /\ ser = "S_RESULT" => InSerializer = result_shift
         /\ InSerializer \in Seq(Byte)
<1>1. /\ ser = "S_IDLE" => InSerializer = << >>
      /\ ser = "S_BEAT" => InSerializer = <<beat_data>>
      /\ ser = "S_RESULT" => InSerializer = result_shift
  BY Zenon DEF InSerializer
<1>2. << >> \in Seq(Byte) /\ <<beat_data>> \in Seq(Byte) /\ result_shift \in Seq(Byte)
  BY DEF SerializerTypes
<1> QED
  BY <1>1, <1>2 DEF SerializerTypes

\* What the TX FIFO has at an edge is what it delivers and what it keeps, and it
\* takes what the serializer sends unless it is full.
LEMMA QueueMoves ==
  ASSUME tx_queue \in Seq(Byte), Len(tx_queue) <= TX_FIFO_DEPTH,
         NEW in, NEW bytes \in Seq(Byte), Push(bytes, in), Len(bytes) <= 1,
         bytes = << >> \/ ~txf_full
  PROVE  /\ Delivered(in) \in Seq(Byte) /\ Len(Delivered(in)) <= 1
         /\ TxFifo!Kept(in.tx_ready) \in Seq(Byte)
         /\ tx_queue = Delivered(in) \o TxFifo!Kept(in.tx_ready)
         /\ tx_queue' = TxFifo!Kept(in.tx_ready) \o bytes
         /\ Len(tx_queue') <= TX_FIFO_DEPTH
<1> DEFINE kept == TxFifo!Kept(in.tx_ready)
           given == Delivered(in)
<1>1. TX_FIFO_DEPTH \in Nat \ {0} /\ Len(tx_queue) \in Nat /\ Len(bytes) \in Nat
  BY CoreAssumption, LenProperties
<1>2. /\ given \in Seq(Byte) /\ Len(given) <= 1 /\ kept \in Seq(Byte)
      /\ Len(kept) <= Len(tx_queue) /\ tx_queue = given \o kept
  <2>1. CASE in.tx_ready /\ tx_queue # << >>
    <3>1. given = <<Head(tx_queue)>>
      BY <2>1 DEF Delivered, TxFifo!Delivered
    <3>2. kept = Tail(tx_queue)
      BY <2>1 DEF TxFifo!Kept, TxFifo!Delivered
    <3>3. tx_queue = <<Head(tx_queue)>> \o Tail(tx_queue)
      BY <2>1
    <3>4. /\ Head(tx_queue) \in Byte /\ Tail(tx_queue) \in Seq(Byte)
          /\ Len(Tail(tx_queue)) = Len(tx_queue) - 1
      BY <2>1, HeadTailProperties
    <3> QED
      BY <1>1, <3>1, <3>2, <3>3, <3>4
  <2>2. CASE ~(in.tx_ready /\ tx_queue # << >>)
    <3>1. given = << >> /\ kept = tx_queue
      BY <2>2 DEF Delivered, TxFifo!Kept, TxFifo!Delivered
    <3> QED
      BY <1>1, <3>1
  <2> QED
    BY <2>1, <2>2
<1>3. tx_queue' = kept \o bytes
  <2>1. tx_queue' = kept \o TxFifo!Accepted(bytes)
    BY DEF Push, TxFifo!Move
  <2>2. TxFifo!Accepted(bytes) = bytes
    BY <1>1 DEF TxFifo!Accepted, txf_full
  <2> QED
    BY <2>1, <2>2
<1>4. Len(kept) + Len(bytes) <= TX_FIFO_DEPTH
  <2>1. bytes = << >> => Len(bytes) = 0
    OBVIOUS
  <2>2. ~txf_full => Len(tx_queue) < TX_FIFO_DEPTH
    BY <1>1 DEF txf_full
  <2>3. Len(kept) \in Nat
    BY <1>2, LenProperties
  <2> QED
    BY <1>1, <1>2, <2>1, <2>2, <2>3
<1> HIDE DEF kept, given
<1>5. Len(tx_queue') = Len(kept) + Len(bytes)
  BY <1>2, <1>3, ConcatProperties
<1> QED
  BY <1>2, <1>3, <1>4, <1>5 DEF kept, given

\* An edge gives the serializer at most one answer, and only when it is free.
LEMMA NewAnswersAre ==
  ASSUME NEW in
  PROVE  /\ ack_sent => NewAnswers(in) = <<Protocol!Ack>>
         /\ BeatTaken(in) => ~ack_sent /\ NewAnswers(in) = <<Protocol!PayloadBeat(Head(beats))>>
         /\ ResultTaken(in) => ~ack_sent /\ NewAnswers(in) = <<Protocol!ResultRecord(record)>>
         /\ ~ack_sent /\ ~BeatTaken(in) /\ ~ResultTaken(in) => NewAnswers(in) = << >>
         /\ ack_sent \/ BeatTaken(in) \/ ResultTaken(in) => ser = "S_IDLE" /\ ~txf_full
<1>1. ack_sent => ack_pending /\ ser = "S_IDLE" /\ ~txf_full
  BY DEF ack_sent
<1>2. BeatTaken(in) => m_tvalid /\ ~ack_pending /\ ser = "S_IDLE" /\ ~txf_full
  BY DEF BeatTaken, m_tready, serializer_free
<1>3. ResultTaken(in) => ~m_tvalid /\ ~ack_pending /\ ser = "S_IDLE" /\ ~txf_full
  BY DEF ResultTaken, result_ready, serializer_free
<1>4. \A x : /\ (<<x>> \o << >>) \o << >> = <<x>>
             /\ (<< >> \o <<x>>) \o << >> = <<x>>
             /\ (<< >> \o << >>) \o <<x>> = <<x>>
             /\ (<< >> \o << >>) \o << >> = << >>
  OBVIOUS
<1> QED
  BY <1>1, <1>2, <1>3, <1>4, Zenon DEF NewAnswers

\* Two bytes, one after the other.
LEMMA PairOfBytes ==
  /\ \A x, y : <<x, y>> \in Seq(Byte) => x \in Byte /\ y \in Byte
  /\ \A x, y \in Byte : <<x>> \o <<y>> = <<x, y>>
<1>1. ASSUME NEW x, NEW y, <<x, y>> \in Seq(Byte)
      PROVE  x \in Byte /\ y \in Byte
  <2>1. <<x, y>>[1] = x /\ <<x, y>>[2] = y /\ Len(<<x, y>>) = 2
    OBVIOUS
  <2>2. 1 \in 1 .. 2 /\ 2 \in 1 .. 2
    OBVIOUS
  <2> QED
    BY <1>1, <2>1, <2>2, ElementOfSeq
<1>2. ASSUME NEW x \in Byte, NEW y \in Byte
      PROVE  <<x>> \o <<y>> = <<x, y>>
  <2> DEFINE joined == <<x>> \o <<y>>
             pair == <<x, y>>
  <2>1. /\ <<x>> \in Seq(Byte) /\ Len(<<x>>) = 1 /\ <<x>>[1] = x
        /\ <<y>> \in Seq(Byte) /\ Len(<<y>>) = 1 /\ <<y>>[1] = y
    OBVIOUS
  <2>2. joined \in Seq(Byte) /\ Len(joined) = 2 /\ joined[1] = x /\ joined[2] = y
    BY <2>1, ConcatProperties
  <2>3. pair \in Seq(Byte) /\ Len(pair) = 2 /\ pair[1] = x /\ pair[2] = y
    OBVIOUS
  <2> HIDE DEF joined, pair
  <2>4. \A i \in 1 .. 2 : i = 1 \/ i = 2
    OBVIOUS
  <2>5. joined = pair
    BY <2>2, <2>3, <2>4, SeqEqual
  <2> QED
    BY <2>5 DEF joined, pair
<1> QED
  BY <1>1, <1>2

\* What the serializer writes and what it still has to write is what it had
\* before and the answer it has been given, if any.
LEMMA SerializerSends ==
  ASSUME NEW in, SerializerTypes, SerializerTypes', ShiftHasBytes, Filter!ServiceTypeOK,
         Serializer(in)
  PROVE  \E bytes \in Seq(Byte), given \in Seq(Byte) :
           /\ Push(bytes, in) /\ Len(bytes) <= 1
           /\ bytes = << >> \/ ~txf_full
           /\ bytes \o InSerializer' = InSerializer \o given
           /\ \/ NewAnswers(in) = << >> /\ given = << >>
              \/ \E a \in Answer : NewAnswers(in) = <<a>> /\ given = Protocol!Encode(a)
<1> DEFINE Sends(bytes, given) ==
             /\ Push(bytes, in) /\ Len(bytes) <= 1
             /\ bytes = << >> \/ ~txf_full
             /\ bytes \o InSerializer' = InSerializer \o given
             /\ \/ NewAnswers(in) = << >> /\ given = << >>
                \/ \E a \in Answer : NewAnswers(in) = <<a>> /\ given = Protocol!Encode(a)
<1> SUFFICES \E bytes \in Seq(Byte), given \in Seq(Byte) : Sends(bytes, given)
  OBVIOUS
<1>1. /\ ser = "S_IDLE" => InSerializer = << >>
      /\ ser = "S_BEAT" => InSerializer = <<beat_data>>
      /\ ser = "S_RESULT" => InSerializer = result_shift
  BY InSerializerIs
<1>2. /\ ser' = "S_IDLE" => InSerializer' = << >>
      /\ ser' = "S_BEAT" => InSerializer' = <<beat_data'>>
      /\ ser' = "S_RESULT" => InSerializer' = result_shift'
  BY Zenon DEF InSerializer
<1>3. \A b \in Byte : <<b>> \in Seq(Byte) /\ Len(<<b>>) = 1
  OBVIOUS
<1>4. << >> \in Seq(Byte) /\ Len(<< >>) = 0
  OBVIOUS
<1>5. \A s \in Seq(Byte) : << >> \o s = s /\ s \o << >> = s
  BY ConcatEmptySeq
<1>6. beat_data \in Byte /\ result_shift \in Seq(Byte) /\ tx_queue \in Seq(Byte)
  BY DEF SerializerTypes
<1> HIDE DEF Sends
<1>7. CASE SendAck(in)
  <2>1. Push(<<RSP_RESET>>, in) /\ ser = "S_IDLE" /\ ser' = "S_IDLE" /\ ~txf_full
    BY <1>7 DEF SendAck, ack_sent
  <2>2. NewAnswers(in) = <<Protocol!Ack>> /\ Protocol!Ack \in Answer
    BY <1>7, NewAnswersAre DEF SendAck, Answer
  <2>3. Protocol!Encode(Protocol!Ack) = <<RSP_RESET>>
    BY Encodings
  <2>4. <<RSP_RESET>> \in Seq(Byte) /\ Len(<<RSP_RESET>>) <= 1
    BY <1>3, SmallBytes
  <2>5. <<RSP_RESET>> \o InSerializer' = InSerializer \o <<RSP_RESET>>
    BY <1>1, <1>2, <1>5, <2>1, <2>4
  <2> QED
    BY <2>1, <2>2, <2>3, <2>4, <2>5 DEF Sends
<1>8. CASE SendBeatTag(in)
  <2> DEFINE b == Head(beats)
             tag == TAG_BEAT + 2 * OneBit(b.last) + OneBit(b.error)
  <2>1. beats # << >> /\ beats \in Seq(Filter!Beat)
    BY <1>8 DEF SendBeatTag, BeatTaken, m_tvalid, Filter!m_tvalid, Filter!ServiceTypeOK
  <2>2. b \in Filter!Beat
    BY <2>1, HeadTailProperties
  <2>3. BeatTaken(in) /\ Push(<<tag>>, in) /\ ser' = "S_BEAT" /\ beat_data' = b.data
    BY <1>8 DEF SendBeatTag
  <2>4. /\ NewAnswers(in) = <<Protocol!PayloadBeat(b)>> /\ Protocol!PayloadBeat(b) \in Answer
        /\ ser = "S_IDLE" /\ ~txf_full
    BY <2>2, <2>3, NewAnswersAre DEF Answer
  <2>5. Protocol!Encode(Protocol!PayloadBeat(b)) = <<tag, b.data>>
    BY <2>2, Encodings
  <2>6. Protocol!Encode(Protocol!PayloadBeat(b)) \in Seq(Byte)
    BY <2>4, TagTells
  <2> HIDE DEF b, tag
  <2>8. <<tag>> \in Seq(Byte) /\ Len(<<tag>>) <= 1
    <3>1. tag \in Byte
      BY <2>5, <2>6, PairOfBytes
    <3> QED
      BY <1>3, <3>1
  <2>9. <<tag>> \o InSerializer' = InSerializer \o <<tag, b.data>>
    <3>1. tag \in Byte /\ b.data \in Byte
      <4>1. \A x, y : <<x, y>> \in Seq(Byte) => x \in Byte /\ y \in Byte
        BY PairOfBytes
      <4> QED
        BY <2>5, <2>6, <4>1
    <3>2. <<tag>> \o <<b.data>> = <<tag, b.data>>
      BY <3>1, PairOfBytes
    <3>3. InSerializer' = <<b.data>> /\ InSerializer = << >>
      BY <1>1, <1>2, <2>3, <2>4
    <3>4. << >> \o <<tag, b.data>> = <<tag, b.data>>
      BY <1>5, <2>5, <2>6
    <3> QED
      BY <3>2, <3>3, <3>4, Zenon
  <2> QED
    BY <2>3, <2>4, <2>5, <2>6, <2>8, <2>9 DEF Sends
<1>9. CASE SendResultTag(in)
  <2>1. /\ ResultTaken(in) /\ Push(<<TAG_RESULT>>, in) /\ ser' = "S_RESULT"
        /\ result_shift' = ResultBytes(record)
    BY <1>9 DEF SendResultTag
  <2>2. record \in Filter!Record
    BY DEF Filter!ServiceTypeOK
  <2>3. /\ NewAnswers(in) = <<Protocol!ResultRecord(record)>>
        /\ Protocol!ResultRecord(record) \in Answer
        /\ ser = "S_IDLE" /\ ~txf_full
    BY <2>1, <2>2, NewAnswersAre DEF Answer
  <2>4. Protocol!Encode(Protocol!ResultRecord(record)) = <<TAG_RESULT>> \o ResultBytes(record)
    BY <2>2, Encodings
  <2>5. Protocol!Encode(Protocol!ResultRecord(record)) \in Seq(Byte)
    BY <2>3, TagTells
  <2>6. <<TAG_RESULT>> \in Seq(Byte) /\ Len(<<TAG_RESULT>>) <= 1
    BY <1>3, SmallBytes
  <2>7. <<TAG_RESULT>> \o InSerializer' =
          InSerializer \o Protocol!Encode(Protocol!ResultRecord(record))
    BY <1>1, <1>2, <1>5, <2>1, <2>3, <2>4, <2>5
  <2> QED
    BY <2>1, <2>3, <2>5, <2>6, <2>7 DEF Sends
<1>10. CASE SendBeatData(in)
  <2>1. ser = "S_BEAT" /\ ~txf_full /\ Push(<<beat_data>>, in) /\ ser' = "S_IDLE"
    BY <1>10 DEF SendBeatData
  <2>2. NewAnswers(in) = << >>
    BY <2>1, NewAnswersAre
  <2>3. <<beat_data>> \in Seq(Byte) /\ Len(<<beat_data>>) <= 1
    BY <1>3, <1>6
  <2>4. <<beat_data>> \o InSerializer' = InSerializer \o << >>
    BY <1>1, <1>2, <2>1
  <2> QED
    BY <1>4, <2>1, <2>2, <2>3, <2>4 DEF Sends
<1>11. CASE SendResultByte(in)
  <2>1. /\ ser = "S_RESULT" /\ ~txf_full /\ Push(<<Head(result_shift)>>, in)
        /\ result_shift' = Tail(result_shift)
        /\ ser' = IF Len(result_shift) = 1 THEN "S_IDLE" ELSE "S_RESULT"
    BY <1>11 DEF SendResultByte
  <2>2. NewAnswers(in) = << >>
    BY <2>1, NewAnswersAre
  <2>3. result_shift # << >>
    BY <2>1 DEF ShiftHasBytes
  <2>4. /\ Head(result_shift) \in Byte /\ Tail(result_shift) \in Seq(Byte)
        /\ Len(Tail(result_shift)) = Len(result_shift) - 1
        /\ <<Head(result_shift)>> \o Tail(result_shift) = result_shift
    BY <1>6, <2>3, HeadTailProperties
  <2>5. InSerializer' = Tail(result_shift)
    <3>1. Len(result_shift) = 1 => Tail(result_shift) = << >>
      BY <2>4, EmptySeq
    <3> QED
      BY <1>2, <2>1, <3>1
  <2>6. <<Head(result_shift)>> \in Seq(Byte) /\ Len(<<Head(result_shift)>>) <= 1
    BY <1>3, <2>4
  <2>7. <<Head(result_shift)>> \o InSerializer' = InSerializer \o << >>
    BY <1>1, <1>5, <1>6, <2>1, <2>4, <2>5
  <2> QED
    BY <1>4, <2>1, <2>2, <2>6, <2>7 DEF Sends
<1>12. CASE SendNothing(in)
  <2>1. /\ \/ txf_full
           \/ ~ack_sent /\ ~BeatTaken(in) /\ ~ResultTaken(in)
        /\ Push(<< >>, in) /\ UNCHANGED <<ser, beat_data, result_shift>>
    BY <1>12 DEF SendNothing
  <2>2. NewAnswers(in) = << >>
    BY <2>1, NewAnswersAre
  <2>3. InSerializer' = InSerializer /\ InSerializer \in Seq(Byte)
    BY <2>1, InSerializerIs DEF InSerializer
  <2>4. << >> \o InSerializer' = InSerializer \o << >>
    BY <1>5, <2>3
  <2> QED
    <3>1. Sends(<< >>, << >>)
      BY <1>4, <2>1, <2>2, <2>4 DEF Sends
    <3> QED
      BY <1>4, <3>1
<1> QED
  BY <1>7, <1>8, <1>9, <1>10, <1>11, <1>12 DEF Serializer

\* Two ways to cut a sequence in two that agree on where, agree on the parts.
LEMMA SameCut ==
  ASSUME NEW S, NEW a \in Seq(S), NEW b \in Seq(S), NEW c \in Seq(S), NEW d \in Seq(S),
         Join(a, b) = Join(c, d)
  PROVE  /\ Len(a) = Len(c) => a = c /\ b = d
         /\ a # << >> /\ c # << >> => Head(a) = Head(c)
<1>0. a \o b = c \o d
  BY Zenon DEF Join
<1>1. /\ Len(a) \in Nat /\ Len(b) \in Nat /\ Len(c) \in Nat /\ Len(d) \in Nat
      /\ Len(a \o b) = Len(a) + Len(b) /\ Len(c \o d) = Len(c) + Len(d)
      /\ \A i \in 1 .. Len(a) + Len(b) :
           (a \o b)[i] = IF i <= Len(a) THEN a[i] ELSE b[i - Len(a)]
      /\ \A i \in 1 .. Len(c) + Len(d) :
           (c \o d)[i] = IF i <= Len(c) THEN c[i] ELSE d[i - Len(c)]
  BY ConcatProperties, LenProperties
<1>2. ASSUME Len(a) = Len(c)
      PROVE  a = c /\ b = d
  <2>1. \A i \in 1 .. Len(a) : a[i] = c[i]
    <3> TAKE i \in 1 .. Len(a)
    <3>1. /\ i \in 1 .. Len(a) + Len(b) /\ i \in 1 .. Len(c) + Len(d)
          /\ i <= Len(a) /\ i <= Len(c)
      BY <1>1, <1>2
    <3> QED
      BY <1>0, <1>1, <3>1
  <2>2. a = c
    BY <1>2, <2>1, SeqEqual
  <2>3. Len(b) = Len(d)
    BY <1>0, <1>1, <1>2
  <2>4. \A i \in 1 .. Len(b) : b[i] = d[i]
    <3> TAKE i \in 1 .. Len(b)
    <3> DEFINE k == i + Len(a)
    <3>1. /\ k \in 1 .. Len(a) + Len(b) /\ k \in 1 .. Len(c) + Len(d)
          /\ ~(k <= Len(a)) /\ ~(k <= Len(c)) /\ k - Len(a) = i /\ k - Len(c) = i
      BY <1>1, <1>2, <2>3
    <3> HIDE DEF k
    <3> QED
      BY <1>0, <1>1, <3>1
  <2>5. b = d
    BY <2>3, <2>4, SeqEqual
  <2> QED
    BY <2>2, <2>5
<1>3. ASSUME a # << >>, c # << >>
      PROVE  Head(a) = Head(c)
  <2>1. Len(a) > 0 /\ Len(c) > 0
    BY <1>3, EmptySeq
  <2>2. /\ 1 \in 1 .. Len(a) + Len(b) /\ 1 \in 1 .. Len(c) + Len(d)
        /\ 1 <= Len(a) /\ 1 <= Len(c)
    BY <1>1, <2>1
  <2>3. a[1] = c[1]
    BY <1>0, <1>1, <2>2
  <2> QED
    BY <1>3, <2>3
<1> QED
  BY <1>2, <1>3

\* What has arrived at the host begins as the oldest answer does; and if it is
\* as long as its first byte says, it is that answer.
LEMMA OldestAnswer ==
  ASSUME NEW arrived \in Seq(Byte), NEW rest \in Seq(Byte), NEW answers \in Seq(Answer),
         arrived # << >>, arrived \o rest = Protocol!EncodeAll(answers)
  PROVE  /\ answers # << >> /\ ~Protocol!unexpected(arrived)
         /\ Protocol!Needed(Head(arrived)) \in Nat \ {0}
         /\ Len(arrived) = Protocol!Needed(Head(arrived)) =>
              /\ arrived = Protocol!Encode(Head(answers))
              /\ rest = Protocol!EncodeAll(Tail(answers))
<1>1. answers # << >>
  <2>1. Protocol!EncodeAll(<< >>) = << >>
    BY DEF Protocol!EncodeAll, Protocol!Sequence!FlattenSeq
  <2>2. arrived \o rest # << >>
    BY ConcatEqualIffEmpty
  <2> QED
    BY <2>1, <2>2
<1> DEFINE x == Protocol!Encode(Head(answers))
           y == Protocol!EncodeAll(Tail(answers))
<1>2. Head(answers) \in Answer /\ Tail(answers) \in Seq(Answer)
  BY <1>1, HeadTailProperties
<1>3. /\ x \in Seq(Byte) /\ x # << >> /\ Len(x) = Protocol!Needed(Head(x))
      /\ ~Protocol!unexpected(x)
  BY <1>2, TagTells
<1>4. y \in Seq(Byte)
  BY <1>2, EncodeLast
<1>5. arrived \o rest = x \o y
  BY <1>1, EncodeFirst
<1> HIDE DEF x, y
<1>6. Head(arrived) = Head(x) /\ (Len(arrived) = Len(x) => arrived = x /\ rest = y)
  <2>1. Join(arrived, rest) = Join(x, y)
    BY <1>5, Zenon DEF Join
  <2> QED
    BY <1>3, <1>4, <2>1, SameCut
<1>7. Protocol!unexpected(arrived) <=> Protocol!unexpected(x)
  BY <1>6 DEF Protocol!unexpected
<1>8. Len(x) \in Nat \ {0}
  BY <1>3, EmptySeq
<1> QED
  BY <1>1, <1>3, <1>6, <1>7, <1>8 DEF x, y

\* One edge: the answer that the serializer was given is at the end of the wire,
\* and the one that the host has read is gone from its front.
LEMMA WireStep ==
  ASSUME NEW in, WireInv, SerializerTypes, SerializerTypes', ShiftHasBytes,
         Filter!ServiceTypeOK, buffer \in Seq(Byte), Serializer(in), Reads(in),
         issued' = (IF Parses(in) THEN Tail(issued) ELSE issued) \o NewAnswers(in)
  PROVE  /\ WireInv'
         /\ Parses(in) => issued # << >> /\ Arrived(in) = Protocol!Encode(Head(issued))
<1>1. PICK bytes \in Seq(Byte), given \in Seq(Byte) :
        /\ Push(bytes, in) /\ Len(bytes) <= 1
        /\ bytes = << >> \/ ~txf_full
        /\ bytes \o InSerializer' = InSerializer \o given
        /\ \/ NewAnswers(in) = << >> /\ given = << >>
           \/ \E a \in Answer : NewAnswers(in) = <<a>> /\ given = Protocol!Encode(a)
  BY SerializerSends
<1> DEFINE out == Delivered(in)
           kept == TxFifo!Kept(in.tx_ready)
           arrived == Arrived(in)
           rest == (kept \o bytes) \o InSerializer'
<1>2. tx_queue \in Seq(Byte) /\ Len(tx_queue) <= TX_FIFO_DEPTH
  BY DEF WireInv, SerializerTypes
<1>3. /\ out \in Seq(Byte) /\ Len(out) <= 1 /\ kept \in Seq(Byte)
      /\ tx_queue = out \o kept /\ tx_queue' = kept \o bytes
      /\ Len(tx_queue') <= TX_FIFO_DEPTH
  BY <1>1, <1>2, QueueMoves
<1>4. InSerializer \in Seq(Byte) /\ InSerializer' \in Seq(Byte)
  <2>1. SerializerTypes => InSerializer \in Seq(Byte)
    BY InSerializerIs
  <2>2. (SerializerTypes => InSerializer \in Seq(Byte))'
    BY <2>1, InSerializerIs, PTL
  <2> QED
    BY <2>1, <2>2
<1>5. buffer = << >> \/ (~Protocol!unexpected(buffer) /\ ~Protocol!complete(buffer))
  BY DEF WireInv
<1>6. PICK answers \in Seq(Answer) :
        /\ answers = issued \o NewAnswers(in)
        /\ arrived \o rest = Protocol!EncodeAll(answers)
        /\ issued # << >> => Tail(answers) = Tail(issued) \o NewAnswers(in)
        /\ issued # << >> => Head(answers) = Head(issued)
        /\ issued = << >> => arrived = << >>
  <2>1. issued \in Seq(Answer) /\ (buffer \o tx_queue) \o InSerializer = Protocol!EncodeAll(issued)
    BY DEF WireInv
  <2>2. arrived \o rest = Protocol!EncodeAll(issued) \o given
    <3>1. arrived = buffer \o out
      BY DEF Arrived
    <3>2. (buffer \o out) \o ((kept \o bytes) \o InSerializer') =
            ((buffer \o (out \o kept)) \o InSerializer) \o given
      <4>1. /\ buffer \in Seq(Byte) /\ out \in Seq(Byte) /\ kept \in Seq(Byte)
            /\ bytes \in Seq(Byte) /\ given \in Seq(Byte)
        BY <1>3
      <4>2. Join(bytes, InSerializer') = Join(InSerializer, given)
        BY <1>1, Zenon DEF Join
      <4> HIDE DEF out, kept
      <4>3. Join(Join(buffer, out), Join(Join(kept, bytes), InSerializer')) =
              Join(Join(Join(buffer, Join(out, kept)), InSerializer), given)
        <5> DEFINE left == Join(InSerializer, given)
                   front == Join(buffer, Join(out, kept))
        <5>1. Join(Join(kept, bytes), InSerializer') = Join(kept, left)
          BY <1>4, <4>1, <4>2, JoinAssociates
        <5>2. left \in Seq(Byte) /\ Join(out, kept) \in Seq(Byte) /\ Join(buffer, out) \in Seq(Byte)
          BY <1>4, <4>1, JoinAssociates
        <5>3. front \in Seq(Byte)
          BY <4>1, <5>2, JoinAssociates
        <5>4. Join(front, left) = Join(Join(front, InSerializer), given)
          BY <1>4, <4>1, <5>3, JoinAssociates
        <5> HIDE DEF left
        <5>5. Join(Join(buffer, out), Join(kept, left)) = Join(Join(Join(buffer, out), kept), left)
          BY <4>1, <5>2, JoinAssociates
        <5>6. Join(Join(buffer, out), kept) = front
          BY <4>1, JoinAssociates
        <5> QED
          BY <5>1, <5>4, <5>5, <5>6, Zenon
      <4> QED
        BY <4>3, Zenon DEF Join
    <3> QED
      BY <1>3, <2>1, <3>1, <3>2, Zenon
  <2>3. issued = << >> => arrived = << >>
    <3> SUFFICES ASSUME issued = << >> PROVE arrived = << >>
      OBVIOUS
    <3>1. Protocol!EncodeAll(issued) = << >>
      BY DEF Protocol!EncodeAll, Protocol!Sequence!FlattenSeq
    <3>2. buffer \o tx_queue \in Seq(Byte)
      BY <1>2, ConcatProperties
    <3>3. buffer \o tx_queue = << >>
      BY <1>4, <2>1, <3>1, <3>2, ConcatEqualIffEmpty
    <3>4. buffer = << >> /\ tx_queue = << >>
      BY <1>2, <3>3, ConcatEqualIffEmpty
    <3>5. out = << >>
      BY <3>4 DEF Delivered, TxFifo!Delivered
    <3> QED
      BY <3>4, <3>5 DEF Arrived
  <2>4. CASE NewAnswers(in) = << >> /\ given = << >>
    <3>1. issued = issued \o NewAnswers(in)
      BY <2>1, <2>4
    <3>2. Protocol!EncodeAll(issued) \in Seq(Byte)
      <4>1. buffer \o tx_queue \in Seq(Byte)
        BY <1>2, ConcatProperties
      <4>2. (buffer \o tx_queue) \o InSerializer \in Seq(Byte)
        BY <1>4, <4>1, ConcatProperties
      <4> QED
        BY <2>1, <4>2, Zenon
    <3>3. Protocol!EncodeAll(issued) \o given = Protocol!EncodeAll(issued)
      BY <2>4, <3>2
    <3>4. issued # << >> => Tail(issued) = Tail(issued) \o NewAnswers(in)
      BY <2>1, <2>4, HeadTailProperties
    <3> QED
      BY <2>1, <2>2, <2>3, <3>1, <3>3, <3>4
  <2>5. ASSUME NEW a \in Answer, NewAnswers(in) = <<a>>, given = Protocol!Encode(a)
        PROVE  \E answers \in Seq(Answer) :
                 /\ answers = issued \o NewAnswers(in)
                 /\ arrived \o rest = Protocol!EncodeAll(answers)
                 /\ issued # << >> => Tail(answers) = Tail(issued) \o NewAnswers(in)
                 /\ issued # << >> => Head(answers) = Head(issued)
                 /\ issued = << >> => arrived = << >>
    <3>1. /\ Append(issued, a) \in Seq(Answer)
          /\ Append(issued, a) = issued \o <<a>>
      BY <2>1, AppendProperties, AppendIsConcat
    <3>2. Protocol!EncodeAll(Append(issued, a)) = Protocol!EncodeAll(issued) \o given
      BY <2>1, <2>5, EncodeLast
    <3>3. issued # << >> => /\ Tail(Append(issued, a)) = Tail(issued) \o <<a>>
                            /\ Head(Append(issued, a)) = Head(issued)
      BY <2>1, HeadTailAppend, HeadTailProperties, AppendIsConcat
    <3> QED
      BY <2>2, <2>3, <2>5, <3>1, <3>2, <3>3
  <2> QED
    BY <1>1, <2>4, <2>5
<1>7. /\ buffer \in Seq(Byte) /\ kept \o bytes \in Seq(Byte) /\ arrived \in Seq(Byte)
      /\ rest \in Seq(Byte) /\ arrived = buffer \o out
  <2>1. arrived = buffer \o out
    BY DEF Arrived
  <2>2. kept \o bytes \in Seq(Byte)
    BY <1>1, <1>3, ConcatProperties
  <2>3. buffer \o out \in Seq(Byte)
    BY <1>3, ConcatProperties
  <2>4. (kept \o bytes) \o InSerializer' \in Seq(Byte)
    BY <1>4, <2>2, ConcatProperties
  <2> QED
    BY <2>1, <2>2, <2>3, <2>4
<1>8. /\ Len(buffer) \in Nat /\ Len(out) \in Nat /\ Len(out) <= 1
      /\ Len(arrived) = Len(buffer) + Len(out)
  <2>1. Len(buffer) \in Nat /\ Len(out) \in Nat
    BY <1>3, <1>7, LenProperties
  <2>2. Len(buffer \o out) = Len(buffer) + Len(out)
    BY <1>3, <1>7, ConcatProperties
  <2>3. Len(arrived) = Len(buffer) + Len(out)
    BY <1>7, <2>2, Zenon
  <2>4. Len(out) <= 1
    BY <1>3
  <2> QED
    BY <2>1, <2>3, <2>4, Zenon
<1>9. out = << >> => arrived = buffer
  BY <1>7
<1>10. out # << >> => arrived # << >> /\ Len(out) = 1
  <2> SUFFICES ASSUME out # << >> PROVE arrived # << >> /\ Len(out) = 1
    OBVIOUS
  <2>1. Len(out) # 0
    BY <1>3, EmptySeq
  <2>2. Len(out) = 1
    <3>1. \A n \in Nat : n <= 1 /\ n # 0 => n = 1
      OBVIOUS
    <3> QED
      BY <1>8, <2>1, <3>1, Zenon
  <2>3. Len(arrived) # 0
    <3>1. \A n \in Nat : n + 1 # 0
      OBVIOUS
    <3> QED
      BY <1>8, <2>2, <3>1, Zenon
  <2>4. arrived # << >>
    BY <1>7, <2>3, EmptySeq
  <2> QED
    BY <2>2, <2>4
<1>11. arrived # << >> =>
         /\ ~Protocol!unexpected(arrived)
         /\ Protocol!Needed(Head(arrived)) \in Nat \ {0}
         /\ Len(arrived) = Protocol!Needed(Head(arrived)) =>
              /\ arrived = Protocol!Encode(Head(answers))
              /\ rest = Protocol!EncodeAll(Tail(answers))
  <2>1. arrived \in Seq(Byte) /\ rest \in Seq(Byte) /\ arrived \o rest = Protocol!EncodeAll(answers)
    BY <1>6, <1>7
  <2> HIDE DEF arrived, rest
  <2> QED
    BY <2>1, OldestAnswer, Zenon
<1>12. tx_queue' = kept \o bytes /\ Len(tx_queue') <= TX_FIFO_DEPTH
  BY <1>3
<1>13. CASE Parses(in)
  <2>1. out # << >> /\ Protocol!complete(arrived)
    BY <1>13 DEF Parses
  <2>2. arrived # << >> /\ Len(out) = 1
    BY <1>10, <2>1
  <2>3. buffer' = << >> /\ issued # << >> /\ issued' = Tail(answers)
    BY <1>6, <1>13, <2>2 DEF Reads
  <2>4. Len(arrived) >= Protocol!Needed(Head(arrived))
    BY <2>1 DEF Protocol!complete
  <2>5. Len(arrived) <= Protocol!Needed(Head(arrived))
    <3>1. CASE buffer = << >>
      <4>1. Len(buffer) = 0
        BY <3>1
      <4> QED
        BY <1>8, <1>11, <2>2, <4>1
    <3>2. CASE buffer # << >>
      <4>1. Head(arrived) = Head(buffer)
        <5>1. Len(buffer) > 0
          BY <1>7, <3>2, EmptySeq
        <5>2. arrived[1] = buffer[1]
          BY <1>3, <1>7, <1>8, <5>1, ConcatProperties
        <5> QED
          BY <2>2, <3>2, <5>2
      <4>2. ~(Len(buffer) >= Protocol!Needed(Head(buffer)))
        BY <1>5, <3>2 DEF Protocol!complete
      <4> QED
        BY <1>8, <1>11, <2>2, <4>1, <4>2
    <3> QED
      BY <3>1, <3>2
  <2>6. rest = Protocol!EncodeAll(Tail(answers)) /\ arrived = Protocol!Encode(Head(answers))
    BY <1>8, <1>11, <2>2, <2>4, <2>5
  <2>7. (buffer' \o tx_queue') \o InSerializer' = rest
    <3>1. << >> \o (kept \o bytes) = kept \o bytes
      BY <1>7
    <3> QED
      BY <1>12, <2>3, <3>1
  <2>8. answers # << >> /\ Tail(answers) \in Seq(Answer)
    <3> HIDE DEF arrived, rest
    <3>1. answers # << >>
      BY <1>6, <1>7, <2>2, OldestAnswer
    <3> QED
      BY <3>1, HeadTailProperties
  <2>9. WireInv'
    BY <1>12, <2>3, <2>6, <2>7, <2>8 DEF WireInv
  <2> QED
    BY <1>6, <2>3, <2>6, <2>9
<1>14. CASE ~Parses(in)
  <2>1. buffer' = arrived /\ issued' = answers
    BY <1>6, <1>14 DEF Reads
  <2>2. (buffer' \o tx_queue') \o InSerializer' = arrived \o rest
    <3> DEFINE queue == kept \o bytes
    <3>1. arrived \in Seq(Byte) /\ queue \in Seq(Byte) /\ tx_queue' = queue
      BY <1>7, <1>12
    <3> HIDE DEF queue, arrived
    <3>2. Join(Join(arrived, queue), InSerializer') = Join(arrived, Join(queue, InSerializer'))
      BY <1>4, <3>1, JoinAssociates
    <3> QED
      BY <2>1, <3>1, <3>2, Zenon DEF queue, Join
  <2>3. arrived # << >> => ~Protocol!complete(arrived)
    <3>1. CASE out = << >>
      BY <1>5, <1>9, <3>1
    <3>2. CASE out # << >>
      BY <1>14, <3>2 DEF Parses
    <3> QED
      BY <3>1, <3>2
  <2>4. arrived # << >> => ~Protocol!unexpected(arrived)
    BY <1>11, Zenon
  <2>5. arrived \o rest = Protocol!EncodeAll(answers)
    BY <1>6
  <2> HIDE DEF arrived, rest
  <2>6. WireInv'
    BY <1>12, <2>1, <2>2, <2>3, <2>4, <2>5 DEF WireInv
  <2> QED
    BY <1>14, <2>6
<1> QED
  BY <1>13, <1>14

\* Nothing is on the wire at first, nor after a reset of the board.
LEMMA WireEmpty ==
  issued = << >> /\ tx_queue = << >> /\ buffer = << >> /\ ser = "S_IDLE" => WireInv
<1> SUFFICES ASSUME issued = << >>, tx_queue = << >>, buffer = << >>, ser = "S_IDLE"
             PROVE  WireInv
  OBVIOUS
<1>1. Protocol!EncodeAll(issued) = << >>
  BY DEF Protocol!EncodeAll, Protocol!Sequence!FlattenSeq
<1>2. InSerializer = << >>
  BY Zenon DEF InSerializer
<1>3. (buffer \o tx_queue) \o InSerializer = << >>
  BY <1>2
<1>4. Len(tx_queue) <= TX_FIFO_DEPTH
  BY CoreAssumption
<1>5. issued \in Seq(Answer)
  OBVIOUS
<1> QED
  BY <1>1, <1>3, <1>4, <1>5 DEF WireInv

\* Every step keeps the wire in order.
LEMMA WireNext == CoreInv /\ CoreInv' /\ WireInv /\ [Next]_vars => WireInv'
<1>1. (issued = << >> /\ tx_queue = << >> /\ buffer = << >> /\ ser = "S_IDLE" => WireInv)'
  BY WireEmpty, PTL
<1>2. (CoreInv => SerializerTypes)'
  <2>1. CoreInv => SerializerTypes
    BY CoreInvParts DEF CoreTypes
  <2> QED
    BY <2>1, PTL
<1> SUFFICES ASSUME CoreInv, CoreInv', WireInv, [Next]_vars PROVE WireInv'
  OBVIOUS
<1>3. CASE Tick
  <2>1. PICK byte \in {<< >>} \cup {<<Head(t)>> : t \in Texts},
             pass \in Passes, tx_ready \in TxReady :
          LET in == [rx |-> byte, beat_pass |-> pass, result_pass |-> pass,
                     tx_ready |-> tx_ready]
          IN Clock(in) /\ Reads(in) /\ Follow(in)
    BY <1>3 DEF Tick
  <2> DEFINE in == [rx |-> byte, beat_pass |-> pass, result_pass |-> pass,
                    tx_ready |-> tx_ready]
  <2>2. Clock(in) /\ Reads(in) /\ Follow(in)
    BY <2>1
  <2> HIDE DEF in
  <2>3. Serializer(in)
    BY <2>2 DEF Clock
  <2>4. issued' = (IF Parses(in) THEN Tail(issued) ELSE issued) \o NewAnswers(in)
    BY <2>2 DEF Follow, Issues
  <2>5. CoreTypes /\ ShiftHasBytes
    BY CoreInvParts
  <2>6. SerializerTypes /\ Filter!ServiceTypeOK /\ buffer \in Seq(Byte)
    BY <2>5 DEF CoreTypes
  <2>7. SerializerTypes'
    BY <1>2
  <2> QED
    BY <2>2, <2>3, <2>4, <2>5, <2>6, <2>7, WireStep
<1>4. CASE Reset
  <2>1. issued' = << >> /\ tx_queue' = << >> /\ buffer' = << >> /\ ser' = "S_IDLE"
    BY <1>4 DEF Reset, BoardReset
  <2> QED
    BY <1>1, <2>1
<1>5. CASE UNCHANGED vars
  BY <1>5 DEF vars, coreVars, commandVars, ghostVars, WireInv, InSerializer
<1> QED
  BY <1>3, <1>4, <1>5 DEF Next

\* The board and the wire to the host, together.
THEOREM BoardInvHolds == Spec => []BoardInv
<1>1. Init => WireInv
  BY WireEmpty DEF Init, CoreInit
<1>2. CoreInv /\ WireInv => BoardInv
  BY DEF BoardInv
<1> QED
  BY <1>1, <1>2, WireNext, CoreInvHolds, PTL DEF Spec

\* What is on its way to the host is the encoding of whole answers, one after
\* the other and none of them lost, so that ResponseParser.feed never meets a
\* byte it does not expect (hw_test_core.sv:181-278, hw_protocol.py:64-91).
THEOREM AnswersArrive == Spec => []AnswersOnWire
<1>1. BoardInv => AnswersOnWire
  BY DEF BoardInv, WireInv, AnswersOnWire
<1> QED
  BY <1>1, BoardInvHolds, PTL

-----------------------------------------------------------------------------
(* Counting records among answers. *)

IsResult(a) == a.kind = "result"

\* One answer more to look at, and one sequence instead of another that agrees
\* with it so far.
LEMMA CountsUp ==
  ASSUME NEW answers, NEW n \in Nat
  PROVE  /\ ResultsBefore(answers, n) \in Nat
         /\ ResultsBefore(answers, 1) = 0
         /\ n > 0 => ResultsBefore(answers, n + 1) =
                       ResultsBefore(answers, n) + OneBit(IsResult(answers[n]))
<1> DEFINE Found(k) == {i \in 1 .. k - 1 : answers[i].kind = "result"}
<1>1. \A k \in Nat : IsFiniteSet(Found(k)) /\ Cardinality(Found(k)) \in Nat
  <2> TAKE k \in Nat
  <2>1. IsFiniteSet(1 .. k - 1)
    BY FS_Interval
  <2>2. IsFiniteSet(Found(k))
    BY <2>1, FS_Subset
  <2> QED
    BY <2>2, FS_CardinalityType
<1>2. \A k \in Nat : ResultsBefore(answers, k) = Cardinality(Found(k))
  BY DEF ResultsBefore
<1>3. Cardinality(Found(1)) = 0
  <2>1. Found(1) = {}
    OBVIOUS
  <2> QED
    BY <2>1, FS_EmptySet
<1>4. ASSUME n > 0
      PROVE  Cardinality(Found(n + 1)) = Cardinality(Found(n)) + OneBit(IsResult(answers[n]))
  <2>1. CASE IsResult(answers[n])
    <3>1. Found(n + 1) = Found(n) \cup {n} /\ n \notin Found(n)
      BY <1>4, <2>1 DEF IsResult
    <3>2. Cardinality(Found(n) \cup {n}) = Cardinality(Found(n)) + 1
      <4> HIDE DEF Found
      <4> QED
        BY <1>1, <3>1, FS_AddElement
    <3> QED
      BY <2>1, <3>1, <3>2 DEF OneBit
  <2>2. CASE ~IsResult(answers[n])
    <3>1. Found(n + 1) = Found(n)
      BY <1>4, <2>2 DEF IsResult
    <3> HIDE DEF Found
    <3> QED
      BY <1>1, <2>2, <3>1 DEF OneBit
  <2> QED
    BY <2>1, <2>2
<1> HIDE DEF Found
<1>5. n + 1 \in Nat /\ 1 \in Nat
  OBVIOUS
<1> QED
  BY <1>1, <1>2, <1>3, <1>4, <1>5

LEMMA CountsAlike ==
  ASSUME NEW s, NEW t, NEW n \in Nat, \A i \in 1 .. n - 1 : s[i] = t[i]
  PROVE  ResultsBefore(s, n) = ResultsBefore(t, n)
<1>1. {i \in 1 .. n - 1 : s[i].kind = "result"} = {i \in 1 .. n - 1 : t[i].kind = "result"}
  OBVIOUS
<1> QED
  BY <1>1 DEF ResultsBefore

\* Those in a sequence that begins with m others.
LEMMA CountsOn ==
  ASSUME NEW s, NEW t, NEW m \in Nat, NEW n \in Nat,
         \A i \in 1 .. n : t[i] = s[m + i]
  PROVE  \A k \in 1 .. n + 1 :
           ResultsBefore(s, m + k) = ResultsBefore(s, m + 1) + ResultsBefore(t, k)
<1> DEFINE Bad == {k \in 1 .. n + 1 :
                     ResultsBefore(s, m + k) # ResultsBefore(s, m + 1) + ResultsBefore(t, k)}
<1> SUFFICES ASSUME Bad # {} PROVE FALSE
  OBVIOUS
<1>1. Bad \in SUBSET Nat
  OBVIOUS
<1>2. PICK k \in Bad : \A j \in Bad : k <= j
  BY <1>1, LeastNumber
<1>3. /\ k \in 1 .. n + 1
      /\ ResultsBefore(s, m + k) # ResultsBefore(s, m + 1) + ResultsBefore(t, k)
  OBVIOUS
<1>4. k # 1
  <2>1. ResultsBefore(s, m + 1) \in Nat /\ ResultsBefore(t, 1) = 0
    BY CountsUp
  <2> HIDE DEF Bad
  <2> QED
    BY <1>3, <2>1
<1>5. k - 1 \in 1 .. n + 1 /\ k - 1 \in 1 .. n /\ ~(k <= k - 1) /\ k - 1 \in Nat /\ k - 1 > 0
  BY <1>3, <1>4
<1>6. k - 1 \notin Bad
  BY <1>2, <1>5, Zenon
<1>7. ResultsBefore(s, m + (k - 1)) = ResultsBefore(s, m + 1) + ResultsBefore(t, k - 1)
  BY <1>5, <1>6
<1>8. ResultsBefore(s, m + k) = ResultsBefore(s, m + (k - 1)) + OneBit(IsResult(s[m + (k - 1)]))
  <2> DEFINE j == m + (k - 1)
  <2>1. j \in Nat /\ j > 0 /\ j + 1 = m + k
    BY <1>5
  <2> HIDE DEF j
  <2>2. ResultsBefore(s, j + 1) = ResultsBefore(s, j) + OneBit(IsResult(s[j]))
    BY <2>1, CountsUp
  <2> QED
    BY <2>1, <2>2, Zenon DEF j
<1>9. ResultsBefore(t, k) = ResultsBefore(t, k - 1) + OneBit(IsResult(t[k - 1]))
  <2> DEFINE j == k - 1
  <2>1. j \in Nat /\ j > 0 /\ j + 1 = k
    BY <1>5
  <2> HIDE DEF j
  <2>2. ResultsBefore(t, j + 1) = ResultsBefore(t, j) + OneBit(IsResult(t[j]))
    BY <2>1, CountsUp
  <2> QED
    BY <2>1, <2>2, Zenon DEF j
<1>10. t[k - 1] = s[m + (k - 1)]
  BY <1>5
<1>11. /\ ResultsBefore(s, m + 1) \in Nat /\ ResultsBefore(t, k - 1) \in Nat
       /\ OneBit(IsResult(t[k - 1])) \in Nat
  BY <1>5, CountsUp DEF OneBit
<1> HIDE DEF Bad
<1> QED
  BY <1>3, <1>7, <1>8, <1>9, <1>10, <1>11

\* Without the oldest answer, and with one more.
LEMMA ResultsMove ==
  ASSUME NEW answers \in Seq(Answer)
  PROVE  /\ Results(answers) \in Nat
         /\ answers # << >> =>
              Results(answers) = Results(Tail(answers)) + OneBit(IsResult(Head(answers)))
         /\ \A a \in Answer : Results(Append(answers, a)) = Results(answers) + OneBit(IsResult(a))
<1> DEFINE n == Len(answers)
<1>1. n \in Nat /\ n + 1 \in Nat
  BY LenProperties
<1>2. Results(answers) \in Nat
  BY <1>1, CountsUp DEF Results
<1>3. ASSUME answers # << >>
      PROVE  Results(answers) = Results(Tail(answers)) + OneBit(IsResult(Head(answers)))
  <2> DEFINE rest == Tail(answers)
             k == n - 1
  <2>1. /\ rest \in Seq(Answer) /\ Len(rest) = k /\ n > 0
        /\ \A i \in 1 .. k : rest[i] = answers[i + 1]
        /\ Head(answers) = answers[1]
    BY <1>1, <1>3, HeadTailProperties, EmptySeq
  <2>2. k \in Nat /\ k + 1 \in 1 .. k + 1 /\ 1 + (k + 1) = n + 1 /\ 1 + 1 = 2
    BY <1>1, <2>1
  <2>3. \A i \in 1 .. k : rest[i] = answers[1 + i]
    BY <2>1
  <2> HIDE DEF rest
  <2>4. ResultsBefore(answers, 1 + (k + 1)) =
          ResultsBefore(answers, 1 + 1) + ResultsBefore(rest, k + 1)
    <3> HIDE DEF k
    <3>1. k \in Nat
      BY <2>2
    <3>2. PICK m \in Nat : m = 1
      OBVIOUS
    <3>3. \A i \in 1 .. k : rest[i] = answers[m + i]
      BY <2>3, <3>2
    <3>4. \A j \in 1 .. k + 1 :
            ResultsBefore(answers, m + j) = ResultsBefore(answers, m + 1) + ResultsBefore(rest, j)
      BY <3>1, <3>3, CountsOn
    <3> QED
      BY <2>2, <3>2, <3>4
  <2>5. ResultsBefore(answers, 1 + 1) = 0 + OneBit(IsResult(answers[1]))
    <3>1. ResultsBefore(answers, 1) = 0
      BY CountsUp
    <3>2. ResultsBefore(answers, 1 + 1) = ResultsBefore(answers, 1) + OneBit(IsResult(answers[1]))
      BY CountsUp
    <3> QED
      BY <3>1, <3>2, Zenon
  <2>6. OneBit(IsResult(answers[1])) \in Nat /\ ResultsBefore(rest, k + 1) \in Nat
    <3>1. k + 1 \in Nat
      BY <2>2
    <3> HIDE DEF k
    <3> QED
      BY <3>1, CountsUp DEF OneBit
  <2>7. Results(rest) = ResultsBefore(rest, k + 1)
    BY <2>1 DEF Results
  <2>8. Results(answers) = ResultsBefore(answers, n + 1)
    BY DEF Results
  <2> HIDE DEF n, k
  <2> QED
    BY <2>1, <2>2, <2>4, <2>5, <2>6, <2>7, <2>8 DEF rest
<1>4. ASSUME NEW a \in Answer
      PROVE  Results(Append(answers, a)) = Results(answers) + OneBit(IsResult(a))
  <2> DEFINE more == Append(answers, a)
  <2>1. Len(more) = n + 1 /\ more[n + 1] = a /\ \A i \in 1 .. n : more[i] = answers[i]
    BY AppendProperties
  <2> HIDE DEF more
  <2>2. Results(more) = ResultsBefore(more, (n + 1) + 1)
    BY <2>1 DEF Results
  <2> DEFINE k == n + 1
  <2>3. k \in Nat /\ k > 0 /\ \A i \in 1 .. k - 1 : more[i] = answers[i]
    BY <1>1, <2>1
  <2> HIDE DEF k
  <2>4. ResultsBefore(more, k + 1) = ResultsBefore(more, k) + OneBit(IsResult(more[k]))
    BY <2>3, CountsUp
  <2>5. ResultsBefore(more, k) = ResultsBefore(answers, k)
    BY <2>3, CountsAlike
  <2> QED
    BY <2>1, <2>2, <2>4, <2>5, Zenon DEF more, k, Results
<1> QED
  BY <1>2, <1>3, <1>4

LEMMA NoResults == Results(<< >>) = 0
BY CountsUp DEF Results

-----------------------------------------------------------------------------
(* What the parser has not read, on one edge. *)

\* The parser takes a byte from the FIFO.
Popped == rxf_pop /\ ~rxf_empty

\* The line delivers its next byte, or none.
LineMoves(rx) ==
  \/ rx = << >> /\ line' = line
  \/ line # << >> /\ rx = <<Head(line)>> /\ line' = Tail(line)

LEMMA Regroup ==
  ASSUME NEW S, NEW out \in Seq(S), NEW kept \in Seq(S), NEW more \in Seq(S),
         NEW rx \in Seq(S), NEW rest \in Seq(S)
  PROVE  Join(Join(Join(out, kept), more), Join(rx, rest)) =
           Join(out, Join(Join(Join(kept, more), rx), rest))
<1>1. Join(kept, more) \in Seq(S) /\ Join(rx, rest) \in Seq(S)
  BY JoinAssociates
<1>2. Join(Join(out, kept), more) = Join(out, Join(kept, more))
  BY JoinAssociates
<1>3. Join(Join(out, Join(kept, more)), Join(rx, rest)) =
        Join(out, Join(Join(kept, more), Join(rx, rest)))
  <2> DEFINE middle == Join(kept, more)
             end == Join(rx, rest)
  <2>1. middle \in Seq(S) /\ end \in Seq(S)
    BY <1>1
  <2> HIDE DEF middle, end
  <2> QED
    BY <2>1, JoinAssociates
<1>4. Join(Join(kept, more), Join(rx, rest)) = Join(Join(Join(kept, more), rx), rest)
  <2> DEFINE middle == Join(kept, more)
  <2>1. middle \in Seq(S)
    BY <1>1
  <2> HIDE DEF middle
  <2> QED
    BY <2>1, JoinAssociates
<1> QED
  BY <1>2, <1>3, <1>4, Zenon

\* It loses the byte the parser takes, and nothing else unless the FIFO is full.
LEMMA UnreadMoves ==
  ASSUME rx_visible \in Seq(Byte), rx_arriving \in Seq(Byte), line \in Seq(Byte),
         Len(rx_visible) + Len(rx_arriving) <= RX_FIFO_DEPTH,
         NEW rx, LineMoves(rx), RxFifo!Move(rx, rxf_pop)
  PROVE  /\ rx_visible' \in Seq(Byte) /\ rx_arriving' \in Seq(Byte) /\ line' \in Seq(Byte)
         /\ Len(rx_visible') + Len(rx_arriving') <= RX_FIFO_DEPTH
         /\ Unread \in Seq(Byte) /\ Unread' \in Seq(Byte)
         /\ Popped => Unread # << >> /\ rxf_data = Head(Unread)
         /\ rx = << >> \/ ~rxf_full =>
              Unread' = IF Popped THEN Tail(Unread) ELSE Unread
         /\ Len(Unread') <= Len(Unread) - OneBit(Popped)
         /\ Len(Unread) = Len(rx_visible) + Len(rx_arriving) + Len(line)
<1> DEFINE out == IF Popped THEN <<Head(rx_visible)>> ELSE << >>
           kept == RxFifo!Kept(rxf_pop)
           taken == RxFifo!Accepted(rx)
           left == Join(Join(Join(kept, rx_arriving), taken), line')
           all == Join(Join(Join(kept, rx_arriving), rx), line')
<1>1. RX_FIFO_DEPTH \in Nat \ {0}
  BY CoreAssumption
<1>2. /\ out \in Seq(Byte) /\ kept \in Seq(Byte) /\ rx_visible = Join(out, kept)
      /\ Len(out) = OneBit(Popped) /\ Len(rx_visible) = OneBit(Popped) + Len(kept)
  <2>1. CASE Popped
    <3>1. kept = Tail(rx_visible) /\ out = <<Head(rx_visible)>> /\ rx_visible # << >>
      BY <2>1 DEF RxFifo!Kept, RxFifo!Delivered, Popped, rxf_empty
    <3>2. /\ Head(rx_visible) \in Byte /\ Tail(rx_visible) \in Seq(Byte)
          /\ Len(Tail(rx_visible)) = Len(rx_visible) - 1
          /\ rx_visible = <<Head(rx_visible)>> \o Tail(rx_visible)
      BY <3>1, HeadTailProperties
    <3>3. <<Head(rx_visible)>> \in Seq(Byte) /\ Len(<<Head(rx_visible)>>) = 1
      BY <3>2
    <3>4. Len(rx_visible) \in Nat
      BY LenProperties
    <3> QED
      BY <2>1, <3>1, <3>2, <3>3, <3>4 DEF Join, OneBit
  <2>2. CASE ~Popped
    <3>1. kept = rx_visible /\ out = << >>
      BY <2>2 DEF RxFifo!Kept, RxFifo!Delivered, Popped, rxf_empty
    <3>2. << >> \o rx_visible = rx_visible /\ << >> \in Seq(Byte) /\ Len(<< >>) = 0
      BY ConcatEmptySeq, EmptySeq
    <3>3. Len(rx_visible) \in Nat
      BY LenProperties
    <3> QED
      BY <2>2, <3>1, <3>2, <3>3 DEF Join, OneBit
  <2> QED
    BY <2>1, <2>2
<1>3. /\ rx \in Seq(Byte) /\ line' \in Seq(Byte) /\ line = Join(rx, line')
      /\ Len(rx) <= 1 /\ Len(line) = Len(rx) + Len(line')
  <2>1. CASE rx = << >> /\ line' = line
    <3>1. << >> \o line = line /\ << >> \in Seq(Byte) /\ Len(<< >>) = 0
      BY ConcatEmptySeq, EmptySeq
    <3>2. Len(line) \in Nat
      BY LenProperties
    <3> QED
      BY <2>1, <3>1, <3>2 DEF Join
  <2>2. CASE line # << >> /\ rx = <<Head(line)>> /\ line' = Tail(line)
    <3>1. /\ Head(line) \in Byte /\ Tail(line) \in Seq(Byte)
          /\ Len(Tail(line)) = Len(line) - 1 /\ line = <<Head(line)>> \o Tail(line)
      BY <2>2, HeadTailProperties
    <3>2. <<Head(line)>> \in Seq(Byte) /\ Len(<<Head(line)>>) = 1
      BY <3>1
    <3>3. Len(line) \in Nat
      BY LenProperties
    <3> QED
      BY <2>2, <3>1, <3>2, <3>3 DEF Join
  <2> QED
    BY <2>1, <2>2 DEF LineMoves
<1>4. /\ rx_visible' = Join(kept, rx_arriving) /\ rx_arriving' = taken
      /\ taken = IF Len(rx_visible) + Len(rx_arriving) < RX_FIFO_DEPTH THEN rx ELSE << >>
  BY DEF RxFifo!Move, RxFifo!Accepted, Join
<1>5. taken \in Seq(Byte) /\ Len(taken) <= Len(rx)
      /\ (rx = << >> \/ ~rxf_full => taken = rx)
  <2>1. << >> \in Seq(Byte) /\ Len(<< >>) = 0 /\ Len(rx) \in Nat
    BY <1>3, EmptySeq, LenProperties
  <2>2. ~rxf_full => Len(rx_visible) + Len(rx_arriving) < RX_FIFO_DEPTH
    <3>1. Len(rx_visible) \in Nat /\ Len(rx_arriving) \in Nat
      BY LenProperties
    <3> QED
      BY <1>1, <3>1 DEF rxf_full
  <2> HIDE DEF taken
  <2> QED
    BY <1>3, <1>4, <2>1, <2>2
<1> HIDE DEF out, kept, taken
<1>6. /\ Len(rx_visible) \in Nat /\ Len(rx_arriving) \in Nat /\ Len(line) \in Nat
      /\ Len(kept) \in Nat /\ Len(taken) \in Nat /\ Len(rx) \in Nat /\ Len(line') \in Nat
  BY <1>2, <1>3, <1>5, LenProperties
<1>7. /\ rx_visible' \in Seq(Byte) /\ Len(rx_visible') = Len(kept) + Len(rx_arriving)
  BY <1>2, <1>4, ConcatProperties DEF Join
<1>8. /\ Unread' = left /\ Unread' \in Seq(Byte)
      /\ Len(Unread') = Len(kept) + Len(rx_arriving) + Len(taken) + Len(line')
  <2>1. Unread' = (rx_visible' \o rx_arriving') \o line'
    BY DEF Unread
  <2>2. Unread' = left
    BY <1>4, <2>1, Zenon DEF Join
  <2>3. /\ rx_visible' \o taken \in Seq(Byte)
        /\ Len(rx_visible' \o taken) = Len(kept) + Len(rx_arriving) + Len(taken)
    BY <1>5, <1>7, ConcatProperties
  <2>4. /\ (rx_visible' \o taken) \o line' \in Seq(Byte)
        /\ Len((rx_visible' \o taken) \o line') =
             Len(kept) + Len(rx_arriving) + Len(taken) + Len(line')
    <3> DEFINE front == rx_visible' \o taken
    <3>1. front \in Seq(Byte) /\ Len(front) = Len(kept) + Len(rx_arriving) + Len(taken)
      BY <2>3
    <3> HIDE DEF front
    <3>2. front \o line' \in Seq(Byte) /\ Len(front \o line') = Len(front) + Len(line')
      BY <1>3, <3>1, ConcatProperties
    <3> QED
      BY <3>1, <3>2, Zenon DEF front
  <2>5. rx_arriving' = taken
    BY <1>4
  <2> QED
    BY <2>1, <2>2, <2>4, <2>5, Zenon
<1>9. /\ Unread = Join(out, all) /\ all \in Seq(Byte)
      /\ Len(Unread) = Len(rx_visible) + Len(rx_arriving) + Len(line) /\ Unread \in Seq(Byte)
  <2>1. Unread = Join(Join(rx_visible, rx_arriving), line)
    BY Zenon DEF Unread, Join
  <2>2. Join(Join(rx_visible, rx_arriving), line) = Join(out, all)
    <3>1. Join(Join(Join(out, kept), rx_arriving), Join(rx, line')) = Join(out, all)
      BY <1>2, <1>3, Regroup
    <3> QED
      BY <1>2, <1>3, <3>1, Zenon
  <2>3. all \in Seq(Byte)
    <3>1. Join(kept, rx_arriving) \in Seq(Byte)
      BY <1>2, JoinAssociates
    <3>2. Join(Join(kept, rx_arriving), rx) \in Seq(Byte)
      BY <1>3, <3>1, ConcatProperties DEF Join
    <3> QED
      BY <1>3, <3>2, ConcatProperties DEF Join
  <2>4. /\ rx_visible \o rx_arriving \in Seq(Byte)
        /\ Len(rx_visible \o rx_arriving) = Len(rx_visible) + Len(rx_arriving)
    BY ConcatProperties
  <2>5. Len(Unread) = Len(rx_visible) + Len(rx_arriving) + Len(line) /\ Unread \in Seq(Byte)
    BY <2>4, ConcatProperties DEF Unread
  <2> QED
    BY <2>1, <2>2, <2>3, <2>5, Zenon
<1>10. rx = << >> \/ ~rxf_full => Unread' = all
  BY <1>5, <1>8
<1>11. ASSUME Popped
       PROVE  Unread # << >> /\ rxf_data = Head(Unread) /\ all = Tail(Unread)
  <2>1. out = <<Head(rx_visible)>> /\ rx_visible # << >> /\ rxf_data = Head(rx_visible)
    BY <1>11, Zenon DEF out, Popped, rxf_data, rxf_empty
  <2> HIDE DEF all
  <2>2. Unread = <<Head(rx_visible)>> \o all
    BY <1>9, <2>1, Zenon DEF Join
  <2>3. \A h \in Byte : \A s \in Seq(Byte) :
          <<h>> \o s # << >> /\ Head(<<h>> \o s) = h /\ Tail(<<h>> \o s) = s
    OBVIOUS
  <2>4. Head(rx_visible) \in Byte
    BY <2>1, HeadTailProperties
  <2> QED
    BY <1>9, <2>1, <2>2, <2>3, <2>4, Zenon
<1>12. ~Popped => Unread = all
  <2>1. ~Popped => out = << >>
    BY DEF out
  <2>2. << >> \o all = all
    BY <1>9, ConcatEmptySeq
  <2> QED
    BY <1>9, <2>1, <2>2, Zenon DEF Join
<1>13. Len(rx_visible') + Len(rx_arriving') <= RX_FIFO_DEPTH
  <2>1. rx_arriving' = taken /\ Len(<< >>) = 0 /\ OneBit(Popped) \in Nat
    BY <1>4 DEF OneBit
  <2>2. \/ Len(rx_visible) + Len(rx_arriving) < RX_FIFO_DEPTH
        \/ Len(taken) = 0
    BY <1>4, <2>1
  <2>3. Len(rx) <= 1
    BY <1>3
  <2>4. RX_FIFO_DEPTH \in Nat /\ Len(rx_visible') \in Nat /\ Len(rx_visible') = Len(kept) + Len(rx_arriving)
        /\ Len(rx_visible) = OneBit(Popped) + Len(kept) /\ Len(taken) <= Len(rx)
        /\ Len(rx_visible) + Len(rx_arriving) <= RX_FIFO_DEPTH
    BY <1>1, <1>2, <1>5, <1>7, LenProperties, CoreAssumption
  <2> QED
    BY ONLY <1>6, <2>1, <2>2, <2>3, <2>4
<1>14. Len(Unread') <= Len(Unread) - OneBit(Popped)
  <2>1. OneBit(Popped) \in Nat
    BY DEF OneBit
  <2>2. \A k, a, t, r, l, v, b \in Nat :
          v = b + k /\ t <= r => k + a + t + l <= (v + a + (r + l)) - b
    OBVIOUS
  <2>3. /\ Len(rx_visible) = OneBit(Popped) + Len(kept) /\ Len(taken) <= Len(rx)
        /\ Len(Unread') = Len(kept) + Len(rx_arriving) + Len(taken) + Len(line')
        /\ Len(Unread) = Len(rx_visible) + Len(rx_arriving) + (Len(rx) + Len(line'))
    BY <1>2, <1>3, <1>5, <1>8, <1>9, Zenon
  <2>4. Len(kept) + Len(rx_arriving) + Len(taken) + Len(line') <=
          (Len(rx_visible) + Len(rx_arriving) + (Len(rx) + Len(line'))) - OneBit(Popped)
    BY <1>6, <2>1, <2>2, <2>3, Zenon
  <2> QED
    BY <2>3, <2>4, Zenon
<1>15. rx_arriving' \in Seq(Byte)
  BY <1>4, <1>5
<1> QED
  BY <1>3, <1>7, <1>8, <1>9, <1>10, <1>11, <1>12, <1>13, <1>14, <1>15, Zenon

-----------------------------------------------------------------------------
(* What the host makes of an answer. *)

\* A sequence with one element more in front.
LEMMA OneMore ==
  ASSUME NEW S
  PROVE  \A t \in S : \A s \in Seq(S) :
           /\ <<t>> \o s \in Seq(S) /\ Len(<<t>> \o s) = 1 + Len(s) /\ Head(<<t>> \o s) = t
           /\ \A i \in 1 .. Len(s) : (<<t>> \o s)[1 + i] = s[i]
OBVIOUS

\* An answer comes out of ResponseParser as it went into the serializer.
LEMMA Decodes ==
  ASSUME NEW a \in Answer
  PROVE  Protocol!Answer(Protocol!Encode(a)) = a
<1> DEFINE x == Protocol!Encode(a)
<1>1. \A n \in Nat : Protocol!IsBeat(n) <=> n \in {176, 177, 178, 179}
  <2>1. \A n \in Nat : n \div 4 = 44 <=> n \in {176, 177, 178, 179}
    OBVIOUS
  <2>2. 176 \div 4 = 44
    OBVIOUS
  <2> QED
    BY <2>1, <2>2 DEF Protocol!IsBeat, Protocol!TAG_BEAT
<1>2. \A s : /\ Head(s) = 192 => Protocol!Answer(s) =
                  Protocol!ResultRecord([accept |-> s[2] = 1, sequence |-> s[1 + RESULT_BYTES]])
             /\ Head(s) # 192 /\ Protocol!IsBeat(Head(s)) => Protocol!Answer(s) =
                  Protocol!PayloadBeat([data |-> s[2], last |-> (Head(s) \div 2) % 2 = 1,
                                        error |-> Head(s) % 2 = 1])
             /\ Head(s) # 192 /\ ~Protocol!IsBeat(Head(s)) => Protocol!Answer(s) = Protocol!Ack
  BY DEF Protocol!Answer, Protocol!TAG_RESULT
<1>3. CASE a = Protocol!Ack
  <2>1. x = <<172>> /\ Head(<<172>>) = 172
    BY <1>3, Encodings DEF RSP_RESET
  <2> HIDE DEF x
  <2>2. Head(x) # 192 /\ ~Protocol!IsBeat(Head(x))
    <3>1. Head(x) = 172
      BY <2>1
    <3>2. Head(x) # 192
      BY <3>1
    <3>3. ~Protocol!IsBeat(Head(x))
      BY <1>1, <3>1
    <3> QED
      BY <3>2, <3>3, Zenon
  <2>3. Head(x) # 192 /\ ~Protocol!IsBeat(Head(x)) => Protocol!Answer(x) = Protocol!Ack
    BY <1>2, Zenon
  <2>4. Protocol!Answer(x) = Protocol!Ack
    BY <2>2, <2>3, Zenon
  <2> QED
    BY <1>3, <2>4 DEF x
<1>4. ASSUME NEW b \in Filter!Beat, a = Protocol!PayloadBeat(b)
      PROVE  Protocol!Answer(x) = a
  <2> DEFINE tag == TAG_BEAT + 2 * OneBit(b.last) + OneBit(b.error)
  <2>1. x = <<tag, b.data>>
    BY <1>4, Encodings
  <2>2. b.last \in BOOLEAN /\ b.error \in BOOLEAN
        /\ b = [data |-> b.data, last |-> b.last, error |-> b.error]
    BY DEF Filter!Beat
  <2>3. /\ tag \in {176, 177, 178, 179} /\ tag \in Nat /\ tag # 192
        /\ (tag \div 2) % 2 = OneBit(b.last) /\ tag % 2 = OneBit(b.error)
    BY <2>2 DEF OneBit, TAG_BEAT
  <2> HIDE DEF tag, x
  <2>4. Head(x) = tag /\ x[2] = b.data
    BY <2>1
  <2>5. /\ ((tag \div 2) % 2 = 1) = b.last /\ (tag % 2 = 1) = b.error
    BY <2>2, <2>3 DEF OneBit
  <2>6. Protocol!Answer(x) =
          Protocol!PayloadBeat([data |-> x[2], last |-> (tag \div 2) % 2 = 1, error |-> tag % 2 = 1])
    <3>1. Protocol!IsBeat(tag)
      BY <1>1, <2>3
    <3>2. Head(x) # 192 /\ Protocol!IsBeat(Head(x))
      BY <2>3, <2>4, <3>1
    <3>3. Protocol!Answer(x) =
            Protocol!PayloadBeat([data |-> x[2], last |-> (Head(x) \div 2) % 2 = 1,
                                  error |-> Head(x) % 2 = 1])
      BY <1>2, <3>2, Zenon
    <3> QED
      BY <2>4, <3>3, Zenon
  <2>7. Protocol!Answer(x) =
          Protocol!PayloadBeat([data |-> b.data, last |-> b.last, error |-> b.error])
    BY <2>4, <2>5, <2>6
  <2> QED
    BY <1>4, <2>2, <2>7
<1>5. ASSUME NEW r \in Filter!Record, a = Protocol!ResultRecord(r)
      PROVE  Protocol!Answer(x) = a
  <2>1. x = <<192>> \o ResultBytes(r)
    BY <1>5, Encodings DEF TAG_RESULT
  <2>2. ResultBytes(r) \in Seq(Byte) /\ Len(ResultBytes(r)) = RESULT_BYTES
    BY ResultBytesType
  <2>3. <<192>> \in Seq(Byte) /\ Len(<<192>>) = 1 /\ <<192>>[1] = 192
    BY DEF Byte, Unsigned
  <2>4. RESULT_BYTES \in Nat /\ RESULT_BYTES > 1
    BY CoreAssumption
  <2>5. r.accept \in BOOLEAN /\ r = [accept |-> r.accept, sequence |-> r.sequence]
    BY DEF Filter!Record
  <2>6. ResultBytes(r)[1] = OneBit(r.accept) /\ ResultBytes(r)[RESULT_BYTES] = r.sequence
    BY <2>4 DEF ResultBytes
  <2> HIDE DEF x
  <2>7. /\ Head(x) = 192 /\ x[1 + 1] = ResultBytes(r)[1]
        /\ x[1 + RESULT_BYTES] = ResultBytes(r)[RESULT_BYTES]
    <3>1. 1 \in 1 .. Len(ResultBytes(r)) /\ RESULT_BYTES \in 1 .. Len(ResultBytes(r))
      BY <2>2, <2>4
    <3>2. 192 \in Byte
      BY DEF Byte, Unsigned
    <3>3. \A s \in Seq(Byte) :
            /\ Head(<<192>> \o s) = 192
            /\ \A i \in 1 .. Len(s) : (<<192>> \o s)[1 + i] = s[i]
      BY <3>2, OneMore
    <3> DEFINE bytes == ResultBytes(r)
    <3> HIDE DEF bytes
    <3>4. bytes \in Seq(Byte) /\ 1 \in 1 .. Len(bytes) /\ RESULT_BYTES \in 1 .. Len(bytes)
          /\ x = <<192>> \o bytes
      BY <2>1, <2>2, <3>1, Zenon DEF bytes
    <3>5. /\ Head(x) = 192 /\ x[1 + 1] = bytes[1] /\ x[1 + RESULT_BYTES] = bytes[RESULT_BYTES]
      BY <3>3, <3>4
    <3> QED
      BY <3>5, Zenon DEF bytes
  <2>8. Head(x) = 192 /\ x[2] = OneBit(r.accept) /\ x[1 + RESULT_BYTES] = r.sequence
    BY <2>6, <2>7
  <2>9. (OneBit(r.accept) = 1) = r.accept
    BY <2>5 DEF OneBit
  <2>10. Protocol!Answer(x) =
           Protocol!ResultRecord([accept |-> r.accept, sequence |-> r.sequence])
    <3>1. Protocol!Answer(x) =
            Protocol!ResultRecord([accept |-> x[2] = 1, sequence |-> x[1 + RESULT_BYTES]])
      BY <1>2, <2>8, Zenon
    <3>2. (x[2] = 1) = r.accept
      BY <2>8, <2>9
    <3> QED
      BY <2>8, <3>1, <3>2, Zenon
  <2> QED
    BY <1>5, <2>5, <2>10
<1> QED
  BY <1>3, <1>4, <1>5, Zenon DEF Answer

\* The host's parser hands over the oldest answer outstanding.
LEMMA ParsedIs ==
  ASSUME NEW in, WireInv, SerializerTypes, SerializerTypes', ShiftHasBytes,
         Filter!ServiceTypeOK, buffer \in Seq(Byte), Serializer(in), Reads(in), Issues(in)
  PROVE  /\ WireInv'
         /\ Parses(in) => issued # << >> /\ Protocol!Answer(Arrived(in)) = Head(issued)
<1>1. /\ WireInv'
      /\ Parses(in) => issued # << >> /\ Arrived(in) = Protocol!Encode(Head(issued))
  BY WireStep DEF Issues
<1>2. issued # << >> => Head(issued) \in Answer
  BY HeadTailProperties DEF WireInv
<1> QED
  BY <1>1, <1>2, Decodes, Zenon

\* Every answer is of one of three kinds.
LEMMA KindOfAnswer ==
  ASSUME NEW a \in Answer
  PROVE  /\ a.kind \in {"ack", "beat", "result"}
         /\ a.kind = "ack" <=> a = Protocol!Ack
         /\ a.kind = "beat" => a.beat \in Filter!Beat
         /\ a.kind = "result" => a.record \in Filter!Record
<1>1. CASE a = Protocol!Ack
  BY <1>1 DEF Protocol!Ack
<1>2. ASSUME NEW b \in Filter!Beat, a = Protocol!PayloadBeat(b)
      PROVE  a.kind = "beat" /\ a.beat \in Filter!Beat
  BY <1>2 DEF Protocol!PayloadBeat
<1>3. ASSUME NEW r \in Filter!Record, a = Protocol!ResultRecord(r)
      PROVE  a.kind = "result" /\ a.record \in Filter!Record
  BY <1>3 DEF Protocol!ResultRecord
<1>4. /\ Protocol!Ack.kind = "ack" 
      /\ \A b : Protocol!PayloadBeat(b).kind = "beat"
      /\ \A r : Protocol!ResultRecord(r).kind = "result"
  BY DEF Protocol!Ack, Protocol!PayloadBeat, Protocol!ResultRecord
<1>5. "ack" # "beat" /\ "ack" # "result" /\ "beat" # "result"
  OBVIOUS
<1> QED
  BY <1>1, <1>2, <1>3, <1>4, <1>5, Zenon DEF Answer

-----------------------------------------------------------------------------
(* What the host writes. *)

\* The command for a frame of the plan: eight bytes and the frame.
LEMMA CommandIs ==
  ASSUME NEW k \in 1 .. Len(Plan)
  PROVE  /\ Len(Plan[k].frame) \in 1 .. MAX_FRAME_BYTES /\ Len(Plan[k].frame) \in Word16
         /\ Command(k) \in Seq(Byte) /\ Len(Command(k)) = 8 + Len(Plan[k].frame)
         /\ Command(k)[1] = CMD_FRAME
         /\ Command(k)[7] = Len(Plan[k].frame) \div 256
         /\ Command(k)[8] = Len(Plan[k].frame) % 256
         /\ \A i \in 1 .. Len(Plan[k].frame) : Command(k)[8 + i] = Plan[k].frame[i]
<1>1. /\ Plan \in Seq([frame : Seq(Byte), cfg : Config, stall : Byte])
      /\ \A i \in DOMAIN Plan :
           Len(Plan[i].frame) \in 1 .. MAX_FRAME_BYTES /\ Len(Plan[i].frame) \in Word16
  BY PlanAssumption DEF Sendable
<1>2. k \in DOMAIN Plan /\ Plan[k] \in [frame : Seq(Byte), cfg : Config, stall : Byte]
  <2>1. k \in DOMAIN Plan
    BY <1>1
  <2> QED
    BY <1>1, <2>1, ElementOfSeq
<1> DEFINE frame == Plan[k].frame
           config == Plan[k].cfg
           stall == Plan[k].stall
           n == Len(frame)
<1>3. frame \in Seq(Byte) /\ config \in Config /\ stall \in Byte
      /\ n \in 1 .. MAX_FRAME_BYTES /\ n \in Word16
  BY <1>1, <1>2
<1> HIDE DEF frame, config, stall
<1> DEFINE enable == IF config.msg_type_enable THEN 1 ELSE 0
           port == config.dst_port
<1>4. port \in Word16 /\ config.msg_type \in Byte /\ enable \in Byte
  BY <1>3 DEF Config, Byte, Unsigned
<1>5. \A w \in Word16 : w \div 256 \in Byte /\ w % 256 \in Byte
  <2>1. \A w \in Nat : w < 65536 => 0 <= w \div 256 /\ w \div 256 < 256 /\ w \div 256 \in Int
    BY ONLY SMTT(60)
  <2>2. \A w \in Nat : 0 <= w % 256 /\ w % 256 < 256 /\ w % 256 \in Int
    BY ONLY TRUE
  <2>3. \A w \in Word16 : w \in Nat /\ w < 65536
    BY ONLY SMTT(60) DEF Word16, Unsigned
  <2> QED
    BY <2>1, <2>2, <2>3, WordRange DEF Byte
<1>6. CMD_FRAME \in Byte
  BY DEF CMD_FRAME, Byte, Unsigned
<1> DEFINE head == <<CMD_FRAME, port \div 256, port % 256, enable, config.msg_type, stall,
                     n \div 256, n % 256>>
<1>7. Command(k) = head \o frame
  BY Zenon DEF Command, Protocol!frame_command, frame, config, stall, Protocol!CMD_FRAME, CMD_FRAME
<1>9. /\ port \div 256 \in Byte /\ port % 256 \in Byte
      /\ n \div 256 \in Byte /\ n % 256 \in Byte
  BY <1>3, <1>4, <1>5
<1> HIDE DEF enable, port, n
<1>10. /\ head \in Seq(Byte) /\ Len(head) = 8
       /\ head[1] = CMD_FRAME /\ head[7] = n \div 256 /\ head[8] = n % 256
  BY <1>3, <1>4, <1>6, <1>9
<1> HIDE DEF head
<1>11. /\ head \o frame \in Seq(Byte) /\ Len(head \o frame) = 8 + Len(frame)
       /\ \A i \in 1 .. 8 : (head \o frame)[i] = head[i]
       /\ \A i \in 1 .. Len(frame) : (head \o frame)[8 + i] = frame[i]
  <2>1. Len(frame) \in Nat
    BY <1>3, LenProperties
  <2>2. /\ head \o frame \in Seq(Byte) /\ Len(head \o frame) = Len(head) + Len(frame)
        /\ \A i \in 1 .. Len(head) + Len(frame) :
             (head \o frame)[i] = IF i <= Len(head) THEN head[i] ELSE frame[i - Len(head)]
    <3>1. \A s, t \in Seq(Byte) :
            /\ s \o t \in Seq(Byte) /\ Len(s \o t) = Len(s) + Len(t)
            /\ \A i \in 1 .. Len(s) + Len(t) :
                 (s \o t)[i] = IF i <= Len(s) THEN s[i] ELSE t[i - Len(s)]
      BY ConcatProperties
    <3> QED
      BY <1>3, <1>10, <3>1, Zenon
  <2>3. \A i \in 1 .. Len(frame) : /\ 8 + i \in 1 .. Len(head) + Len(frame)
                                   /\ ~(8 + i <= Len(head)) /\ (8 + i) - Len(head) = i
    BY <1>10, <2>1
  <2>4. \A i \in 1 .. Len(frame) : (head \o frame)[8 + i] = frame[i]
    BY <2>2, <2>3
  <2> QED
    BY <1>10, <2>1, <2>2, <2>4
<1>12. 1 \in 1 .. 8 /\ 7 \in 1 .. 8 /\ 8 \in 1 .. 8
  OBVIOUS
<1>13. (head \o frame)[1] = head[1] /\ (head \o frame)[7] = head[7] /\ (head \o frame)[8] = head[8]
  BY <1>11, <1>12
<1>14. Len(head \o frame) = 8 + n
  BY <1>11 DEF n
<1> DEFINE command == head \o frame
<1>15. /\ command \in Seq(Byte) /\ Len(command) = 8 + n
       /\ command[1] = CMD_FRAME /\ command[7] = n \div 256 /\ command[8] = n % 256
       /\ \A i \in 1 .. Len(frame) : command[8 + i] = frame[i]
  BY <1>10, <1>11, <1>13, <1>14, Zenon
<1>16. Command(k) = command
  BY <1>7
<1> HIDE DEF command
<1>17. /\ Command(k) \in Seq(Byte) /\ Len(Command(k)) = 8 + n
       /\ Command(k)[1] = CMD_FRAME /\ Command(k)[7] = n \div 256 /\ Command(k)[8] = n % 256
       /\ \A i \in 1 .. Len(frame) : Command(k)[8 + i] = frame[i]
  BY <1>15, <1>16, Zenon
<1> QED
  BY <1>3, <1>17, Zenon DEF frame, n

\* The commands from one of the plan on: its own, and those from the next one on.
LEMMA BytesAre ==
  ASSUME NEW k \in Nat, NEW n \in Nat, k >= 1, n <= Len(Plan), k <= n + 1
  PROVE  /\ Bytes(k, n) \in Seq(Byte)
         /\ k = n + 1 => Bytes(k, n) = << >>
         /\ k <= n => /\ Bytes(k + 1, n) \in Seq(Byte)
                      /\ Bytes(k, n) = Command(k) \o Bytes(k + 1, n)
<1> DEFINE seqs(from) == [j \in 1 .. n - from + 1 |-> Command(from + j - 1)]
<1>1. \A from \in Nat : from >= 1 /\ from <= n + 1 =>
        seqs(from) \in Seq(Seq(Byte)) /\ Len(seqs(from)) = n - from + 1
  <2> TAKE from \in Nat
  <2> HAVE from >= 1 /\ from <= n + 1
  <2>1. Len(Plan) \in Nat
    BY PlanAssumption, LenProperties DEF Sendable
  <2>2. \A j \in 1 .. n - from + 1 : from + j - 1 \in 1 .. Len(Plan)
    BY <2>1
  <2>3. \A j \in 1 .. n - from + 1 : Command(from + j - 1) \in Seq(Byte)
    BY <2>2, CommandIs
  <2> DEFINE m == n - from + 1
  <2>4. m \in Nat
    OBVIOUS
  <2>5. [j \in 1 .. m |-> Command(from + j - 1)] \in [1 .. m -> Seq(Byte)]
    BY <2>3
  <2>6. \A S : \A l \in Nat : \A f \in [1 .. l -> S] : f \in Seq(S) /\ Len(f) = l
    OBVIOUS
  <2> HIDE DEF m
  <2>7. [j \in 1 .. m |-> Command(from + j - 1)] \in Seq(Seq(Byte))
        /\ Len([j \in 1 .. m |-> Command(from + j - 1)]) = m
    BY <2>4, <2>5, <2>6, Zenon
  <2> QED
    BY <2>7, Zenon DEF m
<1>2. \A from \in Nat : Bytes(from, n) = Flatten(seqs(from))
  BY DEF Bytes, Flatten
<1>3. \A from \in Nat : from >= 1 /\ from <= n + 1 => Bytes(from, n) \in Seq(Byte)
  <2> HIDE DEF seqs
  <2> QED
    BY <1>1, <1>2, FlattenOne
<1>4. k = n + 1 => Bytes(k, n) = << >>
  <2> SUFFICES ASSUME k = n + 1 PROVE Bytes(k, n) = << >>
    OBVIOUS
  <2>1. seqs(k) \in Seq(Seq(Byte)) /\ Len(seqs(k)) = 0
    BY <1>1
  <2> HIDE DEF seqs
  <2>2. seqs(k) = << >>
    BY <2>1, EmptySeq
  <2> QED
    BY <1>2, <2>1, <2>2, FlattenOne
<1>5. ASSUME k <= n
      PROVE  Bytes(k + 1, n) \in Seq(Byte) /\ Bytes(k, n) = Command(k) \o Bytes(k + 1, n)
  <2>1. k + 1 \in Nat /\ k + 1 >= 1 /\ k + 1 <= n + 1
    BY <1>5
  <2>2. /\ seqs(k) \in Seq(Seq(Byte)) /\ Len(seqs(k)) = n - k + 1
        /\ seqs(k + 1) \in Seq(Seq(Byte)) /\ Len(seqs(k + 1)) = n - (k + 1) + 1
    <3> HIDE DEF seqs
    <3> QED
      BY <1>1, <2>1
  <2>3. 1 \in 1 .. n - k + 1 /\ k + 1 - 1 = k
    BY <1>5
  <2>4. seqs(k)[1] = Command(k)
    BY <2>3
  <2>5. \A i \in 1 .. n - (k + 1) + 1 : seqs(k + 1)[i] = seqs(k)[i + 1]
    <3> TAKE i \in 1 .. n - (k + 1) + 1
    <3>1. i + 1 \in 1 .. n - k + 1 /\ k + 1 + i - 1 = k + (i + 1) - 1
      BY <1>5
    <3> QED
      BY <3>1
  <2> HIDE DEF seqs
  <2>6. seqs(k) # << >> /\ Head(seqs(k)) = Command(k)
    BY <1>5, <2>2, <2>4
  <2>7. Tail(seqs(k)) = seqs(k + 1)
    <3>1. /\ Tail(seqs(k)) \in Seq(Seq(Byte)) /\ Len(Tail(seqs(k))) = Len(seqs(k)) - 1
          /\ \A i \in 1 .. Len(Tail(seqs(k))) : Tail(seqs(k))[i] = seqs(k)[i + 1]
      BY <2>2, <2>6, HeadTailProperties
    <3>2. Len(Tail(seqs(k))) = Len(seqs(k + 1)) /\ n - k + 1 - 1 = n - (k + 1) + 1
      BY <2>2, <3>1
    <3> QED
      BY <2>2, <2>5, <3>1, <3>2, SeqEqual
  <2>8. Flatten(seqs(k)) = Head(seqs(k)) \o Flatten(Tail(seqs(k)))
    BY <2>2, <2>6, FlattenFirst
  <2> QED
    BY <1>2, <1>3, <2>1, <2>6, <2>7, <2>8
<1> QED
  BY <1>3, <1>4, <1>5

-----------------------------------------------------------------------------
(* The parser reads a command. *)

LEMMA PositionIs ==
  /\ cmd \in {"C_IDLE", "C_RESET"} => Position = 0
  /\ cmd = "C_PORT_HI" => Position = 1
  /\ cmd = "C_PORT_LO" => Position = 2
  /\ cmd = "C_MSG_EN" => Position = 3
  /\ cmd = "C_MSG" => Position = 4
  /\ cmd = "C_STALL" => Position = 5
  /\ cmd = "C_LEN_HI" => Position = 6
  /\ cmd = "C_LEN_LO" => Position = 7
  /\ cmd = "C_WAIT" => Position = 8
  /\ cmd = "C_STREAM" => Position = 8 + frame_len - remaining
<1>1. cmd \in {"C_IDLE", "C_RESET"} => Position = 0
  BY DEF Position
<1>2. cmd = "C_PORT_HI" => Position = 1
  BY DEF Position
<1>3. cmd = "C_PORT_LO" => Position = 2
  BY DEF Position
<1>4. cmd = "C_MSG_EN" => Position = 3
  BY DEF Position
<1>5. cmd = "C_MSG" => Position = 4
  BY DEF Position
<1>6. cmd = "C_STALL" => Position = 5
  BY DEF Position
<1>7. cmd = "C_LEN_HI" => Position = 6
  BY DEF Position
<1>8. cmd = "C_LEN_LO" => Position = 7
  BY DEF Position
<1>9. cmd = "C_WAIT" => Position = 8
  BY DEF Position
<1>10. cmd = "C_STREAM" => Position = 8 + frame_len - remaining
  BY DEF Position
<1> QED
  BY <1>1, <1>2, <1>3, <1>4, <1>5, <1>6, <1>7, <1>8, <1>9, <1>10

\* The parser streams the last byte of a frame.
Ends == ParserStreams /\ LastByte

\* The next byte of the command is read, or none.
Reading ==
  /\ cmd' # "C_RESET"
  /\ Ends => cmd = "C_STREAM" /\ cmd' = "C_IDLE" /\ Popped /\ Position = 7 + frame_len
  /\ ~Ends => /\ Position' = Position + OneBit(Popped)
              /\ cmd' = "C_IDLE" <=> cmd = "C_IDLE" /\ ~Popped
              /\ cmd' = "C_LEN_LO" => IF Popped
                   THEN cmd = "C_LEN_HI" /\ frame_len' = rxf_data * 256 + (frame_len % 256)
                   ELSE cmd = "C_LEN_LO" /\ frame_len' = frame_len
              /\ cmd' \in {"C_WAIT", "C_STREAM"} =>
                   \/ cmd \in {"C_WAIT", "C_STREAM"} /\ frame_len' = frame_len
                   \/ /\ Popped /\ cmd = "C_LEN_LO"
                      /\ frame_len' = (frame_len \div 256) * 256 + rxf_data

LEMMA ParserReads ==
  ASSUME CommandParser, cmd \in CommandStates, cmd # "C_RESET", frame_len \in Nat, remaining \in Nat,
         cmd = "C_STREAM" => remaining \in 1 .. frame_len /\ ~rxf_empty,
         cmd = "C_WAIT" => frame_len # 0,
         cmd = "C_IDLE" /\ Popped => rxf_data = CMD_FRAME
  PROVE  Reading
<1> DEFINE Positions ==
      /\ cmd \in {"C_IDLE", "C_RESET"} => Position = 0
      /\ cmd = "C_PORT_HI" => Position = 1
      /\ cmd = "C_PORT_LO" => Position = 2
      /\ cmd = "C_MSG_EN" => Position = 3
      /\ cmd = "C_MSG" => Position = 4
      /\ cmd = "C_STALL" => Position = 5
      /\ cmd = "C_LEN_HI" => Position = 6
      /\ cmd = "C_LEN_LO" => Position = 7
      /\ cmd = "C_WAIT" => Position = 8
      /\ cmd = "C_STREAM" => Position = 8 + frame_len - remaining
<1>1. Positions /\ Positions'
  BY PositionIs, PTL
<1>2. Popped <=> (reading_header /\ ~rxf_empty) \/ (cmd = "C_STREAM" /\ ~skid_valid_q)
  BY Zenon DEF Popped, rxf_pop, pipe_ready, Slice!s_ready, reading_header
<1>3. cmd # "C_STREAM" => ~Ends
  BY DEF Ends, ParserStreams, Pushes
<1>4. CASE AwaitByte
  <2>1. /\ ~Popped /\ cmd # "C_STREAM" /\ cmd # "C_WAIT"
        /\ cmd' = cmd /\ frame_len' = frame_len /\ remaining' = remaining
    BY <1>2, <1>4 DEF AwaitByte, commandVars, reading_header
  <2>2. Position' = Position
    BY <2>1 DEF Position
  <2>3. Position \in Int
    BY <1>1 DEF CommandStates, HeaderStates
  <2> QED
    BY <1>3, <2>1, <2>2, <2>3 DEF Reading, OneBit
<1>5. CASE StartFrame
  <2>1. Popped /\ cmd = "C_IDLE" /\ cmd' = "C_PORT_HI"
    BY <1>2, <1>5 DEF StartFrame, reading_header
  <2> QED
    BY <1>1, <1>3, <2>1 DEF Reading, OneBit
<1>6. CASE StartReset \/ SkipByte
  <2>1. Popped /\ cmd = "C_IDLE" /\ rxf_data # CMD_FRAME
    BY <1>2, <1>6 DEF StartReset, SkipByte, reading_header, CMD_FRAME, CMD_RESET
  <2> QED
    BY <2>1
<1>7. CASE ReadConfig
  <2>1. /\ Popped /\ frame_len' = frame_len
        /\ \/ cmd = "C_PORT_HI" /\ cmd' = "C_PORT_LO"
           \/ cmd = "C_PORT_LO" /\ cmd' = "C_MSG_EN"
           \/ cmd = "C_MSG_EN" /\ cmd' = "C_MSG"
           \/ cmd = "C_MSG" /\ cmd' = "C_STALL"
    BY <1>2, <1>7 DEF ReadConfig, reading_header
  <2> QED
    BY <1>1, <1>3, <2>1 DEF Reading, OneBit
<1>8. CASE ReadStall
  <2>1. Popped /\ cmd = "C_STALL" /\ cmd' = "C_LEN_HI"
    BY <1>2, <1>8 DEF ReadStall, reading_header
  <2> QED
    BY <1>1, <1>3, <2>1 DEF Reading, OneBit
<1>9. CASE ReadLength
  <2>1. /\ Popped
        /\ \/ /\ cmd = "C_LEN_HI" /\ cmd' = "C_LEN_LO"
              /\ frame_len' = rxf_data * 256 + (frame_len % 256)
           \/ /\ cmd = "C_LEN_LO" /\ cmd' = "C_WAIT"
              /\ frame_len' = (frame_len \div 256) * 256 + rxf_data
    BY <1>2, <1>9 DEF ReadLength, reading_header
  <2> QED
    BY <1>1, <1>3, <2>1 DEF Reading, OneBit
<1>10. CASE Wait
  <2>1. /\ ~Popped /\ cmd = "C_WAIT" /\ frame_len' = frame_len
        /\ \/ cmd' = "C_WAIT"
           \/ cmd' = "C_STREAM" /\ remaining' = frame_len
    BY <1>2, <1>10 DEF Wait, reading_header
  <2> QED
    BY <1>1, <1>3, <2>1 DEF Reading, OneBit
<1>11. CASE Stream
  <2>1. cmd = "C_STREAM" /\ frame_len' = frame_len /\ Position = 8 + frame_len - remaining
    BY <1>1, <1>11 DEF Stream
  <2>2. CASE skid_valid_q
    <3>1. ~Popped /\ cmd' = cmd /\ remaining' = remaining
      BY <1>2, <1>11, <2>1, <2>2 DEF Stream, pipe_ready, Slice!s_ready, reading_header
    <3>2. ~Ends
      BY <2>2 DEF Ends, ParserStreams, Pushes
    <3> QED
      BY <1>1, <2>1, <3>1, <3>2 DEF Reading, OneBit
  <2>3. CASE ~skid_valid_q
    <3>1. /\ Popped /\ remaining' = remaining - 1
          /\ cmd' = IF remaining = 1 THEN "C_IDLE" ELSE "C_STREAM"
      BY <1>2, <1>11, <2>1, <2>3 DEF Stream, pipe_ready, Slice!s_ready
    <3>2. Ends <=> remaining = 1
      BY <1>11, <2>1, <2>3, <3>1 DEF Ends, ParserStreams, Pushes, LastByte, CommandKept, Stream
    <3> QED
      BY <1>1, <2>1, <3>1, <3>2 DEF Reading, OneBit
  <2> QED
    BY <2>2, <2>3
<1>12. ~(HoldReset \/ ReleaseReset)
  BY DEF HoldReset, ReleaseReset, reset_done
<1> QED
  BY <1>4, <1>5, <1>6, <1>7, <1>8, <1>9, <1>10, <1>11, <1>12 DEF CommandParser

-----------------------------------------------------------------------------
(* The frames that the board is at. *)

\* What the board still has to finish, relative to what the host has read.
FramesMove(in) ==
  /\ OneBit(phase' # "idle") = OneBit(phase # "idle") + OneBit(FirstByteTaken)
                                - OneBit(ResultTaken(in))
  /\ Places' = Places - OneBit(FirstByteTaken) + OneBit(begun)
  /\ OneBit(cmd' = "C_STREAM") = OneBit(cmd = "C_STREAM") + OneBit(begun) - OneBit(Ends)

LEMMA StreamsMove ==
  ASSUME ParserStreams \/ ParserStalls \/ ParserBegins \/ ParserElsewhere
  PROVE  OneBit(cmd' = "C_STREAM") = OneBit(cmd = "C_STREAM") + OneBit(begun) - OneBit(Ends)
<1>1. CASE ParserStreams
  BY <1>1 DEF ParserStreams, Pushes, Ends, LastByte, begun, OneBit
<1>2. CASE ParserStalls
  BY <1>2 DEF ParserStalls, ParserStreams, Pushes, Ends, begun, OneBit
<1>3. CASE ParserBegins
  BY <1>3 DEF ParserBegins, ParserStreams, Pushes, Ends, begun, OneBit
<1>4. CASE ParserElsewhere
  BY <1>4 DEF ParserElsewhere, ParserStreams, Pushes, Ends, begun, OneBit
<1> QED
  BY <1>1, <1>2, <1>3, <1>4

\* The filter leaves "idle" with a first byte and returns to it with a record
\* that is taken.
LEMMA PhaseMoves ==
  ASSUME NEW in, filter_rst_n, phase \in {"idle", "inside", "ended", "record"},
         beats \in Seq(Filter!Beat), BeatsFollowPhase,
         Filter!ServiceEdge(FilterInput(in))
  PROVE  OneBit(phase' # "idle") = OneBit(phase # "idle") + OneBit(FirstByteTaken)
                                    - OneBit(ResultTaken(in))
<1> DEFINE ports == FilterInput(in)
<1>1. ports.tvalid = out_valid_q /\ ports.result_ready = result_ready(in)
  BY DEF FilterInput, Slice!m_valid
<1>2. /\ result_valid <=> phase = "record"
      /\ ResultTaken(in) <=> phase = "record" /\ ports.result_ready
      /\ FirstByteTaken <=> phase = "idle" /\ ports.tvalid
  BY <1>1 DEF result_valid, Filter!result_valid, ResultTaken, FirstByteTaken, Slice!m_valid
<1>3. Filter!ServiceEdge(ports)
  OBVIOUS
<1> HIDE DEF ports
<1>4. CASE Filter!Wait(ports)
  <2>1. /\ ~(phase = "idle" /\ ports.tvalid) /\ ~(phase = "record" /\ ports.result_ready)
        /\ phase = "ended" => phase' \in {"record", "ended"}
        /\ phase # "ended" => phase' = phase
    <3>1. phase = "idle" => Filter!s_tready
      BY DEF Filter!s_tready, BeatsFollowPhase
    <3> QED
      BY <1>4, <3>1 DEF Filter!Wait, Filter!Finish, Filter!result_valid
  <2> QED
    BY <1>2, <2>1 DEF OneBit
<1>5. CASE Filter!Begin(ports)
  <2>1. phase = "idle" /\ ports.tvalid /\ phase' \in {"record", "ended", "inside"}
    BY <1>5 DEF Filter!Begin, Filter!Finish
  <2> QED
    BY <1>2, <2>1 DEF OneBit
<1>6. CASE Filter!Drop(ports) \/ Filter!Forward(ports)
  <2>1. phase = "inside" /\ phase' \in {"record", "ended", "inside"}
    BY <1>6 DEF Filter!Drop, Filter!Forward, Filter!Finish
  <2> QED
    BY <1>2, <2>1 DEF OneBit
<1>7. CASE Filter!Report(ports)
  <2>1. phase = "record" /\ ports.result_ready /\ phase' = "idle"
    BY <1>7 DEF Filter!Report, Filter!result_valid
  <2> QED
    BY <1>2, <2>1 DEF OneBit
<1> QED
  BY <1>3, <1>4, <1>5, <1>6, <1>7 DEF Filter!ServiceEdge

-----------------------------------------------------------------------------
(* The board on one edge, whoever its host is. *)

HwTypes ==
  /\ rx_visible \in Seq(Byte) /\ rx_arriving \in Seq(Byte) /\ rx_overflow \in BOOLEAN
  /\ CommandTypes /\ ack_pending \in BOOLEAN
  /\ Slice!BufferTypeOK /\ Filter!ServiceTypeOK /\ SerializerTypes

LEMMA HwTypesAre == CoreTypeOK <=> HwTypes
BY Zenon DEF CoreTypeOK, HwTypes, CommandTypes, SerializerTypes

BoardWell ==
  /\ HwTypes /\ line \in Seq(Byte)
  /\ BeatsFollowPhase /\ SliceFollowsParser /\ ShiftHasBytes /\ StreamNeverStarves
  /\ Len(rx_visible) + Len(rx_arriving) <= RX_FIFO_DEPTH

LEMMA BoardTick ==
  ASSUME BoardWell, NEW in, Clock(in), LineMoves(in.rx)
  PROVE  /\ BoardWell' /\ SerializerTypes'
         /\ rxf_data \in Byte
         /\ filter_rst_n => Flows
         /\ RxFifo!Move(in.rx, rxf_pop)
<1>1. /\ HwTypes /\ CommandTypes /\ SerializerTypes
      /\ Slice!BufferTypeOK /\ Filter!ServiceTypeOK
      /\ rx_visible \in Seq(Byte) /\ rx_arriving \in Seq(Byte) /\ line \in Seq(Byte)
      /\ BeatsFollowPhase /\ SliceFollowsParser /\ ShiftHasBytes /\ StreamNeverStarves
      /\ Len(rx_visible) + Len(rx_arriving) <= RX_FIFO_DEPTH
  BY DEF BoardWell, HwTypes
<1>2. rxf_data \in Byte
  <2>1. rx_visible # << >> => Head(rx_visible) \in Byte
    BY <1>1, HeadTailProperties
  <2>2. 0 \in Byte
    BY DEF Byte, Unsigned
  <2> QED
    BY <2>1, <2>2 DEF rxf_data, rxf_empty
<1>3. /\ RxFifo!Move(in.rx, rxf_pop) /\ CommandParser /\ Serializer(in)
      /\ rx_overflow' \in BOOLEAN /\ ack_pending' \in BOOLEAN
  BY DEF Clock
<1>4. /\ Slice!BufferTypeOK' /\ Filter!ServiceTypeOK'
      /\ BeatsFollowPhase' /\ SliceFollowsParser'
      /\ filter_rst_n => Flows
  BY <1>1, <1>2, FlowStep
<1>5. CommandTypes'
  BY <1>1, <1>2, <1>3, CommandTypesStep
<1>6. SerializerTypes' /\ ShiftHasBytes'
  BY <1>1, <1>3, SerializerStep
<1>7. /\ rx_visible' \in Seq(Byte) /\ rx_arriving' \in Seq(Byte) /\ line' \in Seq(Byte)
      /\ Len(rx_visible') + Len(rx_arriving') <= RX_FIFO_DEPTH
  BY <1>1, <1>3, UnreadMoves
<1>8. StreamNeverStarves'
  <2>1. frame_len \in Nat /\ remaining \in Nat
    BY <1>1, WordIsNumber DEF CommandTypes
  <2>2. ParserInvariant
    BY <1>1, <2>1 DEF ParserInvariant
  <2>3. in.rx \in {<< >>} \cup {<<b>> : b \in Byte}
    <3>1. line # << >> => Head(line) \in Byte
      BY <1>1, HeadTailProperties
    <3> QED
      BY <3>1 DEF LineMoves
  <2>4. /\ ~rxf_pop => Len(rx_visible') >= Len(rx_visible)
        /\ Len(rx_visible') >= Len(rx_visible) - 1
    BY <1>3, <2>2, <2>3, FifoMoves
  <2> QED
    BY <1>3, <1>7, <2>2, <2>4, ParserStep
<1>9. HwTypes'
  BY <1>3, <1>4, <1>5, <1>6, <1>7 DEF HwTypes, Byte, Unsigned
<1>10. BoardWell'
  BY <1>4, <1>6, <1>7, <1>8, <1>9 DEF BoardWell, Byte, Unsigned
<1> QED
  BY <1>2, <1>3, <1>4, <1>6, <1>10

-----------------------------------------------------------------------------
(* The answers on one edge. *)

\* The serializer is given at most one.
GivenAnswer(in) ==
  \/ NewAnswers(in) = << >> /\ ~ack_sent /\ ~ResultTaken(in)
  \/ \E a \in Answer : /\ NewAnswers(in) = <<a>>
                       /\ a.kind = "ack" <=> ack_sent
                       /\ a.kind = "result" <=> ResultTaken(in)

LEMMA AtMostOneGiven ==
  ASSUME NEW in, Filter!ServiceTypeOK
  PROVE  GivenAnswer(in)
<1>1. /\ Protocol!Ack.kind = "ack"
      /\ \A b : Protocol!PayloadBeat(b).kind = "beat"
      /\ \A r : Protocol!ResultRecord(r).kind = "result"
  BY DEF Protocol!Ack, Protocol!PayloadBeat, Protocol!ResultRecord
<1>2. ResultTaken(in) => ~BeatTaken(in)
  BY DEF ResultTaken, BeatTaken, result_ready
<1>3. CASE ack_sent
  <2>1. NewAnswers(in) = <<Protocol!Ack>> /\ Protocol!Ack \in Answer
    BY <1>3, NewAnswersAre DEF Answer
  <2>2. ~ResultTaken(in)
    BY <1>3, NewAnswersAre
  <2> QED
    BY <1>1, <1>3, <2>1, <2>2 DEF GivenAnswer
<1>4. CASE BeatTaken(in)
  <2>1. ~ack_sent /\ NewAnswers(in) = <<Protocol!PayloadBeat(Head(beats))>>
    BY <1>4, NewAnswersAre
  <2>2. Head(beats) \in Filter!Beat
    <3>1. beats \in Seq(Filter!Beat) /\ beats # << >>
      BY <1>4 DEF BeatTaken, m_tvalid, Filter!m_tvalid, Filter!ServiceTypeOK
    <3> QED
      BY <3>1, HeadTailProperties
  <2>3. Protocol!PayloadBeat(Head(beats)) \in Answer
    BY <2>2 DEF Answer
  <2> QED
    BY <1>1, <1>2, <1>4, <2>1, <2>3 DEF GivenAnswer
<1>5. CASE ResultTaken(in)
  <2>1. ~ack_sent /\ NewAnswers(in) = <<Protocol!ResultRecord(record)>>
    BY <1>5, NewAnswersAre
  <2>2. Protocol!ResultRecord(record) \in Answer
    BY DEF Answer, Filter!ServiceTypeOK
  <2> QED
    BY <1>1, <1>5, <2>1, <2>2 DEF GivenAnswer
<1>6. CASE ~ack_sent /\ ~BeatTaken(in) /\ ~ResultTaken(in)
  BY <1>6, NewAnswersAre DEF GivenAnswer
<1> QED
  BY <1>3, <1>4, <1>5, <1>6

\* What the host makes of the oldest answer, if it is complete.
HostTakes(in) ==
  /\ Parses(in) => issued # << >>
  /\ reset_acks' = reset_acks + OneBit(Parses(in) /\ Head(issued).kind = "ack")
  /\ IF Parses(in) /\ IsResult(Head(issued))
       THEN Len(frames') = Len(frames) + 1
       ELSE frames' = frames

Response == [beats : Seq(Filter!Beat), result : Filter!Record]

LEMMA FeedIs ==
  ASSUME NEW in, WireInv, SerializerTypes, SerializerTypes', ShiftHasBytes,
         Filter!ServiceTypeOK, buffer \in Seq(Byte), Serializer(in), feed(in),
         frames \in Seq(Response), current \in Seq(Filter!Beat), reset_acks \in Nat
  PROVE  /\ WireInv' /\ buffer' \in Seq(Byte)
         /\ frames' \in Seq(Response) /\ current' \in Seq(Filter!Beat) /\ reset_acks' \in Nat
         /\ HostTakes(in)
<1>1. Reads(in) /\ Issues(in)
  BY DEF feed
<1>2. /\ WireInv'
      /\ Parses(in) => issued # << >> /\ Protocol!Answer(Arrived(in)) = Head(issued)
  BY <1>1, ParsedIs
<1>3. buffer' \in Seq(Byte)
  BY <1>1, BufferTypeStep DEF SerializerTypes
<1>4. CASE ~Parses(in)
  <2>1. UNCHANGED <<current, frames, reset_acks>>
    BY <1>4 DEF feed
  <2> QED
    BY <1>2, <1>3, <1>4, <2>1 DEF HostTakes, OneBit, Response, Filter!Record, Filter!Beat
<1>5. CASE Parses(in)
  <2> DEFINE answer == Head(issued)
  <2>1. answer \in Answer
    BY <1>2, <1>5, HeadTailProperties DEF WireInv
  <2>2. /\ reset_acks' = IF answer.kind = "ack" THEN reset_acks + 1 ELSE reset_acks
        /\ current' = CASE answer.kind = "beat" -> Append(current, answer.beat)
                        [] answer.kind = "result" -> << >>
                        [] answer.kind = "ack" -> current
        /\ frames' = IF answer.kind = "result"
                     THEN Append(frames, [beats |-> current, result |-> answer.record])
                     ELSE frames
    BY <1>2, <1>5, Zenon DEF feed
  <2> HIDE DEF answer
  <2>3. answer.kind = "beat" => answer.beat \in Filter!Beat
    BY <2>1, KindOfAnswer
  <2>4. answer.kind = "result" => answer.record \in Filter!Record
    BY <2>1, KindOfAnswer
  <2>5. answer.kind \in {"ack", "beat", "result"}
    BY <2>1, KindOfAnswer
  <2>6. current' \in Seq(Filter!Beat)
    <3>1. << >> \in Seq(Filter!Beat)
      BY EmptySeq
    <3>2. answer.kind = "beat" => Append(current, answer.beat) \in Seq(Filter!Beat)
      BY <2>3, AppendProperties
    <3> QED
      BY <2>2, <2>5, <3>1, <3>2, Zenon
  <2>7. CASE answer.kind = "result"
    <3> DEFINE response == [beats |-> current, result |-> answer.record]
    <3>1. response \in Response
      BY <2>4, <2>7 DEF Response
    <3>2. frames' = Append(frames, response)
      BY <2>2, <2>7
    <3> HIDE DEF response
    <3>3. frames' \in Seq(Response) /\ Len(frames') = Len(frames) + 1
      BY <3>1, <3>2, AppendProperties
    <3>4. reset_acks' = reset_acks + OneBit(Parses(in) /\ Head(issued).kind = "ack")
      BY <2>2, <2>7 DEF OneBit, answer
    <3>5. reset_acks' = reset_acks
      BY <2>2, <2>7
    <3> QED
      BY <1>2, <1>3, <1>5, <2>6, <2>7, <3>3, <3>4, <3>5 DEF HostTakes, IsResult, answer
  <2>8. CASE answer.kind # "result"
    <3>1. frames' = frames /\ reset_acks' \in Nat
      BY <2>2, <2>8
    <3>2. reset_acks' = reset_acks + OneBit(Parses(in) /\ Head(issued).kind = "ack")
      BY <1>5, <2>2 DEF OneBit, answer
    <3> QED
      BY <1>2, <1>3, <1>5, <2>6, <2>8, <3>1, <3>2 DEF HostTakes, IsResult, answer
  <2> QED
    BY <2>7, <2>8
<1> QED
  BY <1>4, <1>5

-----------------------------------------------------------------------------
(* The frames that the host, the filter and the parser are at. *)

\* A record is with the serializer's answers or with the host's responses.
LEMMA AnswersCount ==
  ASSUME NEW in, HostTakes(in), GivenAnswer(in), Issues(in),
         issued \in Seq(Answer), frames \in Seq(Response)
  PROVE  /\ issued' \in Seq(Answer)
         /\ Len(frames') + Results(issued') =
              Len(frames) + Results(issued) + OneBit(ResultTaken(in))
         /\ Len(frames) \in Nat /\ Results(issued) \in Nat
         /\ Len(frames') \in Nat /\ Results(issued') \in Nat
<1> DEFINE left == IF Parses(in) THEN Tail(issued) ELSE issued
           taken == OneBit(Parses(in) /\ IsResult(Head(issued)))
<1>1. Len(frames) \in Nat /\ taken \in {0, 1}
  BY LenProperties DEF OneBit
<1>2. left \in Seq(Answer)
  BY HeadTailProperties DEF HostTakes
<1>3. Results(issued) = Results(left) + taken
  <2>1. Results(issued) \in Nat
    BY ResultsMove
  <2>2. Parses(in) => issued # << >>
    BY DEF HostTakes
  <2>3. issued # << >> => Results(issued) = Results(Tail(issued)) + OneBit(IsResult(Head(issued)))
    BY ResultsMove
  <2> QED
    BY <2>1, <2>2, <2>3 DEF OneBit
<1>4. Len(frames') = Len(frames) + taken
  BY <1>1 DEF HostTakes, OneBit
<1> HIDE DEF left, taken
<1>5. Results(left) \in Nat
  BY <1>2, ResultsMove
<1>6. issued' = left \o NewAnswers(in)
  BY DEF Issues, left
<1>7. /\ issued' \in Seq(Answer) /\ Results(issued') = Results(left) + OneBit(ResultTaken(in))
  <2>1. CASE NewAnswers(in) = << >> /\ ~ResultTaken(in)
    <3>1. issued' = left
      BY <1>2, <1>6, <2>1, ConcatEmptySeq
    <3> QED
      BY <1>2, <1>5, <2>1, <3>1 DEF OneBit
  <2>2. ASSUME NEW a \in Answer, NewAnswers(in) = <<a>>, a.kind = "result" <=> ResultTaken(in)
        PROVE  /\ issued' \in Seq(Answer)
               /\ Results(issued') = Results(left) + OneBit(ResultTaken(in))
    <3>1. issued' = Append(left, a)
      BY <1>2, <1>6, <2>2, AppendIsConcat
    <3>2. Append(left, a) \in Seq(Answer)
      BY <1>2, AppendProperties
    <3>3. Results(Append(left, a)) = Results(left) + OneBit(IsResult(a))
      BY <1>2, ResultsMove
    <3>4. IsResult(a) <=> ResultTaken(in)
      BY <2>2 DEF IsResult
    <3> QED
      BY <3>1, <3>2, <3>3, <3>4 DEF OneBit
  <2> QED
    BY <2>1, <2>2, Zenon DEF GivenAnswer
<1>8. OneBit(ResultTaken(in)) \in {0, 1}
  BY DEF OneBit
<1>9. Results(issued') \in Nat
  BY <1>7, ResultsMove
<1> QED
  BY <1>1, <1>3, <1>4, <1>5, <1>7, <1>8, <1>9

\* The parser's frame is the next one when it has streamed the last byte of one.
LEMMA ParserFrameMoves ==
  ASSUME NEW in, FramesMove(in), first' = first, first \in Nat,
         Len(frames) \in Nat, Results(issued) \in Nat,
         Len(frames') \in Nat, Results(issued') \in Nat,
         Len(frames') + Results(issued') =
           Len(frames) + Results(issued) + OneBit(ResultTaken(in))
  PROVE  ParserFrame' = ParserFrame + OneBit(Ends)
<1>1. /\ OneBit(phase' # "idle") = OneBit(phase # "idle") + OneBit(FirstByteTaken)
                                    - OneBit(ResultTaken(in))
      /\ Places' = Places - OneBit(FirstByteTaken) + OneBit(begun)
      /\ OneBit(cmd' = "C_STREAM") = OneBit(cmd = "C_STREAM") + OneBit(begun) - OneBit(Ends)
  BY DEF FramesMove
<1>2. Places \in Int /\ \A flag : OneBit(flag) \in Int
  BY DEF Places, OneBit
<1>3. ParserFrame = first + Len(frames) + Results(issued)
                      + OneBit(phase # "idle") + Places - OneBit(cmd = "C_STREAM")
  BY DEF ParserFrame, FilterFrame
<1>4. ParserFrame' = first + Len(frames') + Results(issued')
                       + OneBit(phase' # "idle") + Places' - OneBit(cmd' = "C_STREAM")
  BY DEF ParserFrame, FilterFrame
<1> DEFINE l == Len(frames)
           r == Results(issued)
           m == Len(frames')
           s == Results(issued')
           t == OneBit(ResultTaken(in))
           p == OneBit(phase # "idle")
           f == OneBit(FirstByteTaken)
           b == OneBit(begun)
           c == OneBit(cmd = "C_STREAM")
           e == OneBit(Ends)
<1>5. /\ l \in Int /\ r \in Int /\ m \in Int /\ s \in Int /\ t \in Int /\ p \in Int
      /\ f \in Int /\ b \in Int /\ c \in Int /\ e \in Int
  BY <1>2
<1>6. m + s = l + r + t
  OBVIOUS
<1>7. ParserFrame' = first + m + s + (p + f - t) + (Places - f + b) - (c + b - e)
  BY <1>1, <1>4
<1>8. ParserFrame = first + l + r + p + Places - c
  BY <1>3
<1> HIDE DEF l, r, m, s, t, p, f, b, c, e
<1>9. ParserFrame' = ParserFrame + e
  BY <1>2, <1>5, <1>6, <1>7, <1>8
<1> QED
  BY <1>9 DEF e

LEMMA FramesMoveOn ==
  ASSUME NEW in, BoardWell, Clock(in), filter_rst_n, Flows
  PROVE  FramesMove(in)
<1>1. Filter!ServiceEdge(FilterInput(in))
  BY DEF Clock, FilterPath
<1>2. /\ SliceFollowsParser /\ BeatsFollowPhase /\ frame_len \in Word16 /\ remaining \in Word16
      /\ phase \in {"idle", "inside", "ended", "record"} /\ beats \in Seq(Filter!Beat)
  BY DEF BoardWell, HwTypes, CommandTypes, Filter!ServiceTypeOK
<1>3. StreamingFollows
  BY <1>2, StreamingMoves
<1>4. Places' = Places - OneBit(FirstByteTaken) + OneBit(begun)
  BY <1>2, <1>3, PlacesMove DEF Flows
<1>5. OneBit(phase' # "idle") = OneBit(phase # "idle") + OneBit(FirstByteTaken)
                                 - OneBit(ResultTaken(in))
  BY <1>1, <1>2, PhaseMoves
<1>6. OneBit(cmd' = "C_STREAM") = OneBit(cmd = "C_STREAM") + OneBit(begun) - OneBit(Ends)
  BY StreamsMove DEF Flows
<1> QED
  BY <1>4, <1>5, <1>6 DEF FramesMove

-----------------------------------------------------------------------------
(* A text of which the first p elements are read. *)

Remains(unread, text, p) ==
  /\ Len(unread) = Len(text) - p
  /\ \A i \in 1 .. Len(unread) : unread[i] = text[p + i]

LEMMA OneIsRead ==
  ASSUME NEW unread \in Seq(Byte), NEW text \in Seq(Byte), NEW p \in Nat,
         Remains(unread, text, p), unread # << >>
  PROVE  /\ Head(unread) = text[p + 1]
         /\ Remains(Tail(unread), text, p + 1)
<1>1. /\ Len(unread) \in Nat \ {0} /\ Len(text) \in Nat
      /\ Head(unread) = unread[1] /\ Len(Tail(unread)) = Len(unread) - 1
      /\ \A i \in 1 .. Len(Tail(unread)) : Tail(unread)[i] = unread[i + 1]
  BY EmptySeq, LenProperties, HeadTailProperties
<1>2. Len(unread) = Len(text) - p /\ \A i \in 1 .. Len(unread) : unread[i] = text[p + i]
  BY DEF Remains
<1>3. unread[1] = text[p + 1]
  BY <1>1, <1>2
<1>4. \A i \in 1 .. Len(Tail(unread)) : Tail(unread)[i] = text[p + 1 + i]
  <2> TAKE i \in 1 .. Len(Tail(unread))
  <2>1. i + 1 \in 1 .. Len(unread) /\ p + (i + 1) = p + 1 + i
    BY <1>1
  <2> QED
    BY <1>1, <1>2, <2>1
<1>5. Len(Tail(unread)) = Len(text) - (p + 1)
  BY <1>1, <1>2
<1> QED
  BY <1>1, <1>3, <1>4, <1>5 DEF Remains

LEMMA PartIsRead ==
  ASSUME NEW unread \in Seq(Byte), NEW part \in Seq(Byte), NEW rest \in Seq(Byte),
         Remains(unread, part \o rest, Len(part))
  PROVE  Remains(unread, rest, 0)
<1> DEFINE text == part \o rest
           p == Len(part)
<1>1. /\ p \in Nat /\ Len(rest) \in Nat /\ Len(unread) \in Nat
      /\ Len(text) = p + Len(rest)
      /\ \A i \in 1 .. p + Len(rest) : text[i] = IF i <= p THEN part[i] ELSE rest[i - p]
  BY LenProperties, ConcatProperties
<1>2. Len(unread) = Len(text) - p /\ \A i \in 1 .. Len(unread) : unread[i] = text[p + i]
  BY DEF Remains
<1> HIDE DEF text, p
<1>3. Len(unread) = Len(rest)
  BY <1>1, <1>2
<1>4. \A i \in 1 .. Len(unread) : unread[i] = rest[0 + i]
  <2> TAKE i \in 1 .. Len(unread)
  <2> DEFINE j == p + i
  <2>1. j \in 1 .. p + Len(rest) /\ ~(j <= p) /\ j - p = i /\ 0 + i = i
    BY <1>1, <1>3
  <2>2. unread[i] = text[j]
    BY <1>2
  <2> HIDE DEF j
  <2>3. text[j] = rest[j - p]
    BY <1>1, <2>1
  <2> QED
    BY <2>1, <2>2, <2>3
<1> QED
  BY <1>1, <1>3, <1>4 DEF Remains

-----------------------------------------------------------------------------
(* While the host waits for the answers to a batch. *)

\* The text from the command for a frame of the batch on, and what the parser
\* finds in it.
LEMMA BatchText ==
  ASSUME first \in Nat, index \in Nat, first >= 1, index <= Len(Plan) + 1,
         NEW k \in first .. index
  PROVE  /\ Bytes(k, index - 1) \in Seq(Byte)
         /\ k = index => Bytes(k, index - 1) = << >>
         /\ k < index =>
              /\ k \in 1 .. Len(Plan)
              /\ Len(Plan[k].frame) \in 1 .. MAX_FRAME_BYTES
              /\ Bytes(k + 1, index - 1) \in Seq(Byte)
              /\ Bytes(k, index - 1) = Command(k) \o Bytes(k + 1, index - 1)
              /\ Bytes(k, index - 1)[1] = CMD_FRAME
              /\ Bytes(k, index - 1)[7] = Len(Plan[k].frame) \div 256
              /\ Bytes(k, index - 1)[8] = Len(Plan[k].frame) % 256
<1> DEFINE n == index - 1
<1>1. k \in Nat /\ n \in Nat /\ k >= 1 /\ n <= Len(Plan) /\ k <= n + 1
      /\ (k = n + 1 <=> k = index) /\ (k <= n <=> k < index)
  <2>1. Len(Plan) \in Nat
    BY PlanAssumption, LenProperties DEF Sendable
  <2> QED
    BY <2>1
<1> HIDE DEF n
<1>2. /\ Bytes(k, n) \in Seq(Byte)
      /\ k = n + 1 => Bytes(k, n) = << >>
      /\ k <= n => /\ Bytes(k + 1, n) \in Seq(Byte)
                   /\ Bytes(k, n) = Command(k) \o Bytes(k + 1, n)
  BY <1>1, BytesAre
<1>3. ASSUME k <= n
      PROVE  /\ k \in 1 .. Len(Plan) /\ Len(Plan[k].frame) \in 1 .. MAX_FRAME_BYTES
             /\ Bytes(k, n)[1] = CMD_FRAME
             /\ Bytes(k, n)[7] = Len(Plan[k].frame) \div 256
             /\ Bytes(k, n)[8] = Len(Plan[k].frame) % 256
  <2>1. k \in 1 .. Len(Plan)
    <3>1. Len(Plan) \in Nat
      BY PlanAssumption, LenProperties DEF Sendable
    <3> QED
      BY <1>1, <1>3, <3>1
  <2>2. /\ Len(Plan[k].frame) \in 1 .. MAX_FRAME_BYTES
        /\ Command(k) \in Seq(Byte) /\ Len(Command(k)) = 8 + Len(Plan[k].frame)
        /\ Command(k)[1] = CMD_FRAME
        /\ Command(k)[7] = Len(Plan[k].frame) \div 256
        /\ Command(k)[8] = Len(Plan[k].frame) % 256
    BY <2>1, CommandIs, ZenonT(60)
  <2> DEFINE command == Command(k)
             rest == Bytes(k + 1, n)
  <2>3. command \in Seq(Byte) /\ rest \in Seq(Byte) /\ Bytes(k, n) = command \o rest
        /\ Len(command) >= 8 /\ Len(command) \in Nat /\ Len(rest) \in Nat
    <3>1. Len(Plan[k].frame) \in Nat
      BY <2>2
    <3>2. Len(command) = 8 + Len(Plan[k].frame)
      BY <2>2
    <3>3. rest \in Seq(Byte) /\ Bytes(k, n) = command \o rest
      BY <1>2, <1>3
    <3>4. Len(rest) \in Nat
      BY <3>3, LenProperties
    <3>5. \A m \in Nat : 8 + m >= 8 /\ 8 + m \in Nat
      OBVIOUS
    <3> QED
      BY <2>2, <3>1, <3>2, <3>3, <3>4, <3>5, Zenon
  <2> HIDE DEF command, rest
  <2>4. \A i \in 1 .. 8 : (command \o rest)[i] = command[i]
    <3>1. \A i \in 1 .. Len(command) + Len(rest) :
            (command \o rest)[i] = IF i <= Len(command) THEN command[i] ELSE rest[i - Len(command)]
      BY <2>3, ConcatProperties
    <3>2. \A i \in 1 .. 8 : i \in 1 .. Len(command) + Len(rest) /\ i <= Len(command)
      BY <2>3
    <3> QED
      BY <3>1, <3>2
  <2>5. 1 \in 1 .. 8 /\ 7 \in 1 .. 8 /\ 8 \in 1 .. 8
    OBVIOUS
  <2>6. Bytes(k, n)[1] = command[1] /\ Bytes(k, n)[7] = command[7] /\ Bytes(k, n)[8] = command[8]
    BY <2>3, <2>4, <2>5
  <2> QED
    BY <2>1, <2>2, <2>6 DEF command
<1> QED
  BY <1>1, <1>2, <1>3, Zenon DEF n

\* The parser's position is a number.
LEMMA PositionRange ==
  ASSUME cmd \in CommandStates, frame_len \in Nat,
         cmd = "C_STREAM" => remaining \in 1 .. frame_len
  PROVE  Position \in Nat
BY PositionIs DEF CommandStates, HeaderStates

\* Between two commands, and after a step.
LEMMA IdlePosition == cmd \in {"C_IDLE", "C_RESET"} => Position = 0
BY PositionIs

LEMMA PositionAfter == cmd' \in {"C_IDLE", "C_RESET"} => Position' = 0
<1>1. (cmd \in {"C_IDLE", "C_RESET"} => Position = 0)'
  BY IdlePosition, PTL
<1> QED
  BY <1>1

\* Then every byte finds room, and the parser reads the batch on.
LEMMA BatchIsRead ==
  ASSUME NEW in, BoardWell, Clock(in), LineMoves(in.rx), HostTakes(in), Issues(in),
         WireInv, frames \in Seq(Response), first \in Nat, index \in Nat,
         first >= 1, index <= Len(Plan) + 1, ReadsTheBatch, Fits,
         first' = first, index' = index
  PROVE  ReadsTheBatch' /\ Fits'
<1> DEFINE k == ParserFrame
           text == Bytes(k, index - 1)
           p == Position
<1>1. /\ k \in first .. index /\ (k = index => cmd = "C_IDLE")
      /\ cmd # "C_RESET"
      /\ Len(Unread) = Len(text) - p
      /\ \A i \in 1 .. Len(Unread) : Unread[i] = text[p + i]
      /\ Len(Unread) <= RX_FIFO_DEPTH
      /\ cmd = "C_LEN_LO" => frame_len \div 256 = Len(Plan[k].frame) \div 256
      /\ cmd \in {"C_WAIT", "C_STREAM"} => frame_len = Len(Plan[k].frame)
  BY DEF ReadsTheBatch
<1>2. filter_rst_n
  BY <1>1 DEF filter_rst_n
<1>3. BoardWell' /\ rxf_data \in Byte /\ Flows /\ RxFifo!Move(in.rx, rxf_pop)
  BY <1>2, BoardTick
<1>4. /\ rx_visible \in Seq(Byte) /\ rx_arriving \in Seq(Byte) /\ line \in Seq(Byte)
      /\ Len(rx_visible) + Len(rx_arriving) <= RX_FIFO_DEPTH
      /\ CommandTypes /\ Filter!ServiceTypeOK /\ SliceFollowsParser /\ StreamNeverStarves
      /\ frame_len \in Word16 /\ remaining \in Word16 /\ cmd \in CommandStates
      /\ rx_overflow \in BOOLEAN
  BY DEF BoardWell, HwTypes, CommandTypes
<1>5. frame_len \in Nat /\ remaining \in Nat /\ RX_FIFO_DEPTH \in Nat \ {0}
  BY <1>4, WordIsNumber, CoreAssumption
<1>6. /\ Unread \in Seq(Byte) /\ Unread' \in Seq(Byte)
      /\ Popped => Unread # << >> /\ rxf_data = Head(Unread)
      /\ in.rx = << >> \/ ~rxf_full => Unread' = IF Popped THEN Tail(Unread) ELSE Unread
      /\ Len(Unread') <= Len(Unread) - OneBit(Popped)
      /\ Len(Unread) = Len(rx_visible) + Len(rx_arriving) + Len(line)
      /\ Len(rx_visible') + Len(rx_arriving') <= RX_FIFO_DEPTH
  BY <1>3, <1>4, UnreadMoves
<1>7. in.rx = << >> \/ ~rxf_full
  <2>1. in.rx # << >> => line # << >>
    BY DEF LineMoves
  <2>2. line # << >> => Len(line) \in Nat \ {0}
    BY <1>4, EmptySeq, LenProperties
  <2>3. Len(rx_visible) \in Nat /\ Len(rx_arriving) \in Nat
    BY <1>4, LenProperties
  <2> QED
    BY <1>1, <1>5, <1>6, <2>1, <2>2, <2>3 DEF rxf_full
<1>8. Unread' = IF Popped THEN Tail(Unread) ELSE Unread
  BY <1>6, <1>7
<1>9. /\ text \in Seq(Byte)
      /\ k = index => text = << >>
      /\ k < index =>
           /\ k \in 1 .. Len(Plan)
           /\ Len(Plan[k].frame) \in 1 .. MAX_FRAME_BYTES
           /\ Bytes(k + 1, index - 1) \in Seq(Byte)
           /\ text = Command(k) \o Bytes(k + 1, index - 1)
           /\ text[1] = CMD_FRAME
           /\ text[7] = Len(Plan[k].frame) \div 256
           /\ text[8] = Len(Plan[k].frame) % 256
  <2>1. k \in first .. index
    BY <1>1
  <2> HIDE DEF k
  <2> QED
    BY <2>1, BatchText
<1> HIDE DEF text
<1>10. cmd # "C_IDLE" => k < index
  BY <1>1
<1>11. p \in Nat
  BY <1>4, <1>5, PositionRange DEF SliceFollowsParser
<1>12. Remains(Unread, text, p)
  BY <1>1 DEF Remains
<1>13. Popped => /\ k < index /\ rxf_data = text[p + 1]
                 /\ Remains(Tail(Unread), text, p + 1)
  <2> SUFFICES ASSUME Popped
               PROVE  /\ k < index /\ rxf_data = text[p + 1]
                      /\ Remains(Tail(Unread), text, p + 1)
    OBVIOUS
  <2>1. Unread # << >> /\ rxf_data = Head(Unread)
    BY <1>6
  <2>2. k < index
    <3> SUFFICES ASSUME k = index PROVE FALSE
      BY <1>1
    <3>1. Len(text) = 0 /\ Len(Unread) \in Nat \ {0}
      BY <1>6, <1>9, <2>1, EmptySeq
    <3> QED
      BY <1>1, <1>11, <3>1
  <2> HIDE DEF p
  <2>3. Unread \in Seq(Byte) /\ text \in Seq(Byte) /\ p \in Nat
    BY <1>6, <1>9, <1>11
  <2>4. Head(Unread) = text[p + 1] /\ Remains(Tail(Unread), text, p + 1)
    BY <1>12, <2>1, <2>3, OneIsRead
  <2> QED
    BY <2>1, <2>2, <2>4, Zenon
<1> HIDE DEF k
<1>14. Reading
  <2>1. cmd = "C_STREAM" => remaining \in 1 .. frame_len /\ ~rxf_empty
    BY <1>4 DEF SliceFollowsParser, StreamNeverStarves, rxf_count, rxf_empty
  <2>2. cmd = "C_WAIT" => frame_len # 0
    BY <1>1, <1>9, <1>10
  <2>3. cmd = "C_IDLE" /\ Popped => rxf_data = CMD_FRAME
    <3>1. cmd = "C_IDLE" => p + 1 = 1
      BY PositionIs
    <3> QED
      BY <1>9, <1>13, <3>1
  <2>4. CommandParser
    BY DEF Clock
  <2> QED
    BY <1>1, <1>4, <1>5, <2>1, <2>2, <2>3, <2>4, ParserReads
<1>15. ParserFrame' = k + OneBit(Ends)
  <2>1. issued \in Seq(Answer) /\ GivenAnswer(in)
    BY <1>4, AtMostOneGiven DEF WireInv
  <2>2. /\ Len(frames') + Results(issued') =
             Len(frames) + Results(issued) + OneBit(ResultTaken(in))
        /\ Len(frames) \in Nat /\ Results(issued) \in Nat
        /\ Len(frames') \in Nat /\ Results(issued') \in Nat
    BY <2>1, AnswersCount
  <2>3. FramesMove(in)
    BY <1>2, <1>3, FramesMoveOn
  <2> QED
    BY <2>2, <2>3, ParserFrameMoves DEF k
<1>16. Len(Unread') <= RX_FIFO_DEPTH
  <2>1. Len(Unread) \in Nat /\ Len(Unread') \in Nat /\ OneBit(Popped) \in {0, 1}
    BY <1>6, LenProperties DEF OneBit
  <2> QED
    BY <1>1, <1>5, <1>6, <2>1
<1>17. Fits'
  <2>1. ~rx_overflow
    <3> SUFFICES ASSUME cmd = "C_WAIT", frame_len > RX_FIFO_DEPTH PROVE FALSE
      BY DEF Fits
    <3> QED
      BY <1>1, <1>5, <1>9, <1>10 DEF MAX_FRAME_BYTES
  <2>2. ~rx_overflow'
    BY <1>7, <2>1 DEF Clock
  <2> QED
    BY <1>6, <2>2 DEF Fits
<1>18. CASE Ends
  <2>1. cmd = "C_STREAM" /\ cmd' = "C_IDLE" /\ Popped /\ p = 7 + frame_len
    BY <1>14, <1>18 DEF Reading
  <2>2. k < index /\ k \in 1 .. Len(Plan) /\ p + 1 = Len(Command(k))
        /\ Command(k) \in Seq(Byte)
    <3>1. k < index /\ k \in 1 .. Len(Plan) /\ frame_len = Len(Plan[k].frame)
      BY <1>1, <1>9, <1>10, <2>1
    <3>2. Len(Command(k)) = 8 + Len(Plan[k].frame) /\ Command(k) \in Seq(Byte)
      BY <3>1, CommandIs
    <3> QED
      BY <1>5, <2>1, <3>1, <3>2
  <2>3. Remains(Unread', Bytes(k + 1, index - 1), 0)
    <3>1. /\ Tail(Unread) \in Seq(Byte) /\ Bytes(k + 1, index - 1) \in Seq(Byte)
          /\ text = Command(k) \o Bytes(k + 1, index - 1)
      BY <1>6, <1>8, <1>9, <2>1, <2>2, Zenon
    <3>2. Remains(Tail(Unread), Command(k) \o Bytes(k + 1, index - 1), Len(Command(k)))
      BY <1>13, <2>1, <2>2, <3>1, Zenon
    <3>3. Remains(Tail(Unread), Bytes(k + 1, index - 1), 0)
      BY <2>2, <3>1, <3>2, PartIsRead
    <3> QED
      BY <1>8, <2>1, <3>3, Zenon
  <2>4. ParserFrame' = k + 1 /\ k + 1 \in first .. index /\ Position' = 0
    BY <1>1, <1>15, <1>18, <2>1, <2>2, PositionAfter DEF OneBit
  <2>5. Remains(Unread', Bytes(ParserFrame', index' - 1), Position')
    BY <2>3, <2>4
  <2> QED
    BY <1>16, <1>17, <2>1, <2>4, <2>5 DEF ReadsTheBatch, Remains
<1>19. CASE ~Ends
  <2>1. /\ cmd' # "C_RESET"
        /\ Position' = p + OneBit(Popped)
        /\ cmd' = "C_IDLE" <=> cmd = "C_IDLE" /\ ~Popped
        /\ cmd' = "C_LEN_LO" => IF Popped
             THEN cmd = "C_LEN_HI" /\ frame_len' = rxf_data * 256 + (frame_len % 256)
             ELSE cmd = "C_LEN_LO" /\ frame_len' = frame_len
        /\ cmd' \in {"C_WAIT", "C_STREAM"} =>
             \/ cmd \in {"C_WAIT", "C_STREAM"} /\ frame_len' = frame_len
             \/ /\ Popped /\ cmd = "C_LEN_LO"
                /\ frame_len' = (frame_len \div 256) * 256 + rxf_data
    BY <1>14, <1>19 DEF Reading
  <2>2. ParserFrame' = k
    BY <1>1, <1>15, <1>19 DEF OneBit
  <2>3. Remains(Unread', text, Position')
    <3>1. CASE Popped
      BY <1>8, <1>13, <2>1, <3>1 DEF OneBit
    <3>2. CASE ~Popped
      <4>1. Position' = p
        BY <1>11, <2>1, <3>2 DEF OneBit
      <4> QED
        BY <1>8, <1>12, <3>2, <4>1
    <3> QED
      BY <3>1, <3>2
  <2>4. k = index => cmd' = "C_IDLE"
    BY <1>1, <1>13, <2>1
  <2>5. cmd' = "C_LEN_LO" => frame_len' \div 256 = Len(Plan[k].frame) \div 256
    <3>1. CASE Popped
      <4> SUFFICES ASSUME cmd' = "C_LEN_LO"
                   PROVE  frame_len' \div 256 = Len(Plan[k].frame) \div 256
        OBVIOUS
      <4>1. cmd = "C_LEN_HI" /\ frame_len' = rxf_data * 256 + (frame_len % 256)
        BY <2>1, <3>1
      <4>2. rxf_data = Len(Plan[k].frame) \div 256
        <5>1. p + 1 = 7
          BY <4>1, PositionIs
        <5> QED
          BY <1>9, <1>13, <3>1, <5>1
      <4>3. \A b, w \in Nat : (b * 256 + (w % 256)) \div 256 = b
        OBVIOUS
      <4>4. rxf_data \in Nat
        BY <1>3 DEF Byte, Unsigned
      <4> QED
        <5>1. frame_len \in Nat
          BY <1>5, Zenon
        <5>2. (rxf_data * 256 + (frame_len % 256)) \div 256 = rxf_data
          BY ONLY <4>3, <4>4, <5>1
        <5> QED
          BY <4>1, <4>2, <5>2, Zenon
    <3>2. CASE ~Popped
      BY <1>1, <2>1, <3>2
    <3> QED
      BY <3>1, <3>2
  <2>6. cmd' \in {"C_WAIT", "C_STREAM"} => frame_len' = Len(Plan[k].frame)
    <3> SUFFICES ASSUME cmd' \in {"C_WAIT", "C_STREAM"}
                 PROVE  frame_len' = Len(Plan[k].frame)
      OBVIOUS
    <3>1. CASE cmd \in {"C_WAIT", "C_STREAM"} /\ frame_len' = frame_len
      BY <1>1, <3>1
    <3>2. CASE /\ Popped /\ cmd = "C_LEN_LO"
               /\ frame_len' = (frame_len \div 256) * 256 + rxf_data
      <4>1. p + 1 = 8
        BY <3>2, PositionIs
      <4>2. rxf_data = Len(Plan[k].frame) % 256 /\ k < index
        BY <1>9, <1>13, <3>2, <4>1
      <4>3. frame_len \div 256 = Len(Plan[k].frame) \div 256
        BY <1>1, <3>2
      <4>4. Len(Plan[k].frame) \in Nat
        BY <1>9, <4>2 
      <4>5. \A n \in Nat : (n \div 256) * 256 + (n % 256) = n
        OBVIOUS
      <4>6. frame_len' = (Len(Plan[k].frame) \div 256) * 256 + (Len(Plan[k].frame) % 256)
        BY <3>2, <4>2, <4>3, Zenon
      <4> QED
        BY <4>4, <4>5, <4>6, Zenon
    <3> QED
      BY <2>1, <3>1, <3>2
  <2>7. Remains(Unread', Bytes(ParserFrame', index' - 1), Position')
    BY <2>2, <2>3 DEF text
  <2> QED
    BY <1>1, <1>16, <1>17, <2>1, <2>2, <2>4, <2>5, <2>6, <2>7 DEF ReadsTheBatch, Remains
<1> QED
  BY <1>18, <1>19

-----------------------------------------------------------------------------
(* While the host waits for its reset command to be acknowledged. *)

\* A board that has overflowed never leaves the command that made it do so.
LEMMA FitsStep ==
  ASSUME NEW in, BoardWell, Clock(in), LineMoves(in.rx), Fits,
         in.rx # << >> /\ rxf_full => cmd = "C_WAIT" /\ frame_len > RX_FIFO_DEPTH
  PROVE  Fits'
<1>1. /\ rx_visible \in Seq(Byte) /\ rx_arriving \in Seq(Byte) /\ line \in Seq(Byte)
      /\ Len(rx_visible) + Len(rx_arriving) <= RX_FIFO_DEPTH
      /\ RxFifo!Move(in.rx, rxf_pop) /\ CommandParser
      /\ rx_overflow' = (rx_overflow \/ (in.rx # << >> /\ rxf_full))
      /\ frame_len \in Nat /\ RX_FIFO_DEPTH \in Nat \ {0}
  BY WordIsNumber, CoreAssumption DEF BoardWell, HwTypes, CommandTypes, Clock
<1>2. Len(rx_visible') + Len(rx_arriving') <= RX_FIFO_DEPTH
  BY <1>1, UnreadMoves
<1>3. rx_overflow' => cmd = "C_WAIT" /\ frame_len > RX_FIFO_DEPTH
  BY <1>1 DEF Fits
<1>4. cmd = "C_WAIT" /\ frame_len > RX_FIFO_DEPTH => cmd' = "C_WAIT" /\ frame_len' = frame_len
  <2> SUFFICES ASSUME cmd = "C_WAIT", frame_len > RX_FIFO_DEPTH
               PROVE  cmd' = "C_WAIT" /\ frame_len' = frame_len
    OBVIOUS
  <2>1. Wait
    BY <1>1 DEF CommandParser, AwaitByte, reading_header, StartFrame, StartReset, SkipByte,
                ReadConfig, ReadStall, ReadLength, Stream, HoldReset, ReleaseReset, reset_done
  <2>2. rxf_count < frame_len /\ frame_len # 0
    <3>1. Len(rx_visible) \in Nat /\ Len(rx_arriving) \in Nat
      BY <1>1, LenProperties
    <3> QED
      BY <1>1, <3>1 DEF rxf_count
  <2>3. rxf_count \in Nat
    BY <1>1, LenProperties DEF rxf_count
  <2> QED
    BY <1>1, <2>1, <2>2, <2>3 DEF Wait
<1> QED
  BY <1>2, <1>3, <1>4 DEF Fits

\* Room and what the parser does with it.
LEMMA RoomIs ==
  /\ cmd \in {"C_IDLE", "C_RESET"} => Room = 0
  /\ cmd \in HeaderStates => Room = 1
  /\ cmd = "C_WAIT" => Room = frame_len
  /\ cmd = "C_STREAM" => Room = remaining
BY DEF Room, HeaderStates

LEMMA RoomShrinks ==
  ASSUME CommandParser, CommandTypes, CommandTypes', cmd # "C_RESET",
         cmd = "C_STREAM" => remaining \in 1 .. frame_len /\ ~rxf_empty,
         ~(cmd = "C_IDLE" /\ Popped)
  PROVE  /\ cmd' # "C_RESET" /\ Room \in Nat /\ Room' \in Nat
         /\ (Popped /\ Room = 1) \/ Room' >= Room - OneBit(Popped)
<1> DEFINE Rooms ==
      /\ cmd \in {"C_IDLE", "C_RESET"} => Room = 0
      /\ cmd \in HeaderStates => Room = 1
      /\ cmd = "C_WAIT" => Room = frame_len
      /\ cmd = "C_STREAM" => Room = remaining
<1>1. Rooms /\ Rooms'
  BY RoomIs, PTL
<1>2. Popped <=> (reading_header /\ ~rxf_empty) \/ (cmd = "C_STREAM" /\ ~skid_valid_q)
  BY Zenon DEF Popped, rxf_pop, pipe_ready, Slice!s_ready, reading_header
<1>3. /\ cmd \in CommandStates /\ frame_len \in Nat /\ remaining \in Nat
      /\ cmd' \in CommandStates /\ frame_len' \in Nat /\ remaining' \in Nat
  <2>1. \A n \in Word16 : n \in Nat
    BY WordIsNumber, Zenon
  <2> QED
    BY <2>1, Zenon DEF CommandTypes
<1>4. Room \in Nat /\ Room' \in Nat
  BY <1>1, <1>3 DEF CommandStates
<1>5. CASE AwaitByte
  <2>1. ~Popped /\ cmd' = cmd /\ frame_len' = frame_len /\ remaining' = remaining
    BY <1>2, <1>5 DEF AwaitByte, commandVars, reading_header
  <2>2. Room' = Room
    BY <2>1 DEF Room
  <2> QED
    BY <1>4, <2>1, <2>2 DEF OneBit
<1>6. CASE StartFrame \/ StartReset \/ SkipByte
  <2>1. Popped /\ cmd = "C_IDLE"
    BY <1>2, <1>6 DEF StartFrame, StartReset, SkipByte, reading_header
  <2> QED
    BY <2>1
<1>7. CASE ReadConfig \/ ReadStall \/ ReadLength
  <2>1. Popped /\ cmd \in HeaderStates /\ cmd' # "C_RESET"
    BY <1>2, <1>7 DEF ReadConfig, ReadStall, ReadLength, reading_header, HeaderStates
  <2> QED
    BY <1>1, <1>4, <2>1
<1>8. CASE Wait
  <2>1. /\ ~Popped /\ cmd = "C_WAIT" /\ frame_len' = frame_len
        /\ \/ frame_len = 0 /\ cmd' = "C_IDLE"
           \/ cmd' = "C_WAIT"
           \/ cmd' = "C_STREAM" /\ remaining' = frame_len
    BY <1>2, <1>8 DEF Wait, reading_header
  <2> QED
    BY <1>1, <1>3, <1>4, <2>1 DEF OneBit
<1>9. CASE Stream
  <2>1. cmd = "C_STREAM" /\ Room = remaining
    BY <1>1, <1>9 DEF Stream
  <2>2. CASE skid_valid_q
    <3>1. ~Popped /\ cmd' = cmd /\ remaining' = remaining
      BY <1>2, <1>9, <2>1, <2>2 DEF Stream, pipe_ready, Slice!s_ready, reading_header
    <3> QED
      BY <1>1, <1>4, <2>1, <3>1 DEF OneBit
  <2>3. CASE ~skid_valid_q
    <3>1. /\ Popped /\ remaining' = remaining - 1
          /\ cmd' = IF remaining = 1 THEN "C_IDLE" ELSE "C_STREAM"
      BY <1>2, <1>9, <2>1, <2>3 DEF Stream, pipe_ready, Slice!s_ready
    <3> QED
      BY <1>1, <1>3, <1>4, <2>1, <3>1 DEF OneBit
  <2> QED
    BY <2>2, <2>3
<1>10. ~(HoldReset \/ ReleaseReset)
  BY DEF HoldReset, ReleaseReset, reset_done
<1> QED
  BY <1>5, <1>6, <1>7, <1>8, <1>9, <1>10 DEF CommandParser

NoAcks(answers) == \A i \in 1 .. Len(answers) : answers[i].kind # "ack"

LEMMA NoAcksKept ==
  ASSUME NEW answers \in Seq(Answer), NoAcks(answers)
  PROVE  /\ answers # << >> => NoAcks(Tail(answers)) /\ Head(answers).kind # "ack"
         /\ \A a \in Answer : a.kind # "ack" => NoAcks(Append(answers, a))
<1>1. ASSUME answers # << >>
      PROVE  NoAcks(Tail(answers)) /\ Head(answers).kind # "ack"
  <2>1. /\ Len(answers) \in Nat \ {0} /\ Head(answers) = answers[1]
        /\ Len(Tail(answers)) = Len(answers) - 1
        /\ \A i \in 1 .. Len(Tail(answers)) : Tail(answers)[i] = answers[i + 1]
    BY <1>1, EmptySeq, LenProperties, HeadTailProperties
  <2>2. \A i \in 1 .. Len(Tail(answers)) : i + 1 \in 1 .. Len(answers)
    BY <2>1
  <2> QED
    BY <2>1, <2>2 DEF NoAcks
<1>2. ASSUME NEW a \in Answer, a.kind # "ack"
      PROVE  NoAcks(Append(answers, a))
  <2>1. /\ Len(answers) \in Nat /\ Len(Append(answers, a)) = Len(answers) + 1
        /\ Append(answers, a)[Len(answers) + 1] = a
        /\ \A i \in 1 .. Len(answers) : Append(answers, a)[i] = answers[i]
    BY LenProperties, AppendProperties
  <2>2. \A i \in 1 .. Len(answers) + 1 : i = Len(answers) + 1 \/ i \in 1 .. Len(answers)
    BY <2>1
  <2> QED
    BY <1>2, <2>1, <2>2 DEF NoAcks
<1> QED
  BY <1>1, <1>2

\* The reset command ends what an earlier session has left.
LEMMA ResetStaysData ==
  ASSUME NEW in, BoardWell, Clock(in), LineMoves(in.rx), HostTakes(in), Issues(in),
         issued \in Seq(Answer), ResetIsData, Fits
  PROVE  ResetIsData' /\ Fits'
<1>1. /\ Len(Unread) <= Room
      /\ cmd # "C_RESET" /\ ~ack_pending /\ reset_acks = 0
      /\ NoAcks(issued)
  BY DEF ResetIsData, NoAcks
<1>2. filter_rst_n
  BY <1>1 DEF filter_rst_n
<1>3. BoardWell' /\ rxf_data \in Byte /\ RxFifo!Move(in.rx, rxf_pop)
  BY BoardTick
<1>4. /\ rx_visible \in Seq(Byte) /\ rx_arriving \in Seq(Byte) /\ line \in Seq(Byte)
      /\ Len(rx_visible) + Len(rx_arriving) <= RX_FIFO_DEPTH
      /\ CommandTypes /\ CommandTypes' /\ Filter!ServiceTypeOK
      /\ SliceFollowsParser /\ StreamNeverStarves
      /\ CommandParser
  BY <1>3 DEF BoardWell, HwTypes, Clock
<1>5. /\ Unread \in Seq(Byte) /\ Unread' \in Seq(Byte)
      /\ Popped => Unread # << >>
      /\ Len(Unread') <= Len(Unread) - OneBit(Popped)
      /\ Len(Unread) = Len(rx_visible) + Len(rx_arriving) + Len(line)
  BY <1>3, <1>4, UnreadMoves
<1>6. Len(Unread) \in Nat /\ Len(Unread') \in Nat
      /\ (Unread # << >> => Len(Unread) > 0)
  BY <1>5, EmptySeq, LenProperties
<1>7. ~(cmd = "C_IDLE" /\ Popped)
  BY <1>1, <1>5, <1>6, RoomIs
<1>8. cmd = "C_STREAM" => /\ remaining \in 1 .. frame_len /\ ~rxf_empty
                          /\ remaining \in 1 .. Len(rx_visible)
  BY <1>4 DEF SliceFollowsParser, StreamNeverStarves, rxf_count, rxf_empty
<1>9. /\ cmd' # "C_RESET" /\ Room \in Nat /\ Room' \in Nat
      /\ (Popped /\ Room = 1) \/ Room' >= Room - OneBit(Popped)
  BY <1>1, <1>4, <1>7, <1>8, RoomShrinks
<1>10. Len(Unread') <= Room'
  <2>1. OneBit(Popped) \in {0, 1} /\ (Popped => OneBit(Popped) = 1)
    BY DEF OneBit
  <2> QED
    BY <1>1, <1>5, <1>6, <1>9, <2>1
<1>11. ~ack_sent /\ ~ack_pending'
  BY <1>1 DEF ack_sent, Clock, reset_done
<1>12. reset_acks' = 0
  BY <1>1, NoAcksKept DEF HostTakes, OneBit
<1>13. NoAcks(issued')
  <2> DEFINE left == IF Parses(in) THEN Tail(issued) ELSE issued
  <2>1. left \in Seq(Answer) /\ NoAcks(left)
    BY <1>1, NoAcksKept, HeadTailProperties DEF HostTakes
  <2>2. issued' = left \o NewAnswers(in)
    BY DEF Issues
  <2> HIDE DEF left
  <2>3. GivenAnswer(in)
    BY <1>4, AtMostOneGiven
  <2>4. CASE NewAnswers(in) = << >>
    <3>1. issued' = left
      BY <2>1, <2>2, <2>4, ConcatEmptySeq
    <3> QED
      BY <2>1, <3>1
  <2>5. ASSUME NEW a \in Answer, NewAnswers(in) = <<a>>, a.kind = "ack" <=> ack_sent
        PROVE  NoAcks(issued')
    <3>1. issued' = Append(left, a)
      BY <2>1, <2>2, <2>5, AppendIsConcat
    <3> QED
      BY <1>11, <2>1, <2>5, <3>1, NoAcksKept
  <2> QED
    BY <2>3, <2>4, <2>5, Zenon DEF GivenAnswer
<1>14. ResetIsData'
  BY <1>9, <1>10, <1>11, <1>12, <1>13 DEF ResetIsData, NoAcks
<1>15. in.rx # << >> /\ rxf_full => cmd = "C_WAIT" /\ frame_len > RX_FIFO_DEPTH
  <2> SUFFICES ASSUME in.rx # << >>, rxf_full
               PROVE  cmd = "C_WAIT" /\ frame_len > RX_FIFO_DEPTH
    OBVIOUS
  <2>1. Len(line) \in Nat \ {0} /\ Len(rx_visible) \in Nat /\ Len(rx_arriving) \in Nat
    BY <1>4, EmptySeq, LenProperties DEF LineMoves
  <2>2. RX_FIFO_DEPTH \in Nat \ {0} /\ Len(rx_visible) + Len(rx_arriving) = RX_FIFO_DEPTH
    BY CoreAssumption DEF rxf_full
  <2>3. Room > RX_FIFO_DEPTH
    BY <1>1, <1>5, <1>6, <1>9, <2>1, <2>2
  <2>4. cmd \notin HeaderStates /\ cmd # "C_IDLE"
    BY <2>2, <2>3, RoomIs
  <2>5. cmd # "C_STREAM"
    BY <1>8, <2>1, <2>2, <2>3, RoomIs
  <2>6. cmd = "C_WAIT"
    BY <1>1, <1>4, <2>4, <2>5 DEF CommandTypes, CommandStates
  <2> QED
    BY <2>3, <2>6, RoomIs
<1>16. Fits'
  BY <1>15, FitsStep
<1> QED
  BY <1>14, <1>16

\* Between two frames the filter stays between two frames.
LEMMA StaysIdle ==
  ASSUME NEW in, BoardWell, Clock(in), LineMoves(in.rx),
         cmd \in {"C_IDLE", "C_RESET"}, phase = "idle", ~out_valid_q
  PROVE  /\ phase' = "idle" /\ ~out_valid_q'
         /\ ~BeatTaken(in) /\ ~ResultTaken(in)
<1>1. ~BeatTaken(in) /\ ~ResultTaken(in)
  BY DEF BeatTaken, ResultTaken, m_tvalid, result_valid, Filter!m_tvalid, Filter!result_valid,
         BoardWell, BeatsFollowPhase
<1>2. CASE cmd = "C_RESET"
  <2>1. Slice!ClearEdge /\ Filter!ClearEdge
    BY <1>2 DEF Clock, FilterPath, filter_rst_n
  <2>2. cmd' # "C_STREAM"
    BY <1>2, ParserCases DEF Clock, ParserStreams, Pushes, ParserStalls, ParserBegins, begun,
                             ParserElsewhere
  <2>3. phase' = "idle" /\ ~out_valid_q'
    BY <2>1, <2>2, SliceForgotten
  <2> QED
    BY <1>1, <2>3
<1>3. CASE cmd = "C_IDLE"
  <2>1. Flows
    BY <1>3, BoardTick DEF filter_rst_n
  <2>2. ~skid_valid_q /\ ~Pushes /\ ~Pops
    BY <1>3 DEF BoardWell, SliceFollowsParser, Pushes, Pops
  <2>3. phase' = "idle"
    BY <2>1, <2>2 DEF Flows, PhaseFollows
  <2>4. ~out_valid_q'
    BY <2>1, <2>2 DEF Flows, SliceRefills, SlicePasses, SliceSkids, SliceStalls
  <2> QED
    BY <1>1, <2>3, <2>4
<1> QED
  BY <1>2, <1>3

\* The reset command is read, and carried out.
LEMMA ResetIsRead ==
  ASSUME NEW in, BoardWell, Clock(in), LineMoves(in.rx),
         cmd \in {"C_IDLE", "C_RESET"}, Unread \in {<< >>, <<CMD_RESET>>},
         cmd = "C_RESET" => Unread = << >>
  PROVE  /\ cmd' \in {"C_IDLE", "C_RESET"} /\ Unread' \in {<< >>, <<CMD_RESET>>}
         /\ Len(Unread') + OneBit(cmd' = "C_RESET") + OneBit(reset_done) =
              Len(Unread) + OneBit(cmd = "C_RESET")
         /\ ~(in.rx # << >> /\ rxf_full)
<1>1. /\ rx_visible \in Seq(Byte) /\ rx_arriving \in Seq(Byte) /\ line \in Seq(Byte)
      /\ Len(rx_visible) + Len(rx_arriving) <= RX_FIFO_DEPTH
      /\ RxFifo!Move(in.rx, rxf_pop) /\ CommandParser
  BY BoardTick DEF BoardWell, HwTypes, Clock
<1>2. /\ Unread \in Seq(Byte)
      /\ Popped => Unread # << >> /\ rxf_data = Head(Unread)
      /\ in.rx = << >> \/ ~rxf_full =>
           Unread' = IF Popped THEN Tail(Unread) ELSE Unread
      /\ Len(Unread) = Len(rx_visible) + Len(rx_arriving) + Len(line)
  BY <1>1, UnreadMoves
<1>3. /\ Len(<<CMD_RESET>>) = 1 /\ Head(<<CMD_RESET>>) = CMD_RESET
      /\ Tail(<<CMD_RESET>>) = << >> /\ Len(<< >>) = 0
  OBVIOUS
<1>4. ~(in.rx # << >> /\ rxf_full)
  <2> SUFFICES ASSUME in.rx # << >>, rxf_full PROVE FALSE
    OBVIOUS
  <2>1. Len(line) \in Nat \ {0} /\ Len(rx_visible) \in Nat /\ Len(rx_arriving) \in Nat
    BY <1>1, EmptySeq, LenProperties DEF LineMoves
  <2>2. RX_FIFO_DEPTH \in Nat \ {0} /\ Len(rx_visible) + Len(rx_arriving) = RX_FIFO_DEPTH
    BY CoreAssumption DEF rxf_full
  <2>3. Len(Unread) <= 1
    <3>1. Len(Unread) = 0 \/ Len(Unread) = 1
      BY <1>3, Zenon
    <3>2. \A n : n = 0 \/ n = 1 => n <= 1
      OBVIOUS
    <3> QED
      BY <3>1, <3>2, Zenon
  <2> QED
    BY <1>2, <2>1, <2>2, <2>3
<1>5. Unread' = IF Popped THEN Tail(Unread) ELSE Unread
  BY <1>2, <1>4
<1>6. CASE cmd = "C_RESET"
  <2>1. ~Popped /\ Unread = << >>
    BY <1>2, <1>6
  <2>2. \/ ~reset_done /\ cmd' = "C_RESET"
        \/ reset_done /\ cmd' = "C_IDLE"
    BY <1>1, <1>6 DEF CommandParser, AwaitByte, reading_header, StartFrame, StartReset, SkipByte,
       ReadConfig, ReadStall, ReadLength, Wait, Stream, HoldReset, ReleaseReset, reset_done
  <2>3. Unread' = << >>
    BY <1>5, <2>1
  <2>4. OneBit(cmd' = "C_RESET") + OneBit(reset_done) = OneBit(cmd = "C_RESET")
    BY <1>6, <2>2 DEF OneBit
  <2>5. OneBit(cmd' = "C_RESET") \in Nat /\ OneBit(reset_done) \in Nat
    BY DEF OneBit
  <2>6. Len(Unread') + OneBit(cmd' = "C_RESET") + OneBit(reset_done) =
          Len(Unread) + OneBit(cmd = "C_RESET")
    BY <1>3, <2>1, <2>3, <2>4, <2>5
  <2>7. cmd' \in {"C_IDLE", "C_RESET"}
    BY <2>2
  <2>8. Unread' \in {<< >>, <<CMD_RESET>>}
    BY <2>3
  <2> QED
    BY <1>4, <2>6, <2>7, <2>8
<1>7. CASE cmd = "C_IDLE"
  <2>1. (Popped <=> ~rxf_empty) /\ ~reset_done
    BY <1>7 DEF Popped, rxf_pop, reading_header, reset_done
  <2>2. CASE rxf_empty
    <3>1. cmd' = "C_IDLE"
      BY <1>1, <1>7, <2>2 DEF CommandParser, AwaitByte, commandVars, StartFrame, StartReset,
         SkipByte, ReadConfig, ReadStall, ReadLength, Wait, Stream, HoldReset, ReleaseReset,
         reset_done
    <3>2. Unread' = Unread
      BY <1>5, <2>1, <2>2
    <3>3. Len(Unread) \in Nat
      BY <1>2, LenProperties
    <3>4. OneBit(cmd' = "C_RESET") = 0 /\ OneBit(cmd = "C_RESET") = 0 /\ OneBit(reset_done) = 0
      BY <1>7, <2>1, <3>1 DEF OneBit
    <3> QED
      BY <1>4, <3>1, <3>2, <3>3, <3>4
  <2>3. CASE ~rxf_empty
    <3>1. Unread = <<CMD_RESET>> /\ rxf_data = CMD_RESET
      BY <1>2, <1>3, <2>1, <2>3
    <3>2. cmd' = "C_RESET"
      BY <1>1, <1>7, <2>3, <3>1 DEF CommandParser, AwaitByte, StartFrame, StartReset,
         SkipByte, ReadConfig, ReadStall, ReadLength, Wait, Stream, HoldReset, ReleaseReset,
         reset_done, CMD_FRAME, CMD_RESET
    <3>3. Unread' = << >>
      BY <1>3, <1>5, <2>1, <2>3, <3>1
    <3> QED
      BY <1>3, <1>4, <1>7, <2>1, <3>1, <3>2, <3>3 DEF OneBit
  <2> QED
    BY <2>2, <2>3
<1> QED
  BY <1>6, <1>7

\* Its acknowledgement is the only answer.
LEMMA AckIsOnlyAnswer ==
  ASSUME NEW in, HostTakes(in), Issues(in), ~BeatTaken(in), ~ResultTaken(in),
         issued \in {<< >>, <<Protocol!Ack>>}, ack_sent => issued = << >>,
         reset_acks \in Nat
  PROVE  /\ issued' \in {<< >>, <<Protocol!Ack>>} /\ frames' = frames
         /\ Len(issued') + reset_acks' = Len(issued) + reset_acks + OneBit(ack_sent)
<1> DEFINE ack == Protocol!Ack
<1>1. /\ Len(<<ack>>) = 1 /\ Head(<<ack>>) = ack /\ Tail(<<ack>>) = << >> /\ Len(<< >>) = 0
      /\ << >> \o << >> = << >> /\ << >> \o <<ack>> = <<ack>> /\ <<ack>> \o << >> = <<ack>>
  OBVIOUS
<1>2. ack.kind = "ack"
  BY DEF Protocol!Ack
<1>3. NewAnswers(in) = IF ack_sent THEN <<ack>> ELSE << >>
  BY NewAnswersAre
<1>4. issued' = (IF Parses(in) THEN Tail(issued) ELSE issued) \o NewAnswers(in)
  BY DEF Issues
<1> HIDE DEF ack
<1>5. CASE Parses(in)
  <2>1. issued = <<ack>> /\ ~ack_sent
    BY <1>1, <1>5 DEF HostTakes, ack
  <2>2. issued' = << >>
    BY <1>1, <1>3, <1>4, <1>5, <2>1
  <2>3. reset_acks' = reset_acks + 1 /\ frames' = frames
    BY <1>1, <1>2, <1>5, <2>1 DEF HostTakes, OneBit, IsResult
  <2> QED
    BY <1>1, <2>1, <2>2, <2>3 DEF OneBit
<1>6. CASE ~Parses(in)
  <2>1. reset_acks' = reset_acks /\ frames' = frames
    BY <1>6 DEF HostTakes, OneBit
  <2>2. CASE ack_sent
    <3>1. issued = << >> /\ issued' = <<ack>>
      BY <1>1, <1>3, <1>4, <1>6, <2>2
    <3> QED
      BY <1>1, <2>1, <2>2, <3>1 DEF OneBit, ack
  <2>3. CASE ~ack_sent
    <3>1. issued' = issued
      BY <1>1, <1>3, <1>4, <1>6, <2>3 DEF ack
    <3>2. Len(issued) \in Nat
      BY <1>1 DEF ack
    <3> QED
      BY <2>1, <2>3, <3>1, <3>2 DEF OneBit
  <2> QED
    BY <2>2, <2>3
<1> QED
  BY <1>5, <1>6

\* One reset command is one acknowledgement.
LEMMA ResetStaysCommand ==
  ASSUME NEW in, BoardWell, Clock(in), LineMoves(in.rx), HostTakes(in), Issues(in),
         reset_acks \in Nat, reset_acks' \in Nat, ResetIsCommand, Fits
  PROVE  ResetIsCommand' /\ Fits'
<1>1. /\ cmd \in {"C_IDLE", "C_RESET"} /\ phase = "idle" /\ ~out_valid_q
      /\ Unread \in {<< >>, <<CMD_RESET>>} /\ issued \in {<< >>, <<Protocol!Ack>>}
      /\ frames = << >>
      /\ Len(Unread) + OneBit(cmd = "C_RESET") + OneBit(ack_pending)
           + Len(issued) + reset_acks = 1
  BY DEF ResetIsCommand
<1>2. /\ Len(Unread) \in {0, 1} /\ Len(issued) \in {0, 1}
      /\ (Len(Unread) = 0 => Unread = << >>) /\ (Len(issued) = 0 => issued = << >>)
  <2>1. \A x : Len(<<x>>) = 1 /\ Len(<< >>) = 0
    OBVIOUS
  <2> QED
    BY <1>1, <2>1
<1>3. \A b \in BOOLEAN : OneBit(b) \in {0, 1} /\ (OneBit(b) = 1 <=> b)
  BY DEF OneBit
<1>4. (cmd = "C_RESET" => Unread = << >> /\ ~ack_pending) /\ (ack_pending => issued = << >>)
  <2>1. OneBit(cmd = "C_RESET") \in {0, 1} /\ (OneBit(cmd = "C_RESET") = 1 <=> cmd = "C_RESET")
    BY <1>3
  <2>2. OneBit(ack_pending) \in {0, 1} /\ (OneBit(ack_pending) = 1 <=> ack_pending)
    BY DEF OneBit
  <2> QED
    BY <1>1, <1>2, <2>1, <2>2
<1>5. phase' = "idle" /\ ~out_valid_q' /\ ~BeatTaken(in) /\ ~ResultTaken(in)
  BY <1>1, StaysIdle
<1>6. /\ cmd' \in {"C_IDLE", "C_RESET"} /\ Unread' \in {<< >>, <<CMD_RESET>>}
      /\ Len(Unread') + OneBit(cmd' = "C_RESET") + OneBit(reset_done) =
           Len(Unread) + OneBit(cmd = "C_RESET")
      /\ ~(in.rx # << >> /\ rxf_full)
  BY <1>1, <1>4, ResetIsRead
<1>7. ack_sent => ack_pending
  BY DEF ack_sent
<1>8. /\ issued' \in {<< >>, <<Protocol!Ack>>} /\ frames' = frames
      /\ Len(issued') + reset_acks' = Len(issued) + reset_acks + OneBit(ack_sent)
  BY <1>1, <1>4, <1>5, <1>7, AckIsOnlyAnswer
<1>9. OneBit(ack_pending') = OneBit(ack_pending) + OneBit(reset_done) - OneBit(ack_sent)
  <2>1. ack_pending' <=> reset_done \/ (ack_pending /\ ~ack_sent)
    BY DEF Clock
  <2>2. reset_done => ~ack_pending
    BY <1>4 DEF reset_done
  <2> QED
    BY <1>7, <2>1, <2>2 DEF OneBit
<1>10. Len(Unread') + OneBit(cmd' = "C_RESET") + OneBit(ack_pending')
           + Len(issued') + reset_acks' = 1
  <2> DEFINE before == Len(Unread) + OneBit(cmd = "C_RESET")
             after == Len(Unread') + OneBit(cmd' = "C_RESET")
             pending == OneBit(ack_pending)
             out == Len(issued)
  <2>1. \A a, r, p, s, i, n \in Int : a + r + p + i + n = 1 => a + (p + r - s) + (i + n + s) = 1
    OBVIOUS
  <2>2. \A a, p, i, n \in Int : a + p + (i + n) = a + p + i + n
    OBVIOUS
  <2>3. /\ after \in Int /\ pending \in Int /\ out \in Int /\ reset_acks \in Int
        /\ OneBit(reset_done) \in Int /\ OneBit(ack_sent) \in Int
        /\ OneBit(ack_pending') \in Int /\ Len(issued') \in Int /\ reset_acks' \in Int
    BY <1>2, <1>6, <1>8 DEF OneBit
  <2>4. /\ before + pending + out + reset_acks = 1
        /\ after + OneBit(reset_done) = before
    BY <1>1, <1>6
  <2> HIDE DEF before, after, pending, out
  <2>5. after + OneBit(reset_done) + pending + out + reset_acks = 1
    BY <2>4, Zenon
  <2>6. after + (pending + OneBit(reset_done) - OneBit(ack_sent))
          + (out + reset_acks + OneBit(ack_sent)) = 1
    BY <2>3, <2>5
  <2>7. after + OneBit(ack_pending') + (Len(issued') + reset_acks') = 1
    BY <1>8, <1>9, <2>6, Zenon DEF pending, out
  <2>8. after + OneBit(ack_pending') + Len(issued') + reset_acks' = 1
    BY <2>3, <2>7
  <2> QED
    BY <2>8, Zenon DEF after
<1>11. ResetIsCommand'
  BY <1>1, <1>5, <1>6, <1>8, <1>10 DEF ResetIsCommand, CMD_RESET, Protocol!Ack, OneBit
<1>12. Fits'
  BY <1>6, FitsStep
<1> QED
  BY <1>11, <1>12

-----------------------------------------------------------------------------
(* The inductive invariant of NoOverflow. *)

\* It has a part about the board, one about the types of the host, and one
\* about what the host has written and the board has made of it.
HostState ==
  /\ buffer \in Seq(Byte) /\ stage \in {"resetting", "reading", "done", "over"}
  /\ first \in Nat /\ index \in Nat /\ first <= index
  /\ frames \in Seq(Response) /\ current \in Seq(Filter!Beat) /\ reset_acks \in Nat

Progress ==
  /\ Fits
  /\ stage \in {"resetting", "reading"} => WireInv
  /\ stage \in {"done", "over"} => line = << >>
  /\ stage = "resetting" => first = 1 /\ index = 1 /\ (ResetIsData \/ ResetIsCommand)
  /\ stage = "reading" => first >= 1 /\ index <= Len(Plan) + 1 /\ ReadsTheBatch
  /\ stage = "done" => ~rx_overflow

LEMMA HostInvIs == HostInv <=> BoardWell /\ HostState /\ Progress
<1>1. HostTypes <=> HwTypes /\ line \in Seq(Byte) /\ HostState
  BY HwTypesAre DEF HostTypes, HostState, Response
<1>2. HostState => (Active <=> stage \in {"resetting", "reading"})
                   /\ (~Active <=> stage \in {"done", "over"})
  BY DEF HostState, Active
<1> QED
  BY <1>1, <1>2, Zenon DEF HostInv, BoardWell, Progress, Fits

\* A step of the host alone leaves the board as it is.
LEMMA BoardKept ==
  ASSUME BoardWell, Fits, UNCHANGED coreVars, line' \in Seq(Byte)
  PROVE  BoardWell' /\ Fits'
<1>1. HwTypes'
  BY DEF coreVars, commandVars, BoardWell, HwTypes, CommandTypes, SerializerTypes,
         Slice!BufferTypeOK, Filter!ServiceTypeOK
<1>2. BeatsFollowPhase' /\ SliceFollowsParser' /\ ShiftHasBytes' /\ StreamNeverStarves'
  BY DEF coreVars, commandVars, BoardWell, BeatsFollowPhase, SliceFollowsParser, Streaming,
         ShiftHasBytes, StreamNeverStarves, rxf_count
<1>3. Fits' /\ Len(rx_visible') + Len(rx_arriving') <= RX_FIFO_DEPTH
  BY DEF coreVars, commandVars, Fits
<1> QED
  BY <1>1, <1>2, <1>3 DEF BoardWell

LEMMA FrameKept ==
  ASSUME UNCHANGED coreVars
  PROVE  /\ Places' = Places /\ (phase' # "idle" <=> phase # "idle")
         /\ cmd' = cmd /\ Room' = Room /\ rx_visible' = rx_visible /\ rx_arriving' = rx_arriving
BY DEF coreVars, commandVars, Places, NextOut, NextSkid, NextParser, Room, OneBit, HeaderStates

-----------------------------------------------------------------------------
(* The batches. *)

\* There is always a next batch, and it fits into the FIFO.
LEMMA BatchFits ==
  ASSUME NEW k \in 1 .. Len(Plan)
  PROVE  /\ BatchEnd(k) \in k .. Len(Plan)
         /\ Len(Bytes(k, BatchEnd(k))) <= RX_FIFO_DEPTH
<1> DEFINE size(n) == Len(Bytes(k, n))
           full(n) == n = Len(Plan) \/ size(n + 1) > BATCH_BYTES
           T == {n \in k .. Len(Plan) : full(n)}
<1>1. Len(Plan) \in Nat /\ k \in Nat /\ k >= 1 /\ k <= Len(Plan)
  BY PlanAssumption, LenProperties DEF Sendable
<1>2. \A n \in k .. Len(Plan) : size(n) \in Nat
  <2> TAKE n \in k .. Len(Plan)
  <2>1. n \in Nat /\ n <= Len(Plan) /\ k <= n + 1
    BY <1>1
  <2>2. Bytes(k, n) \in Seq(Byte)
    BY <1>1, <2>1, BytesAre
  <2> QED
    BY <2>2, LenProperties
<1>3. BATCH_BYTES \in Nat /\ BATCH_BYTES <= RX_FIFO_DEPTH /\ RX_FIFO_DEPTH \in Nat
  BY BatchAssumption, CoreAssumption
<1>4. size(k) <= RX_FIFO_DEPTH
  <2>1. k \in Nat /\ k + 1 \in Nat /\ k <= Len(Plan) /\ k >= 1 /\ k <= k + 1 /\ k + 1 >= 1
        /\ k + 1 <= k + 1
    BY <1>1
  <2>2. Bytes(k, k) = Command(k) \o Bytes(k + 1, k)
    <3>1. PICK n \in Nat : n = k
      BY <1>1
    <3>2. k \in Nat /\ n \in Nat /\ k >= 1 /\ n <= Len(Plan) /\ k <= n + 1 /\ k <= n
      BY <2>1, <3>1
    <3>3. Bytes(k, n) = Command(k) \o Bytes(k + 1, n)
      BY <3>2, BytesAre, Zenon
    <3> QED
      BY <3>1, <3>3
  <2>3. Bytes(k + 1, k) = << >>
    BY <2>1, BytesAre
  <2>4. /\ Command(k) \in Seq(Byte) /\ Len(Command(k)) = 8 + Len(Plan[k].frame)
        /\ Len(Plan[k].frame) \in 1 .. MAX_FRAME_BYTES
    BY CommandIs
  <2>5. Bytes(k, k) = Command(k)
    BY <2>2, <2>3, <2>4, ConcatEmptySeq
  <2> QED
    BY <1>3, <2>4, <2>5 DEF MAX_FRAME_BYTES
<1>5. \E n \in k .. Len(Plan) : (n = k \/ size(n) <= BATCH_BYTES) /\ full(n)
  <2>1. T \in SUBSET Nat /\ Len(Plan) \in T
    BY <1>1
  <2>2. PICK n \in T : \A m \in T : n <= m
    <3> HIDE DEF T
    <3> QED
      BY <2>1, LeastNumber
  <2>3. CASE n = k
    BY <2>2, <2>3
  <2>4. CASE n # k
    <3>1. n - 1 \in k .. Len(Plan) /\ n - 1 \notin T
      BY <1>1, <2>2, <2>4
    <3>2. ~(size((n - 1) + 1) > BATCH_BYTES)
      BY <3>1
    <3>3. (n - 1) + 1 = n
      BY <2>1, <2>2
    <3>4. size(n) <= BATCH_BYTES
      BY <1>2, <1>3, <2>2, <3>2, <3>3
    <3> QED
      BY <2>2, <3>4
  <2> QED
    BY <2>3, <2>4
<1>6. /\ BatchEnd(k) \in k .. Len(Plan)
      /\ BatchEnd(k) = k \/ size(BatchEnd(k)) <= BATCH_BYTES
  <2>1. BatchEnd(k) = CHOOSE n \in k .. Len(Plan) : (n = k \/ size(n) <= BATCH_BYTES) /\ full(n)
    BY DEF BatchEnd
  <2> HIDE DEF size, full
  <2> QED
    BY <1>5, <2>1
<1> QED
  BY <1>2, <1>3, <1>4, <1>6

\* While the parser streams, its frame is somewhere.
LEMMA StreamIsSomewhere ==
  ASSUME SliceFollowsParser
  PROVE  /\ Places \in Nat
         /\ OneBit(phase # "idle") + Places - OneBit(cmd = "C_STREAM") >= 0
<1>1. \A b \in BOOLEAN : OneBit(b) \in {0, 1}
  BY DEF OneBit
<1>2. OneBit(NextOut) \in {0, 1} /\ OneBit(NextSkid) \in {0, 1} /\ OneBit(NextParser) \in {0, 1}
      /\ OneBit(phase # "idle") \in {0, 1} /\ OneBit(cmd = "C_STREAM") \in {0, 1}
  BY DEF OneBit
<1>3. cmd = "C_STREAM" => NextParser \/ NextOut \/ phase # "idle"
  BY DEF SliceFollowsParser, Streaming, NextParser, NextOut
<1>4. /\ NextParser => OneBit(NextParser) = 1
      /\ NextOut => OneBit(NextOut) = 1
      /\ phase # "idle" => OneBit(phase # "idle") = 1
      /\ cmd # "C_STREAM" => OneBit(cmd = "C_STREAM") = 0
  BY DEF OneBit
<1> QED
  BY <1>2, <1>3, <1>4 DEF Places

\* When every frame of a batch is answered, the board is idle and has read all
\* of it.
LEMMA BatchIsAnswered ==
  ASSUME BoardWell, WireInv, frames \in Seq(Response), first \in Nat, index \in Nat,
         first >= 1, index <= Len(Plan) + 1, ReadsTheBatch, Len(frames) = index - first
  PROVE  cmd = "C_IDLE" /\ Unread = << >> /\ ParserFrame = first + Len(frames)
<1> DEFINE k == ParserFrame
<1>1. /\ k \in first .. index /\ (k = index => cmd = "C_IDLE")
      /\ Remains(Unread, Bytes(k, index - 1), Position)
  BY DEF ReadsTheBatch, Remains
<1>2. /\ Len(frames) \in Nat /\ Results(issued) \in Nat
      /\ OneBit(phase # "idle") + Places - OneBit(cmd = "C_STREAM") >= 0
      /\ OneBit(phase # "idle") \in Int /\ Places \in Int /\ OneBit(cmd = "C_STREAM") \in Int
  BY ResultsMove, StreamIsSomewhere, LenProperties DEF WireInv, BoardWell, OneBit
<1>3. k = first + Len(frames) + Results(issued) + OneBit(phase # "idle") + Places
            - OneBit(cmd = "C_STREAM")
  BY DEF ParserFrame, FilterFrame
<1> HIDE DEF k
<1>4. k = index
  <2>1. \A l, r, p, a, c \in Int : r >= 0 /\ p + a - c >= 0 /\ l = index - first =>
          first + l + r + p + a - c >= index
    OBVIOUS
  <2>2. k >= index
    BY <1>2, <1>3, <2>1
  <2>3. \A i \in first .. index : i >= index => i = index
    OBVIOUS
  <2> QED
    BY <1>1, <2>2, <2>3, Zenon
<1>5. cmd = "C_IDLE" /\ Position = 0 /\ Bytes(k, index - 1) = << >>
  BY <1>1, <1>4, BatchText, IdlePosition
<1>6. Len(Unread) = 0
  BY <1>1, <1>5 DEF Remains
<1>7. Unread \in Seq(Byte)
  BY ConcatProperties DEF Unread, BoardWell, HwTypes
<1> QED
  BY <1>4, <1>5, <1>6, <1>7, EmptySeq DEF k

\* Then the next one is written, if there is one.
LEMMA BatchIsWritten ==
  ASSUME WriteBatch, BoardWell, WireInv, Fits, HostState, index >= 1, index <= Len(Plan) + 1,
         cmd = "C_IDLE", Unread = << >>, ParserFrame = first + Len(frames)
  PROVE  BoardWell' /\ HostState' /\ Progress'
<1>1. /\ first' = index /\ frames' = << >> /\ UNCHANGED coreVars
      /\ buffer' = buffer /\ current' = current /\ reset_acks' = reset_acks
      /\ issued' = issued
  BY DEF WriteBatch
<1>2. rx_visible = << >> /\ rx_arriving = << >> /\ line = << >>
  <2>1. rx_visible \in Seq(Byte) /\ rx_arriving \in Seq(Byte) /\ line \in Seq(Byte)
    BY DEF BoardWell, HwTypes
  <2>2. \A s, t, u \in Seq(Byte) : (s \o t) \o u = << >> => s = << >> /\ t = << >> /\ u = << >>
    OBVIOUS
  <2> QED
    BY <2>1, <2>2 DEF Unread
<1>3. << >> \in Seq(Response) /\ Len(<< >>) = 0
  BY EmptySeq
<1>4. WireInv'
  BY <1>1 DEF WireInv, InSerializer, coreVars, commandVars, Answer, Protocol!EncodeAll
<1>5. HostState' /\ index \in Nat /\ first \in Nat /\ Len(Plan) \in Nat
  <2>1. Len(Plan) \in Nat
    BY PlanAssumption, LenProperties DEF Sendable
  <2>2. index <= Len(Plan) => BatchEnd(index) \in index .. Len(Plan)
    BY <2>1, BatchFits DEF HostState
  <2> QED
    BY <1>1, <1>3, <2>1, <2>2 DEF WriteBatch, HostState, Response, Byte, Unsigned, Filter!Beat,
                                  Filter!Record
<1>6. CASE index > Len(Plan)
  <2>1. stage' = "done" /\ line' = << >>
    BY <1>2, <1>6 DEF WriteBatch
  <2>2. line' \in Seq(Byte)
    BY <2>1, EmptySeq
  <2>3. BoardWell' /\ Fits'
    BY <1>1, <2>2, BoardKept
  <2>4. ~rx_overflow'
    BY <1>1 DEF Fits, coreVars, commandVars
  <2> QED
    BY <1>5, <2>1, <2>3, <2>4 DEF Progress
<1>7. CASE index <= Len(Plan)
  <2> DEFINE n == BatchEnd(index)
             text == Bytes(index, n)
  <2>1. stage' = "reading" /\ line' = text /\ index' = n + 1
    BY <1>5, <1>7 DEF WriteBatch
  <2>2. index \in 1 .. Len(Plan)
    BY <1>5, <1>7
  <2>3. n \in index .. Len(Plan) /\ Len(text) <= RX_FIFO_DEPTH
    BY <2>2, BatchFits
  <2>4. n \in Nat /\ (n + 1) - 1 = n /\ index <= n + 1 /\ n + 1 <= Len(Plan) + 1 /\ n <= Len(Plan)
        /\ index # n + 1
    BY <1>5, <2>3
  <2> HIDE DEF n
  <2>5. text \in Seq(Byte)
    BY <1>5, <2>4, BytesAre
  <2> HIDE DEF text
  <2>6. BoardWell' /\ Fits'
    BY <1>1, <2>1, <2>5, BoardKept
  <2>7. ParserFrame' = index
    <3>1. /\ Results(issued) \in Nat
          /\ OneBit(phase # "idle") + Places - OneBit(cmd = "C_STREAM") >= 0
          /\ OneBit(phase # "idle") \in Int /\ Places \in Int /\ OneBit(cmd = "C_STREAM") \in Int
          /\ Len(frames) \in Nat
      BY ResultsMove, StreamIsSomewhere, LenProperties DEF WireInv, BoardWell, OneBit, HostState
    <3>2. Results(issued) + OneBit(phase # "idle") + Places - OneBit(cmd = "C_STREAM") = 0
      BY <1>5, <3>1 DEF ParserFrame, FilterFrame
    <3>3. /\ Places' = Places /\ OneBit(phase' # "idle") = OneBit(phase # "idle")
          /\ OneBit(cmd' = "C_STREAM") = OneBit(cmd = "C_STREAM")
          /\ Results(issued') = Results(issued)
      BY <1>1, FrameKept DEF OneBit
    <3>4. ParserFrame' = index + 0 + Results(issued) + OneBit(phase # "idle") + Places
                           - OneBit(cmd = "C_STREAM")
      BY <1>1, <1>3, <3>3 DEF ParserFrame, FilterFrame
    <3> QED
      BY ONLY <1>5, <3>1, <3>2, <3>4
  <2>8. cmd' = "C_IDLE" /\ Position' = 0
    BY <1>1, FrameKept, PositionAfter
  <2>9. Unread' = text
    <3>1. rx_visible' = << >> /\ rx_arriving' = << >>
      BY <1>1, <1>2, FrameKept
    <3> QED
      BY <2>1, <2>5, <3>1, ConcatEmptySeq DEF Unread
  <2>10. ReadsTheBatch'
    <3>1. text = Bytes(ParserFrame', index' - 1)
      BY <2>1, <2>4, <2>7 DEF text
    <3>2. /\ Len(text) \in Nat /\ Len(text) = Len(text) - 0
          /\ \A i \in 1 .. Len(text) : 0 + i = i
      BY <2>5, LenProperties
    <3>3. /\ Len(Unread') = Len(Bytes(ParserFrame', index' - 1)) - Position'
          /\ \A i \in 1 .. Len(Unread') :
               Unread'[i] = Bytes(ParserFrame', index' - 1)[Position' + i]
      BY <2>8, <2>9, <3>1, <3>2
    <3>4. ParserFrame' \in first' .. index' /\ ParserFrame' # index'
      BY <1>1, <1>5, <2>1, <2>4, <2>7
    <3>5. Len(Unread') <= RX_FIFO_DEPTH
      BY <2>3, <2>9
    <3> QED
      BY <2>8, <3>3, <3>4, <3>5 DEF ReadsTheBatch
  <2>11. first' >= 1 /\ index' <= Len(Plan) + 1
    BY <1>1, <2>1, <2>4
  <2> QED
    BY <1>4, <1>5, <2>1, <2>6, <2>10, <2>11 DEF Progress
<1> QED
  BY <1>5, <1>6, <1>7

LEMMA HostInvInit == HostInit => HostInv
<1> SUFFICES ASSUME HostInit PROVE HostInv
  OBVIOUS
<1>1. /\ CoreInit /\ stage = "resetting" /\ line = <<CMD_RESET>>
      /\ first = 1 /\ index = 1 /\ buffer = << >> /\ current = << >> /\ frames = << >>
      /\ reset_acks = 0 /\ issued = << >>
  BY DEF HostInit
<1>2. << >> \in Seq(Byte) /\ << >> \in Seq(Filter!Beat) /\ << >> \in Seq(Response)
      /\ Len(<< >>) = 0
  BY EmptySeq
<1>3. 0 \in Byte /\ 0 \in Word16
  BY WordRange, SMT DEF Byte, Word16
<1>4. ResetConfig \in Config
  BY <1>3 DEF ResetConfig, Config
<1>5. CommandTypes /\ SerializerTypes
  <2>1. 0 \in 0 .. RESET_CYCLES
    BY CoreAssumption
  <2> QED
    BY <1>1, <1>2, <1>3, <1>4, <2>1
    DEF CoreInit, CommandTypes, CommandStates, HeaderStates, SerializerTypes
<1>6. Slice!BufferTypeOK
  BY <1>1, <1>3 DEF CoreInit, Slice!BufferInit, Slice!BufferTypeOK, Slice!NoBeat, Slice!Beat
<1>7. Filter!ServiceTypeOK
  <2>1. 0 \in 0 .. SEQUENCE_MODULUS - 1
    BY CoreAssumption
  <2>2. [accept |-> FALSE, sequence |-> 0] \in Filter!Record
    BY <2>1 DEF Filter!Record
  <2> QED
    BY <1>1, <1>2, <1>4, <2>1, <2>2 DEF CoreInit, Filter!ServiceInit, Filter!ServiceTypeOK
<1>8. /\ rx_visible = << >> /\ rx_arriving = << >> /\ rx_overflow = FALSE
      /\ ack_pending = FALSE /\ cmd = "C_IDLE" /\ ser = "S_IDLE" /\ tx_queue = << >>
      /\ out_valid_q = FALSE /\ skid_valid_q = FALSE
      /\ phase = "idle" /\ payload = "none" /\ beats = << >>
  BY <1>1 DEF CoreInit, Slice!BufferInit, Filter!ServiceInit
<1>9. HwTypes
  BY <1>2, <1>5, <1>6, <1>7, <1>8 DEF HwTypes
<1>10. BeatsFollowPhase /\ SliceFollowsParser /\ ShiftHasBytes /\ StreamNeverStarves
  BY <1>8 DEF BeatsFollowPhase, SliceFollowsParser, Streaming, ShiftHasBytes,
              StreamNeverStarves
<1>11. line \in Seq(Byte)
  <2>1. CMD_RESET \in Byte
    BY DEF CMD_RESET, Byte, Unsigned
  <2> QED
    BY <1>1, <2>1
<1>12. Fits /\ Len(rx_visible) + Len(rx_arriving) <= RX_FIFO_DEPTH
  BY <1>2, <1>8, CoreAssumption DEF Fits
<1>13. BoardWell
  BY <1>9, <1>10, <1>11, <1>12 DEF BoardWell
<1>14. HostState
  BY <1>1, <1>2 DEF HostState
<1>15. ResetIsCommand
  <2>1. Unread = <<CMD_RESET>>
    BY <1>1, <1>8 DEF Unread
  <2>2. /\ Len(<<CMD_RESET>>) = 1
        /\ OneBit(cmd = "C_RESET") = 0 /\ OneBit(ack_pending) = 0
    BY <1>8 DEF OneBit
  <2> QED
    BY <1>1, <1>2, <1>8, <2>1, <2>2 DEF ResetIsCommand
<1>16. Progress
  BY <1>1, <1>8, <1>12, <1>15, WireEmpty DEF Progress
<1> QED
  BY <1>13, <1>14, <1>16, HostInvIs

\* The host lives on or not, the clock runs.
LEMMA HostInvTick == HostInv /\ HostTick => HostInv'
<1> SUFFICES ASSUME HostInv, HostTick PROVE HostInv'
  OBVIOUS
<1>1. (HostInv <=> BoardWell /\ HostState /\ Progress)'
  BY HostInvIs, PTL
<1>2. BoardWell /\ HostState /\ Progress
  BY HostInvIs
<1>3. PICK i \in Inputs : Edge(i)
  BY DEF HostTick
<1> DEFINE in == [rx |-> i.rx, beat_pass |-> i.pass, result_pass |-> i.pass,
                  tx_ready |-> i.tx_ready]
<1>4. /\ Clock(in) /\ Listens(in)
      /\ stage' = stage /\ first' = first /\ index' = index
  BY <1>3 DEF Edge
<1>5. LineMoves(in.rx) /\ (line = << >> => in.rx = << >>)
  BY <1>3 DEF Edge, Inputs, LineMoves
<1> HIDE DEF in
<1>6. BoardWell' /\ SerializerTypes'
  BY <1>2, <1>4, <1>5, BoardTick
<1>7. /\ SerializerTypes /\ ShiftHasBytes /\ Filter!ServiceTypeOK /\ Serializer(in)
      /\ line \in Seq(Byte)
  BY <1>2, <1>4 DEF BoardWell, HwTypes, Clock
<1>8. /\ buffer \in Seq(Byte) /\ stage \in {"resetting", "reading", "done", "over"}
      /\ first \in Nat /\ index \in Nat /\ first <= index
      /\ frames \in Seq(Response) /\ current \in Seq(Filter!Beat) /\ reset_acks \in Nat
  BY <1>2 DEF HostState
<1>9. CASE stage \in {"resetting", "reading"}
  <2>1. feed(in) /\ WireInv /\ Fits
    BY <1>2, <1>4, <1>9 DEF Listens, Active, Progress
  <2>2. /\ WireInv' /\ buffer' \in Seq(Byte)
        /\ frames' \in Seq(Response) /\ current' \in Seq(Filter!Beat) /\ reset_acks' \in Nat
        /\ HostTakes(in)
    BY <1>6, <1>7, <1>8, <2>1, FeedIs
  <2>3. Issues(in) /\ issued \in Seq(Answer)
    BY <2>1 DEF feed, WireInv
  <2>4. HostState'
    BY <1>4, <1>8, <2>2 DEF HostState, Response, Filter!Beat, Filter!Record, Byte, Unsigned
  <2>5. CASE stage = "resetting"
    <3>1. first = 1 /\ index = 1 /\ (ResetIsData \/ ResetIsCommand)
      BY <1>2, <2>5 DEF Progress
    <3>2. (ResetIsData \/ ResetIsCommand)' /\ Fits'
      <4>1. CASE ResetIsData
        BY <1>2, <1>4, <1>5, <2>1, <2>2, <2>3, <4>1, ResetStaysData
      <4>2. CASE ResetIsCommand
        BY <1>2, <1>4, <1>5, <1>8, <2>1, <2>2, <2>3, <4>2, ResetStaysCommand
      <4> QED
        BY <3>1, <4>1, <4>2
    <3>3. Progress'
      BY <1>4, <2>2, <2>5, <3>1, <3>2 DEF Progress
    <3> QED
      BY <1>1, <1>6, <2>4, <3>3
  <2>6. CASE stage = "reading"
    <3>1. first >= 1 /\ index <= Len(Plan) + 1 /\ ReadsTheBatch
      BY <1>2, <2>6 DEF Progress
    <3>2. ReadsTheBatch' /\ Fits'
      BY <1>2, <1>4, <1>5, <1>8, <2>1, <2>2, <2>3, <3>1, BatchIsRead
    <3>3. Progress'
      BY <1>4, <2>2, <2>6, <3>1, <3>2 DEF Progress
    <3> QED
      BY <1>1, <1>6, <2>4, <3>3
  <2> QED
    BY <1>9, <2>5, <2>6
<1>10. CASE stage \in {"done", "over"}
  <2>1. UNCHANGED <<buffer, current, frames, reset_acks, issued>> /\ line = << >>
    BY <1>2, <1>4, <1>10 DEF Listens, Active, Progress
  <2>2. in.rx = << >> /\ line' = << >>
    BY <1>5, <2>1 DEF LineMoves
  <2>3. Fits'
    BY <1>2, <1>4, <1>5, <2>2, FitsStep DEF Progress
  <2>4. rx_overflow' <=> rx_overflow
    BY <1>4, <2>2 DEF Clock
  <2>5. HostState'
    BY <1>4, <1>8, <2>1 DEF HostState, Response, Filter!Beat, Filter!Record, Byte, Unsigned
  <2>6. Progress'
    BY <1>2, <1>4, <1>10, <2>2, <2>3, <2>4 DEF Progress
  <2> QED
    BY <1>1, <1>6, <2>5, <2>6
<1> QED
  BY <1>8, <1>9, <1>10

\* When the acknowledgement has come, the board is idle.
LEMMA AcknowledgedBoard ==
  ASSUME ResetIsCommand, reset_acks = 1
  PROVE  cmd = "C_IDLE" /\ Unread = << >> /\ issued = << >> /\ ~ack_pending
<1>1. /\ cmd \in {"C_IDLE", "C_RESET"}
      /\ Unread \in {<< >>, <<CMD_RESET>>} /\ issued \in {<< >>, <<Protocol!Ack>>}
      /\ Len(Unread) + OneBit(cmd = "C_RESET") + OneBit(ack_pending)
           + Len(issued) + reset_acks = 1
  BY DEF ResetIsCommand
<1>2. /\ Len(Unread) \in {0, 1} /\ Len(issued) \in {0, 1}
      /\ (Len(Unread) = 0 => Unread = << >>) /\ (Len(issued) = 0 => issued = << >>)
  <2>1. \A x : Len(<<x>>) = 1 /\ Len(<< >>) = 0
    OBVIOUS
  <2> QED
    BY <1>1, <2>1
<1>3. /\ OneBit(cmd = "C_RESET") \in {0, 1} /\ (cmd = "C_RESET" => OneBit(cmd = "C_RESET") = 1)
      /\ OneBit(ack_pending) \in {0, 1} /\ (ack_pending => OneBit(ack_pending) = 1)
  BY DEF OneBit
<1> QED
  BY <1>1, <1>2, <1>3

\* The acknowledgement has come: it is the only one there is, and the board is
\* idle.
LEMMA HostInvStart == HostInv /\ StartTests => HostInv'
<1> SUFFICES ASSUME HostInv, StartTests PROVE HostInv'
  OBVIOUS
<1>1. (HostInv <=> BoardWell /\ HostState /\ Progress)'
  BY HostInvIs, PTL
<1>2. BoardWell /\ HostState /\ Progress
  BY HostInvIs
<1>3. stage = "resetting" /\ reset_acks = 1 /\ WriteBatch
  BY DEF StartTests
<1>4. first = 1 /\ index = 1 /\ WireInv /\ Fits /\ (ResetIsData \/ ResetIsCommand)
  BY <1>2, <1>3 DEF Progress
<1>5. ResetIsCommand
  BY <1>3, <1>4 DEF ResetIsData
<1>6. phase = "idle" /\ ~out_valid_q /\ frames = << >>
  BY <1>5 DEF ResetIsCommand
<1>7. Len(<< >>) = 0
  OBVIOUS
<1>8. cmd = "C_IDLE" /\ Unread = << >> /\ issued = << >>
  BY <1>3, <1>5, AcknowledgedBoard
<1>9. ~NextOut /\ ~NextSkid /\ ~NextParser
  BY <1>2, <1>6, <1>8 DEF NextOut, NextSkid, NextParser, BoardWell, SliceFollowsParser
<1>10. /\ Places = 0 /\ OneBit(phase # "idle") = 0 /\ OneBit(cmd = "C_STREAM") = 0
       /\ Results(issued) = 0 /\ Len(frames) = 0
  BY <1>6, <1>7, <1>8, <1>9, NoResults DEF Places, OneBit
<1>11. ParserFrame = first + Len(frames)
  BY <1>4, <1>10 DEF ParserFrame, FilterFrame
<1>12. Len(Plan) \in Nat
  BY PlanAssumption, LenProperties DEF Sendable
<1>13. index >= 1 /\ index <= Len(Plan) + 1
  BY <1>4, <1>12
<1>14. BoardWell' /\ HostState' /\ Progress'
  BY <1>2, <1>3, <1>4, <1>8, <1>11, <1>13, BatchIsWritten
<1> QED
  BY <1>1, <1>14

LEMMA HostInvBatch == HostInv /\ NextBatch => HostInv'
<1> SUFFICES ASSUME HostInv, NextBatch PROVE HostInv'
  OBVIOUS
<1>1. (HostInv <=> BoardWell /\ HostState /\ Progress)'
  BY HostInvIs, PTL
<1>2. BoardWell /\ HostState /\ Progress
  BY HostInvIs
<1>3. stage = "reading" /\ Len(frames) = index - first /\ WriteBatch
  BY DEF NextBatch
<1>4. /\ first >= 1 /\ index <= Len(Plan) + 1 /\ ReadsTheBatch /\ WireInv /\ Fits
      /\ frames \in Seq(Response) /\ first \in Nat /\ index \in Nat /\ first <= index
  BY <1>2, <1>3 DEF Progress, HostState
<1>5. cmd = "C_IDLE" /\ Unread = << >> /\ ParserFrame = first + Len(frames)
  BY <1>2, <1>3, <1>4, BatchIsAnswered
<1>6. index >= 1
  BY <1>4
<1>7. BoardWell' /\ HostState' /\ Progress'
  BY <1>2, <1>3, <1>4, <1>5, <1>6, BatchIsWritten
<1> QED
  BY <1>1, <1>7

\* What is lost was not on the wire yet.
LEMMA HostInvGiveUp == HostInv /\ GiveUp => HostInv'
<1> SUFFICES ASSUME HostInv, GiveUp PROVE HostInv'
  OBVIOUS
<1>1. (HostInv <=> BoardWell /\ HostState /\ Progress)'
  BY HostInvIs, PTL
<1>2. BoardWell /\ HostState /\ Progress /\ Fits
  BY HostInvIs DEF Progress
<1>3. /\ stage' = "over" /\ line' = << >> /\ first' = 1 /\ index' = 1
      /\ buffer' = << >> /\ current' = << >> /\ frames' = << >> /\ reset_acks' = 0
      /\ UNCHANGED coreVars
  BY DEF GiveUp
<1>4. << >> \in Seq(Byte) /\ << >> \in Seq(Filter!Beat) /\ << >> \in Seq(Response)
  BY EmptySeq
<1>5. BoardWell' /\ Fits'
  BY <1>2, <1>3, <1>4, BoardKept
<1>6. HostState'
  BY <1>3 DEF HostState
<1>7. Progress'
  BY <1>3, <1>5 DEF Progress
<1> QED
  BY <1>1, <1>5, <1>6, <1>7

\* A new session finds the board silent.  If that waits for a command, the
\* reset command is one; if for the rest of one, it is a part of it.
LEMMA HostInvNew == HostInv /\ NewSession => HostInv'
<1> SUFFICES ASSUME HostInv, NewSession PROVE HostInv'
  OBVIOUS
<1>1. (HostInv <=> BoardWell /\ HostState /\ Progress)'
  BY HostInvIs, PTL
<1>2. BoardWell /\ HostState /\ Progress /\ Fits
  BY HostInvIs DEF Progress
<1>3. /\ stage' = "resetting" /\ line' = <<CMD_RESET>> /\ first' = 1 /\ index' = 1
      /\ buffer' = << >> /\ current' = << >> /\ frames' = << >> /\ reset_acks' = 0
      /\ issued' = << >> /\ UNCHANGED coreVars
  BY DEF NewSession
<1>4. /\ rx_arriving = << >> /\ tx_queue = << >>
      /\ (reading_header /\ rxf_empty) \/ (cmd = "C_WAIT" /\ rxf_count < frame_len)
      /\ ~out_valid_q /\ phase = "idle" /\ ser = "S_IDLE" /\ ~ack_pending
  BY DEF NewSession, Silent
<1>5. << >> \in Seq(Byte) /\ << >> \in Seq(Filter!Beat) /\ << >> \in Seq(Response)
      /\ Len(<< >>) = 0
  BY EmptySeq
<1>6. line' \in Seq(Byte)
  <2>1. CMD_RESET \in Byte
    BY DEF CMD_RESET, Byte, Unsigned
  <2> QED
    BY <1>3, <2>1
<1>7. BoardWell' /\ Fits'
  BY <1>2, <1>3, <1>6, BoardKept
<1>8. HostState'
  BY <1>3 DEF HostState
<1>9. WireInv'
  <2>1. (issued = << >> /\ tx_queue = << >> /\ buffer = << >> /\ ser = "S_IDLE" => WireInv)'
    BY WireEmpty, PTL
  <2> QED
    BY <1>3, <1>4, <2>1 DEF coreVars
<1>10. /\ cmd' = cmd /\ Room' = Room /\ ack_pending' = ack_pending /\ phase' = phase
       /\ out_valid_q' = out_valid_q /\ Unread' = (rx_visible \o << >>) \o <<CMD_RESET>>
  BY <1>3, <1>4, FrameKept DEF coreVars, Unread
<1>11. /\ Len(Unread') = Len(rx_visible) + 1 /\ Len(rx_visible) \in Nat
       /\ rx_visible = << >> => Unread' = <<CMD_RESET>> /\ Len(Unread') = 1
  <2>1. rx_visible \in Seq(Byte) /\ CMD_RESET \in Byte
    BY <1>2 DEF BoardWell, HwTypes, CMD_RESET, Byte, Unsigned
  <2>2. \A s \in Seq(Byte), x \in Byte : /\ Len((s \o << >>) \o <<x>>) = Len(s) + 1
                                        /\ Len(s) \in Nat
    OBVIOUS
  <2>3. \A x \in Byte : (<< >> \o << >>) \o <<x>> = <<x>> /\ Len(<<x>>) = 1
    OBVIOUS
  <2> QED
    BY <1>10, <2>1, <2>2, <2>3
<1>12. ResetIsData' \/ ResetIsCommand'
  <2>1. CASE cmd = "C_IDLE"
    <3>1. rx_visible = << >>
      BY <1>4, <2>1 DEF rxf_empty
    <3>2. OneBit(cmd' = "C_RESET") = 0 /\ OneBit(ack_pending') = 0
      BY <1>4, <1>10, <2>1 DEF OneBit
    <3>3. Len(Unread') + OneBit(cmd' = "C_RESET") + OneBit(ack_pending')
            + Len(issued') + reset_acks' = 1
      BY <1>3, <1>5, <1>11, <3>1, <3>2
    <3>4. Unread' \in {<< >>, <<CMD_RESET>>} /\ issued' \in {<< >>, <<Protocol!Ack>>}
      BY <1>3, <1>11, <3>1
    <3> QED
      BY <1>3, <1>4, <1>10, <2>1, <3>3, <3>4 DEF ResetIsCommand
  <2>2. CASE cmd # "C_IDLE"
    <3>1. cmd # "C_RESET" /\ cmd \in CommandStates /\ frame_len \in Nat
      <4>1. cmd \in CommandStates /\ frame_len \in Nat
        BY <1>2, WordIsNumber DEF BoardWell, HwTypes, CommandTypes
      <4> QED
        BY <1>4, <4>1 DEF reading_header
    <3>2. Len(rx_visible) + 1 <= Room
      <4>1. CASE cmd = "C_WAIT"
        BY <1>4, <1>11, <3>1, <4>1, RoomIs DEF rxf_count, reading_header
      <4>2. CASE cmd # "C_WAIT"
        <5>1. cmd \in HeaderStates /\ rx_visible = << >>
          BY <1>4, <2>2, <3>1, <4>2 DEF CommandStates, reading_header, rxf_empty
        <5> QED
          BY <1>5, <5>1, RoomIs
      <4> QED
        BY <4>1, <4>2
    <3>3. \A i \in 1 .. Len(issued') : issued'[i].kind # "ack"
      BY <1>3, <1>5
    <3> QED
      BY <1>3, <1>4, <1>10, <1>11, <3>1, <3>2, <3>3 DEF ResetIsData
  <2> QED
    BY <2>1, <2>2
<1>13. Progress'
  BY <1>3, <1>7, <1>9, <1>12 DEF Progress
<1> QED
  BY <1>1, <1>7, <1>8, <1>13

LEMMA HostInvStutter == HostInv /\ UNCHANGED systemVars => HostInv'
<1> SUFFICES ASSUME HostInv, UNCHANGED systemVars PROVE HostInv'
  OBVIOUS
<1>1. (HostInv <=> BoardWell /\ HostState /\ Progress)'
  BY HostInvIs, PTL
<1>2. BoardWell /\ HostState /\ Progress /\ Fits
  BY HostInvIs DEF Progress
<1>3. /\ UNCHANGED coreVars
      /\ stage' = stage /\ line' = line /\ first' = first /\ index' = index
      /\ buffer' = buffer /\ current' = current /\ frames' = frames
      /\ reset_acks' = reset_acks /\ issued' = issued
  BY DEF systemVars, hostVars
<1>4. BoardWell' /\ Fits'
  BY <1>2, <1>3, BoardKept DEF BoardWell
<1>5. HostState'
  BY <1>2, <1>3 DEF HostState, Response
<1>6. /\ Unread' = Unread /\ Room' = Room /\ ParserFrame' = ParserFrame /\ cmd' = cmd
  BY <1>3, FrameKept DEF Unread, ParserFrame, FilterFrame, OneBit
<1>7. /\ frame_len' = frame_len /\ remaining' = remaining /\ ack_pending' = ack_pending
      /\ rx_overflow' = rx_overflow /\ phase' = phase /\ out_valid_q' = out_valid_q
  BY <1>3 DEF coreVars, commandVars
<1>8. Position' = Position
  BY <1>6, <1>7 DEF Position
<1>9. WireInv => WireInv'
  BY <1>3 DEF coreVars, WireInv, InSerializer
<1>10. ReadsTheBatch => ReadsTheBatch'
  BY <1>3, <1>6, <1>7, <1>8 DEF ReadsTheBatch
<1>11. (ResetIsData => ResetIsData') /\ (ResetIsCommand => ResetIsCommand')
  BY <1>3, <1>6, <1>7 DEF ResetIsData, ResetIsCommand, OneBit
<1>12. Progress'
  BY <1>2, <1>3, <1>4, <1>7, <1>9, <1>10, <1>11 DEF Progress
<1> QED
  BY <1>1, <1>4, <1>5, <1>12

\* Whatever a session finds the board in the middle of, and however slowly it
\* answers: what the host has written and the parser has not read is the reset
\* command, or the rest of the batch from the byte the parser waits for
\* (run_hardware_test.py:158-186, hw_test_core.sv:58-130).
THEOREM SessionInvHolds == HostSpec => []HostInv
<1>1. HostInv /\ [HostNext]_systemVars => HostInv'
  BY HostInvTick, HostInvStart, HostInvBatch, HostInvGiveUp, HostInvNew, HostInvStutter, Zenon
  DEF HostNext
<1> QED
  BY <1>1, HostInvInit, PTL DEF HostSpec

\* The batches fit the board's RX FIFO, also in a session that finds a part of
\* a command in it (docs/hardware-test.md, run_hardware_test.py:172-186).
THEOREM BatchesFit == HostSpec => []NoOverflow
<1>1. HostInv => NoOverflow
  <2> SUFFICES ASSUME HostInv, stage \in {"reading", "done"}, rx_overflow PROVE FALSE
    BY DEF NoOverflow
  <2>1. BoardWell /\ HostState /\ Progress
    BY HostInvIs
  <2>2. stage = "reading"
    BY <2>1 DEF Progress
  <2>3. /\ first \in Nat /\ index \in Nat /\ first >= 1 /\ index <= Len(Plan) + 1
        /\ cmd = "C_WAIT" /\ frame_len > RX_FIFO_DEPTH
        /\ ParserFrame \in first .. index /\ (ParserFrame = index => cmd = "C_IDLE")
        /\ cmd \in {"C_WAIT", "C_STREAM"} => frame_len = Len(Plan[ParserFrame].frame)
    BY <2>1, <2>2 DEF Progress, HostState, Fits, ReadsTheBatch
  <2> DEFINE k == ParserFrame
  <2>4. k \in first .. index /\ k # index /\ frame_len = Len(Plan[k].frame)
    BY <2>3
  <2> HIDE DEF k
  <2>5. k < index
    BY <2>3, <2>4
  <2>6. Len(Plan[k].frame) \in 1 .. MAX_FRAME_BYTES
    BY <2>3, <2>4, <2>5, BatchText
  <2>7. RX_FIFO_DEPTH \in Nat
    BY CoreAssumption
  <2> QED
    BY <2>3, <2>4, <2>6, <2>7 DEF MAX_FRAME_BYTES
<1> QED
  BY <1>1, SessionInvHolds, PTL

-----------------------------------------------------------------------------
(* The inductive invariant of ResponsesMatchFrames. *)

\* The bytes of a frame on their way through the slice: what the filter takes
\* is the byte at its place, and what the parser streams the one at its own.
LEMMA SliceBytesMove ==
  ASSUME NEW j \in Nat, NEW n \in Nat, SliceMatches(j),
         n = IF ~Pops THEN j ELSE IF out_q.last THEN 1 ELSE j + 1,
         SliceRefills \/ SlicePasses \/ SliceSkids \/ SliceStalls,
         PhaseFollows, SliceFollowsParser,
         Pushes => Shows(SliceBeat, ParserPlace),
         ParserPlace' = IF Pushes THEN Following(ParserPlace) ELSE ParserPlace,
         FilterFrame \in Nat, out_q.last \in BOOLEAN,
         FilterFrame' + OneBit(phase' \in {"ended", "record"}) =
           FilterFrame + OneBit(phase \in {"ended", "record"}) + OneBit(Pops /\ out_q.last)
  PROVE  SliceMatches(n)'
<1> DEFINE at == FilterPlace(j)
           f == FilterFrame + OneBit(phase \in {"ended", "record"})
           g == FilterFrame' + OneBit(phase' \in {"ended", "record"})
<1>1. /\ phase # "inside" => j = 1
      /\ out_valid_q => Shows(out_q, at)
      /\ skid_valid_q => Shows(skid_q, Following(at))
      /\ ParserPlace = IF ~out_valid_q THEN at
                       ELSE IF ~skid_valid_q THEN Following(at)
                       ELSE Following(Following(at))
  BY DEF SliceMatches
<1>2. FilterPlace(n)' = <<g, n>>
  BY DEF FilterPlace
<1>3. at = <<f, j>> /\ f \in Nat
  BY DEF FilterPlace, OneBit
<1>4. g = f + OneBit(Pops /\ out_q.last)
  OBVIOUS
<1>5. Pops => out_valid_q
  BY DEF Pops
<1> HIDE DEF f, g
<1>6. FilterPlace(n)' = IF Pops THEN Following(at) ELSE at
  <2>1. CASE ~Pops
    BY <1>2, <1>3, <1>4, <2>1 DEF OneBit
  <2>2. CASE Pops
    <3>1. /\ j \in 1 .. Len(Plan[f].frame)
          /\ out_q.last <=> j = Len(Plan[f].frame)
      BY <1>1, <1>3, <1>5, <2>2 DEF Shows
    <3>2. Following(at) = IF j < Len(Plan[f].frame) THEN <<f, j + 1>> ELSE <<f + 1, 1>>
      BY <1>3 DEF Following
    <3>3. CASE out_q.last
      BY <1>2, <1>3, <1>4, <2>2, <3>1, <3>2, <3>3 DEF OneBit
    <3>4. CASE ~out_q.last
      <4>1. j < Len(Plan[f].frame)
        BY <3>1, <3>4
      <4>2. g = f /\ n = j + 1
        BY <1>3, <1>4, <2>2, <3>4 DEF OneBit
      <4> QED
        BY <1>2, <2>2, <3>2, <4>1, <4>2
    <3> QED
      BY <3>3, <3>4
  <2> QED
    BY <2>1, <2>2
<1>7. phase' # "inside" => n = 1
  BY <1>1 DEF PhaseFollows
<1>8. skid_valid_q => out_valid_q
  BY DEF SliceFollowsParser
<1> HIDE DEF at
<1> DEFINE new == FilterPlace(n)'
<1>9. new = IF Pops THEN Following(at) ELSE at
  BY <1>6
<1> HIDE DEF new
<1>10. /\ out_valid_q' => Shows(out_q', new)
       /\ skid_valid_q' => Shows(skid_q', Following(new))
       /\ ParserPlace' = IF ~out_valid_q' THEN new
                         ELSE IF ~skid_valid_q' THEN Following(new)
                         ELSE Following(Following(new))
  <2>1. CASE SliceRefills
    BY <1>1, <1>5, <1>8, <1>9, <2>1 DEF SliceRefills, Pushes
  <2>2. CASE SlicePasses
    BY <1>1, <1>5, <1>8, <1>9, <2>2 DEF SlicePasses, Pushes
  <2>3. CASE SliceSkids
    BY <1>1, <1>5, <1>8, <1>9, <2>3 DEF SliceSkids, Pushes
  <2>4. CASE SliceStalls
    <3>1. /\ out_valid_q /\ ~Pops /\ ~Pushes /\ out_q' = out_q /\ skid_q' = skid_q
          /\ out_valid_q' /\ (skid_valid_q' <=> skid_valid_q)
      BY <2>4 DEF SliceStalls
    <3>2. new = at /\ ParserPlace' = ParserPlace
      BY <1>9, <3>1, Zenon
    <3> QED
      BY <1>1, <3>1, <3>2, Zenon
  <2> QED
    BY <2>1, <2>2, <2>3, <2>4
<1>11. /\ (out_valid_q => Shows(out_q, FilterPlace(n)))'
       /\ (skid_valid_q => Shows(skid_q, Following(FilterPlace(n))))'
       /\ ParserPlace' = (IF ~out_valid_q THEN FilterPlace(n)
                          ELSE IF ~skid_valid_q THEN Following(FilterPlace(n))
                          ELSE Following(Following(FilterPlace(n))))'
  BY <1>10, Zenon DEF new, Shows, Following
<1> QED
  BY <1>7, <1>11 DEF SliceMatches

\* What the filter makes of a byte or of a record that is taken, as the host
\* sees it: what it adds to the beats, and when it numbers a record.
Fresh(in, last, error) == [data |-> in.tdata, last |-> last, error |-> error]

Takes(in) == in.tvalid /\ Filter!s_tready
Leaves(in) == phase = "record" /\ in.result_ready

Numbered ==
  /\ phase' = "record" /\ phase # "record"
  /\ sequence' = (sequence + 1) % SEQUENCE_MODULUS /\ record'.sequence = sequence
NotNumbered ==
  /\ phase' = "record" => phase = "record"
  /\ sequence' = sequence /\ record'.sequence = record.sequence

Forwards(in) ==
  \E last, error \in BOOLEAN :
    /\ Takes(in) /\ phase = "inside" /\ payload # "closed" /\ (in.tlast => last)
    /\ beats' = Append(Filter!Kept(in), Fresh(in, last, error))
    /\ payload' = IF last THEN "closed" ELSE "open"
Skips(in) ==
  /\ beats' = Filter!Kept(in) /\ payload' = payload /\ (Takes(in) => payload # "open")
Opens(in) ==
  /\ beats' = Filter!Kept(in) /\ Takes(in) /\ payload = "none" /\ payload' = "open"
  /\ phase' = "inside"

FilterTurns(in) ==
  /\ Leaves(in) => /\ ~Takes(in) /\ phase' = "idle" /\ payload' = "none" /\ beats' = beats
                   /\ NotNumbered
  /\ ~Leaves(in) =>
       /\ ~Takes(in) => phase' = phase \/ (phase = "ended" /\ phase' = "record")
       /\ Takes(in) => /\ phase \in {"idle", "inside"}
                       /\ IF in.tlast THEN phase' \in {"ended", "record"} ELSE phase' = "inside"
       /\ Skips(in) \/ Opens(in) \/ Forwards(in)
       /\ Numbered \/ NotNumbered

LEMMA FinishNumbers ==
  ASSUME NEW left, Filter!Finish(left), record \in Filter!Record, phase # "record"
  PROVE  phase' \in {"ended", "record"} /\ (Numbered \/ NotNumbered)
<1>1. CASE left = << >>
  <2>1. /\ phase' = "record" /\ sequence' = (sequence + 1) % SEQUENCE_MODULUS
        /\ \E accept \in BOOLEAN : record' = [accept |-> accept, sequence |-> sequence]
    BY <1>1 DEF Filter!Finish
  <2> QED
    BY <2>1 DEF Numbered
<1>2. CASE left # << >>
  BY <1>2 DEF Filter!Finish, NotNumbered
<1> QED
  BY <1>1, <1>2

LEMMA FilterTurnsIs ==
  ASSUME NEW in, Filter!ServiceTypeOK, BeatsFollowPhase, Filter!ServiceEdge(in),
         payload = "open" => phase = "inside"
  PROVE  FilterTurns(in)
<1>1. /\ phase \in {"idle", "inside", "ended", "record"}
      /\ payload \in {"none", "open", "closed"} /\ record \in Filter!Record
      /\ phase = "idle" => payload = "none"
      /\ phase = "idle" => Filter!s_tready
      /\ Filter!s_tready => phase \in {"idle", "inside"}
  BY DEF Filter!ServiceTypeOK, BeatsFollowPhase, Filter!s_tready
<1>2. Filter!result_valid <=> phase = "record"
  BY DEF Filter!result_valid
<1>3. \A left : Filter!Finish(left) /\ phase # "record" =>
        phase' \in {"ended", "record"} /\ (Numbered \/ NotNumbered)
  BY <1>1, FinishNumbers
<1>4. UNCHANGED <<phase, sequence, record>> => NotNumbered
  BY DEF NotNumbered
<1>5. CASE Filter!Wait(in)
  <2>1. /\ ~Takes(in) /\ ~Leaves(in) /\ beats' = Filter!Kept(in) /\ payload' = payload
        /\ phase = "ended" => Filter!Finish(Filter!Kept(in))
        /\ phase # "ended" => UNCHANGED <<phase, sequence, record>>
    BY <1>2, <1>5 DEF Filter!Wait, Takes, Leaves
  <2>2. Skips(in)
    BY <2>1 DEF Skips
  <2>3. /\ phase' = phase \/ (phase = "ended" /\ phase' = "record")
        /\ Numbered \/ NotNumbered
    BY <1>3, <1>4, <2>1
  <2> QED
    BY <2>1, <2>2, <2>3 DEF FilterTurns
<1>6. CASE Filter!Begin(in)
  <2>1. /\ Takes(in) /\ ~Leaves(in) /\ beats' = Filter!Kept(in) /\ payload' = payload
        /\ payload # "open" /\ phase = "idle"
        /\ in.tlast => Filter!Finish(Filter!Kept(in))
        /\ ~in.tlast => /\ phase' = "inside" /\ sequence' = sequence
                        /\ record' = [record EXCEPT !.accept = FALSE]
    BY <1>1, <1>6 DEF Filter!Begin, Takes, Leaves
  <2>2. Skips(in)
    BY <2>1 DEF Skips
  <2>3. ~in.tlast => NotNumbered
    BY <1>1, <2>1 DEF NotNumbered, Filter!Record
  <2>4. in.tlast => phase' \in {"ended", "record"} /\ (Numbered \/ NotNumbered)
    BY <1>3, <2>1
  <2> QED
    BY <2>1, <2>2, <2>3, <2>4 DEF FilterTurns
<1>7. CASE Filter!Drop(in)
  <2>1. /\ Takes(in) /\ ~Leaves(in) /\ beats' = Filter!Kept(in)
        /\ payload # "open" /\ phase = "inside"
        /\ in.tlast => Filter!Finish(Filter!Kept(in))
        /\ ~in.tlast => UNCHANGED <<phase, sequence, record>>
        /\ payload' \in {payload} \cup (IF payload = "none" /\ ~in.tlast THEN {"open"} ELSE {})
    BY <1>1, <1>7 DEF Filter!Drop, Takes, Leaves
  <2>2. Skips(in) \/ Opens(in)
    BY <2>1 DEF Skips, Opens
  <2>3. in.tlast => phase' \in {"ended", "record"} /\ (Numbered \/ NotNumbered)
    BY <1>3, <2>1
  <2> QED
    BY <1>4, <2>1, <2>2, <2>3 DEF FilterTurns
<1>8. CASE Filter!Forward(in)
  <2>1. /\ Takes(in) /\ ~Leaves(in) /\ phase = "inside" /\ payload # "closed"
        /\ phase' = IF in.tlast THEN "ended" ELSE "inside"
        /\ sequence' = sequence /\ record' = record
    BY <1>8 DEF Filter!Forward, Takes, Leaves
  <2>2. PICK last \in BOOLEAN, error \in BOOLEAN :
          /\ in.tlast => last
          /\ beats' = Append(Filter!Kept(in), Fresh(in, last, error))
          /\ payload' = IF last THEN "closed" ELSE "open"
    BY <1>8 DEF Filter!Forward, Fresh
  <2>3. Forwards(in)
    BY <2>1, <2>2 DEF Forwards
  <2>4. NotNumbered
    BY <2>1 DEF NotNumbered
  <2> QED
    BY <2>1, <2>3, <2>4 DEF FilterTurns
<1>9. CASE Filter!Report(in)
  <2>1. /\ Leaves(in) /\ phase' = "idle" /\ payload' = "none" /\ beats' = beats
        /\ sequence' = sequence /\ record' = record /\ phase = "record"
    BY <1>9 DEF Filter!Report, Filter!result_valid, Leaves
  <2>2. ~Takes(in)
    BY <1>1, <2>1 DEF Takes
  <2>3. NotNumbered
    BY <2>1 DEF NotNumbered
  <2> QED
    BY <2>1, <2>2, <2>3 DEF FilterTurns
<1> QED
  BY <1>5, <1>6, <1>7, <1>8, <1>9 DEF Filter!ServiceEdge

\* On the board.
LEMMA BoardPorts ==
  ASSUME NEW in, filter_rst_n
  PROVE  LET ports == FilterInput(in)
         IN /\ Takes(ports) <=> Pops
            /\ Leaves(ports) <=> ResultTaken(in)
            /\ ports.tdata = out_q.data /\ ports.tlast = out_q.last
            /\ Filter!Kept(ports) = IF BeatTaken(in) THEN Tail(beats) ELSE beats
            /\ BeatTaken(in) => beats # << >>
            /\ \A last, error : Fresh(ports, last, error) =
                 [data |-> out_q.data, last |-> last, error |-> error]
BY DEF FilterInput, Takes, Pops, Slice!m_valid, Leaves, ResultTaken, result_valid,
       Filter!result_valid, Filter!Kept, BeatTaken, m_tvalid, Filter!m_tvalid, Fresh

\* The frame is the end of its command.
LEMMA FrameOfCommand ==
  ASSUME NEW k \in 1 .. Len(Plan), NEW rest \in Seq(Byte), NEW i \in 1 .. Len(Plan[k].frame)
  PROVE  (Command(k) \o rest)[8 + i] = Plan[k].frame[i]
<1>1. Len(Plan[k].frame) \in 1 .. MAX_FRAME_BYTES /\ Command(k) \in Seq(Byte)
      /\ Len(Command(k)) = 8 + Len(Plan[k].frame)
  BY CommandIs
<1>5. i \in Nat /\ i >= 1 /\ i <= Len(Plan[k].frame)
  BY <1>1
<1>7. 8 + i \in 1 .. Len(Command(k)) /\ 8 + i \in 1 .. Len(Command(k)) + Len(rest)
  BY <1>1, <1>5, LenProperties
<1>8. (Command(k) \o rest)[8 + i] = Command(k)[8 + i]
  <2>1. \A m \in 1 .. Len(Command(k)) + Len(rest) :
          (Command(k) \o rest)[m] = IF m <= Len(Command(k)) THEN Command(k)[m]
                                                            ELSE rest[m - Len(Command(k))]
    BY <1>1, ConcatProperties
  <2> QED
    BY <1>7, <2>1
<1> QED
  BY <1>8, CommandIs

\* What the parser streams is the byte at its place.
LEMMA StreamedByte ==
  ASSUME NEW in, BoardWell, RxFifo!Move(in.rx, rxf_pop), LineMoves(in.rx),
         first \in Nat, index \in Nat, first >= 1, index <= Len(Plan) + 1, ReadsTheBatch,
         Pushes
  PROVE  Shows(SliceBeat, ParserPlace)
<1> DEFINE k == ParserFrame
           text == Bytes(k, index - 1)
           i == 1 + frame_len - remaining
           n == Len(Plan[k].frame)
<1>1. cmd = "C_STREAM" /\ ~skid_valid_q
  BY DEF Pushes
<1>2. /\ k \in first .. index /\ k # index
      /\ Len(Unread) = Len(text) - Position
      /\ \A m \in 1 .. Len(Unread) : Unread[m] = text[Position + m]
      /\ frame_len = n
  BY <1>1 DEF ReadsTheBatch
<1>3. /\ remaining \in 1 .. frame_len /\ remaining \in 1 .. rxf_count
      /\ frame_len \in Word16 /\ remaining \in Word16
      /\ rx_visible \in Seq(Byte) /\ rx_arriving \in Seq(Byte) /\ line \in Seq(Byte)
      /\ Len(rx_visible) + Len(rx_arriving) <= RX_FIFO_DEPTH
  BY <1>1 DEF BoardWell, HwTypes, CommandTypes, SliceFollowsParser, StreamNeverStarves
<1>4. frame_len \in Nat /\ remaining \in Nat
  BY <1>3, WordIsNumber
<1>5. Popped
  <2>1. Len(rx_visible) \in Nat /\ Len(rx_visible) > 0
    BY <1>3, LenProperties DEF rxf_count
  <2>2. ~rxf_empty
    BY <2>1, EmptySeq DEF rxf_empty
  <2> QED
    BY <1>1, <2>2 DEF Popped, rxf_pop, pipe_ready, Slice!s_ready
<1>6. Unread \in Seq(Byte) /\ Unread # << >> /\ rxf_data = Head(Unread)
  BY <1>3, <1>5, UnreadMoves
<1>7. Head(Unread) = Unread[1] /\ 1 \in 1 .. Len(Unread)
  BY <1>6, HeadTailProperties, EmptySeq, LenProperties
<1>8. Position = 8 + frame_len - remaining
  BY <1>1, PositionIs
<1>9. rxf_data = text[8 + i]
  <2>1. rxf_data = text[Position + 1]
    BY <1>2, <1>6, <1>7
  <2>2. Position + 1 = 8 + i
    BY <1>4, <1>8
  <2> QED
    BY <2>1, <2>2
<1>10. k \in 1 .. Len(Plan) /\ Bytes(k + 1, index - 1) \in Seq(Byte)
       /\ text = Command(k) \o Bytes(k + 1, index - 1)
  <2>1. k \in first .. index /\ k < index
    BY <1>2
  <2> HIDE DEF k
  <2> QED
    BY <2>1, BatchText
<1>11. i \in 1 .. n /\ (remaining = 1 <=> i = n)
  BY <1>2, <1>3, <1>4
<1> HIDE DEF i, k
<1>12. text[8 + i] = Plan[k].frame[i]
  BY <1>10, <1>11, FrameOfCommand
<1>13. ParserPlace = <<k, i>>
  BY <1>1 DEF ParserPlace, i, k
<1> QED
  BY <1>9, <1>10, <1>11, <1>12, <1>13 DEF Shows, SliceBeat

\* The parser's place is the next one when it has streamed a byte.
LEMMA ParserPlaceMoves ==
  ASSUME ParserStreams \/ ParserStalls \/ ParserBegins \/ ParserElsewhere,
         SliceFollowsParser, frame_len \in Nat, remaining \in Nat,
         cmd = "C_STREAM" => frame_len = Len(Plan[ParserFrame].frame),
         ParserFrame \in Nat, ParserFrame' = ParserFrame + OneBit(Ends)
  PROVE  ParserPlace' = IF Pushes THEN Following(ParserPlace) ELSE ParserPlace
<1> DEFINE k == ParserFrame
           n == Len(Plan[k].frame)
           next == IF cmd' = "C_STREAM" THEN 1 + frame_len' - remaining' ELSE 1
<1>1. ParserPlace' = <<ParserFrame', next>>
  BY DEF ParserPlace
<1> HIDE DEF next
<1>2. CASE ParserStreams
  <2>1. /\ cmd = "C_STREAM" /\ Pushes /\ frame_len' = frame_len /\ remaining' = remaining - 1
        /\ cmd' = IF remaining = 1 THEN "C_IDLE" ELSE "C_STREAM"
        /\ remaining \in 1 .. frame_len /\ frame_len = n
    BY <1>2 DEF ParserStreams, CommandKept, Pushes, SliceFollowsParser
  <2>2. ParserPlace = <<k, 1 + frame_len - remaining>>
    BY <2>1 DEF ParserPlace
  <2>3. Following(ParserPlace) = IF 1 + frame_len - remaining < n
                                 THEN <<k, (1 + frame_len - remaining) + 1>> ELSE <<k + 1, 1>>
    BY <2>2 DEF Following
  <2>4. CASE remaining = 1
    <3>1. Ends /\ next = 1
      BY <1>2, <2>1, <2>4 DEF Ends, LastByte, next
    <3>2. ~(1 + frame_len - remaining < n) /\ ParserFrame' = k + 1
      BY <2>1, <2>4, <3>1 DEF OneBit
    <3> QED
      BY <1>1, <2>1, <2>3, <3>1, <3>2
  <2>5. CASE remaining # 1
    <3>1. ~Ends /\ next = 1 + frame_len - (remaining - 1)
      BY <2>1, <2>5 DEF Ends, LastByte, next
    <3>2. 1 + frame_len - remaining < n /\ ParserFrame' = k
          /\ next = (1 + frame_len - remaining) + 1
      BY <2>1, <2>5, <3>1 DEF OneBit
    <3> QED
      BY <1>1, <2>1, <2>3, <3>2
  <2> QED
    BY <2>4, <2>5
<1>3. CASE ~ParserStreams
  <2>1. ParserFrame' = k
    BY <1>3 DEF Ends, OneBit
  <2>2. CASE ParserStalls
    BY <1>1, <2>1, <2>2 DEF ParserStalls, CommandKept, ParserPlace, Pushes, next
  <2>3. CASE ParserBegins
    <3>1. cmd = "C_WAIT" /\ cmd' = "C_STREAM" /\ remaining' = frame_len /\ frame_len' = frame_len
      BY <2>3 DEF ParserBegins, begun, CommandKept
    <3>2. next = 1
      BY <3>1 DEF next
    <3> QED
      BY <1>1, <2>1, <3>1, <3>2 DEF ParserPlace, Pushes
  <2>4. CASE ParserElsewhere
    BY <1>1, <2>1, <2>4 DEF ParserElsewhere, ParserPlace, Pushes, next
  <2> QED
    BY <1>3, <2>2, <2>3, <2>4
<1> QED
  BY <1>2, <1>3

\* The frame of the byte that the filter takes next is the following one when it
\* has taken the last byte of one.
LEMMA FilterPlaceMoves ==
  ASSUME NEW in, filter_rst_n, FilterTurns(FilterInput(in)), FilterFrame \in Nat,
         FilterFrame' = FilterFrame + OneBit(ResultTaken(in)),
         out_q.last \in BOOLEAN
  PROVE  FilterFrame' + OneBit(phase' \in {"ended", "record"}) =
           FilterFrame + OneBit(phase \in {"ended", "record"}) + OneBit(Pops /\ out_q.last)
<1> DEFINE ports == FilterInput(in)
<1>1. /\ Takes(ports) <=> Pops
      /\ Leaves(ports) <=> ResultTaken(in)
      /\ ports.tlast = out_q.last
  BY BoardPorts
<1> HIDE DEF ports
<1>2. CASE ResultTaken(in)
  <2>1. ~Pops /\ phase = "record" /\ phase' = "idle"
    BY <1>1, <1>2 DEF FilterTurns, Leaves, ports
  <2> QED
    BY <1>2, <2>1 DEF OneBit
<1>3. CASE ~ResultTaken(in)
  <2>1. FilterFrame' = FilterFrame
    BY <1>3 DEF OneBit
  <2>2. CASE ~Pops
    <3>1. phase' = phase \/ (phase = "ended" /\ phase' = "record")
      BY <1>1, <1>3, <2>2 DEF FilterTurns, ports
    <3> QED
      BY <2>1, <2>2, <3>1 DEF OneBit
  <2>3. CASE Pops
    <3>1. /\ phase \in {"idle", "inside"}
          /\ IF out_q.last THEN phase' \in {"ended", "record"} ELSE phase' = "inside"
      BY <1>1, <1>3, <2>3 DEF FilterTurns, ports
    <3> QED
      BY <2>1, <2>3, <3>1 DEF OneBit
  <2> QED
    BY <2>2, <2>3
<1> QED
  BY <1>2, <1>3

\* The host's and the filter's beats, as answers.
LEMMA AsAnswersIs ==
  ASSUME NEW s \in Seq(Filter!Beat)
  PROVE  /\ AsAnswers(s) \in Seq(Answer) /\ Len(AsAnswers(s)) = Len(s)
         /\ \A i \in 1 .. Len(s) : AsAnswers(s)[i] = Protocol!PayloadBeat(s[i])
<1>1. \A b \in Filter!Beat : Protocol!PayloadBeat(b) \in Answer
  BY DEF Answer
<1>2. DOMAIN s = 1 .. Len(s) /\ Len(s) \in Nat /\ \A i \in 1 .. Len(s) : s[i] \in Filter!Beat
  BY ElementOfSeq, LenProperties
<1>3. AsAnswers(s) = [i \in 1 .. Len(s) |-> Protocol!PayloadBeat(s[i])]
  BY <1>2 DEF AsAnswers
<1> DEFINE f == [i \in 1 .. Len(s) |-> Protocol!PayloadBeat(s[i])]
<1>4. f \in [1 .. Len(s) -> Answer]
  BY <1>1, <1>2
<1>5. f \in Seq(Answer) /\ Len(f) = Len(s)
  <2> HIDE DEF f
  <2>1. \A n \in Nat : \A g \in [1 .. n -> Answer] : g \in Seq(Answer) /\ Len(g) = n
    BY IsASeq, LenProperties
  <2> QED
    BY <1>2, <1>4, <2>1
<1> QED
  BY <1>3, <1>5

LEMMA AsAnswersAppend ==
  ASSUME NEW s \in Seq(Filter!Beat), NEW b \in Filter!Beat
  PROVE  AsAnswers(Append(s, b)) = AsAnswers(s) \o <<Protocol!PayloadBeat(b)>>
<1> DEFINE a == Protocol!PayloadBeat(b)
           t == Append(s, b)
<1>1. /\ t \in Seq(Filter!Beat) /\ Len(t) = Len(s) + 1
      /\ \A i \in 1 .. Len(s) : t[i] = s[i]
      /\ t[Len(s) + 1] = b /\ Len(s) \in Nat
  BY AppendProperties, LenProperties
<1>2. a \in Answer
  BY DEF Answer
<1> HIDE DEF t
<1> DEFINE p == AsAnswers(s)
           q == AsAnswers(t)
<1>3. /\ q \in Seq(Answer) /\ Len(q) = Len(s) + 1 /\ p \in Seq(Answer) /\ Len(p) = Len(s)
      /\ \A i \in 1 .. Len(s) + 1 : q[i] = Protocol!PayloadBeat(t[i])
      /\ \A i \in 1 .. Len(s) : p[i] = Protocol!PayloadBeat(s[i])
  BY <1>1, AsAnswersIs
<1> HIDE DEF p, q
<1>4. /\ Append(p, a) \in Seq(Answer) /\ Len(Append(p, a)) = Len(s) + 1
      /\ \A i \in 1 .. Len(s) : Append(p, a)[i] = p[i]
      /\ Append(p, a)[Len(s) + 1] = a
  BY <1>2, <1>3, AppendProperties
<1>5. \A i \in 1 .. Len(s) + 1 : q[i] = Append(p, a)[i]
  <2> TAKE i \in 1 .. Len(s) + 1
  <2>1. CASE i = Len(s) + 1
    BY <1>1, <1>3, <1>4, <2>1
  <2>2. CASE i # Len(s) + 1
    <3>1. i \in 1 .. Len(s)
      BY <1>1, <2>2
    <3> QED
      BY <1>1, <1>3, <1>4, <3>1
  <2> QED
    BY <2>1, <2>2
<1>6. q = Append(p, a)
  <2>1. \A x, y \in Seq(Answer) : Len(x) = Len(y) /\ (\A i \in 1 .. Len(x) : x[i] = y[i]) => x = y
    BY SeqEqual
  <2> HIDE DEF a
  <2> DEFINE r == Append(p, a)
  <2>2. r \in Seq(Answer) /\ Len(r) = Len(q) /\ \A i \in 1 .. Len(q) : q[i] = r[i]
    BY <1>3, <1>4, <1>5
  <2> HIDE DEF r
  <2>3. q = r
    BY <1>3, <2>1, <2>2
  <2> QED
    BY <2>3 DEF r
<1>7. Append(p, a) = p \o <<a>>
  BY <1>2, <1>3, AppendIsConcat
<1> QED
  BY <1>6, <1>7 DEF p, q, t

LEMMA AsAnswersFirst ==
  ASSUME NEW s \in Seq(Filter!Beat), s # << >>
  PROVE  AsAnswers(s) = <<Protocol!PayloadBeat(Head(s))>> \o AsAnswers(Tail(s))
<1> DEFINE a == Protocol!PayloadBeat(Head(s))
<1>1. /\ Tail(s) \in Seq(Filter!Beat) /\ Len(Tail(s)) = Len(s) - 1 /\ Len(s) \in Nat \ {0}
      /\ \A i \in 1 .. Len(Tail(s)) : Tail(s)[i] = s[i + 1]
      /\ Head(s) = s[1] /\ Head(s) \in Filter!Beat
  BY HeadTailProperties, EmptySeq, LenProperties
<1>2. a \in Answer
  BY <1>1, Zenon DEF Answer
<1> DEFINE p == AsAnswers(s)
           q == AsAnswers(Tail(s))
<1>3. /\ p \in Seq(Answer) /\ Len(p) = Len(s) /\ q \in Seq(Answer) /\ Len(q) = Len(s) - 1
      /\ \A i \in 1 .. Len(s) : p[i] = Protocol!PayloadBeat(s[i])
      /\ \A i \in 1 .. Len(s) - 1 : q[i] = Protocol!PayloadBeat(s[i + 1])
  <2>1. /\ q \in Seq(Answer) /\ Len(q) = Len(Tail(s))
        /\ \A i \in 1 .. Len(Tail(s)) : q[i] = Protocol!PayloadBeat(Tail(s)[i])
    BY <1>1, AsAnswersIs, Zenon
  <2>2. /\ p \in Seq(Answer) /\ Len(p) = Len(s)
        /\ \A i \in 1 .. Len(s) : p[i] = Protocol!PayloadBeat(s[i])
    BY AsAnswersIs, Zenon
  <2> HIDE DEF p, q
  <2> QED
    BY <1>1, <2>1, <2>2, Zenon
<1> HIDE DEF p, q
<1>4. /\ <<a>> \in Seq(Answer) /\ Len(<<a>>) = 1 /\ <<a>>[1] = a
  BY <1>2
<1>5. p[1] = a
  <2>1. 1 \in 1 .. Len(s) /\ s[1] = Head(s)
    BY <1>1
  <2>2. p[1] = Protocol!PayloadBeat(s[1])
    BY <1>3, <2>1
  <2> QED
    BY <2>1, <2>2, Zenon
<1> HIDE DEF a
<1> DEFINE one == <<a>>
<1>6. one \in Seq(Answer) /\ Len(one) = 1 /\ one[1] = a
  BY <1>4
<1> HIDE DEF one
<1>7. /\ one \o q \in Seq(Answer) /\ Len(one \o q) = Len(one) + Len(q)
      /\ \A i \in 1 .. Len(one) + Len(q) :
           (one \o q)[i] = IF i <= Len(one) THEN one[i] ELSE q[i - Len(one)]
  <2>1. \A x, y \in Seq(Answer) :
          /\ x \o y \in Seq(Answer) /\ Len(x \o y) = Len(x) + Len(y)
          /\ \A i \in 1 .. Len(x) + Len(y) :
               (x \o y)[i] = IF i <= Len(x) THEN x[i] ELSE y[i - Len(x)]
    BY ConcatProperties
  <2> QED
    BY <1>3, <1>6, <2>1, Zenon
<1> DEFINE r == one \o q
<1>8. r \in Seq(Answer) /\ Len(r) = Len(p) /\ \A i \in 1 .. Len(p) : p[i] = r[i]
  <2>1. Len(r) = Len(p) /\ r \in Seq(Answer)
    BY <1>1, <1>3, <1>6, <1>7
  <2>2. ASSUME NEW i \in 1 .. Len(p) PROVE p[i] = r[i]
    <3>1. CASE i = 1
      BY <1>1, <1>3, <1>5, <1>6, <1>7, <3>1
    <3>2. CASE i # 1
      <4>1. i \in 1 .. Len(s) /\ i - 1 \in 1 .. Len(s) - 1 /\ (i - 1) + 1 = i /\ ~(i <= 1)
            /\ i \in 1 .. 1 + (Len(s) - 1)
        BY <1>1, <1>3, <3>2
      <4>2. r[i] = q[i - 1]
        BY <1>3, <1>6, <1>7, <4>1
      <4> QED
        BY <1>3, <4>1, <4>2
    <3> QED
      BY <3>1, <3>2
  <2> QED
    BY <2>1, <2>2
<1> HIDE DEF r
<1>9. p = r
  <2>1. \A x, y \in Seq(Answer) : Len(x) = Len(y) /\ (\A i \in 1 .. Len(x) : x[i] = y[i]) => x = y
    BY SeqEqual
  <2> QED
    BY <1>3, <1>8, <2>1
<1> QED
  BY <1>9 DEF p, q, r, one, a

LEMMA BeatAnswer ==
  ASSUME NEW a \in Answer, a.kind = "beat"
  PROVE  a.beat \in Filter!Beat /\ a = Protocol!PayloadBeat(a.beat)
<1>1. a # Protocol!Ack
  BY DEF Protocol!Ack
<1>2. \A r : Protocol!ResultRecord(r).kind = "result"
  BY DEF Protocol!ResultRecord
<1>3. PICK b \in Filter!Beat : a = Protocol!PayloadBeat(b)
  BY <1>1, <1>2 DEF Answer
<1> QED
  BY <1>3 DEF Protocol!PayloadBeat

LEMMA AnswersRegroup ==
  ASSUME NEW S, NEW a \in Seq(S), NEW h \in Seq(S), NEW left \in Seq(S),
         NEW given \in Seq(S), NEW kept \in Seq(S), NEW new \in Seq(S)
  PROVE  Join(Join(Join(a, Join(h, left)), Join(given, kept)), new) =
           Join(Join(a, h), Join(Join(left, given), Join(kept, new)))
<1> DEFINE ah == Join(a, h)
           x == Join(a, Join(h, left))
           y == Join(given, kept)
           z == Join(kept, new)
<1>1. ah \in Seq(S) /\ y \in Seq(S) /\ z \in Seq(S)
  BY JoinAssociates
<1>2. x = Join(ah, left) /\ x \in Seq(S)
  <2>1. Join(h, left) \in Seq(S)
    BY JoinAssociates
  <2>2. x \in Seq(S)
    <3> DEFINE w == Join(h, left)
    <3>1. w \in Seq(S)
      BY <2>1
    <3> HIDE DEF w
    <3> QED
      BY <3>1, JoinAssociates
  <2> QED
    BY <2>2, JoinAssociates
<1>3. Join(y, new) = Join(given, z)
  BY JoinAssociates
<1> HIDE DEF ah, x, y, z
<1>4. Join(Join(x, y), new) = Join(x, Join(y, new))
  BY <1>1, <1>2, JoinAssociates
<1> DEFINE gz == Join(given, z)
<1>5. gz \in Seq(S) /\ Join(left, gz) = Join(Join(left, given), z)
  BY <1>1, JoinAssociates
<1> HIDE DEF gz
<1>6. Join(Join(ah, left), gz) = Join(ah, Join(left, gz))
  BY <1>1, <1>5, JoinAssociates
<1>7. Join(y, new) = gz
  BY <1>3 DEF gz
<1>8. Join(Join(x, y), new) = Join(ah, Join(Join(left, given), z))
  BY <1>2, <1>4, <1>5, <1>6, <1>7, Zenon
<1> QED
  BY <1>8 DEF ah, x, y, z

\* What the host makes of the oldest answer.
HostMakes(in) ==
  LET answer == Head(issued)
  IN /\ Parses(in) => issued # << >>
     /\ ~Parses(in) => current' = current /\ frames' = frames
     /\ Parses(in) /\ answer.kind = "beat" =>
          current' = Append(current, answer.beat) /\ frames' = frames
     /\ Parses(in) /\ answer.kind = "result" =>
          /\ current' = << >>
          /\ frames' = Append(frames, [beats |-> current, result |-> answer.record])

LEMMA HostMakesIs ==
  ASSUME NEW in, feed(in), Parses(in) => issued # << >>,
         Parses(in) => Protocol!Answer(Arrived(in)) = Head(issued)
  PROVE  HostMakes(in)
<1>1. CASE ~Parses(in)
  BY <1>1 DEF feed, HostMakes
<1>2. CASE Parses(in)
  <2> DEFINE answer == Head(issued)
  <2>1. /\ current' = CASE answer.kind = "beat" -> Append(current, answer.beat)
                        [] answer.kind = "result" -> << >>
                        [] answer.kind = "ack" -> current
        /\ frames' = IF answer.kind = "result"
                     THEN Append(frames, [beats |-> current, result |-> answer.record])
                     ELSE frames
    BY <1>2, Zenon DEF feed
  <2> HIDE DEF answer
  <2>2. answer.kind = "beat" => current' = Append(current, answer.beat) /\ frames' = frames
    BY <2>1, Zenon
  <2>3. answer.kind = "result" =>
          /\ current' = << >>
          /\ frames' = Append(frames, [beats |-> current, result |-> answer.record])
    BY <2>1, Zenon
  <2> QED
    BY <1>2, <2>2, <2>3, Zenon DEF HostMakes, answer
<1> QED
  BY <1>1, <1>2

\* The answer that the filter adds to those on their way, if any.
NewBeat(last, error) == [data |-> out_q.data, last |-> last, error |-> error]

AddsNothing(in, new) ==
  new = << >> /\ ~ResultTaken(in) /\ (Skips(FilterInput(in)) \/ Opens(FilterInput(in)))
AddsResult(in, new) == new = <<Protocol!ResultRecord(record)>> /\ ResultTaken(in)
AddsBeat(in, new) ==
  \E last, error \in BOOLEAN :
    /\ new = <<Protocol!PayloadBeat(NewBeat(last, error))>> /\ ~ResultTaken(in)
    /\ Pops /\ phase = "inside" /\ payload # "closed" /\ (out_q.last => last)
    /\ beats' = Append(Filter!Kept(FilterInput(in)), NewBeat(last, error))
    /\ payload' = IF last THEN "closed" ELSE "open"
Adds(in, new) == AddsNothing(in, new) \/ AddsResult(in, new) \/ AddsBeat(in, new)

LEMMA FilterAdds ==
  ASSUME NEW in, filter_rst_n, FilterTurns(FilterInput(in)), record \in Filter!Record,
         out_q.data \in Byte, beats \in Seq(Filter!Beat),
         phase = "record" => beats = << >>
  PROVE  \E new \in Seq(Answer) :
           /\ Adds(in, new)
           /\ ResultTaken(in) => beats = << >> /\ beats' = << >>
           /\ ~ResultTaken(in) =>
                AsAnswers(beats') = AsAnswers(Filter!Kept(FilterInput(in))) \o new
<1> DEFINE ports == FilterInput(in)
           left == Filter!Kept(ports)
<1>1. /\ Takes(ports) <=> Pops
      /\ Leaves(ports) <=> ResultTaken(in)
      /\ ports.tdata = out_q.data /\ ports.tlast = out_q.last
      /\ left = IF BeatTaken(in) THEN Tail(beats) ELSE beats
      /\ BeatTaken(in) => beats # << >>
      /\ \A last, error : Fresh(ports, last, error) = NewBeat(last, error)
  BY BoardPorts DEF NewBeat
<1>2. left \in Seq(Filter!Beat)
  BY <1>1, HeadTailProperties
<1> HIDE DEF ports, left
<1>3. CASE ResultTaken(in)
  <2> DEFINE new == <<Protocol!ResultRecord(record)>>
  <2>1. new \in Seq(Answer)
    BY DEF Answer
  <2>2. phase = "record" /\ beats' = beats
    BY <1>1, <1>3 DEF FilterTurns, Leaves, ports
  <2>3. AddsResult(in, new)
    BY <1>3 DEF AddsResult
  <2> QED
    BY <1>3, <2>1, <2>2, <2>3 DEF Adds
<1>4. CASE ~ResultTaken(in)
  <2>1. Skips(ports) \/ Opens(ports) \/ Forwards(ports)
    BY <1>1, <1>4 DEF FilterTurns, ports
  <2>2. CASE Skips(ports) \/ Opens(ports)
    <3>1. beats' = left
      BY <2>2 DEF Skips, Opens, left
    <3>2. AsAnswers(left) \in Seq(Answer)
      BY <1>2, AsAnswersIs
    <3>3. AsAnswers(left) \o << >> = AsAnswers(left) /\ << >> \in Seq(Answer)
      BY <3>2, ConcatEmptySeq, EmptySeq
    <3>4. AddsNothing(in, << >>)
      BY <1>4, <2>2 DEF AddsNothing, ports
    <3>5. AsAnswers(beats') = AsAnswers(left)
      BY <3>1
    <3> QED
      BY <1>4, <3>3, <3>4, <3>5, Zenon DEF Adds, left, ports
  <2>3. CASE Forwards(ports)
    <3>1. PICK last \in BOOLEAN, error \in BOOLEAN :
            /\ Takes(ports) /\ phase = "inside" /\ payload # "closed" /\ (ports.tlast => last)
            /\ beats' = Append(left, Fresh(ports, last, error))
            /\ payload' = IF last THEN "closed" ELSE "open"
      BY <2>3 DEF Forwards, left
    <3> DEFINE b == NewBeat(last, error)
               new == <<Protocol!PayloadBeat(b)>>
    <3>2. b \in Filter!Beat
      BY DEF NewBeat, Filter!Beat
    <3>3. new \in Seq(Answer)
      BY <3>2 DEF Answer
    <3>4. beats' = Append(left, b)
      BY <1>1, <3>1
    <3> HIDE DEF b
    <3>5. AsAnswers(Append(left, b)) = AsAnswers(left) \o new
      BY <1>2, <3>2, AsAnswersAppend
    <3>6. AddsBeat(in, new)
      BY <1>1, <1>4, <3>1, <3>4 DEF AddsBeat, b, left, ports
    <3> HIDE DEF new
    <3>7. AsAnswers(beats') = AsAnswers(left) \o new
      BY <3>4, <3>5
    <3> QED
      BY <1>4, <3>3, <3>6, <3>7, Zenon DEF Adds, left, ports
  <2> QED
    BY <2>1, <2>2, <2>3
<1> QED
  BY <1>3, <1>4

\* The answers on their way begin with the beats the host has of a frame, and
\* go on with the oldest answer it has not read.
LEMMA OutgoingStarts ==
  ASSUME issued \in Seq(Answer), current \in Seq(Filter!Beat), beats \in Seq(Filter!Beat)
  PROVE  /\ Outgoing \in Seq(Answer) /\ Len(current) \in Nat
         /\ Len(current) <= Len(Outgoing)
         /\ \A i \in 1 .. Len(current) : Outgoing[i] = Protocol!PayloadBeat(current[i])
         /\ issued # << >> => /\ Len(current) + 1 <= Len(Outgoing)
                              /\ Outgoing[Len(current) + 1] = Head(issued)
<1> DEFINE a == AsAnswers(current)
           b == AsAnswers(beats)
           c == a \o issued
           n == Len(current)
<1>1. /\ a \in Seq(Answer) /\ Len(a) = n /\ b \in Seq(Answer)
      /\ \A i \in 1 .. n : a[i] = Protocol!PayloadBeat(current[i])
  BY AsAnswersIs
<1>2. \A x, y \in Seq(Answer) :
        /\ x \o y \in Seq(Answer) /\ Len(x \o y) = Len(x) + Len(y)
        /\ Len(x) \in Nat /\ Len(y) \in Nat
        /\ \A i \in 1 .. Len(x) + Len(y) :
             (x \o y)[i] = IF i <= Len(x) THEN x[i] ELSE y[i - Len(x)]
  BY ConcatProperties, LenProperties
<1>3. n \in Nat
  BY LenProperties
<1> HIDE DEF a, b, n
<1>4. /\ c \in Seq(Answer) /\ Len(c) = n + Len(issued) /\ Len(issued) \in Nat
      /\ \A i \in 1 .. n + Len(issued) : c[i] = IF i <= n THEN a[i] ELSE issued[i - n]
  BY <1>1, <1>2
<1> HIDE DEF c
<1> DEFINE all == c \o b
<1>5. /\ all \in Seq(Answer) /\ Len(all) = Len(c) + Len(b) /\ Len(b) \in Nat
      /\ \A i \in 1 .. Len(c) + Len(b) : all[i] = IF i <= Len(c) THEN c[i] ELSE b[i - Len(c)]
  BY <1>1, <1>2, <1>4
<1> HIDE DEF all
<1>6. Outgoing = all
  BY DEF Outgoing, all, a, b, c
<1>7. \A i \in 1 .. n : all[i] = Protocol!PayloadBeat(current[i])
  <2> TAKE i \in 1 .. n
  <2>1. i \in 1 .. n + Len(issued) /\ i \in 1 .. Len(c) + Len(b) /\ i <= Len(c) /\ i <= n
    BY <1>3, <1>4, <1>5
  <2>2. all[i] = c[i] /\ c[i] = a[i]
    BY <1>4, <1>5, <2>1
  <2> QED
    BY <1>1, <2>2
<1>8. ASSUME issued # << >> PROVE n + 1 <= Len(all) /\ all[n + 1] = Head(issued)
  <2>1. Len(issued) >= 1 /\ Head(issued) = issued[1]
    BY <1>8, EmptySeq, HeadTailProperties, LenProperties
  <2>2. n + 1 \in 1 .. n + Len(issued) /\ n + 1 \in 1 .. Len(c) + Len(b) /\ n + 1 <= Len(c)
        /\ ~(n + 1 <= n) /\ (n + 1) - n = 1 /\ n + 1 <= Len(all)
    BY <1>3, <1>4, <1>5, <2>1
  <2>3. all[n + 1] = c[n + 1] /\ c[n + 1] = issued[(n + 1) - n]
    BY <1>4, <1>5, <2>2
  <2> QED
    BY <2>1, <2>2, <2>3
<1>9. n <= Len(all)
  BY <1>3, <1>4, <1>5
<1> QED
  BY <1>3, <1>5, <1>6, <1>7, <1>8, <1>9 DEF n

\* A sequence without its first elements.
Without(s, d, rest) ==
  /\ d \in 0 .. Len(s) /\ Len(rest) = Len(s) - d
  /\ \A i \in 1 .. Len(rest) : rest[i] = s[i + d]

LEMMA RestOfJoin ==
  ASSUME NEW S, NEW a \in Seq(S), NEW b \in Seq(S)
  PROVE  Without(a \o b, Len(a), b)
<1> DEFINE c == a \o b
<1>1. /\ Len(c) = Len(a) + Len(b) /\ Len(a) \in Nat /\ Len(b) \in Nat
      /\ \A i \in 1 .. Len(a) + Len(b) : c[i] = IF i <= Len(a) THEN a[i] ELSE b[i - Len(a)]
  BY ConcatProperties, LenProperties
<1> HIDE DEF c
<1>2. \A i \in 1 .. Len(b) : b[i] = c[i + Len(a)]
  <2> TAKE i \in 1 .. Len(b)
  <2>1. i + Len(a) \in 1 .. Len(a) + Len(b) /\ ~(i + Len(a) <= Len(a)) /\ (i + Len(a)) - Len(a) = i
    BY <1>1
  <2> QED
    BY <1>1, <2>1
<1>3. Len(a) \in 0 .. Len(c) /\ Len(b) = Len(c) - Len(a)
  BY <1>1
<1> QED
  BY <1>2, <1>3 DEF Without, c

\* The answers on their way after an edge: one more at the end, perhaps, and
\* without those of a frame that the host has made a response of.
LEMMA OutgoingMoves ==
  ASSUME NEW in, NEW new \in Seq(Answer),
         issued \in Seq(Answer), issued' \in Seq(Answer), current \in Seq(Filter!Beat),
         beats \in Seq(Filter!Beat), beats' \in Seq(Filter!Beat), phase = "record" => beats = << >>,
         Filter!ServiceTypeOK, filter_rst_n,
         ~ack_pending, Issues(in), HostMakes(in),
         Parses(in) => Head(issued).kind # "ack",
         Adds(in, new),
         ResultTaken(in) => beats = << >> /\ beats' = << >>,
         ~ResultTaken(in) => AsAnswers(beats') = AsAnswers(Filter!Kept(FilterInput(in))) \o new
  PROVE  /\ Outgoing' \in Seq(Answer)
         /\ IF Parses(in) /\ IsResult(Head(issued))
              THEN Without(Outgoing \o new, Len(current) + 1, Outgoing')
              ELSE Outgoing' = Outgoing \o new
<1> DEFINE a == AsAnswers(current)
           b == AsAnswers(beats)
           b2 == AsAnswers(beats')
           kept == AsAnswers(Filter!Kept(FilterInput(in)))
           given == NewAnswers(in)
           h == IF Parses(in) THEN <<Head(issued)>> ELSE << >>
           left == IF Parses(in) THEN Tail(issued) ELSE issued
           all == Outgoing \o new
           a2 == AsAnswers(current')
<1>0. << >> \in Seq(Answer) /\ << >> \in Seq(Filter!Beat) /\ AsAnswers(<< >>) = << >>
  <2>1. << >> \in Seq(Filter!Beat) /\ << >> \in Seq(Answer)
    BY EmptySeq
  <2>2. AsAnswers(<< >>) \in Seq(Answer) /\ Len(AsAnswers(<< >>)) = Len(<< >>)
    BY <2>1, AsAnswersIs
  <2> QED
    BY <2>1, <2>2, EmptySeq
<1>1. /\ a \in Seq(Answer) /\ Len(a) = Len(current) /\ b \in Seq(Answer) /\ b2 \in Seq(Answer)
  BY AsAnswersIs
<1>2. /\ Filter!Kept(FilterInput(in)) = IF BeatTaken(in) THEN Tail(beats) ELSE beats
      /\ BeatTaken(in) => beats # << >>
  BY BoardPorts
<1>3. kept \in Seq(Answer) /\ (BeatTaken(in) => b = <<Protocol!PayloadBeat(Head(beats))>> \o kept)
      /\ (~BeatTaken(in) => b = kept)
  <2>1. beats # << >> => Tail(beats) \in Seq(Filter!Beat)
    BY HeadTailProperties
  <2> QED
    BY <1>2, <2>1, AsAnswersIs, AsAnswersFirst
<1>4. ~ack_sent /\ (ResultTaken(in) => ~BeatTaken(in))
  BY DEF ack_sent, ResultTaken, BeatTaken, result_ready
<1>5. /\ BeatTaken(in) => given = <<Protocol!PayloadBeat(Head(beats))>>
      /\ ResultTaken(in) => given = <<Protocol!ResultRecord(record)>>
      /\ ~BeatTaken(in) /\ ~ResultTaken(in) => given = << >>
  BY <1>4, NewAnswersAre
<1>6. /\ h \in Seq(Answer) /\ left \in Seq(Answer) /\ Len(h) = IF Parses(in) THEN 1 ELSE 0
      /\ issued = h \o left
  <2>1. Parses(in) => issued # << >>
    BY DEF HostMakes
  <2>2. CASE Parses(in)
    <3>1. \A s \in Seq(Answer) : s # << >> =>
            /\ s = <<Head(s)>> \o Tail(s) /\ Len(<<Head(s)>>) = 1
            /\ <<Head(s)>> \in Seq(Answer) /\ Tail(s) \in Seq(Answer)
      OBVIOUS
    <3> QED
      BY <2>1, <2>2, <3>1
  <2>3. CASE ~Parses(in)
    <3>1. h = << >> /\ left = issued
      BY <2>3
    <3>2. << >> \o issued = issued
      BY ConcatEmptySeq
    <3>3. h \o left = issued
      BY <3>1, <3>2
    <3>4. Len(<< >>) = 0
      BY EmptySeq
    <3> QED
      BY <1>0, <2>3, <3>1, <3>3, <3>4
  <2> QED
    BY <2>2, <2>3
<1>7. issued' = left \o given /\ given \in Seq(Answer)
  <2>1. issued' = left \o given
    BY DEF Issues
  <2>2. given \in Seq(Answer)
    <3>1. GivenAnswer(in)
      BY AtMostOneGiven
    <3>2. \A x \in Answer : <<x>> \in Seq(Answer)
      OBVIOUS
    <3> QED
      BY <1>0, <3>1, <3>2, Zenon DEF GivenAnswer
  <2> QED
    BY <2>1, <2>2
<1>8. /\ ~Parses(in) => a2 = a
      /\ Parses(in) /\ IsResult(Head(issued)) => a2 = << >>
      /\ Parses(in) /\ ~IsResult(Head(issued)) => a2 = a \o h
  <2>1. CASE Parses(in) /\ ~IsResult(Head(issued))
    <3> DEFINE first_answer == Head(issued)
    <3>1. first_answer \in Answer
      BY <2>1, HeadTailProperties DEF HostMakes
    <3>2. first_answer.kind = "beat"
      BY <2>1, <3>1, KindOfAnswer DEF IsResult
    <3>3. first_answer.beat \in Filter!Beat /\ first_answer = Protocol!PayloadBeat(first_answer.beat)
      BY <3>1, <3>2, BeatAnswer
    <3>4. current' = Append(current, first_answer.beat)
      BY <2>1, <3>2 DEF HostMakes
    <3>5. AsAnswers(current') = a \o <<first_answer>>
      BY <3>3, <3>4, AsAnswersAppend
    <3> QED
      BY <2>1, <3>5
  <2>2. CASE Parses(in) /\ IsResult(Head(issued))
    <3>1. current' = << >>
      BY <2>2 DEF HostMakes, IsResult
    <3> QED
      BY <1>0, <2>2, <3>1
  <2>3. CASE ~Parses(in)
    BY <2>3 DEF HostMakes
  <2> QED
    BY <2>1, <2>2, <2>3
<1>9. /\ Outgoing = (a \o issued) \o b /\ Outgoing' = (a2 \o issued') \o b2
      /\ a2 \in Seq(Answer)
  <2>1. a2 \in Seq(Answer)
    <3>1. a \o h \in Seq(Answer)
      BY <1>1, <1>6, ConcatProperties
    <3> QED
      BY <1>0, <1>1, <1>8, <3>1
  <2> QED
    BY <2>1 DEF Outgoing
<1>10. /\ ~ResultTaken(in) => b = given \o kept /\ b2 = kept \o new
       /\ ResultTaken(in) => b = << >> /\ b2 = << >> /\ new = given
  <2>1. CASE ResultTaken(in)
    <3>1. new = <<Protocol!ResultRecord(record)>>
      BY <2>1 DEF Adds, AddsNothing, AddsResult, AddsBeat
    <3> QED
      BY <1>0, <1>5, <2>1, <3>1
  <2>2. CASE BeatTaken(in)
    BY <1>3, <1>4, <1>5, <2>2
  <2>3. CASE ~BeatTaken(in) /\ ~ResultTaken(in)
    <3>1. << >> \o kept = kept
      BY <1>3, ConcatEmptySeq
    <3> QED
      BY <1>3, <1>5, <2>3, <3>1
  <2> QED
    BY <1>4, <2>1, <2>2, <2>3
<1> HIDE DEF a, b, b2, kept, given, h, left, a2
<1> DEFINE ah == Join(a, h)
           tail == Join(issued', b2)
<1>11. ah \in Seq(Answer) /\ tail \in Seq(Answer) /\ Len(ah) = Len(a) + Len(h)
  BY <1>1, <1>6, ConcatProperties DEF Join
<1>12. all = Join(ah, tail)
  <2>1. CASE ~ResultTaken(in)
    <3>1. Join(Join(Join(a, Join(h, left)), Join(given, kept)), new) =
            Join(Join(a, h), Join(Join(left, given), Join(kept, new)))
      <4>1. /\ a \in Seq(Answer) /\ h \in Seq(Answer) /\ left \in Seq(Answer)
            /\ given \in Seq(Answer) /\ kept \in Seq(Answer) /\ new \in Seq(Answer)
        BY <1>1, <1>3, <1>6, <1>7
      <4> QED
        BY ONLY <4>1, AnswersRegroup
    <3>2. /\ Join(h, left) = issued /\ Join(given, kept) = b /\ Join(left, given) = issued'
          /\ Join(kept, new) = b2 /\ Outgoing = Join(Join(a, issued), b)
      BY <1>6, <1>7, <1>9, <1>10, <2>1 DEF Join
    <3>3. all = Join(Outgoing, new)
      BY DEF Join
    <3> QED
      BY <3>1, <3>2, <3>3
  <2>2. CASE ResultTaken(in)
    <3> DEFINE e == << >>
    <3>1. e \in Seq(Answer) /\ b = e /\ b2 = e /\ new = given
      BY <1>0, <1>10, <2>2
    <3>2. \A s \in Seq(Answer) : Join(s, e) = s
      BY ConcatEmptySeq DEF Join
    <3> HIDE DEF e
    <3>3. Join(Join(Join(a, Join(h, left)), Join(given, e)), e) =
            Join(Join(a, h), Join(Join(left, given), Join(e, e)))
      BY <1>1, <1>6, <1>7, <3>1, AnswersRegroup
    <3>4. Join(given, e) = given /\ Join(e, e) = e
      BY <1>7, <3>1, <3>2
    <3> DEFINE ai == Join(a, issued)
    <3>5. Join(h, left) = issued /\ Join(left, given) = issued' /\ Outgoing = Join(ai, b)
      BY <1>6, <1>7, <1>9 DEF Join
    <3>6. ai \in Seq(Answer)
      BY <1>1, ConcatProperties DEF Join
    <3>7. Join(ai, given) \in Seq(Answer)
      <4> HIDE DEF ai
      <4> QED
        BY <1>7, <3>6, ConcatProperties DEF Join
    <3>8. Join(Join(ai, given), e) = Join(ah, tail)
      BY <3>1, <3>3, <3>4, <3>5
    <3> HIDE DEF ai
    <3>9. Outgoing = ai /\ Join(Join(ai, given), e) = Join(ai, given)
      BY <3>1, <3>2, <3>5, <3>6, <3>7
    <3>10. all = Join(Outgoing, new)
      BY DEF Join
    <3> QED
      BY <3>1, <3>8, <3>9, <3>10
  <2> QED
    BY <2>1, <2>2
<1>13. Outgoing' = Join(a2, tail)
  <2>1. Join(Join(a2, issued'), b2) = Join(a2, Join(issued', b2))
    BY <1>1, <1>9, JoinAssociates
  <2> QED
    BY <1>9, <2>1 DEF Join
<1>14. Join(a2, tail) \in Seq(Answer)
  <2> HIDE DEF tail
  <2> QED
    BY <1>9, <1>11, ConcatProperties DEF Join
<1>15. CASE Parses(in) /\ IsResult(Head(issued))
  <2>1. a2 = << >>
    BY <1>8, <1>15
  <2> HIDE DEF ah, tail
  <2>2. Outgoing' = tail
    BY <1>11, <1>13, <2>1, ConcatEmptySeq DEF Join
  <2>3. Without(Join(ah, tail), Len(ah), tail)
    BY <1>11, RestOfJoin DEF Join
  <2>4. Len(ah) = Len(current) + 1
    BY <1>1, <1>6, <1>11, <1>15
  <2> QED
    BY <1>11, <1>12, <1>15, <2>2, <2>3, <2>4
<1>16. CASE ~(Parses(in) /\ IsResult(Head(issued)))
  <2>1. a2 = ah
    <3>1. CASE Parses(in)
      BY <1>8, <1>16, <3>1 DEF Join
    <3>2. CASE ~Parses(in)
      <4>1. h = << >>
        BY <3>2 DEF h
      <4>2. Join(a, h) = a
        BY <1>1, <4>1, ConcatEmptySeq DEF Join
      <4> QED
        BY <1>8, <3>2, <4>2
    <3> QED
      BY <3>1, <3>2
  <2>2. Outgoing' = all
    BY <1>12, <1>13, <2>1
  <2> QED
    BY <1>13, <1>14, <1>16, <2>2
<1> QED
  BY <1>15, <1>16

\* Arithmetic and functions on the places of a sequence.
LEMMA UpTo ==
  ASSUME NEW n \in Nat, NEW i \in 1 .. n
  PROVE  i \in 1 .. n + 1 /\ (i # n => i \in 1 .. n - 1 /\ i + 1 \in 1 .. n)
OBVIOUS

LEMMA Later ==
  ASSUME NEW n \in Nat, NEW d \in Nat, NEW i \in 1 .. n
  PROVE  /\ i \in Nat /\ i + d \in 1 .. n + d
         /\ i # n => /\ i + 1 \in 1 .. n /\ i + d \in 1 .. (n + d) - 1
                     /\ i + 1 \in Nat /\ (i + 1) + d = (i + d) + 1
OBVIOUS

Also(k, n, x) == [k EXCEPT ![n + 1] = x]

LEMMA AlsoIs ==
  ASSUME NEW k \in [Nat -> Nat], NEW n \in Nat, NEW x \in Nat
  PROVE  Also(k, n, x) \in [Nat -> Nat] /\ Also(k, n, x)[n + 1] = x
BY DEF Also

LEMMA AlsoKeeps ==
  ASSUME NEW k \in [Nat -> Nat], NEW n \in Nat, NEW x \in Nat, NEW i \in 1 .. n
  PROVE  Also(k, n, x)[i] = k[i]
BY DEF Also

\* One more answer that matches.
LEMMA MatchOneMore ==
  ASSUME NEW s \in Seq(Answer), NEW a \in Answer, NEW k \in [Nat -> Nat], NEW j \in [Nat -> Nat],
         AnswersMatch(s, k, j), NEW frame \in Nat, NEW byte \in Nat, Matches(a, frame, byte),
         Len(s) # 0 =>
           IF s[Len(s)].kind = "result" THEN frame = k[Len(s)] + 1
           ELSE /\ frame = k[Len(s)]
                /\ IF a.kind = "beat" THEN ~s[Len(s)].beat.last /\ byte = j[Len(s)] + 1
                                      ELSE s[Len(s)].beat.last
  PROVE  AnswersMatch(s \o <<a>>, Also(k, Len(s), frame), Also(j, Len(s), byte))
<1> DEFINE n == Len(s)
           t == s \o <<a>>
<1>1. /\ n \in Nat /\ Len(t) = n + 1 /\ t[n + 1] = a
      /\ \A i \in 1 .. n : t[i] = s[i]
  <2>1. t = Append(s, a)
    BY AppendIsConcat
  <2> QED
    BY <2>1, AppendProperties, LenProperties
<1>2. /\ \A i \in 1 .. n : Matches(s[i], k[i], j[i])
      /\ \A i \in 1 .. n - 1 : Connects(s, k, j, i)
  BY DEF AnswersMatch
<1>3. n \in Nat
  BY <1>1
<1> HIDE DEF n, t
<1> DEFINE k2 == Also(k, n, frame)
           j2 == Also(j, n, byte)
<1>4. /\ k2[n + 1] = frame /\ \A i \in 1 .. n : k2[i] = k[i]
      /\ j2[n + 1] = byte /\ \A i \in 1 .. n : j2[i] = j[i]
  <2>1. /\ Also(k, n, frame)[n + 1] = frame
        /\ \A i \in 1 .. n : Also(k, n, frame)[i] = k[i]
    BY ONLY k \in [Nat -> Nat], frame \in Nat, <1>3, AlsoIs, AlsoKeeps
  <2>2. /\ Also(j, n, byte)[n + 1] = byte
        /\ \A i \in 1 .. n : Also(j, n, byte)[i] = j[i]
    BY ONLY j \in [Nat -> Nat], byte \in Nat, <1>3, AlsoIs, AlsoKeeps
  <2> QED
    BY <2>1, <2>2
<1> HIDE DEF k2, j2
<1>5. ASSUME NEW i \in 1 .. n + 1 PROVE Matches(t[i], k2[i], j2[i])
  <2>1. CASE i = n + 1
    BY <1>1, <1>4, <2>1
  <2>2. CASE i # n + 1
    <3>1. i \in 1 .. n
      BY <1>1, <2>2
    <3> QED
      BY <1>1, <1>2, <1>4, <3>1
  <2> QED
    BY <2>1, <2>2
<1>6. ASSUME NEW i \in 1 .. n PROVE Connects(t, k2, j2, i)
  <2>0. n # 0
    BY ONLY <1>1, i \in 1 .. n
  <2>1. CASE i = n
    <3>1. /\ n # 0 /\ t[n] = s[n] /\ t[n + 1] = a /\ k2[n] = k[n] /\ j2[n] = j[n]
          /\ k2[n + 1] = frame /\ j2[n + 1] = byte
      BY <1>1, <1>4, <2>0, <2>1, Zenon
    <3>2. IF s[n].kind = "result" THEN frame = k[n] + 1
          ELSE /\ frame = k[n]
               /\ IF a.kind = "beat" THEN ~s[n].beat.last /\ byte = j[n] + 1 ELSE s[n].beat.last
      BY <3>1 DEF n
    <3> QED
      BY <2>1, <3>1, <3>2 DEF Connects
  <2>2. CASE i # n
    <3>1. i \in 1 .. n - 1 /\ i \in 1 .. n /\ i + 1 \in 1 .. n
      BY <1>1, <2>2, UpTo, Zenon
    <3>2. /\ t[i] = s[i] /\ t[i + 1] = s[i + 1] /\ k2[i] = k[i] /\ j2[i] = j[i]
          /\ k2[i + 1] = k[i + 1] /\ j2[i + 1] = j[i + 1]
      BY <1>1, <1>4, <3>1
    <3>3. Connects(s, k, j, i)
      BY <1>2, <3>1
    <3> QED
      BY <3>2, <3>3 DEF Connects
  <2> QED
    BY <2>1, <2>2
<1>7. Len(t) = n + 1 /\ Len(t) - 1 = n
  BY <1>1
<1>8. AnswersMatch(t, k2, j2)
  BY <1>5, <1>6, <1>7 DEF AnswersMatch
<1> QED
  BY <1>8 DEF n, t, k2, j2

\* The first ones are gone.
LEMMA MatchRest ==
  ASSUME NEW s \in Seq(Answer), NEW rest \in Seq(Answer), NEW d, Without(s, d, rest),
         NEW k \in [Nat -> Nat], NEW j \in [Nat -> Nat], AnswersMatch(s, k, j)
  PROVE  AnswersMatch(rest, [i \in Nat |-> k[i + d]], [i \in Nat |-> j[i + d]])
<1> DEFINE n == Len(rest)
           k2 == [i \in Nat |-> k[i + d]]
           j2 == [i \in Nat |-> j[i + d]]
<1>1. /\ n \in Nat /\ d \in Nat /\ Len(s) = n + d
      /\ \A i \in 1 .. n : rest[i] = s[i + d]
  <2>1. /\ d \in 0 .. Len(s) /\ n = Len(s) - d /\ \A i \in 1 .. n : rest[i] = s[i + d]
    BY DEF Without
  <2>2. \A m \in Nat : \A e \in 0 .. m : e \in Nat /\ m - e \in Nat /\ m = (m - e) + e
    BY ONLY TRUE
  <2>3. Len(s) \in Nat
    BY LenProperties
  <2> QED
    BY <2>1, <2>2, <2>3, Zenon
<1>2. /\ \A i \in 1 .. n + d : Matches(s[i], k[i], j[i])
      /\ \A i \in 1 .. (n + d) - 1 : Connects(s, k, j, i)
  BY <1>1, Zenon DEF AnswersMatch
<1>3. \A i \in Nat : k2[i] = k[i + d] /\ j2[i] = j[i + d]
  OBVIOUS
<1> HIDE DEF n, k2, j2
<1>4. ASSUME NEW i \in 1 .. n PROVE Matches(rest[i], k2[i], j2[i])
  <2>1. i + d \in 1 .. n + d /\ i \in Nat
    BY <1>1, Later, Zenon
  <2> QED
    BY <1>1, <1>2, <1>3, <2>1
<1>5. ASSUME NEW i \in 1 .. n, i # n PROVE Connects(rest, k2, j2, i)
  <2>1. /\ i + d \in 1 .. (n + d) - 1 /\ i \in 1 .. n /\ i + 1 \in 1 .. n
        /\ (i + 1) + d = (i + d) + 1 /\ i \in Nat /\ i + 1 \in Nat
    BY <1>1, <1>5, Later, Zenon
  <2>2. /\ rest[i] = s[i + d] /\ rest[i + 1] = s[(i + d) + 1] /\ k2[i] = k[i + d] /\ j2[i] = j[i + d]
        /\ k2[i + 1] = k[(i + d) + 1] /\ j2[i + 1] = j[(i + d) + 1]
    <3>1. /\ rest[i] = s[i + d] /\ rest[i + 1] = s[(i + 1) + d]
          /\ k2[i] = k[i + d] /\ j2[i] = j[i + d]
          /\ k2[i + 1] = k[(i + 1) + d] /\ j2[i + 1] = j[(i + 1) + d]
      BY <1>1, <1>3, <2>1, Zenon
    <3> QED
      BY <2>1, <3>1, Zenon
  <2>3. Connects(s, k, j, i + d)
    BY <1>2, <2>1, Zenon
  <2> QED
    BY <2>2, <2>3 DEF Connects
<1>6. \A m \in Nat : \A i \in 1 .. m - 1 : i \in 1 .. m /\ i # m
  BY ONLY TRUE
<1>7. AnswersMatch(rest, k2, j2)
  BY <1>1, <1>4, <1>5, <1>6, Zenon DEF AnswersMatch, n
<1> QED
  BY <1>7 DEF k2, j2

\* FilterGoesOn, with the state named.
EndsWell(answers, k, j, next, host, frame, pay, ph) ==
  LET n == Len(answers)
  IN /\ frame = IF n = 0 THEN host ELSE k[n] + OneBit(answers[n].kind = "result")
     /\ pay = "none" => n = 0 \/ answers[n].kind = "result"
     /\ pay = "closed" => n # 0 /\ answers[n].kind = "beat" /\ answers[n].beat.last
     /\ pay = "open" =>
          /\ ph = "inside"
          /\ n # 0 /\ answers[n].kind = "beat" => ~answers[n].beat.last /\ next = j[n] + 1

LEMMA GoesOnIsEndsWell ==
  ASSUME NEW s, NEW k, NEW j, NEW next
  PROVE  FilterGoesOn(s, k, j, next) <=>
           EndsWell(s, k, j, next, HostFrame, FilterFrame, payload, phase)
BY DEF FilterGoesOn, EndsWell

\* s with a, and the places k and j with a's.
GrowsBy(s, k, j, a, frame, byte, t, k2, j2) ==
  /\ t \in Seq(Answer) /\ k2 \in [Nat -> Nat] /\ j2 \in [Nat -> Nat]
  /\ Len(t) = Len(s) + 1 /\ t[Len(t)] = a /\ k2[Len(t)] = frame /\ j2[Len(t)] = byte
  /\ \A i \in 1 .. Len(s) : t[i] = s[i] /\ k2[i] = k[i] /\ j2[i] = j[i]

\* a can be the next answer, and it is.
CanFollow(a, pay, byte, next) ==
  \/ a.kind = "result" /\ pay \in {"none", "closed"}
  \/ a.kind = "beat" /\ pay \in {"none", "open"} /\ byte = next

Followed(s, k, j, a, frame, byte, host) ==
  \E k2, j2 \in [Nat -> Nat] :
    /\ AnswersMatch(s \o <<a>>, k2, j2)
    /\ GrowsBy(s, k, j, a, frame, byte, s \o <<a>>, k2, j2)
    /\ k2[1] = host

LEMMA AnswerFollows ==
  ASSUME NEW s \in Seq(Answer), NEW k \in [Nat -> Nat], NEW j \in [Nat -> Nat],
         AnswersMatch(s, k, j), NEW host \in Nat, NEW frame \in Nat, NEW next, NEW pay, NEW ph,
         s # << >> => k[1] = host,
         EndsWell(s, k, j, next, host, frame, pay, ph),
         NEW a \in Answer, NEW byte \in Nat, Matches(a, frame, byte),
         CanFollow(a, pay, byte, next)
  PROVE  Followed(s, k, j, a, frame, byte, host)
<1>0. \/ a.kind = "result" /\ pay \in {"none", "closed"}
      \/ a.kind = "beat" /\ pay \in {"none", "open"} /\ byte = next
  BY DEF CanFollow
<1> DEFINE n == Len(s)
           t == s \o <<a>>
<1>1. n \in Nat /\ (n = 0 <=> s = << >>)
  BY LenProperties, EmptySeq
<1>2. t \in Seq(Answer) /\ Len(t) = n + 1 /\ t[n + 1] = a /\ \A i \in 1 .. n : t[i] = s[i]
  <2>1. t = Append(s, a)
    BY AppendIsConcat
  <2> QED
    BY <2>1, AppendProperties
<1>3. /\ frame = IF n = 0 THEN host ELSE k[n] + OneBit(s[n].kind = "result")
      /\ pay = "none" => n = 0 \/ s[n].kind = "result"
      /\ pay = "closed" => n # 0 /\ s[n].kind = "beat" /\ s[n].beat.last
      /\ pay = "open" =>
           (n # 0 /\ s[n].kind = "beat" => ~s[n].beat.last /\ next = j[n] + 1)
  BY DEF EndsWell
<1>4. n # 0 => n \in 1 .. n /\ s[n] \in Answer /\ k[n] \in Nat
  <2>1. \A m \in Nat : m # 0 => m \in 1 .. m
    BY ONLY TRUE
  <2>2. \A i \in 1 .. n : s[i] \in Answer
    BY ElementOfSeq
  <2> QED
    BY <1>1, <2>1, <2>2
<1>5. n # 0 => s[n].kind = "result" \/ s[n].kind = "beat"
  <2>1. \A i \in 1 .. n : Matches(s[i], k[i], j[i])
    BY DEF AnswersMatch
  <2>2. n # 0 => Matches(s[n], k[n], j[n])
    BY <1>4, <2>1
  <2>3. \A x, f, b : x.kind # "beat" /\ x.kind # "result" => ~Matches(x, f, b)
    BY Zenon DEF Matches
  <2> QED
    BY <2>2, <2>3
<1>6. n # 0 =>
        IF s[n].kind = "result" THEN frame = k[n] + 1
        ELSE /\ frame = k[n]
             /\ IF a.kind = "beat" THEN ~s[n].beat.last /\ byte = j[n] + 1 ELSE s[n].beat.last
  <2>1. OneBit(TRUE) = 1 /\ OneBit(FALSE) = 0
    BY DEF OneBit
  <2>2. CASE n # 0 /\ s[n].kind = "result"
    BY <1>3, <2>1, <2>2
  <2>3. CASE n # 0 /\ s[n].kind # "result"
    <3>1. s[n].kind = "beat" /\ frame = k[n]
      <4>1. s[n].kind = "beat"
        BY <1>5, <2>3, Zenon
      <4>2. OneBit(s[n].kind = "result") = 0
        BY <2>3 DEF OneBit
      <4>3. frame = k[n] + 0 /\ k[n] \in Nat
        BY <1>3, <1>4, <2>3, <4>2, Zenon
      <4>4. \A x \in Nat : x + 0 = x
        BY ONLY TRUE
      <4> QED
        BY <4>1, <4>3, <4>4, Zenon
    <3> QED
      BY <1>0, <1>3, <2>3, <3>1
  <2> QED
    BY <2>2, <2>3
<1> DEFINE k2 == Also(k, n, frame)
           j2 == Also(j, n, byte)
<1>7. AnswersMatch(s \o <<a>>, Also(k, Len(s), frame), Also(j, Len(s), byte))
  BY <1>6, MatchOneMore
<1> HIDE DEF n, t
<1>8. Also(k, n, frame) \in [Nat -> Nat] /\ Also(k, n, frame)[n + 1] = frame
  BY ONLY <1>1, k \in [Nat -> Nat], frame \in Nat, AlsoIs
<1>9. Also(j, n, byte) \in [Nat -> Nat] /\ Also(j, n, byte)[n + 1] = byte
  BY ONLY <1>1, j \in [Nat -> Nat], byte \in Nat, AlsoIs
<1>10. \A i \in 1 .. n : Also(k, n, frame)[i] = k[i] /\ Also(j, n, byte)[i] = j[i]
  BY ONLY <1>1, k \in [Nat -> Nat], j \in [Nat -> Nat], frame \in Nat, byte \in Nat, AlsoKeeps
<1>11. Also(k, n, frame)[1] = host
  <2>1. CASE n = 0
    BY <1>3, <1>8, <2>1
  <2>2. CASE n # 0
    <3>1. \A m \in Nat : m # 0 => 1 \in 1 .. m
      BY ONLY TRUE
    <3> QED
      BY <1>1, <1>10, <2>2, <3>1
  <2> QED
    BY <2>1, <2>2
<1>12. GrowsBy(s, k, j, a, frame, byte, t, Also(k, n, frame), Also(j, n, byte))
  BY <1>2, <1>8, <1>9, <1>10, Zenon DEF GrowsBy, n
<1> QED
  BY <1>7, <1>8, <1>9, <1>11, <1>12, Zenon DEF n, t, Followed

LEMMA MatchesIs ==
  ASSUME NEW x, NEW f, NEW b
  PROVE  /\ x.kind = "beat" =>
              (Matches(x, f, b) <=> /\ f \in 1 .. Len(Plan) /\ b \in 1 .. Len(Plan[f].frame)
                                    /\ x.beat.data = Plan[f].frame[b])
         /\ x.kind = "result" => (Matches(x, f, b) <=> x.record.sequence = (f - 1) % SEQUENCE_MODULUS)
         /\ Matches(x, f, b) => x.kind = "beat" \/ x.kind = "result"
<1>1. CASE x.kind = "beat"
  BY <1>1, Zenon DEF Matches
<1>2. CASE x.kind = "result"
  BY <1>2, Zenon DEF Matches
<1>3. CASE x.kind # "beat" /\ x.kind # "result"
  BY <1>3, Zenon DEF Matches
<1> QED
  BY <1>1, <1>2, <1>3, Zenon

\* What the filter adds is the answer that follows.
Grown(all, k, j, k2, j2) ==
  /\ AnswersMatch(all, k2, j2) /\ all \in Seq(Answer) /\ Len(Outgoing) <= Len(all)
  /\ \A i \in 1 .. Len(Outgoing) : all[i] = Outgoing[i] /\ k2[i] = k[i] /\ j2[i] = j[i]

LEMMA AnswersGrow ==
  ASSUME NEW in, NEW new \in Seq(Answer), NEW next \in Nat, NEW n \in Nat,
         NEW k \in [Nat -> Nat], NEW j \in [Nat -> Nat],
         n = IF ~Pops THEN next ELSE IF out_q.last THEN 1 ELSE next + 1,
         filter_rst_n, Filter!ServiceTypeOK, FilterTurns(FilterInput(in)),
         phase = "record" => payload # "open",
         Outgoing \in Seq(Answer), AnswersMatch(Outgoing, k, j),
         Outgoing # << >> => k[1] = HostFrame,
         FilterGoesOn(Outgoing, k, j, next), SliceMatches(next), Numbers,
         FilterFrame \in Nat, HostFrame \in Nat,
         FilterFrame' = FilterFrame + OneBit(ResultTaken(in)),
         Adds(in, new), out_q.data \in Byte
  PROVE  \E k2, j2 \in [Nat -> Nat] :
           /\ Grown(Outgoing \o new, k, j, k2, j2)
           /\ Outgoing \o new # << >> => k2[1] = HostFrame
           /\ EndsWell(Outgoing \o new, k2, j2, n, HostFrame, FilterFrame', payload', phase')
<1> DEFINE ports == FilterInput(in)
           s == Outgoing
           m == Len(s)
<1>1. /\ Takes(ports) <=> Pops
      /\ Leaves(ports) <=> ResultTaken(in)
      /\ ports.tlast = out_q.last
  BY BoardPorts
<1>2. payload \in {"none", "open", "closed"} /\ phase \in {"idle", "inside", "ended", "record"}
      /\ record \in Filter!Record
  BY DEF Filter!ServiceTypeOK
<1>3. EndsWell(s, k, j, next, HostFrame, FilterFrame, payload, phase)
  BY GoesOnIsEndsWell
<1>4. OneBit(TRUE) = 1 /\ OneBit(FALSE) = 0
  BY DEF OneBit
<1>5. m \in Nat
  BY LenProperties
<1> HIDE DEF ports, s, m
<1>6. CASE AddsNothing(in, new)
  <2>1. new = << >> /\ ~ResultTaken(in) /\ (Skips(ports) \/ Opens(ports))
    BY <1>6 DEF AddsNothing, ports
  <2>2. Outgoing \o new = s /\ FilterFrame' = FilterFrame
    <3>1. Outgoing \o << >> = Outgoing
      BY ConcatEmptySeq
    <3>2. FilterFrame' = FilterFrame
      BY <2>1 DEF OneBit
    <3> QED
      BY <2>1, <3>1, <3>2 DEF s
  <2>3. CASE Skips(ports)
    <3>1. payload' = payload /\ (Takes(ports) => payload # "open")
      BY <2>3 DEF Skips
    <3>2. payload' = "open" => n = next /\ phase' = "inside"
      <4>1. ASSUME payload' = "open" PROVE ~Takes(ports) /\ payload = "open" /\ phase = "inside"
        BY <1>3, <3>1, <4>1 DEF EndsWell
      <4>2. ~Takes(ports) /\ phase = "inside" => phase' = "inside"
        BY <1>1, <2>1 DEF FilterTurns, ports
      <4> QED
        BY <1>1, <4>1, <4>2
    <3>3. EndsWell(s, k, j, n, HostFrame, FilterFrame', payload', phase')
      BY <1>3, <2>2, <3>1, <3>2 DEF EndsWell
    <3>4. Grown(s, k, j, k, j)
      BY <1>5 DEF Grown, s, m
    <3> QED
      BY <2>2, <3>3, <3>4 DEF s
  <2>4. CASE Opens(ports)
    <3>1. payload = "none" /\ payload' = "open" /\ phase' = "inside"
      BY <2>4 DEF Opens
    <3>2. EndsWell(s, k, j, n, HostFrame, FilterFrame', payload', phase')
      BY <1>3, <2>2, <3>1 DEF EndsWell
    <3>3. Grown(s, k, j, k, j)
      BY <1>5 DEF Grown, s, m
    <3> QED
      BY <2>2, <3>2, <3>3 DEF s
  <2> QED
    BY <2>1, <2>3, <2>4
<1>7. CASE AddsResult(in, new)
  <2> DEFINE a == Protocol!ResultRecord(record)
  <2>1. new = <<a>> /\ ResultTaken(in) /\ a \in Answer
    BY <1>2, <1>7 DEF AddsResult, Answer
  <2>2. phase = "record" /\ payload' = "none" /\ payload \in {"none", "closed"}
    BY <1>1, <1>2, <2>1 DEF FilterTurns, Leaves, ports
  <2>3. a.kind = "result" /\ a.record = record
    BY DEF Protocol!ResultRecord
  <2>4. Matches(a, FilterFrame, 0)
    BY <2>2, <2>3, MatchesIs DEF Numbers
  <2> HIDE DEF a
  <2>5. PICK k2 \in [Nat -> Nat], j2 \in [Nat -> Nat] :
           /\ AnswersMatch(s \o <<a>>, k2, j2)
           /\ GrowsBy(s, k, j, a, FilterFrame, 0, s \o <<a>>, k2, j2)
           /\ k2[1] = HostFrame
    <3>1. 0 \in Nat /\ s \in Seq(Answer) /\ AnswersMatch(s, k, j) /\ (s # << >> => k[1] = HostFrame)
      BY DEF s
    <3>2. CanFollow(a, payload, 0, next)
      BY <2>2, <2>3 DEF CanFollow
    <3>3. Followed(s, k, j, a, FilterFrame, 0, HostFrame)
      BY <1>3, <2>1, <2>4, <3>1, <3>2, AnswerFollows
    <3> QED
      BY <3>3 DEF Followed
  <2> DEFINE t == s \o <<a>>
  <2>6. /\ t \in Seq(Answer) /\ Len(t) = m + 1 /\ t[m + 1] = a /\ k2[m + 1] = FilterFrame
        /\ \A i \in 1 .. m : t[i] = s[i] /\ k2[i] = k[i] /\ j2[i] = j[i]
    BY <2>5 DEF GrowsBy, m
  <2> HIDE DEF t
  <2>7. Grown(t, k, j, k2, j2)
    BY <1>5, <2>5, <2>6 DEF Grown, t, m, s
  <2>8. EndsWell(t, k2, j2, n, HostFrame, FilterFrame', payload', phase')
    <3>1. /\ Len(t) # 0 /\ t[Len(t)] = a /\ k2[Len(t)] = FilterFrame
          /\ FilterFrame' = FilterFrame + OneBit(a.kind = "result")
      <4>1. FilterFrame' = FilterFrame + OneBit(a.kind = "result")
        BY <2>1, <2>3 DEF OneBit
      <4>2. Len(t) # 0 /\ Len(t) = m + 1
        BY <1>5, <2>6
      <4> QED
        BY <2>6, <4>1, <4>2
    <3> QED
      BY <2>2, <2>3, <3>1 DEF EndsWell
  <2>9. t = Outgoing \o new
    BY <2>1 DEF t, s
  <2> QED
    BY <2>5, <2>7, <2>8, <2>9
<1>8. CASE AddsBeat(in, new)
  <2>1. PICK last \in BOOLEAN, error \in BOOLEAN :
          /\ new = <<Protocol!PayloadBeat(NewBeat(last, error))>> /\ ~ResultTaken(in)
          /\ Pops /\ phase = "inside" /\ payload # "closed" /\ (out_q.last => last)
          /\ payload' = IF last THEN "closed" ELSE "open"
    BY <1>8 DEF AddsBeat
  <2> DEFINE b == NewBeat(last, error)
             a == Protocol!PayloadBeat(b)
  <2>2. b \in Filter!Beat /\ b.data = out_q.data /\ b.last = last
    BY DEF NewBeat, Filter!Beat
  <2>3. a.kind = "beat" /\ a.beat = b /\ a \in Answer
    BY <2>2 DEF Protocol!PayloadBeat, Answer
  <2>4. Shows(out_q, <<FilterFrame, next>>)
    <3>1. FilterPlace(next) = <<FilterFrame + 0, next>>
      BY <2>1 DEF FilterPlace, OneBit
    <3>2. Shows(out_q, FilterPlace(next))
      BY <2>1 DEF SliceMatches, Pops
    <3> QED
      BY <1>4, <3>1, <3>2
  <2>5. Matches(a, FilterFrame, next)
    <3>1. /\ FilterFrame \in 1 .. Len(Plan) /\ next \in 1 .. Len(Plan[FilterFrame].frame)
          /\ out_q.data = Plan[FilterFrame].frame[next]
      BY <2>4 DEF Shows
    <3> QED
      BY <2>2, <2>3, <3>1, MatchesIs
  <2> HIDE DEF a, b
  <2>6. PICK k2 \in [Nat -> Nat], j2 \in [Nat -> Nat] :
           /\ AnswersMatch(s \o <<a>>, k2, j2)
           /\ GrowsBy(s, k, j, a, FilterFrame, next, s \o <<a>>, k2, j2)
           /\ k2[1] = HostFrame
    <3>1. s \in Seq(Answer) /\ AnswersMatch(s, k, j) /\ (s # << >> => k[1] = HostFrame)
      BY DEF s
    <3>2. payload \in {"none", "open"}
      BY <1>2, <2>1
    <3>3. CanFollow(a, payload, next, next)
      BY <2>3, <3>2 DEF CanFollow
    <3>4. Followed(s, k, j, a, FilterFrame, next, HostFrame)
      BY <1>3, <2>3, <2>5, <3>1, <3>3, AnswerFollows
    <3> QED
      BY <3>4 DEF Followed
  <2> DEFINE t == s \o <<a>>
  <2>7. /\ t \in Seq(Answer) /\ Len(t) = m + 1 /\ t[m + 1] = a /\ k2[m + 1] = FilterFrame
        /\ j2[m + 1] = next
        /\ \A i \in 1 .. m : t[i] = s[i] /\ k2[i] = k[i] /\ j2[i] = j[i]
    BY <2>6 DEF GrowsBy, m
  <2> HIDE DEF t
  <2>8. Grown(t, k, j, k2, j2)
    BY <1>5, <2>6, <2>7 DEF Grown, t, m, s
  <2>9. EndsWell(t, k2, j2, n, HostFrame, FilterFrame', payload', phase')
    <3>1. /\ Len(t) # 0 /\ t[Len(t)] = a /\ k2[Len(t)] = FilterFrame /\ j2[Len(t)] = next
          /\ FilterFrame' = FilterFrame + OneBit(a.kind = "result")
      <4>1. FilterFrame' = FilterFrame + OneBit(a.kind = "result")
        BY <2>1, <2>3 DEF OneBit
      <4>2. Len(t) # 0 /\ Len(t) = m + 1
        BY <1>5, <2>7
      <4> QED
        BY <2>7, <4>1, <4>2
    <3>2. ~last => ~out_q.last /\ n = next + 1 /\ phase' = "inside"
      BY <1>1, <2>1 DEF FilterTurns, ports
    <3>3. payload' = "closed" => a.beat.last
      BY <2>1, <2>2, <2>3
    <3>4. payload' = "open" => ~last /\ ~a.beat.last
      BY <2>1, <2>2, <2>3
    <3>5. payload' # "none"
      BY <2>1
    <3> QED
      BY <2>3, <3>1, <3>2, <3>3, <3>4, <3>5 DEF EndsWell
  <2>10. t = Outgoing \o new
    BY <2>1 DEF t, s, a, b
  <2> QED
    BY <2>6, <2>8, <2>9, <2>10
<1> QED
  BY <1>6, <1>7, <1>8 DEF Adds

\* A beat, and the answer after it.
CarriesByte(x, f, b) == /\ f \in 1 .. Len(Plan) /\ b \in 1 .. Len(Plan[f].frame)
                   /\ x.beat.data = Plan[f].frame[b]

LEMMA BeatMatches ==
  ASSUME NEW x, NEW f, NEW b, x.kind = "beat", Matches(x, f, b)
  PROVE  CarriesByte(x, f, b)
BY MatchesIs DEF CarriesByte

GoesOn(x, y, k, j, i) == /\ k[i + 1] = k[i]
                         /\ y.kind = "beat" => ~x.beat.last /\ j[i + 1] = j[i] + 1
                         /\ y.kind # "beat" => x.beat.last

LEMMA BeatConnects ==
  ASSUME NEW s, NEW k, NEW j, NEW i, s[i].kind = "beat", Connects(s, k, j, i)
  PROVE  GoesOn(s[i], s[i + 1], k, j, i)
BY DEF Connects, GoesOn

BeatOf(x, b) == x.kind = "beat" /\ x.beat = b

\* The oldest answer that the host has not read is about the frame that it has
\* the beats of.
LEMMA OldestFits ==
  ASSUME issued \in Seq(Answer), current \in Seq(Filter!Beat), beats \in Seq(Filter!Beat),
         issued # << >>, HostFrame \in Nat,
         NEW k \in [Nat -> Nat], NEW j \in [Nat -> Nat], AnswersMatch(Outgoing, k, j),
         Outgoing # << >> => k[1] = HostFrame, CurrentMatches(k, j)
  PROVE  LET d == Len(current) + 1
         IN /\ k[d] = HostFrame /\ Matches(Head(issued), HostFrame, j[d])
            /\ Head(issued).kind = "beat" => j[d] = j[1] + d - 1
            /\ \A i \in 1 .. Len(current) :
                 /\ j[1] + i - 1 \in 1 .. Len(Plan[HostFrame].frame)
                 /\ current[i].data = Plan[HostFrame].frame[j[1] + i - 1]
            /\ Head(issued).kind = "result" =>
                 \A i \in 1 .. Len(current) : current[i].last <=> i = Len(current)
<1> DEFINE m == Len(current)
           s == Outgoing
           a == Head(issued)
<1>1. /\ s \in Seq(Answer) /\ m \in Nat /\ m + 1 <= Len(s) /\ s[m + 1] = a
      /\ \A i \in 1 .. m : s[i] = Protocol!PayloadBeat(current[i])
  BY OutgoingStarts
<1>2. \A i \in 1 .. m : BeatOf(s[i], current[i])
  <2>1. \A b : BeatOf(Protocol!PayloadBeat(b), b)
    BY DEF Protocol!PayloadBeat, BeatOf
  <2> QED
    BY <1>1, <2>1
<1>3. /\ \A i \in 1 .. Len(s) : Matches(s[i], k[i], j[i])
      /\ \A i \in 1 .. Len(s) - 1 : Connects(s, k, j, i)
  BY DEF AnswersMatch
<1>4. \A i \in 1 .. m : k[i] = HostFrame /\ j[i] = j[1] + i - 1
  BY DEF CurrentMatches
<1>5. Len(s) \in Nat /\ s # << >>
  <2>1. Len(s) \in Nat
    BY <1>1, LenProperties
  <2>2. Len(s) # 0
    BY <1>1, <2>1
  <2> QED
    BY <2>1, <2>2, EmptySeq
<1>6. k[1] = HostFrame
  BY <1>5
<1>7. \A i \in Nat : k[i] \in Nat /\ j[i] \in Nat
  OBVIOUS
<1> HIDE DEF m, s, a
<1>8. /\ m + 1 \in 1 .. Len(s)
      /\ \A i \in 1 .. m : i \in 1 .. Len(s) /\ i \in 1 .. Len(s) - 1 /\ i + 1 \in 1 .. m + 1
                           /\ (i # m => i + 1 \in 1 .. m) /\ i \in Nat /\ i + 1 \in Nat
  <2>1. \A x, y \in Nat : x + 1 <= y =>
          /\ x + 1 \in 1 .. y
          /\ \A i \in 1 .. x : i \in 1 .. y /\ i \in 1 .. y - 1 /\ i + 1 \in 1 .. x + 1
                               /\ (i # x => i + 1 \in 1 .. x) /\ i \in Nat /\ i + 1 \in Nat
    BY ONLY TRUE
  <2> QED
    BY <1>1, <1>5, <2>1, Zenon
<1>9. k[m + 1] = HostFrame /\ (a.kind = "beat" => j[m + 1] = j[1] + (m + 1) - 1)
  <2>1. CASE m = 0
    <3>1. j[1] \in Nat
      BY <1>7
    <3> QED
      BY <1>6, <2>1, <3>1
  <2>2. CASE m # 0
    <3>1. m \in 1 .. m
      BY <1>1, <2>2
    <3>2. Connects(s, k, j, m) /\ BeatOf(s[m], current[m]) /\ k[m] = HostFrame /\ j[m] = j[1] + m - 1
      BY <1>2, <1>3, <1>4, <1>8, <3>1
    <3>3. k[m + 1] = HostFrame /\ (a.kind = "beat" => j[m + 1] = j[m] + 1)
      <4>1. GoesOn(s[m], s[m + 1], k, j, m)
        BY <3>2, BeatConnects DEF BeatOf
      <4> QED
        BY <1>1, <3>2, <4>1 DEF GoesOn
    <3>4. j[1] \in Nat
      BY <1>7
    <3>5. \A x, y \in Nat : (x + y - 1) + 1 = x + (y + 1) - 1
      BY ONLY TRUE
    <3> QED
      BY <1>1, <3>2, <3>3, <3>4, <3>5
  <2> QED
    BY <2>1, <2>2
<1>10. Matches(a, HostFrame, j[m + 1])
  BY <1>1, <1>3, <1>8, <1>9
<1>11. ASSUME NEW i \in 1 .. m
       PROVE  /\ j[1] + i - 1 \in 1 .. Len(Plan[HostFrame].frame)
              /\ current[i].data = Plan[HostFrame].frame[j[1] + i - 1]
  <2>1. Matches(s[i], k[i], j[i]) /\ BeatOf(s[i], current[i])
    BY <1>2, <1>3, <1>8
  <2>2. CarriesByte(s[i], k[i], j[i])
    BY <2>1, BeatMatches DEF BeatOf
  <2>3. j[i] \in 1 .. Len(Plan[k[i]].frame) /\ current[i].data = Plan[k[i]].frame[j[i]]
    BY <2>1, <2>2 DEF CarriesByte, BeatOf
  <2> QED
    BY <1>4, <2>3
<1>12. ASSUME a.kind = "result", NEW i \in 1 .. m
       PROVE  current[i].last <=> i = m
  <2>1. Connects(s, k, j, i) /\ BeatOf(s[i], current[i])
    BY <1>2, <1>3, <1>8
  <2>2. GoesOn(s[i], s[i + 1], k, j, i)
    BY <2>1, BeatConnects DEF BeatOf
  <2>3. CASE i = m
    <3>1. s[i + 1].kind # "beat"
      BY <1>1, <1>12, <2>3
    <3> QED
      BY <2>1, <2>2, <2>3, <3>1 DEF GoesOn, BeatOf
  <2>4. CASE i # m
    <3>1. s[i + 1].kind = "beat"
      BY <1>2, <1>8, <2>4 DEF BeatOf
    <3> QED
      BY <2>1, <2>2, <2>4, <3>1 DEF GoesOn, BeatOf
  <2> QED
    BY <2>3, <2>4
<1> QED
  BY <1>9, <1>10, <1>11, <1>12 DEF m, a

\* The invariant of the answers, with the places named.
OnTheirWay(answers, k, j, next) ==
  /\ AnswersMatch(answers, k, j)
  /\ answers # << >> => k[1] = HostFrame
  /\ CurrentMatches(k, j)
  /\ EndsWell(answers, k, j, next, HostFrame, FilterFrame, payload, phase)

LEMMA ShiftedPlaces ==
  ASSUME NEW k \in [Nat -> Nat], NEW d \in Nat
  PROVE  [i \in Nat |-> k[i + d]] \in [Nat -> Nat]
<1>1. \A i \in Nat : i + d \in Nat
  OBVIOUS
<1>2. \A i \in Nat : k[i + d] \in Nat
  BY <1>1
<1> QED
  BY <1>2

\* Without the answers of a frame.
StillMatch(rest, n, host, frame, pay, ph) ==
  \E k, j \in [Nat -> Nat] :
    /\ AnswersMatch(rest, k, j)
    /\ rest # << >> => k[1] = host
    /\ EndsWell(rest, k, j, n, host, frame, pay, ph)

LEMMA RestFollows ==
  ASSUME NEW all \in Seq(Answer), NEW rest \in Seq(Answer), NEW d \in Nat, d # 0,
         Without(all, d, rest),
         NEW k \in [Nat -> Nat], NEW j \in [Nat -> Nat], AnswersMatch(all, k, j),
         NEW host \in Nat, all[d].kind = "result", k[d] = host,
         NEW n, NEW frame, NEW pay, NEW ph, NEW before, EndsWell(all, k, j, n, before, frame, pay, ph)
  PROVE  StillMatch(rest, n, host + 1, frame, pay, ph)
<1> DEFINE m == Len(all)
           r == Len(rest)
           k2 == [i \in Nat |-> k[i + d]]
           j2 == [i \in Nat |-> j[i + d]]
<1>1. /\ m \in Nat /\ r \in Nat /\ m = r + d /\ \A i \in 1 .. r : rest[i] = all[i + d]
      /\ (rest = << >> <=> r = 0)
  <2>1. /\ d \in 0 .. m /\ r = m - d /\ \A i \in 1 .. r : rest[i] = all[i + d]
    BY DEF Without
  <2>2. m \in Nat /\ (rest = << >> <=> r = 0)
    BY LenProperties, EmptySeq
  <2> HIDE DEF m, r
  <2>3. r \in Nat /\ m = r + d
    BY ONLY <2>1, <2>2
  <2> QED
    BY <2>1, <2>2, <2>3
<1>2. AnswersMatch(rest, [i \in Nat |-> k[i + d]], [i \in Nat |-> j[i + d]])
  BY MatchRest
<1>3. /\ k2 \in [Nat -> Nat] /\ j2 \in [Nat -> Nat]
      /\ \A i \in Nat : k2[i] = k[i + d] /\ j2[i] = j[i + d]
  <2>1. k2 \in [Nat -> Nat] /\ j2 \in [Nat -> Nat]
    BY ShiftedPlaces
  <2>2. \A i \in Nat : k2[i] = k[i + d] /\ j2[i] = j[i + d]
    OBVIOUS
  <2> QED
    BY <2>1, <2>2, Zenon
<1>4. AnswersMatch(rest, k2, j2)
  BY <1>2
<1> HIDE DEF m, r, k2, j2
<1>5. r # 0 => k2[1] = host + 1
  <2> SUFFICES ASSUME r # 0 PROVE k2[1] = host + 1
    OBVIOUS
  <2>1. d \in 1 .. m - 1 /\ 1 + d = d + 1
    BY ONLY <1>1, d \in Nat, d # 0, r # 0
  <2>2. Connects(all, k, j, d)
    BY <2>1 DEF AnswersMatch, m
  <2>3. k[d + 1] = k[d] + 1
    BY <2>2 DEF Connects
  <2> QED
    BY <1>3, <2>1, <2>3
<1>6. /\ frame = IF m = 0 THEN before ELSE k[m] + OneBit(all[m].kind = "result")
      /\ pay = "none" => m = 0 \/ all[m].kind = "result"
      /\ pay = "closed" => m # 0 /\ all[m].kind = "beat" /\ all[m].beat.last
      /\ pay = "open" =>
           /\ ph = "inside"
           /\ m # 0 /\ all[m].kind = "beat" => ~all[m].beat.last /\ n = j[m] + 1
  BY DEF EndsWell, m
<1>7. m # 0
  BY ONLY <1>1, d \in Nat, d # 0
<1>8. EndsWell(rest, k2, j2, n, host + 1, frame, pay, ph)
  <2>1. CASE r = 0
    <3>1. m = d
      BY ONLY <1>1, <2>1, d \in Nat
    <3>2. frame = host + 1
      BY <1>6, <1>7, <3>1 DEF OneBit
    <3>3. pay # "closed" /\ (pay = "open" => ph = "inside")
      BY <1>6, <3>1
    <3> QED
      BY <2>1, <3>2, <3>3 DEF EndsWell, r
  <2>2. CASE r # 0
    <3>1. r \in 1 .. r /\ r \in Nat /\ r + d = m
      BY ONLY <1>1, <2>2
    <3>2. rest[r] = all[m] /\ k2[r] = k[m] /\ j2[r] = j[m]
      BY <1>1, <1>3, <3>1
    <3>3. /\ frame = k2[r] + OneBit(rest[r].kind = "result")
          /\ pay = "none" => rest[r].kind = "result"
          /\ pay = "closed" => rest[r].kind = "beat" /\ rest[r].beat.last
          /\ pay = "open" =>
               /\ ph = "inside"
               /\ rest[r].kind = "beat" => ~rest[r].beat.last /\ n = j2[r] + 1
      BY <1>6, <1>7, <3>2
    <3> QED
      BY <2>2, <3>3 DEF EndsWell, r
  <2> QED
    BY <2>1, <2>2
<1> QED
  BY <1>1, <1>3, <1>4, <1>5, <1>8 DEF StillMatch

\* The host has taken the oldest answer, or none.
LEMMA AnswersTaken ==
  ASSUME NEW in, NEW all, NEW n \in Nat,
         NEW k \in [Nat -> Nat], NEW j \in [Nat -> Nat],
         NEW k2 \in [Nat -> Nat], NEW j2 \in [Nat -> Nat],
         issued \in Seq(Answer), current \in Seq(Filter!Beat), beats \in Seq(Filter!Beat),
         frames \in Seq(Response), first \in Nat, first' = first,
         AnswersMatch(Outgoing, k, j), Outgoing # << >> => k[1] = HostFrame,
         CurrentMatches(k, j), Grown(all, k, j, k2, j2), all # << >> => k2[1] = HostFrame,
         EndsWell(all, k2, j2, n, HostFrame, FilterFrame', payload', phase'),
         HostMakes(in), Outgoing' \in Seq(Answer),
         IF Parses(in) /\ IsResult(Head(issued)) THEN Without(all, Len(current) + 1, Outgoing')
                                                 ELSE Outgoing' = all
  PROVE  \E k3, j3 \in [Nat -> Nat] : OnTheirWay(Outgoing, k3, j3, n)'
<1> DEFINE m == Len(current)
           s == Outgoing
           a == Head(issued)
<1>1. /\ m \in Nat /\ m <= Len(s) /\ Len(s) \in Nat /\ HostFrame \in Nat /\ Len(frames) \in Nat
      /\ Parses(in) => issued # << >> /\ m + 1 <= Len(s) /\ s[m + 1] = a
  <2>1. Parses(in) => issued # << >>
    BY DEF HostMakes
  <2>2. Outgoing \in Seq(Answer)
    BY OutgoingStarts
  <2>3. Len(Outgoing) \in Nat /\ Len(frames) \in Nat /\ Len(frames) >= 0
    BY <2>2, LenProperties
  <2>4. HostFrame \in Nat
    BY <2>3 DEF HostFrame
  <2> QED
    BY <2>1, <2>3, <2>4, OutgoingStarts
<1>2. /\ AnswersMatch(all, k2, j2) /\ all \in Seq(Answer) /\ Len(s) <= Len(all)
      /\ \A i \in 1 .. Len(s) : all[i] = s[i] /\ k2[i] = k[i] /\ j2[i] = j[i]
  BY DEF Grown
<1>3. \A i \in 1 .. m : k[i] = HostFrame /\ j[i] = j[1] + i - 1
  BY DEF CurrentMatches
<1>4. Parses(in) => k[m + 1] = HostFrame /\ (a.kind = "beat" => j[m + 1] = j[1] + (m + 1) - 1)
                    /\ Matches(a, HostFrame, j[m + 1])
  BY <1>1, OldestFits
<1>5. Parses(in) => a.kind = "beat" \/ a.kind = "result"
  BY <1>4, MatchesIs
<1> HIDE DEF m, s, a
<1>6. /\ \A i \in 1 .. m : i \in 1 .. Len(s) /\ 1 \in 1 .. Len(s)
      /\ Parses(in) => m + 1 \in 1 .. Len(s) /\ 1 \in 1 .. Len(s)
  <2>1. \A x, y \in Nat : /\ x <= y => \A i \in 1 .. x : i \in 1 .. y /\ 1 \in 1 .. y
                          /\ x + 1 <= y => x + 1 \in 1 .. y /\ 1 \in 1 .. y
    BY ONLY TRUE
  <2> QED
    BY <1>1, <2>1, Zenon
<1>7. CASE Parses(in) /\ a.kind = "result"
  <2>1. IsResult(a) /\ Without(all, m + 1, Outgoing')
    BY <1>7 DEF IsResult, a, m
  <2>2. all[m + 1] = a /\ k2[m + 1] = HostFrame
    BY <1>1, <1>2, <1>4, <1>6, <1>7
  <2>3. m + 1 \in Nat /\ m + 1 # 0
    BY ONLY <1>1
  <2>4. PICK k3 \in [Nat -> Nat], j3 \in [Nat -> Nat] :
          /\ AnswersMatch(Outgoing', k3, j3)
          /\ Outgoing' # << >> => k3[1] = HostFrame + 1
          /\ EndsWell(Outgoing', k3, j3, n, HostFrame + 1, FilterFrame', payload', phase')
    <3>1. StillMatch(Outgoing', n, HostFrame + 1, FilterFrame', payload', phase')
      BY <1>1, <1>2, <1>7, <2>1, <2>2, <2>3, RestFollows
    <3> QED
      BY <3>1 DEF StillMatch
  <2>5. current' = << >> /\ HostFrame' = HostFrame + 1
    <3>1. current' = << >> /\ frames' = Append(frames, [beats |-> current, result |-> a.record])
      BY <1>7 DEF HostMakes, a
    <3>2. \A r : Len(Append(frames, r)) = Len(frames) + 1
      OBVIOUS
    <3>3. Len(frames') = Len(frames) + 1
      BY <3>1, <3>2
    <3> QED
      BY <1>1, <3>1, <3>3 DEF HostFrame
  <2>6. CurrentMatches(k3, j3)'
    <3>1. Len(<< >>) = 0
      BY EmptySeq
    <3> QED
      BY <2>5, <3>1 DEF CurrentMatches
  <2> QED
    BY <2>4, <2>5, <2>6 DEF OnTheirWay
<1>8. CASE ~(Parses(in) /\ a.kind = "result")
  <2>1. Outgoing' = all /\ HostFrame' = HostFrame
    <3>1. ~(Parses(in) /\ IsResult(a))
      BY <1>8 DEF IsResult
    <3>2. frames' = frames
      BY <1>5, <1>8 DEF HostMakes, a
    <3> QED
      BY <3>1, <3>2 DEF a, HostFrame
  <2>2. CurrentMatches(k2, j2)'
    <3>1. ASSUME NEW i \in 1 .. m PROVE k2[i] = HostFrame /\ j2[i] = j2[1] + i - 1
      BY <1>2, <1>3, <1>6
    <3>2. CASE ~Parses(in)
      <4>1. Len(current') = m
        BY <3>2 DEF HostMakes, m
      <4> QED
        BY <2>1, <3>1, <4>1 DEF CurrentMatches
    <3>3. CASE Parses(in)
      <4>1. current' = Append(current, a.beat) /\ a.kind = "beat"
        BY <1>5, <1>8, <3>3 DEF HostMakes, a
      <4>2. Len(current') = m + 1
        <5>1. \A r : Len(Append(current, r)) = Len(current) + 1
          OBVIOUS
        <5> QED
          BY <4>1, <5>1 DEF m
      <4>3. k2[m + 1] = HostFrame /\ j2[m + 1] = j2[1] + (m + 1) - 1
        BY <1>2, <1>4, <1>6, <3>3, <4>1
      <4>4. \A i \in 1 .. m + 1 : i \in 1 .. m \/ i = m + 1
        BY ONLY <1>1
      <4>5. \A i \in 1 .. m + 1 : k2[i] = HostFrame /\ j2[i] = j2[1] + i - 1
        BY <3>1, <4>3, <4>4
      <4> QED
        BY <2>1, <4>2, <4>5 DEF CurrentMatches
    <3> QED
      BY <3>2, <3>3
  <2> QED
    BY <1>2, <2>1, <2>2 DEF OnTheirWay
<1> QED
  BY <1>7, <1>8

\* Where the host, the filter and the parser are, after an edge.
FramesGoOn(in) ==
  /\ HostFrame \in Nat /\ FilterFrame \in Nat /\ ParserFrame \in Nat
  /\ FilterFrame' = FilterFrame + OneBit(ResultTaken(in))
  /\ ParserFrame' = ParserFrame + OneBit(Ends)

LEMMA FramesGoOnIs ==
  ASSUME NEW in, BoardWell, Clock(in), filter_rst_n, Flows, HostTakes(in), Issues(in),
         issued \in Seq(Answer), frames \in Seq(Response), first \in Nat, index \in Nat,
         first' = first, ReadsTheBatch
  PROVE  FramesGoOn(in) /\ issued' \in Seq(Answer)
<1>1. GivenAnswer(in)
  <2>1. Filter!ServiceTypeOK
    BY DEF BoardWell, HwTypes
  <2> QED
    BY <2>1, AtMostOneGiven
<1>2. /\ issued' \in Seq(Answer)
      /\ Len(frames') + Results(issued') =
           Len(frames) + Results(issued) + OneBit(ResultTaken(in))
      /\ Len(frames) \in Nat /\ Results(issued) \in Nat
      /\ Len(frames') \in Nat /\ Results(issued') \in Nat
  BY <1>1, AnswersCount
<1>3. FramesMove(in)
  BY FramesMoveOn
<1>4. ParserFrame' = ParserFrame + OneBit(Ends)
  BY <1>2, <1>3, ParserFrameMoves
<1>5. HostFrame \in Nat /\ FilterFrame \in Nat
  BY <1>2 DEF HostFrame, FilterFrame
<1>6. FilterFrame' = FilterFrame + OneBit(ResultTaken(in))
  <2> DEFINE l == Len(frames)
             r == Results(issued)
             m == Len(frames')
             t == Results(issued')
             taken == OneBit(ResultTaken(in))
  <2>1. taken \in Nat /\ l \in Nat /\ r \in Nat /\ m \in Nat /\ t \in Nat /\ m + t = l + r + taken
    BY <1>2 DEF OneBit
  <2>2. FilterFrame' = first + m + t /\ FilterFrame = first + l + r
    BY DEF FilterFrame
  <2> HIDE DEF l, r, m, t, taken
  <2>3. FilterFrame' = FilterFrame + taken
    BY <2>1, <2>2
  <2> QED
    BY <2>3 DEF taken
<1>7. ParserFrame \in Nat
  <2>1. ParserFrame \in first .. index
    BY DEF ReadsTheBatch
  <2>2. \A i \in first .. index : i \in Nat
    OBVIOUS
  <2> QED
    BY <2>1, <2>2
<1> QED
  BY <1>2, <1>4, <1>5, <1>6, <1>7 DEF FramesGoOn

\* The parser, the slice and the filter hand the bytes on.
LEMMA BytesGoOn ==
  ASSUME NEW in, BoardWell, Clock(in), LineMoves(in.rx), RxFifo!Move(in.rx, rxf_pop),
         filter_rst_n, Flows, first \in Nat, index \in Nat, first >= 1, index <= Len(Plan) + 1,
         ReadsTheBatch, FramesGoOn(in), FilterTurns(FilterInput(in)),
         NEW j \in Nat, NEW n \in Nat, SliceMatches(j),
         n = IF ~Pops THEN j ELSE IF out_q.last THEN 1 ELSE j + 1
  PROVE  SliceMatches(n)'
<1>1. /\ ParserStreams \/ ParserStalls \/ ParserBegins \/ ParserElsewhere
      /\ SliceRefills \/ SlicePasses \/ SliceSkids \/ SliceStalls
      /\ PhaseFollows
  BY DEF Flows
<1>2. /\ SliceFollowsParser /\ frame_len \in Word16 /\ remaining \in Word16
      /\ Slice!BufferTypeOK
  BY DEF BoardWell, HwTypes, CommandTypes
<1>3. frame_len \in Nat /\ remaining \in Nat
  BY <1>2, WordIsNumber
<1>4. out_q.last \in BOOLEAN
  BY <1>2 DEF Slice!BufferTypeOK, Slice!Beat
<1>5. /\ FilterFrame \in Nat /\ ParserFrame \in Nat
      /\ FilterFrame' = FilterFrame + OneBit(ResultTaken(in))
      /\ ParserFrame' = ParserFrame + OneBit(Ends)
  BY DEF FramesGoOn
<1>6. cmd = "C_STREAM" => frame_len = Len(Plan[ParserFrame].frame)
  BY DEF ReadsTheBatch
<1>7. Pushes => Shows(SliceBeat, ParserPlace)
  BY StreamedByte
<1>8. ParserPlace' = IF Pushes THEN Following(ParserPlace) ELSE ParserPlace
  BY <1>1, <1>2, <1>3, <1>5, <1>6, ParserPlaceMoves
<1>9. FilterFrame' + OneBit(phase' \in {"ended", "record"}) =
        FilterFrame + OneBit(phase \in {"ended", "record"}) + OneBit(Pops /\ out_q.last)
  BY <1>4, <1>5, FilterPlaceMoves
<1> QED
  BY <1>1, <1>2, <1>4, <1>5, <1>7, <1>8, <1>9, SliceBytesMove

\* While the filter's answers are on their way, none is an acknowledgement.
LEMMA BytesMove ==
  ASSUME NEW in, BoardWell, Clock(in), LineMoves(in.rx), feed(in), WireInv, HostState,
         first >= 1, index <= Len(Plan) + 1, first' = first, ReadsTheBatch, ~ack_pending,
         Numbers, BytesOnTheirWay, HostTakes(in)
  PROVE  FramesGoOn(in) /\ FilterTurns(FilterInput(in)) /\ BytesOnTheirWay' /\ ~ack_pending'
<1>1. cmd # "C_RESET" /\ filter_rst_n
  BY DEF ReadsTheBatch, filter_rst_n
<1>2. BoardWell' /\ SerializerTypes' /\ Flows /\ RxFifo!Move(in.rx, rxf_pop)
  BY <1>1, BoardTick
<1>3. /\ HwTypes /\ HwTypes' /\ BeatsFollowPhase /\ ShiftHasBytes
      /\ Filter!ServiceTypeOK /\ Filter!ServiceTypeOK' /\ SerializerTypes
      /\ out_q.data \in Byte
  <2>1. Slice!BufferTypeOK
    BY DEF BoardWell, HwTypes
  <2> QED
    BY <1>2, <2>1 DEF BoardWell, HwTypes, Slice!BufferTypeOK, Slice!Beat
<1>4. /\ beats \in Seq(Filter!Beat) /\ beats' \in Seq(Filter!Beat) /\ record \in Filter!Record
      /\ phase = "record" => beats = << >>
  BY <1>3 DEF Filter!ServiceTypeOK, BeatsFollowPhase
<1>5. /\ first \in Nat /\ index \in Nat /\ buffer \in Seq(Byte)
      /\ frames \in Seq(Response) /\ current \in Seq(Filter!Beat) /\ issued \in Seq(Answer)
      /\ Issues(in) /\ Reads(in) /\ Serializer(in)
  BY DEF HostState, WireInv, feed, Clock
<1>6. FramesGoOn(in) /\ issued' \in Seq(Answer)
  BY <1>1, <1>2, <1>5, FramesGoOnIs
<1>7. HostMakes(in)
  <2>1. Parses(in) => issued # << >> /\ Protocol!Answer(Arrived(in)) = Head(issued)
    BY <1>2, <1>3, <1>5, ParsedIs
  <2> QED
    BY <2>1, HostMakesIs
<1>8. PICK next \in Nat, k \in [Nat -> Nat], j \in [Nat -> Nat] :
        /\ SliceMatches(next) /\ AnswersMatch(Outgoing, k, j)
        /\ Outgoing # << >> => k[1] = HostFrame
        /\ CurrentMatches(k, j) /\ FilterGoesOn(Outgoing, k, j, next)
  BY DEF BytesOnTheirWay
<1>9. FilterTurns(FilterInput(in)) /\ (phase = "record" => payload # "open")
  <2>1. payload = "open" => phase = "inside"
    BY <1>8 DEF FilterGoesOn
  <2>2. Filter!ServiceEdge(FilterInput(in))
    BY <1>1 DEF Clock, FilterPath
  <2> QED
    BY <1>3, <2>1, <2>2, FilterTurnsIs
<1>10. PICK n \in Nat : n = IF ~Pops THEN next ELSE IF out_q.last THEN 1 ELSE next + 1
  <2> DEFINE e == IF ~Pops THEN next ELSE IF out_q.last THEN 1 ELSE next + 1
  <2>1. e \in Nat
    OBVIOUS
  <2> HIDE DEF e
  <2>2. PICK n \in Nat : n = e
    BY <2>1
  <2> QED
    BY <2>2 DEF e
<1>11. SliceMatches(n)'
  BY <1>1, <1>2, <1>5, <1>6, <1>8, <1>9, <1>10, BytesGoOn
<1>12. PICK new \in Seq(Answer) :
         /\ Adds(in, new)
         /\ ResultTaken(in) => beats = << >> /\ beats' = << >>
         /\ ~ResultTaken(in) => AsAnswers(beats') = AsAnswers(Filter!Kept(FilterInput(in))) \o new
  BY <1>1, <1>3, <1>4, <1>9, FilterAdds
<1>13. HostFrame \in Nat /\ FilterFrame \in Nat
       /\ FilterFrame' = FilterFrame + OneBit(ResultTaken(in))
  BY <1>6 DEF FramesGoOn
<1>14. Parses(in) => Head(issued).kind # "ack"
  <2> SUFFICES ASSUME Parses(in) PROVE Head(issued).kind # "ack"
    OBVIOUS
  <2>1. issued # << >>
    BY <1>7 DEF HostMakes
  <2>2. Matches(Head(issued), HostFrame, j[Len(current) + 1])
    BY <1>4, <1>5, <1>8, <1>13, <2>1, OldestFits
  <2>3. Head(issued).kind = "beat" \/ Head(issued).kind = "result"
    BY <2>2, MatchesIs
  <2> QED
    BY <2>3
<1>15. /\ Outgoing' \in Seq(Answer)
       /\ IF Parses(in) /\ IsResult(Head(issued))
            THEN Without(Outgoing \o new, Len(current) + 1, Outgoing')
            ELSE Outgoing' = Outgoing \o new
  BY <1>1, <1>3, <1>4, <1>5, <1>6, <1>7, <1>12, <1>14, OutgoingMoves
<1>16. Outgoing \in Seq(Answer)
  BY <1>4, <1>5, OutgoingStarts
<1>17. PICK k2 \in [Nat -> Nat], j2 \in [Nat -> Nat] :
         /\ Grown(Outgoing \o new, k, j, k2, j2)
         /\ Outgoing \o new # << >> => k2[1] = HostFrame
         /\ EndsWell(Outgoing \o new, k2, j2, n, HostFrame, FilterFrame', payload', phase')
  BY <1>1, <1>3, <1>4, <1>8, <1>9, <1>10, <1>12, <1>13, <1>16, AnswersGrow
<1>18. PICK k3 \in [Nat -> Nat], j3 \in [Nat -> Nat] : OnTheirWay(Outgoing, k3, j3, n)'
  BY <1>4, <1>5, <1>7, <1>8, <1>15, <1>17, AnswersTaken
<1>19. BytesOnTheirWay'
  <2>1. /\ AnswersMatch(Outgoing, k3, j3)'
        /\ (Outgoing # << >> => k3[1] = HostFrame)'
        /\ CurrentMatches(k3, j3)'
        /\ EndsWell(Outgoing, k3, j3, n, HostFrame, FilterFrame, payload, phase)'
    BY <1>18 DEF OnTheirWay
  <2>2. (FilterGoesOn(Outgoing, k3, j3, n) <=>
           EndsWell(Outgoing, k3, j3, n, HostFrame, FilterFrame, payload, phase))'
    BY DEF FilterGoesOn, EndsWell, HostFrame
  <2>3. FilterGoesOn(Outgoing, k3, j3, n)'
    BY <2>1, <2>2
  <2> QED
    BY <1>11, <2>1, <2>3 DEF BytesOnTheirWay
<1>20. ~ack_pending'
  BY <1>1 DEF Clock, reset_done
<1> QED
  BY <1>6, <1>9, <1>19, <1>20

\* A remainder is determined by any quotient,
LEMMA RemainderIs ==
  ASSUME NEW m \in Nat \ {0}, NEW q \in Int, NEW r \in 0 .. m - 1
  PROVE  (q * m + r) % m = r
OBVIOUS

\* so that a number may be reduced at every step or once at the end.
LEMMA NumbersReduced ==
  ASSUME NEW m \in Nat \ {0}, NEW a \in Nat
  PROVE  ((a % m) + 1) % m = (a + 1) % m
<1> DEFINE q == a \div m
           r == a % m
<1>1. a = q * m + r /\ q \in Int /\ r \in 0 .. m - 1
  OBVIOUS
<1> HIDE DEF q, r
<1>2. CASE r + 1 < m
  <2>1. r + 1 \in 0 .. m - 1 /\ a + 1 = q * m + (r + 1)
    BY <1>1, <1>2
  <2>2. (q * m + (r + 1)) % m = r + 1
    BY <1>1, <2>1, RemainderIs
  <2>3. (r + 1) % m = r + 1
    BY <1>1, <1>2
  <2> QED
    BY <2>1, <2>2, <2>3 DEF r
<1>3. CASE r + 1 = m
  <2>1. 0 \in 0 .. m - 1 /\ a + 1 = (q + 1) * m + 0
    BY <1>1, <1>3
  <2>2. ((q + 1) * m + 0) % m = 0
    BY <1>1, <2>1, RemainderIs
  <2>3. (r + 1) % m = 0
    BY <1>3
  <2> QED
    BY <2>1, <2>2, <2>3 DEF r
<1> QED
  BY <1>1, <1>2, <1>3

\* The filter's number is the next one when it numbers a record.
LEMMA NumbersMove ==
  ASSUME NEW in, filter_rst_n, FilterTurns(FilterInput(in)), FramesGoOn(in),
         FilterFrame >= 1, Numbers, phase \in {"idle", "inside", "ended", "record"}
  PROVE  Numbers'
<1> DEFINE ports == FilterInput(in)
           f == FilterFrame
<1>1. /\ Leaves(ports) <=> ResultTaken(in)
      /\ f \in Nat /\ f >= 1 /\ FilterFrame' = f + OneBit(ResultTaken(in))
  BY BoardPorts DEF FramesGoOn
<1>2. /\ sequence = (f - 1 + OneBit(phase = "record")) % SEQUENCE_MODULUS
      /\ phase = "record" => record.sequence = (f - 1) % SEQUENCE_MODULUS
  BY DEF Numbers
<1>3. FilterTurns(ports)
  OBVIOUS
<1>4. OneBit(TRUE) = 1 /\ OneBit(FALSE) = 0
  BY DEF OneBit
<1>5. SEQUENCE_MODULUS \in Nat \ {0}
  BY CoreAssumption
<1> HIDE DEF ports, f
<1>6. CASE Leaves(ports)
  <2>1. phase = "record" /\ phase' = "idle" /\ sequence' = sequence
    BY <1>3, <1>6 DEF FilterTurns, Leaves, NotNumbered
  <2>2. FilterFrame' = f + 1
    BY <1>1, <1>6 DEF OneBit
  <2>3. sequence = (f - 1 + 1) % SEQUENCE_MODULUS
    BY <1>2, <2>1 DEF OneBit
  <2>4. f - 1 + 1 = (f + 1) - 1 + 0
    BY <1>1
  <2>5. sequence' = (FilterFrame' - 1 + 0) % SEQUENCE_MODULUS
    BY <2>1, <2>2, <2>3, <2>4
  <2> QED
    BY <2>1, <2>5 DEF Numbers, OneBit
<1>7. CASE ~Leaves(ports) /\ Numbered
  <2>1. /\ phase # "record" /\ phase' = "record"
        /\ sequence' = (sequence + 1) % SEQUENCE_MODULUS /\ record'.sequence = sequence
    BY <1>7 DEF Numbered
  <2>2. FilterFrame' = f
    BY <1>1, <1>7 DEF OneBit
  <2>3. sequence = (f - 1) % SEQUENCE_MODULUS
    <3>1. sequence = (f - 1 + 0) % SEQUENCE_MODULUS
      BY <1>2, <2>1 DEF OneBit
    <3>2. f - 1 + 0 = f - 1
      BY <1>1
    <3> QED
      BY <3>1, <3>2
  <2>4. ((sequence + 1) % SEQUENCE_MODULUS) = (f - 1 + 1) % SEQUENCE_MODULUS
    <3>1. f - 1 \in Nat
      BY <1>1
    <3> DEFINE a == f - 1
    <3> HIDE DEF a
    <3>2. a \in Nat
      BY <3>1 DEF a
    <3>3. ((a % SEQUENCE_MODULUS) + 1) % SEQUENCE_MODULUS = (a + 1) % SEQUENCE_MODULUS
      BY <1>5, <3>2, NumbersReduced
    <3> QED
      BY <2>3, <3>3 DEF a
  <2> QED
    BY <2>1, <2>2, <2>3, <2>4 DEF Numbers, OneBit
<1>8. CASE ~Leaves(ports) /\ NotNumbered
  <2>1. /\ phase' = "record" => phase = "record"
        /\ sequence' = sequence /\ record'.sequence = record.sequence
    BY <1>8 DEF NotNumbered
  <2>2. phase = "record" => phase' = "record"
    BY <1>3, <1>8 DEF FilterTurns
  <2>3. FilterFrame' = f
    BY <1>1, <1>8 DEF OneBit
  <2>4. OneBit(phase' = "record") = OneBit(phase = "record")
    BY <2>1, <2>2 DEF OneBit
  <2> QED
    BY <1>2, <2>1, <2>3, <2>4 DEF Numbers
<1> QED
  BY <1>3, <1>6, <1>7, <1>8 DEF FilterTurns

\* A run of a frame's bytes.
LEMMA RunOfFrame ==
  ASSUME NEW frame \in Seq(Byte), NEW data \in Seq(Byte), NEW at \in Nat,
         Len(data) # 0 => \A i \in 1 .. Len(data) :
           at + i - 1 \in 1 .. Len(frame) /\ data[i] = frame[at + i - 1]
  PROVE  data \in Runs(frame)
<1> DEFINE m == Len(data)
           n == Len(frame)
           lo == IF m = 0 THEN 1 ELSE at
           hi == lo + m - 1
<1>1. m \in Nat /\ n \in Nat
  BY LenProperties
<1>2. lo \in 1 .. n + 1 /\ hi \in 0 .. n /\ lo \in Int /\ hi \in Int
  <2>1. CASE m = 0
    BY <1>1, <2>1
  <2>2. CASE m # 0
    <3> HIDE DEF m, n
    <3>1. 1 \in 1 .. m /\ m \in 1 .. m
      BY <1>1, <2>2
    <3>2. at + 1 - 1 \in 1 .. n /\ at + m - 1 \in 1 .. n
      BY <2>2, <3>1 DEF m, n
    <3> QED
      BY <1>1, <2>2, <3>2
  <2> QED
    BY <2>1, <2>2
<1>3. \A i \in 1 .. m : lo + i - 1 \in 1 .. n /\ data[i] = frame[lo + i - 1]
  <2>1. m = 0 => 1 .. m = {}
    BY <1>1
  <2> QED
    BY <2>1
<1>4. \A i \in 1 .. n : frame[i] \in Byte
  BY ElementOfSeq
<1> HIDE DEF m, n, lo
<1>5. \A i \in lo .. hi : frame[i] \in Byte
  BY <1>1, <1>2, <1>4
<1> DEFINE run == SubSeq(frame, lo, hi)
<1>6. /\ run \in Seq(Byte) /\ Len(run) = m
      /\ \A i \in 1 .. m : run[i] = frame[lo + i - 1]
  <2>1. /\ run \in Seq(Byte) /\ Len(run) = IF lo <= hi THEN hi - lo + 1 ELSE 0
        /\ \A i \in 1 .. hi - lo + 1 : run[i] = frame[lo + i - 1]
    <3> HIDE DEF hi
    <3> QED
      BY <1>2, <1>5, SubSeqProperties
  <2>2. hi - lo + 1 = m /\ (lo <= hi <=> m # 0)
    BY <1>1, <1>2
  <2> HIDE DEF hi, run
  <2> QED
    BY <2>1, <2>2
<1> HIDE DEF hi, run
<1>7. data = run
  <2>1. Len(data) = Len(run) /\ \A i \in 1 .. Len(data) : data[i] = run[i]
    BY <1>3, <1>6 DEF m
  <2> QED
    BY <1>6, <2>1, SeqEqual
<1> QED
  BY <1>2, <1>7 DEF Runs, run, n

\* What the host checks of the responses of a batch.
ResponseFits(k) ==
  Protocol!check_response(frames[k], Runs(Plan[first + k - 1].frame),
                          (first + k - 2) % SEQUENCE_MODULUS)
ResponsesFit == \A k \in DOMAIN frames : ResponseFits(k)

\* The beats it has of a frame and the record that comes after them.
LEMMA ResponseChecks ==
  ASSUME issued \in Seq(Answer), current \in Seq(Filter!Beat), beats \in Seq(Filter!Beat),
         issued # << >>, HostFrame \in 1 .. Len(Plan),
         NEW k \in [Nat -> Nat], NEW j \in [Nat -> Nat], AnswersMatch(Outgoing, k, j),
         Outgoing # << >> => k[1] = HostFrame, CurrentMatches(k, j),
         Head(issued).kind = "result"
  PROVE  Protocol!check_response([beats |-> current, result |-> Head(issued).record],
                                 Runs(Plan[HostFrame].frame), (HostFrame - 1) % SEQUENCE_MODULUS)
<1> DEFINE m == Len(current)
           frame == Plan[HostFrame].frame
           data == [i \in DOMAIN current |-> current[i].data]
           a == Head(issued)
<1>1. /\ Matches(a, HostFrame, j[m + 1])
      /\ \A i \in 1 .. m : /\ j[1] + i - 1 \in 1 .. Len(frame)
                           /\ current[i].data = frame[j[1] + i - 1]
      /\ \A i \in 1 .. m : current[i].last <=> i = m
  <2>1. HostFrame \in Nat
    OBVIOUS
  <2> QED
    BY <2>1, OldestFits
<1>2. a.record.sequence = (HostFrame - 1) % SEQUENCE_MODULUS
  BY <1>1, MatchesIs
<1>3. m \in Nat /\ DOMAIN current = 1 .. m /\ \A i \in 1 .. m : current[i] \in Filter!Beat
  BY LenProperties, ElementOfSeq
<1>4. frame \in Seq(Byte)
  <2>1. /\ Plan \in Seq([frame : Seq(Byte), cfg : Config, stall : Byte])
        /\ HostFrame \in 1 .. Len(Plan)
    BY PlanAssumption DEF Sendable
  <2>2. Plan[HostFrame] \in [frame : Seq(Byte), cfg : Config, stall : Byte]
    BY <2>1, ElementOfSeq
  <2> QED
    BY <2>2
<1> HIDE DEF m, frame, a
<1>5. /\ data \in Seq(Byte) /\ Len(data) = m
      /\ \A i \in 1 .. m : data[i] = current[i].data
  <2>1. data = [i \in 1 .. m |-> current[i].data]
    BY <1>3
  <2>2. \A i \in 1 .. m : current[i].data \in Byte /\ current[i].last \in BOOLEAN
    BY <1>3 DEF Filter!Beat
  <2> HIDE DEF data
  <2>3. data \in [1 .. m -> Byte] /\ \A i \in 1 .. m : data[i] = current[i].data
    BY <2>1, <2>2
  <2>4. \A n \in Nat : \A s \in [1 .. n -> Byte] : s \in Seq(Byte) /\ Len(s) = n
    BY ONLY TRUE
  <2> QED
    BY <1>3, <2>3, <2>4
<1> HIDE DEF data
<1>6. data \in Runs(frame)
  <2>1. j[1] \in Nat
    OBVIOUS
  <2>2. Len(data) # 0 => \A i \in 1 .. Len(data) :
           j[1] + i - 1 \in 1 .. Len(frame) /\ data[i] = frame[j[1] + i - 1]
    BY <1>1, <1>5
  <2> QED
    BY <1>4, <1>5, <2>1, <2>2, RunOfFrame, Zenon
<1>7. \A i \in DOMAIN current : current[i].last = (i = Len(current))
  <2>1. \A i \in 1 .. m : current[i].last \in BOOLEAN
    BY <1>3 DEF Filter!Beat
  <2> QED
    BY <1>1, <1>3, <2>1 DEF m
<1>8. \A b, r : [beats |-> b, result |-> r].beats = b /\ [beats |-> b, result |-> r].result = r
  OBVIOUS
<1>9. data = [i \in DOMAIN current |-> current[i].data]
  BY DEF data
<1> QED
  BY <1>2, <1>6, <1>7, <1>8, <1>9 DEF Protocol!check_response, a, frame

\* Every response that the host makes passes its check.
LEMMA ResponsesMove ==
  ASSUME NEW in, issued \in Seq(Answer), current \in Seq(Filter!Beat), beats \in Seq(Filter!Beat),
         frames \in Seq(Response), first \in Nat, first' = first, HostMakes(in), ResponsesFit,
         Parses(in) => HostFrame \in 1 .. Len(Plan),
         NEW k \in [Nat -> Nat], NEW j \in [Nat -> Nat], AnswersMatch(Outgoing, k, j),
         Outgoing # << >> => k[1] = HostFrame, CurrentMatches(k, j)
  PROVE  ResponsesFit'
<1> DEFINE check(response, i) ==
             Protocol!check_response(response, Runs(Plan[first + i - 1].frame),
                                     (first + i - 2) % SEQUENCE_MODULUS)
<1>1. \A i \in DOMAIN frames : check(frames[i], i)
  BY DEF ResponsesFit, ResponseFits
<1>2. (\A i \in DOMAIN frames' : check(frames'[i], i)) => ResponsesFit'
  BY DEF ResponsesFit, ResponseFits
<1> HIDE DEF check
<1>3. CASE Parses(in) /\ Head(issued).kind = "result"
  <2> DEFINE response == [beats |-> current, result |-> Head(issued).record]
             n == Len(frames)
  <2>1. frames' = Append(frames, response) /\ issued # << >>
    BY <1>3 DEF HostMakes
  <2>2. Protocol!check_response(response, Runs(Plan[HostFrame].frame),
                                (HostFrame - 1) % SEQUENCE_MODULUS)
    BY <1>3, <2>1, ResponseChecks
  <2>3. n \in Nat /\ DOMAIN frames = 1 .. n
    BY LenProperties
  <2> HIDE DEF response
  <2>4. /\ DOMAIN frames' = 1 .. n + 1 /\ frames'[n + 1] = response
        /\ \A i \in 1 .. n : frames'[i] = frames[i]
    BY <2>1, <2>3
  <2> HIDE DEF n
  <2>5. HostFrame = first + (n + 1) - 1 /\ HostFrame - 1 = first + (n + 1) - 2
    BY <2>3 DEF HostFrame, n
  <2>6. check(response, n + 1)
    BY <2>2, <2>5 DEF check
  <2>7. \A i \in 1 .. n + 1 : i \in 1 .. n \/ i = n + 1
    BY <2>3
  <2> QED
    BY <1>1, <1>2, <2>3, <2>4, <2>6, <2>7
<1>4. CASE ~(Parses(in) /\ Head(issued).kind = "result")
  <2>1. frames' = frames
    <3>1. CASE ~Parses(in)
      BY <3>1 DEF HostMakes
    <3>2. CASE Parses(in)
      <4>1. issued # << >>
        BY <3>2 DEF HostMakes
      <4>2. Matches(Head(issued), HostFrame, j[Len(current) + 1])
        <5>1. HostFrame \in Nat
          BY <3>2
        <5> QED
          BY <4>1, <5>1, OldestFits
      <4>3. Head(issued).kind = "beat"
        BY <1>4, <3>2, <4>2, MatchesIs
      <4> QED
        BY <3>2, <4>3 DEF HostMakes
    <3> QED
      BY <3>1, <3>2
  <2> QED
    BY <1>1, <1>2, <2>1
<1> QED
  BY <1>3, <1>4

\* The host waits for the answer to a frame of the plan.
LEMMA OldestInPlan ==
  ASSUME BoardWell, issued \in Seq(Answer), issued # << >>, Head(issued).kind = "result",
         frames \in Seq(Response), first \in Nat, index \in Nat, first >= 1,
         index <= Len(Plan) + 1, ReadsTheBatch
  PROVE  HostFrame \in 1 .. Len(Plan)
<1> DEFINE l == Len(frames)
           r == Results(issued)
           rest == Results(Tail(issued))
           p == OneBit(phase # "idle")
           c == OneBit(cmd = "C_STREAM")
           n == Len(Plan)
<1>1. ParserFrame \in first .. index
  BY DEF ReadsTheBatch
<1>2. l \in Nat /\ n \in Nat
  BY LenProperties, PlanAssumption DEF Sendable
<1>3. rest \in Nat /\ r = rest + 1
  <2>1. Tail(issued) \in Seq(Answer)
    BY HeadTailProperties
  <2>2. rest \in Nat
    BY <2>1, ResultsMove
  <2>3. r = rest + OneBit(IsResult(Head(issued)))
    BY ResultsMove
  <2>4. OneBit(IsResult(Head(issued))) = 1
    BY DEF OneBit, IsResult
  <2> QED
    BY <2>2, <2>3, <2>4
<1>4. p \in Int /\ c \in Int /\ Places \in Int /\ p + Places - c >= 0
  BY StreamIsSomewhere DEF BoardWell, OneBit
<1>5. ParserFrame = first + l + r + p + Places - c /\ HostFrame = first + l
  BY DEF ParserFrame, FilterFrame, HostFrame
<1> HIDE DEF l, r, rest, p, c, n
<1>6. ParserFrame <= n + 1
  <2> DEFINE x == ParserFrame
  <2>1. x \in first .. index
    BY <1>1
  <2> HIDE DEF x
  <2>2. x <= n + 1
    BY <1>2, <2>1 DEF n
  <2> QED
    BY <2>2 DEF x
<1>7. HostFrame \in Int /\ 1 <= HostFrame /\ HostFrame <= n
  BY <1>2, <1>3, <1>4, <1>5, <1>6
<1> QED
  BY <1>2, <1>7 DEF n

\* A beat is one of a frame of the plan in any case.
LEMMA HostFrameInPlan ==
  ASSUME BoardWell, issued \in Seq(Answer), issued # << >>, current \in Seq(Filter!Beat),
         frames \in Seq(Response), first \in Nat, index \in Nat, first >= 1,
         index <= Len(Plan) + 1, ReadsTheBatch, HostFrame \in Nat,
         NEW k \in [Nat -> Nat], NEW j \in [Nat -> Nat], AnswersMatch(Outgoing, k, j),
         Outgoing # << >> => k[1] = HostFrame, CurrentMatches(k, j)
  PROVE  HostFrame \in 1 .. Len(Plan)
<1>1. beats \in Seq(Filter!Beat)
  BY DEF BoardWell, HwTypes, Filter!ServiceTypeOK
<1>2. Matches(Head(issued), HostFrame, j[Len(current) + 1])
  BY <1>1, OldestFits
<1>3. Head(issued).kind = "beat" \/ Head(issued).kind = "result"
  BY <1>2, MatchesIs
<1>4. CASE Head(issued).kind = "beat"
  BY <1>2, <1>4, MatchesIs
<1>5. CASE Head(issued).kind = "result"
  BY <1>5, OldestInPlan
<1> QED
  BY <1>3, <1>4, <1>5

\* An edge while the host reads the answers to a batch.
LEMMA ResponsesGoOn ==
  ASSUME NEW in, BoardWell, Clock(in), LineMoves(in.rx), feed(in), WireInv, HostState,
         first >= 1, index <= Len(Plan) + 1, first' = first, ReadsTheBatch, ~ack_pending,
         Numbers, BytesOnTheirWay, ResponsesFit, HostTakes(in), SerializerTypes'
  PROVE  ~ack_pending' /\ Numbers' /\ BytesOnTheirWay' /\ ResponsesFit'
<1>1. FramesGoOn(in) /\ FilterTurns(FilterInput(in)) /\ BytesOnTheirWay' /\ ~ack_pending'
  BY BytesMove
<1>2. /\ SerializerTypes /\ ShiftHasBytes /\ Filter!ServiceTypeOK
      /\ beats \in Seq(Filter!Beat) /\ phase \in {"idle", "inside", "ended", "record"}
      /\ issued \in Seq(Answer) /\ filter_rst_n
      /\ first \in Nat /\ index \in Nat /\ buffer \in Seq(Byte)
      /\ frames \in Seq(Response) /\ current \in Seq(Filter!Beat)
  BY DEF BoardWell, HwTypes, Filter!ServiceTypeOK, WireInv, HostState, ReadsTheBatch,
         filter_rst_n
<1>3. HostMakes(in)
  <2>1. Parses(in) => issued # << >> /\ Protocol!Answer(Arrived(in)) = Head(issued)
    BY <1>2, ParsedIs DEF feed, Clock
  <2> QED
    BY <2>1, HostMakesIs
<1>4. HostFrame \in Nat /\ FilterFrame \in Nat
  BY <1>1 DEF FramesGoOn
<1>5. PICK k \in [Nat -> Nat], j \in [Nat -> Nat] :
        /\ AnswersMatch(Outgoing, k, j)
        /\ Outgoing # << >> => k[1] = HostFrame
        /\ CurrentMatches(k, j)
  BY DEF BytesOnTheirWay
<1>6. ResponsesFit'
  <2>1. Parses(in) => HostFrame \in 1 .. Len(Plan)
    BY <1>2, <1>3, <1>4, <1>5, HostFrameInPlan DEF HostMakes
  <2> QED
    BY <1>2, <1>3, <1>5, <2>1, ResponsesMove
<1>7. Numbers'
  <2>1. FilterFrame >= 1
    <3> DEFINE l == Len(frames)
               r == Results(issued)
    <3>1. l \in Nat /\ r \in Nat
      BY <1>2, LenProperties, ResultsMove
    <3>2. FilterFrame = first + l + r
      BY DEF FilterFrame
    <3> HIDE DEF l, r
    <3> QED
      BY <1>2, <3>1, <3>2
  <2> QED
    BY <1>1, <1>2, <2>1, NumbersMove
<1> QED
  BY <1>1, <1>6, <1>7

\* While the host waits for the acknowledgement, the restart of the filter goes on.
LEMMA RestartGoesOn ==
  ASSUME NEW in, BoardWell, Clock(in), LineMoves(in.rx), feed(in), HostTakes(in),
         ResetIsCommand, Restarting, reset_acks \in Nat,
         Parses(in) => Protocol!Answer(Arrived(in)) = Head(issued)
  PROVE  Restarting'
<1>1. /\ cmd \in {"C_IDLE", "C_RESET"} /\ phase = "idle" /\ ~out_valid_q
      /\ Unread \in {<< >>, <<CMD_RESET>>} /\ issued \in {<< >>, <<Protocol!Ack>>}
      /\ Len(Unread) + OneBit(cmd = "C_RESET") + OneBit(ack_pending)
           + Len(issued) + reset_acks = 1
  BY DEF ResetIsCommand
<1>2. current' = << >>
  <2>1. CASE ~Parses(in)
    BY <2>1 DEF feed, Restarting
  <2>2. CASE Parses(in)
    <3>1. Head(issued) = Protocol!Ack
      <4>1. issued # << >>
        BY <2>2 DEF HostTakes
      <4>2. \A x : Head(<<x>>) = x
        OBVIOUS
      <4> QED
        BY <1>1, <4>1, <4>2
    <3> DEFINE answer == Protocol!Answer(Arrived(in))
    <3>2. answer.kind = "ack"
      BY <2>2, <3>1 DEF Protocol!Ack
    <3>3. current' = CASE answer.kind = "beat" -> Append(current, answer.beat)
                       [] answer.kind = "result" -> << >>
                       [] answer.kind = "ack" -> current
      BY <2>2, Zenon DEF feed
    <3> HIDE DEF answer
    <3>4. current' = current
      BY <3>2, <3>3, Zenon
    <3> QED
      BY <3>4 DEF Restarting
  <2> QED
    BY <2>1, <2>2
<1>3. cmd' = "C_IDLE" /\ Unread' = << >> => sequence' = 0
  <2> SUFFICES ASSUME cmd' = "C_IDLE", Unread' = << >> PROVE sequence' = 0
    OBVIOUS
  <2>1. CASE cmd = "C_RESET"
    BY <2>1 DEF Clock, FilterPath, filter_rst_n, Filter!ClearEdge
  <2>2. CASE cmd = "C_IDLE"
    <3>1. Len(Unread') + OneBit(cmd' = "C_RESET") + OneBit(reset_done) =
            Len(Unread) + OneBit(cmd = "C_RESET")
      BY <1>1, <2>2, ResetIsRead
    <3>2. Unread = << >>
      <4>1. /\ OneBit(cmd' = "C_RESET") = 0 /\ OneBit(reset_done) = 0
            /\ OneBit(cmd = "C_RESET") = 0
        BY <2>2 DEF OneBit, reset_done
      <4>2. Len(<< >>) = 0 /\ Len(<<CMD_RESET>>) = 1
        OBVIOUS
      <4> QED
        BY <1>1, <3>1, <4>1, <4>2
    <3>3. sequence = 0
      BY <2>2, <3>2 DEF Restarting
    <3>4. Filter!ServiceEdge(FilterInput(in)) /\ ~FilterInput(in).tvalid
      BY <1>1, <2>2 DEF Clock, FilterPath, filter_rst_n, FilterInput, Slice!m_valid
    <3>5. sequence' = sequence
      BY <1>1, <3>4 DEF Filter!ServiceEdge, Filter!Wait, Filter!Begin, Filter!Drop,
                        Filter!Forward, Filter!Report, Filter!result_valid
    <3> QED
      BY <3>3, <3>5
  <2> QED
    BY <1>1, <2>1, <2>2
<1> QED
  BY <1>2, <1>3 DEF Restarting

\* A session starts with nothing on its way.
LEMMA BytesStart ==
  ASSUME BoardWell, cmd = "C_IDLE", phase = "idle", ~out_valid_q, issued = << >>,
         current = << >>, frames = << >>, first = 1, sequence = 0
  PROVE  Numbers /\ BytesOnTheirWay
<1>1. /\ BeatsFollowPhase /\ SliceFollowsParser /\ ~skid_valid_q
  BY DEF BoardWell, SliceFollowsParser
<1>2. beats = << >> /\ payload = "none"
  BY <1>1 DEF BeatsFollowPhase
<1>3. << >> \in Seq(Answer) /\ Len(<< >>) = 0 /\ << >> \in Seq(Filter!Beat)
  BY EmptySeq
<1>4. FilterFrame = 1 /\ HostFrame = 1
  BY <1>3, NoResults DEF FilterFrame, HostFrame
<1>5. ParserFrame = 1
  <2>1. Places = 0 /\ OneBit(phase # "idle") = 0 /\ OneBit(cmd = "C_STREAM") = 0
    BY <1>1 DEF Places, NextOut, NextSkid, NextParser, OneBit
  <2> QED
    BY <1>4, <2>1 DEF ParserFrame
<1>6. Outgoing = << >>
  <2>1. AsAnswers(<< >>) = << >>
    <3>1. AsAnswers(<< >>) \in Seq(Answer) /\ Len(AsAnswers(<< >>)) = Len(<< >>)
      BY <1>3, AsAnswersIs
    <3> QED
      BY <1>3, <3>1, EmptySeq
  <2>2. << >> \o << >> = << >>
    BY <1>3, ConcatEmptySeq
  <2> QED
    BY <1>2, <2>1, <2>2 DEF Outgoing
<1>7. Numbers
  <2>1. 0 % SEQUENCE_MODULUS = 0
    BY CoreAssumption
  <2>2. FilterFrame - 1 + OneBit(phase = "record") = 0
    BY <1>4 DEF OneBit
  <2> QED
    BY <2>1, <2>2 DEF Numbers
<1>8. SliceMatches(1)
  <2>1. FilterPlace(1) = <<1, 1>> /\ ParserPlace = <<1, 1>>
    BY <1>4, <1>5 DEF FilterPlace, ParserPlace, OneBit
  <2> QED
    BY <1>1, <2>1 DEF SliceMatches
<1> DEFINE k == [i \in Nat |-> 1]
<1>9. k \in [Nat -> Nat]
  OBVIOUS
<1> HIDE DEF k
<1>10. AnswersMatch(Outgoing, k, k)
  BY <1>3, <1>6 DEF AnswersMatch
<1>11. CurrentMatches(k, k)
  BY <1>3 DEF CurrentMatches
<1>12. FilterGoesOn(Outgoing, k, k, 1)
  BY <1>2, <1>3, <1>4, <1>6 DEF FilterGoesOn
<1>13. BytesOnTheirWay
  <2>1. 1 \in Nat
    OBVIOUS
  <2> QED
    BY <1>6, <1>8, <1>9, <1>10, <1>11, <1>12, <2>1, Zenon DEF BytesOnTheirWay
<1> QED
  BY <1>7, <1>13

\* A step of the host alone that does not change the frame it is at leaves
\* every byte where it is.
LEMMA BytesKept ==
  ASSUME UNCHANGED coreVars, current' = current, issued' = issued,
         first' + Len(frames') = first + Len(frames)
  PROVE  (Numbers => Numbers') /\ (BytesOnTheirWay => BytesOnTheirWay')
<1>1. HostFrame' = HostFrame /\ FilterFrame' = FilterFrame
  BY DEF HostFrame, FilterFrame
<1>2. /\ cmd' = cmd /\ frame_len' = frame_len /\ remaining' = remaining
      /\ out_q' = out_q /\ skid_q' = skid_q
      /\ out_valid_q' = out_valid_q /\ skid_valid_q' = skid_valid_q
      /\ phase' = phase /\ payload' = payload /\ beats' = beats
      /\ sequence' = sequence /\ record' = record
  BY DEF coreVars, commandVars
<1>3. ParserFrame' = ParserFrame
  BY <1>1, <1>2, FrameKept DEF ParserFrame, OneBit
<1>4. Numbers => Numbers'
  BY <1>1, <1>2 DEF Numbers, OneBit
<1>5. ParserPlace' = ParserPlace
  BY <1>2, <1>3 DEF ParserPlace
<1>6. Outgoing' = Outgoing
  BY <1>2 DEF Outgoing, AsAnswers
<1>7. ASSUME NEW next \in Nat, NEW k \in [Nat -> Nat], NEW j \in [Nat -> Nat],
             SliceMatches(next), AnswersMatch(Outgoing, k, j),
             Outgoing # << >> => k[1] = HostFrame,
             CurrentMatches(k, j), FilterGoesOn(Outgoing, k, j, next)
      PROVE  BytesOnTheirWay'
  <2>1. SliceMatches(next)'
    <3>1. FilterPlace(next)' = FilterPlace(next)
      BY <1>1, <1>2 DEF FilterPlace, OneBit
    <3> QED
      BY <1>2, <1>5, <1>7, <3>1 DEF SliceMatches, Shows, Following
  <2>2. AnswersMatch(Outgoing, k, j)'
    BY <1>6, <1>7
  <2>3. (Outgoing # << >> => k[1] = HostFrame)'
    BY <1>1, <1>6, <1>7
  <2>4. CurrentMatches(k, j)'
    BY <1>1, <1>7 DEF CurrentMatches
  <2>5. FilterGoesOn(Outgoing, k, j, next)'
    BY <1>1, <1>2, <1>6, <1>7 DEF FilterGoesOn
  <2> QED
    BY <2>1, <2>2, <2>3, <2>4, <2>5 DEF BytesOnTheirWay
<1>8. BytesOnTheirWay => BytesOnTheirWay'
  BY <1>7, Zenon DEF BytesOnTheirWay
<1> QED
  BY <1>4, <1>8

LEMMA ResponsesAre == ResponsesMatchFrames <=> (stage = "reading" => ResponsesFit)
BY DEF ResponsesMatchFrames, ResponsesFit, ResponseFits

\* Before its first batch and between two, the host has no responses.
LEMMA NoResponses == frames = << >> => ResponsesFit
BY DEF ResponsesFit

LEMMA ResponseInvInit == HostInit => ResponseInv
<1> SUFFICES ASSUME HostInit PROVE ResponseInv
  OBVIOUS
<1>1. /\ CoreInit /\ stage = "resetting" /\ line = <<CMD_RESET>> /\ current = << >>
      /\ frames = << >> /\ reset_acks = 0 /\ issued = << >>
  BY DEF HostInit
<1>2. /\ rx_visible = << >> /\ rx_arriving = << >> /\ ack_pending = FALSE /\ cmd = "C_IDLE"
      /\ out_valid_q = FALSE /\ phase = "idle" /\ sequence = 0
  BY <1>1 DEF CoreInit, Slice!BufferInit, Filter!ServiceInit
<1>3. Unread = <<CMD_RESET>> /\ Len(<<CMD_RESET>>) = 1 /\ Len(<< >>) = 0
  BY <1>1, <1>2 DEF Unread
<1>4. OneBit(cmd = "C_RESET") = 0 /\ OneBit(ack_pending) = 0
  BY <1>2 DEF OneBit
<1>5. ResetIsCommand
  BY <1>1, <1>2, <1>3, <1>4 DEF ResetIsCommand
<1>6. Restarting
  BY <1>1, <1>2 DEF Restarting
<1> QED
  BY <1>1, <1>5, <1>6, ResponsesAre DEF ResponseInv

LEMMA ResponseInvTick == HostInv /\ ResponseInv /\ HostTick => ResponseInv'
<1> SUFFICES ASSUME HostInv, ResponseInv, HostTick PROVE ResponseInv'
  OBVIOUS
<1>1. BoardWell /\ HostState /\ Progress
  BY HostInvIs
<1>2. PICK i \in Inputs : Edge(i)
  BY DEF HostTick
<1> DEFINE in == [rx |-> i.rx, beat_pass |-> i.pass, result_pass |-> i.pass,
                  tx_ready |-> i.tx_ready]
<1>3. /\ Clock(in) /\ Listens(in)
      /\ stage' = stage /\ first' = first /\ index' = index
  BY <1>2 DEF Edge
<1>4. LineMoves(in.rx)
  BY <1>2 DEF Edge, Inputs, LineMoves
<1> HIDE DEF in
<1>5. SerializerTypes'
  BY <1>1, <1>3, <1>4, BoardTick
<1>6. /\ SerializerTypes /\ ShiftHasBytes /\ Filter!ServiceTypeOK /\ Serializer(in)
      /\ buffer \in Seq(Byte) /\ stage \in {"resetting", "reading", "done", "over"}
      /\ frames \in Seq(Response) /\ current \in Seq(Filter!Beat) /\ reset_acks \in Nat
  BY <1>1, <1>3 DEF BoardWell, HwTypes, Clock, HostState
<1>7. (ResponsesMatchFrames <=> (stage = "reading" => ResponsesFit))'
  BY ResponsesAre, PTL
<1>8. CASE stage \in {"done", "over"}
  BY <1>3, <1>7, <1>8 DEF ResponseInv
<1>9. CASE stage \in {"resetting", "reading"}
  <2>1. feed(in) /\ WireInv /\ Fits
    BY <1>1, <1>3, <1>9 DEF Listens, Active, Progress
  <2>2. HostTakes(in) /\ reset_acks' \in Nat
    BY <1>5, <1>6, <2>1, FeedIs
  <2>3. Issues(in) /\ Reads(in) /\ issued \in Seq(Answer)
    BY <2>1 DEF feed, WireInv
  <2>4. CASE stage = "resetting"
    <3>1. ResetIsData \/ (ResetIsCommand /\ Restarting)
      BY <2>4 DEF ResponseInv
    <3>2. CASE ResetIsData
      <4>1. ResetIsData'
        BY <1>1, <1>3, <1>4, <2>1, <2>2, <2>3, <3>2, ResetStaysData
      <4> QED
        BY <1>3, <1>7, <2>4, <4>1 DEF ResponseInv
    <3>3. CASE ResetIsCommand /\ Restarting
      <4>1. ResetIsCommand'
        BY <1>1, <1>3, <1>4, <1>6, <2>1, <2>2, <2>3, <3>3, ResetStaysCommand
      <4>2. Parses(in) => Protocol!Answer(Arrived(in)) = Head(issued)
        BY <1>5, <1>6, <2>1, <2>3, ParsedIs
      <4>3. Restarting'
        BY <1>1, <1>3, <1>4, <1>6, <2>1, <2>2, <3>3, <4>2, RestartGoesOn
      <4> QED
        BY <1>3, <1>7, <2>4, <4>1, <4>3 DEF ResponseInv
    <3> QED
      BY <3>1, <3>2, <3>3
  <2>5. CASE stage = "reading"
    <3>1. first >= 1 /\ index <= Len(Plan) + 1 /\ ReadsTheBatch
      BY <1>1, <2>5 DEF Progress
    <3>2. ~ack_pending /\ Numbers /\ BytesOnTheirWay /\ ResponsesFit
      BY <2>5, ResponsesAre DEF ResponseInv
    <3>3. ~ack_pending' /\ Numbers' /\ BytesOnTheirWay' /\ ResponsesFit'
      BY <1>1, <1>3, <1>4, <1>5, <2>1, <2>2, <3>1, <3>2, ResponsesGoOn
    <3> QED
      BY <1>3, <1>7, <2>5, <3>3 DEF ResponseInv
  <2> QED
    BY <1>9, <2>4, <2>5
<1> QED
  BY <1>6, <1>8, <1>9

\* The first batch: the acknowledgement has come, so the board is idle and the
\* filter has no record yet.
LEMMA ResponseInvStart == HostInv /\ ResponseInv /\ StartTests => ResponseInv'
<1> SUFFICES ASSUME HostInv, ResponseInv, StartTests PROVE ResponseInv'
  OBVIOUS
<1>1. BoardWell /\ HostState /\ Progress
  BY HostInvIs
<1>2. stage = "resetting" /\ reset_acks = 1 /\ WriteBatch
  BY DEF StartTests
<1>3. /\ first' = index /\ frames' = << >> /\ current' = current /\ issued' = issued
      /\ UNCHANGED coreVars /\ stage' \in {"done", "reading"}
  BY <1>2 DEF WriteBatch
<1>4. first = 1 /\ index = 1
  BY <1>1, <1>2 DEF Progress
<1>5. ResetIsCommand /\ Restarting
  BY <1>2 DEF ResponseInv, ResetIsData
<1>6. cmd = "C_IDLE" /\ Unread = << >> /\ issued = << >> /\ ~ack_pending
  BY <1>2, <1>5, AcknowledgedBoard
<1>7. current = << >> /\ sequence = 0
  BY <1>5, <1>6 DEF Restarting
<1>8. phase = "idle" /\ ~out_valid_q /\ frames = << >>
  BY <1>5 DEF ResetIsCommand
<1>9. Numbers /\ BytesOnTheirWay
  BY <1>1, <1>4, <1>6, <1>7, <1>8, BytesStart
<1>10. Numbers' /\ BytesOnTheirWay'
  BY <1>3, <1>4, <1>8, <1>9, BytesKept
<1>11. ~ack_pending'
  BY <1>3, <1>6 DEF coreVars
<1>12. ResponsesMatchFrames'
  <2>1. (ResponsesMatchFrames <=> (stage = "reading" => ResponsesFit))'
    BY ResponsesAre, PTL
  <2>2. (frames = << >> => ResponsesFit)'
    BY NoResponses, PTL
  <2> QED
    BY <1>3, <2>1, <2>2
<1> QED
  BY <1>3, <1>10, <1>11, <1>12 DEF ResponseInv

\* The next batch: the host is at the frame after the last one it had.
LEMMA ResponseInvBatch == HostInv /\ ResponseInv /\ NextBatch => ResponseInv'
<1> SUFFICES ASSUME HostInv, ResponseInv, NextBatch PROVE ResponseInv'
  OBVIOUS
<1>1. first \in Nat /\ index \in Nat
  BY HostInvIs DEF HostState
<1>2. stage = "reading" /\ Len(frames) = index - first /\ WriteBatch
  BY DEF NextBatch
<1>3. /\ first' = index /\ frames' = << >> /\ current' = current /\ issued' = issued
      /\ UNCHANGED coreVars /\ stage' \in {"done", "reading"}
  BY <1>2 DEF WriteBatch
<1>4. ~ack_pending /\ Numbers /\ BytesOnTheirWay
  BY <1>2 DEF ResponseInv
<1>5. first' + Len(frames') = first + Len(frames)
  BY <1>1, <1>2, <1>3
<1>6. Numbers' /\ BytesOnTheirWay'
  BY <1>3, <1>4, <1>5, BytesKept
<1>7. ~ack_pending'
  BY <1>3, <1>4 DEF coreVars
<1>8. ResponsesMatchFrames'
  <2>1. (ResponsesMatchFrames <=> (stage = "reading" => ResponsesFit))'
    BY ResponsesAre, PTL
  <2>2. (frames = << >> => ResponsesFit)'
    BY NoResponses, PTL
  <2> QED
    BY <1>3, <2>1, <2>2
<1> QED
  BY <1>3, <1>6, <1>7, <1>8 DEF ResponseInv

LEMMA ResponseInvGiveUp == GiveUp => ResponseInv'
<1>1. (ResponsesMatchFrames <=> (stage = "reading" => ResponsesFit))'
  BY ResponsesAre, PTL
<1> QED
  BY <1>1 DEF GiveUp, ResponseInv

\* A new process has read nothing, and its reset command is still unread.
LEMMA ResponseInvNew == HostInv /\ NewSession => ResponseInv'
<1> SUFFICES ASSUME HostInv, NewSession PROVE ResponseInv'
  OBVIOUS
<1>1. (HostInv <=> BoardWell /\ HostState /\ Progress)'
  BY HostInvIs, PTL
<1>2. stage' = "resetting" /\ line' = <<CMD_RESET>> /\ current' = << >> /\ UNCHANGED coreVars
  BY DEF NewSession
<1>3. ResetIsData' \/ ResetIsCommand'
  <2>1. Progress'
    BY <1>1, HostInvNew
  <2> QED
    BY <1>2, <2>1 DEF Progress
<1>4. Unread' # << >>
  <2>1. rx_visible \in Seq(Byte) /\ rx_arriving \in Seq(Byte)
    BY HostInvIs DEF BoardWell, HwTypes
  <2>2. CMD_RESET \in Byte
    BY DEF CMD_RESET, Byte, Unsigned
  <2>3. \A s, t \in Seq(Byte), x \in Byte : (s \o t) \o <<x>> # << >>
    OBVIOUS
  <2>4. Unread' = (rx_visible \o rx_arriving) \o <<CMD_RESET>>
    BY <1>2 DEF Unread, coreVars
  <2> QED
    BY <2>1, <2>2, <2>3, <2>4
<1>5. Restarting'
  BY <1>2, <1>4 DEF Restarting
<1>6. (ResponsesMatchFrames <=> (stage = "reading" => ResponsesFit))'
  BY ResponsesAre, PTL
<1> QED
  BY <1>2, <1>3, <1>5, <1>6 DEF ResponseInv

LEMMA ResponseInvStutter == ResponseInv /\ UNCHANGED systemVars => ResponseInv'
<1> SUFFICES ASSUME ResponseInv, UNCHANGED systemVars PROVE ResponseInv'
  OBVIOUS
<1>1. /\ UNCHANGED coreVars
      /\ stage' = stage /\ line' = line /\ first' = first
      /\ current' = current /\ frames' = frames /\ reset_acks' = reset_acks /\ issued' = issued
  BY DEF systemVars, hostVars
<1>2. /\ cmd' = cmd /\ ack_pending' = ack_pending /\ sequence' = sequence
      /\ phase' = phase /\ out_valid_q' = out_valid_q
  BY <1>1 DEF coreVars, commandVars
<1>3. Unread' = Unread /\ Room' = Room
  BY <1>1, FrameKept DEF Unread
<1>4. /\ ResetIsData => ResetIsData'
      /\ ResetIsCommand => ResetIsCommand'
      /\ Restarting => Restarting'
  BY <1>1, <1>2, <1>3 DEF ResetIsData, ResetIsCommand, Restarting, OneBit
<1>5. (Numbers => Numbers') /\ (BytesOnTheirWay => BytesOnTheirWay')
  BY <1>1, BytesKept
<1>6. ResponsesMatchFrames => ResponsesMatchFrames'
  BY <1>1 DEF ResponsesMatchFrames
<1> QED
  BY <1>1, <1>2, <1>4, <1>5, <1>6 DEF ResponseInv

\* Every byte of the plan is followed from the parser of the board through its
\* register slice, the filter and the serializer to the parser of the host, and
\* every record is numbered by the frame it ends (hw_test_core.sv:132-300,
\* hw_protocol.py:62-91).
THEOREM ResponseInvHolds == HostSpec => [](HostInv /\ ResponseInv)
<1>1. HostInv /\ ResponseInv /\ [HostNext]_systemVars => ResponseInv'
  BY ResponseInvTick, ResponseInvStart, ResponseInvBatch, ResponseInvGiveUp, ResponseInvNew,
     ResponseInvStutter, Zenon
  DEF HostNext
<1> QED
  BY <1>1, ResponseInvInit, SessionInvHolds, PTL DEF HostSpec

\* Every response is that of its own frame, in every session and however the
\* answers are delayed: what the host checks of it can only fail if the filter
\* is wrong (hw_protocol.py:94-111, run_hardware_test.py:172-199).
THEOREM ResponsesMatch == HostSpec => []ResponsesMatchFrames
<1>1. ResponseInv => ResponsesMatchFrames
  BY DEF ResponseInv
<1> QED
  BY <1>1, ResponseInvHolds, PTL
=============================================================================

---------------------------- MODULE BufferProofs ----------------------------
(***************************************************************************)
(* The skid buffer is a two-place FIFO, for every set of data values.      *)
(***************************************************************************)
EXTENDS BufferHarness, SequenceTheorems, TLAPS

\* The registers and the ghost always hold values of their types
\* (stream_byte_buffer.sv:27-30).
THEOREM BufferTypeCorrect == Spec => []TypeOK
<1>1. Init => TypeOK
  <2> SUFFICES ASSUME Init PROVE TypeOK
    OBVIOUS
  <2>1. BufferTypeOK
    BY ByteAssumption DEF Init, BufferInit, BufferTypeOK, NoBeat, Beat
  <2>2. port.accepted = << >> /\ port.delivered = << >>
    BY DEF Init, IdlePort
  <2> QED
    BY <2>1, <2>2 DEF TypeOK
<1>2. TypeOK /\ [Next]_vars => TypeOK'
  <2> SUFFICES ASSUME TypeOK, [Next]_vars PROVE TypeOK'
    OBVIOUS
  <2>1. CASE Reset
    BY <2>1, ByteAssumption
    DEF TypeOK, BufferTypeOK, Reset, ClearEdge, NoBeat, Beat, IdlePort
  <2>2. ASSUME NEW s_valid \in BOOLEAN, NEW m_ready \in BOOLEAN, NEW beat \in Beat,
               Clock(s_valid, beat, m_ready)
        PROVE  TypeOK'
    <3>1. BufferTypeOK'
      BY <2>2 DEF TypeOK, BufferTypeOK, Clock, Edge, RefillFromSkid, PassThrough,
                  Skid, Stall, bufferVars
    <3>2. port'.accepted = OneIf(s_valid /\ s_ready, beat)
          /\ port'.delivered = OneIf(m_valid /\ m_ready, out_q)
      BY <2>2 DEF Clock
    <3> QED
      BY <3>1, <3>2 DEF TypeOK, BufferTypeOK, OneIf
  <2>3. CASE UNCHANGED vars
    BY <2>3 DEF TypeOK, BufferTypeOK, vars
  <2> QED
    BY <2>1, <2>2, <2>3 DEF Next
<1> QED
  BY <1>1, <1>2, PTL DEF Spec

\* The skid register is valid only behind a valid output register
\* (stream_byte_buffer.sv:45-59).
THEOREM SkidBehindOutput == Spec => []NoHole
<1>1. Init => NoHole
  BY DEF Init, BufferInit, NoHole
<1>2. TypeOK /\ NoHole /\ [Next]_vars => NoHole'
  BY DEF TypeOK, BufferTypeOK, NoHole, Next, vars, Reset, ClearEdge, Clock, Edge,
         RefillFromSkid, PassThrough, Skid, Stall, bufferVars, out_free
<1> QED
  BY <1>1, <1>2, BufferTypeCorrect, PTL DEF Spec

-----------------------------------------------------------------------------
(* Refinement of ByteFifo.  What Contents is in each of the three cases    *)
(* that NoHole leaves: empty, one beat, two beats.                         *)

\* A pair is the concatenation of two single beats.
LEMMA PairIsConcatenation ==
  ASSUME NEW S, NEW a \in S, NEW b \in S
  PROVE  <<a>> \o <<b>> = <<a, b>>
<1>1. <<a>> \in Seq(S) /\ <<b>> \in Seq(S) /\ <<a, b>> \in Seq(S)
  OBVIOUS
<1>2. <<a>> \o <<b>> \in Seq(S) /\ Len(<<a>> \o <<b>>) = Len(<<a, b>>)
  BY <1>1
<1>3. \A i \in 1..Len(<<a>> \o <<b>>) : (<<a>> \o <<b>>)[i] = <<a, b>>[i]
  BY <1>1
<1> QED
  BY <1>1, <1>2, <1>3, SeqEqual

\* What the buffer holds, by what its valid flags say,
LEMMA ContentsCases ==
  /\ ~out_valid_q /\ ~skid_valid_q => Contents = << >> /\ Len(Contents) = 0
  /\ out_valid_q /\ ~skid_valid_q =>
       /\ Contents = <<out_q>> /\ Contents # << >> /\ Len(Contents) = 1
       /\ Head(Contents) = out_q /\ Tail(Contents) = << >>
  /\ out_valid_q /\ skid_valid_q =>
       /\ Contents = <<out_q, skid_q>> /\ Contents # << >> /\ Len(Contents) = 2
       /\ Head(Contents) = out_q /\ Tail(Contents) = <<skid_q>>
<1>1. CASE ~out_valid_q /\ ~skid_valid_q
  BY <1>1 DEF Contents
<1>2. CASE out_valid_q /\ ~skid_valid_q
  BY <1>2 DEF Contents
<1>3. CASE out_valid_q /\ skid_valid_q
  BY <1>3 DEF Contents
<1> QED
  BY <1>1, <1>2, <1>3

\* and the same of the next state.
LEMMA ContentsCasesNext ==
  /\ ~out_valid_q' /\ ~skid_valid_q' => Contents' = << >>
  /\ out_valid_q' /\ ~skid_valid_q' => Contents' = <<out_q'>>
  /\ out_valid_q' /\ skid_valid_q' => Contents' = <<out_q', skid_q'>>
BY DEF Contents

\* Every edge of the buffer is a Transfer of the FIFO.
LEMMA ClockIsTransfer ==
  ASSUME TypeOK, NoHole, NoHole',
         NEW s_valid \in BOOLEAN, NEW m_ready \in BOOLEAN, NEW beat \in Beat,
         Clock(s_valid, beat, m_ready)
  PROVE  Fifo!Transfer(OneIf(s_valid, beat), m_ready)
<1> DEFINE offered == OneIf(s_valid, beat)
           accepted == IF Len(Contents) < 2 THEN offered ELSE << >>
           delivered == IF m_ready /\ Contents # << >> THEN <<Head(Contents)>> ELSE << >>
           kept == IF delivered = << >> THEN Contents ELSE Tail(Contents)
<1>1. accepted = OneIf(s_valid /\ s_ready, beat)
  <2>1. Len(Contents) < 2 <=> ~skid_valid_q
    <3>1. CASE skid_valid_q
      BY <3>1, ContentsCases DEF NoHole
    <3>2. CASE ~skid_valid_q
      BY <3>2, ContentsCases
    <3> QED
      BY <3>1, <3>2
  <2> QED
    BY <2>1 DEF OneIf, s_ready
<1>2. delivered = OneIf(m_valid /\ m_ready, out_q)
  BY ContentsCases DEF NoHole, TypeOK, BufferTypeOK, OneIf, m_valid
<1>3. Contents' = kept \o accepted
  <2>1. CASE ~skid_valid_q /\ ~out_valid_q
    <3>1. kept = << >>
      BY <2>1, ContentsCases
    <3>2. out_valid_q' = s_valid /\ ~skid_valid_q' /\ (s_valid => out_q' = beat)
      BY <2>1 DEF Clock, Edge, RefillFromSkid, PassThrough, Skid, Stall, out_free,
                  TypeOK, BufferTypeOK
    <3>3. accepted = offered
      BY <1>1, <2>1 DEF s_ready
    <3> HIDE DEF kept, accepted
    <3> QED
      BY <3>1, <3>2, <3>3, ContentsCasesNext DEF OneIf
  <2>2. CASE ~skid_valid_q /\ out_valid_q /\ m_ready
    <3>1. kept = << >>
      BY <2>2, ContentsCases
    <3>2. out_valid_q' = s_valid /\ ~skid_valid_q' /\ (s_valid => out_q' = beat)
      BY <2>2 DEF Clock, Edge, RefillFromSkid, PassThrough, Skid, Stall, out_free,
                  TypeOK, BufferTypeOK
    <3>3. accepted = offered
      BY <1>1, <2>2 DEF s_ready
    <3> HIDE DEF kept, accepted
    <3> QED
      BY <3>1, <3>2, <3>3, ContentsCasesNext DEF OneIf
  <2>3. CASE ~skid_valid_q /\ out_valid_q /\ ~m_ready
    <3>1. kept = <<out_q>>
      BY <2>3, ContentsCases
    <3>2. out_valid_q' /\ out_q' = out_q /\ skid_valid_q' = s_valid
          /\ (s_valid => skid_q' = beat)
      BY <2>3 DEF Clock, Edge, RefillFromSkid, PassThrough, Skid, Stall, out_free,
                  TypeOK, BufferTypeOK, bufferVars
    <3>3. accepted = offered
      BY <1>1, <2>3 DEF s_ready
    <3> HIDE DEF kept, accepted
    <3> HIDE DEF offered
    <3>4. CASE s_valid
      <4>1. Contents' = <<out_q, beat>>
        BY <3>2, <3>4, ContentsCasesNext
      <4>2. accepted = <<beat>>
        BY <3>3, <3>4 DEF offered, OneIf
      <4> QED
        BY <3>1, <4>1, <4>2, PairIsConcatenation DEF TypeOK, BufferTypeOK
    <3>5. CASE ~s_valid
      <4>1. Contents' = <<out_q>>
        BY <3>2, <3>5, ContentsCasesNext
      <4>2. accepted = << >>
        BY <3>3, <3>5 DEF offered, OneIf
      <4> QED
        BY <3>1, <4>1, <4>2
    <3> QED
      BY <3>4, <3>5
  <2>4. CASE skid_valid_q /\ m_ready
    <3>1. kept = <<skid_q>>
      BY <2>4, ContentsCases DEF NoHole
    <3>2. out_valid_q' /\ out_q' = skid_q /\ ~skid_valid_q'
      BY <2>4 DEF Clock, Edge, RefillFromSkid, PassThrough, Skid, Stall, out_free
    <3>3. accepted = << >>
      BY <1>1, <2>4 DEF s_ready, OneIf
    <3> HIDE DEF kept, accepted
    <3> QED
      BY <3>1, <3>2, <3>3, ContentsCasesNext
  <2>5. CASE skid_valid_q /\ ~m_ready
    <3>1. kept = <<out_q, skid_q>>
      BY <2>5, ContentsCases DEF NoHole
    <3>2. UNCHANGED bufferVars
      BY <2>5 DEF Clock, Edge, RefillFromSkid, PassThrough, Skid, Stall, out_free, NoHole
    <3>3. accepted = << >>
      BY <1>1, <2>5 DEF s_ready, OneIf
    <3>4. Contents' = <<out_q, skid_q>>
      BY <2>5, <3>2, ContentsCasesNext DEF NoHole, bufferVars
    <3> HIDE DEF kept, accepted
    <3> QED
      BY <3>1, <3>3, <3>4
  <2> QED
    BY <2>1, <2>2, <2>3, <2>4, <2>5 DEF TypeOK, BufferTypeOK
<1>4. port' = [rst_n |-> TRUE, offered |-> offered, wanted |-> m_ready,
               accepted |-> accepted, delivered |-> delivered]
  BY <1>1, <1>2 DEF Clock
<1> QED
  BY <1>3, <1>4 DEF Fifo!Transfer, Fifo!Move, Fifo!Accepted, Fifo!Delivered, Fifo!Kept

\* The skid buffer implements the two-place FIFO, with the registers as its
\* queue: it refuses a beat only when both are full, loses none and keeps order.
THEOREM BufferImplementsFifo == Spec => ImplementsFifo
<1>1. Init => Fifo!Init
  BY ContentsCases DEF Init, BufferInit, Fifo!Init, IdlePort, Fifo!IdlePort
<1>2. ASSUME TypeOK, NoHole, NoHole', [Next]_vars
      PROVE  [Fifo!Next]_<<Contents, port>>
  <2>1. CASE Reset
    BY <2>1, ContentsCasesNext
    DEF Reset, ClearEdge, Fifo!Next, Fifo!Clear, Fifo!Empty, IdlePort, Fifo!IdlePort
  <2>2. ASSUME NEW s_valid \in BOOLEAN, NEW m_ready \in BOOLEAN, NEW beat \in Beat,
               Clock(s_valid, beat, m_ready)
        PROVE  Fifo!Next
    <3>1. Fifo!Transfer(OneIf(s_valid, beat), m_ready)
      BY <1>2, <2>2, ClockIsTransfer
    <3>2. OneIf(s_valid, beat) \in Fifo!AtMostOne
      BY DEF OneIf, Fifo!AtMostOne
    <3> QED
      BY <3>1, <3>2 DEF Fifo!Next
  <2>3. CASE UNCHANGED vars
    BY <2>3 DEF vars, Contents
  <2> QED
    BY <1>2, <2>1, <2>2, <2>3 DEF Next
<1> QED
  BY <1>1, <1>2, BufferTypeCorrect, SkidBehindOutput, PTL
  DEF Spec, ImplementsFifo, Fifo!Spec

-----------------------------------------------------------------------------
(* The combinational output that the parser waits for. *)

\* On an edge that accepts no beat, "drained" tells whether a beat stays behind.
LEMMA DrainedTells ==
  ASSUME TypeOK, NoHole, NoHole',
         NEW s_valid \in BOOLEAN, NEW m_ready \in BOOLEAN, NEW beat \in Beat,
         Clock(s_valid, beat, m_ready), port'.accepted = << >>
  PROVE  drained(port'.wanted) <=> Contents' = << >>
<1>1. out_valid_q \in BOOLEAN /\ skid_valid_q \in BOOLEAN
  BY DEF TypeOK, BufferTypeOK
<1>2. port'.wanted = m_ready /\ port'.accepted = OneIf(s_valid /\ s_ready, beat)
  BY DEF Clock
<1>3. ~(s_valid /\ ~skid_valid_q)
  <2>1. <<beat>> # << >>
    OBVIOUS
  <2>2. OneIf(s_valid /\ s_ready, beat) = << >>
    BY <1>2
  <2> QED
    BY <2>1, <2>2, Zenon DEF OneIf, s_ready
<1>4. Contents' = << >> <=> ~out_valid_q'
  <2>1. <<out_q'>> # << >> /\ <<out_q', skid_q'>> # << >>
    OBVIOUS
  <2> QED
    BY <2>1, ContentsCasesNext DEF NoHole
<1>5. ~out_valid_q' <=> ~skid_valid_q /\ (~out_valid_q \/ m_ready)
  BY <1>1, <1>3 DEF Clock, Edge, RefillFromSkid, PassThrough, Skid, Stall, out_free, bufferVars
<1> QED
  BY <1>2, <1>4, <1>5 DEF drained, out_free

\* The filter shows the record of a frame on the edge on which "drained" is
\* high: exactly then nothing of the payload is left (stream_byte_buffer.sv:23-25).
THEOREM DrainedExact == Spec => DrainedIsExact
<1> DEFINE Exact == port'.rst_n /\ port'.accepted = << >>
                      => (drained(port'.wanted) <=> Contents' = << >>)
<1>1. ASSUME TypeOK, NoHole, NoHole', Next PROVE Exact
  <2>1. CASE Reset
    BY <2>1 DEF Reset, IdlePort
  <2>2. ASSUME NEW s_valid \in BOOLEAN, NEW m_ready \in BOOLEAN, NEW beat \in Beat,
               Clock(s_valid, beat, m_ready)
        PROVE  Exact
    BY <1>1, <2>2, DrainedTells
  <2> QED
    BY <1>1, <2>1, <2>2 DEF Next
<1>2. TypeOK /\ NoHole /\ NoHole' /\ [Next]_vars => [Exact]_vars
  BY <1>1
<1> QED
  BY <1>2, BufferTypeCorrect, SkidBehindOutput, PTL DEF Spec, DrainedIsExact
=============================================================================

--------------------------- MODULE BufferHarness ---------------------------
(***************************************************************************)
(* stream_byte_buffer with both of its ports left free: the input offers   *)
(* any beat or none, the output is ready or not, and reset may come at any *)
(* clock edge.  "port" is a ghost that shows the last edge.                *)
(***************************************************************************)
EXTENDS StreamByteBuffer, PortTrace

VARIABLE port

vars == <<out_q, skid_q, out_valid_q, skid_valid_q, port>>

Init == BufferInit /\ port = IdlePort

Clock(s_valid, beat, m_ready) ==
  /\ Edge(s_valid, beat, m_ready)
  /\ port' = [rst_n |-> TRUE,
              offered |-> OneIf(s_valid, beat), wanted |-> m_ready,
              accepted |-> OneIf(s_valid /\ s_ready, beat),
              delivered |-> OneIf(m_valid /\ m_ready, out_q)]

Reset == ClearEdge /\ port' = IdlePort

Next == Reset \/ \E s_valid, m_ready \in BOOLEAN, beat \in Beat :
                   Clock(s_valid, beat, m_ready)

Spec == Init /\ [][Next]_vars

\* The clock runs, and the consumer is ready again and again.
OutputEdge == \E s_valid \in BOOLEAN, beat \in Beat : Clock(s_valid, beat, TRUE)
FairSpec == Spec /\ WF_vars(OutputEdge /\ m_valid)

-----------------------------------------------------------------------------
(* Properties. *)

TypeOK ==
  /\ BufferTypeOK
  /\ port.accepted \in {<< >>} \cup {<<b>> : b \in Beat}
  /\ port.delivered \in {<< >>} \cup {<<b>> : b \in Beat}

\* The skid register is used only behind a full output register, so the pair
\* is a queue with no hole in it (stream_byte_buffer.sv:45-59).
NoHole == skid_valid_q => out_valid_q

\* The comment at stream_byte_buffer.sv:23-25: "drained" is high exactly when
\* no beat remains after this edge, if no beat is accepted in this cycle.
DrainedIsExact ==
  [][port'.rst_n /\ port'.accepted = << >>
       => (drained(port'.wanted) <=> Contents' = << >>)]_vars

\* The buffer is a two-place FIFO: it implements ByteFifo with the registers
\* as its queue, the skid register behind the output register.
Fifo == INSTANCE ByteFifo WITH Item <- Beat, Depth <- 2, queue <- Contents
ImplementsFifo == Fifo!Spec

\* Every beat in the buffer is delivered, unless reset clears it: the skid
\* register never keeps a beat behind the ones that pass (FairSpec).
EveryBeatDelivered ==
  \A b \in Beat :
    (out_valid_q /\ out_q = b) \/ (skid_valid_q /\ skid_q = b)
      ~> port.delivered = <<b>> \/ ~port.rst_n
=============================================================================

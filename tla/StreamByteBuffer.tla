-------------------------- MODULE StreamByteBuffer --------------------------
(***************************************************************************)
(* rtl/stream_byte_buffer.sv: the two-entry skid buffer between the parser *)
(* and the payload output.  An output register drives the output port;    *)
(* when that port stalls one more beat lands in the skid register.         *)
(*                                                                         *)
(* The module has no next-state relation of its own: Edge and ClearEdge    *)
(* are what its always_ff block does on one rising clock edge with rst_n   *)
(* high or low, and the module that owns the ports says which inputs that  *)
(* edge sees.  The s_ and m_ operators are the combinational outputs with  *)
(* rst_n high; with rst_n low the two valid outputs and s_ready are low.   *)
(***************************************************************************)
EXTENDS Naturals, Sequences

CONSTANT Byte          \* the values of the data bits

\* The reset value '0 of the registers is a data value.
ASSUME ByteAssumption == 0 \in Byte

VARIABLES out_q,         \* beat in the output register; meaningful when valid
          skid_q,        \* beat in the skid register; meaningful when valid
          out_valid_q,
          skid_valid_q

bufferVars == <<out_q, skid_q, out_valid_q, skid_valid_q>>

\* {data, last, error}, the ten bits of a register.
Beat == [data : Byte, last : BOOLEAN, error : BOOLEAN]

\* Fault: reset leaves one of the ten bits undriven.
NoBeatWithoutError == [data |-> 0, last |-> FALSE]

NoBeat == [data |-> 0, last |-> FALSE, error |-> FALSE]

-----------------------------------------------------------------------------
(* Combinational outputs. *)

out_free(m_ready) == ~out_valid_q \/ m_ready
s_ready == ~skid_valid_q
m_valid == out_valid_q

\* Fault: the beat in the skid register is forgotten.
DrainedIgnoresSkid(m_ready) == out_free(m_ready)

drained(m_ready) == ~skid_valid_q /\ out_free(m_ready)

-----------------------------------------------------------------------------
(* One clock edge. *)

BufferInit ==
  /\ out_q = NoBeat
  /\ skid_q = NoBeat
  /\ out_valid_q = FALSE
  /\ skid_valid_q = FALSE

ClearEdge ==
  /\ out_q' = NoBeat
  /\ skid_q' = NoBeat
  /\ out_valid_q' = FALSE
  /\ skid_valid_q' = FALSE

\* Fault: the skid register stays valid and its beat leaves twice.
RefillKeepsSkid(m_ready) ==
  /\ out_free(m_ready) /\ skid_valid_q
  /\ out_q' = skid_q
  /\ out_valid_q' = TRUE
  /\ UNCHANGED <<skid_q, skid_valid_q>>

\* The output register is free and the skid register refills it.
RefillFromSkid(m_ready) ==
  /\ out_free(m_ready) /\ skid_valid_q
  /\ out_q' = skid_q
  /\ out_valid_q' = TRUE
  /\ skid_valid_q' = FALSE
  /\ UNCHANGED skid_q

\* Fault: a new beat may overtake the one in the skid register.
PassThroughFirst(s_valid, beat, m_ready) ==
  /\ out_free(m_ready)
  /\ out_valid_q' = s_valid
  /\ out_q' = IF s_valid THEN beat ELSE out_q
  /\ UNCHANGED <<skid_q, skid_valid_q>>

\* Fault: no bypass, every beat goes through the skid register.
PassThroughNoBypass(s_valid, beat, m_ready) ==
  /\ out_free(m_ready) /\ ~skid_valid_q
  /\ skid_valid_q' = s_valid
  /\ skid_q' = IF s_valid THEN beat ELSE skid_q
  /\ out_valid_q' = FALSE
  /\ UNCHANGED out_q

\* The output register is free and takes the input beat, if there is one.
PassThrough(s_valid, beat, m_ready) ==
  /\ out_free(m_ready) /\ ~skid_valid_q
  /\ out_valid_q' = s_valid
  /\ out_q' = IF s_valid THEN beat ELSE out_q
  /\ UNCHANGED <<skid_q, skid_valid_q>>

\* Fault: a beat is taken although the skid register is full.
SkidOverwrites(s_valid, beat, m_ready) ==
  /\ ~out_free(m_ready) /\ s_valid
  /\ skid_q' = beat
  /\ skid_valid_q' = TRUE
  /\ UNCHANGED <<out_q, out_valid_q>>

\* The output stalls and the input beat lands in the skid register.
Skid(s_valid, beat, m_ready) ==
  /\ ~out_free(m_ready) /\ s_valid /\ ~skid_valid_q
  /\ skid_q' = beat
  /\ skid_valid_q' = TRUE
  /\ UNCHANGED <<out_q, out_valid_q>>

\* The output stalls and there is no input beat, or no room for it.
Stall(s_valid, m_ready) ==
  /\ ~out_free(m_ready) /\ (~s_valid \/ skid_valid_q)
  /\ UNCHANGED bufferVars

Edge(s_valid, beat, m_ready) ==
  \/ RefillFromSkid(m_ready)
  \/ PassThrough(s_valid, beat, m_ready)
  \/ Skid(s_valid, beat, m_ready)
  \/ Stall(s_valid, m_ready)

-----------------------------------------------------------------------------

BufferTypeOK ==
  /\ out_q \in Beat
  /\ skid_q \in Beat
  /\ out_valid_q \in BOOLEAN
  /\ skid_valid_q \in BOOLEAN

\* The beats held, oldest first.
Contents ==
  CASE out_valid_q /\ skid_valid_q   -> <<out_q, skid_q>>
    [] out_valid_q /\ ~skid_valid_q  -> <<out_q>>
    [] ~out_valid_q /\ skid_valid_q  -> <<skid_q>>
    [] ~out_valid_q /\ ~skid_valid_q -> << >>
=============================================================================

------------------------------ MODULE SyncFifo ------------------------------
(***************************************************************************)
(* fpga/basys3/sync_fifo.sv: the TX FIFO of the board.  The memory is read *)
(* asynchronously, so the word at the head is always on rd_data.  Both     *)
(* ports are free: anything may be written or popped on any edge, and      *)
(* reset may come at any edge.  "port" is a ghost that shows the last one. *)
(***************************************************************************)
EXTENDS FifoPointers, PortTrace

VARIABLES mem, wr_ptr, rd_ptr, port

vars == <<mem, wr_ptr, rd_ptr, port>>

count == Distance(wr_ptr, rd_ptr)

\* Fault: one word more than the memory holds.
FullTooLate == count > DEPTH

full == count >= DEPTH          \* count[AW]
empty == count = 0
rd_data == mem[Address(rd_ptr)]

Init ==
  /\ mem \in Memory
  /\ wr_ptr = 0
  /\ rd_ptr = 0
  /\ port = IdlePort

\* The memory has no reset: a write lands in it with rst_n low, too.
Store(wr_en, word) ==
  mem' = IF wr_en /\ ~full THEN [mem EXCEPT ![Address(wr_ptr)] = word] ELSE mem

\* Fault: a pop from an empty FIFO moves the read pointer.
PopsWhenEmpty(wr_en, word, rd_en) ==
  /\ Store(wr_en, word)
  /\ wr_ptr' = IF wr_en /\ ~full THEN Following(wr_ptr) ELSE wr_ptr
  /\ rd_ptr' = IF rd_en THEN Following(rd_ptr) ELSE rd_ptr
  /\ port' = [rst_n |-> TRUE, offered |-> OneIf(wr_en, word), wanted |-> rd_en,
              accepted |-> OneIf(wr_en /\ ~full, word),
              delivered |-> OneIf(rd_en /\ ~empty, rd_data)]

Clock(wr_en, word, rd_en) ==
  /\ Store(wr_en, word)
  /\ wr_ptr' = IF wr_en /\ ~full THEN Following(wr_ptr) ELSE wr_ptr
  /\ rd_ptr' = IF rd_en /\ ~empty THEN Following(rd_ptr) ELSE rd_ptr
  /\ port' = [rst_n |-> TRUE, offered |-> OneIf(wr_en, word), wanted |-> rd_en,
              accepted |-> OneIf(wr_en /\ ~full, word),
              delivered |-> OneIf(rd_en /\ ~empty, rd_data)]

Reset(wr_en, word) ==
  /\ Store(wr_en, word)
  /\ wr_ptr' = 0
  /\ rd_ptr' = 0
  /\ port' = IdlePort

Next ==
  \E wr_en \in BOOLEAN, word \in Word :
    \/ Reset(wr_en, word)
    \/ \E rd_en \in BOOLEAN : Clock(wr_en, word, rd_en)

Spec == Init /\ [][Next]_vars

-----------------------------------------------------------------------------
(* Properties. *)

TypeOK ==
  /\ mem \in Memory
  /\ wr_ptr \in Pointer
  /\ rd_ptr \in Pointer

\* The comment at sync_fifo.sv:26, "count never exceeds DEPTH", on which the
\* one-bit test for full rests.
CountWithinDepth == count <= DEPTH

\* The pointers and the memory are a FIFO of DEPTH places: writes when full
\* are dropped, nothing else is, across every wrap of the pointers
\* (sync_fifo.sv:25-44).
Fifo == INSTANCE ByteFifo WITH
          Item <- Word, Depth <- DEPTH, queue <- Words(mem, rd_ptr, count)
ImplementsFifo == Fifo!Spec
=============================================================================

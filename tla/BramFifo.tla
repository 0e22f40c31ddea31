------------------------------ MODULE BramFifo ------------------------------
(***************************************************************************)
(* fpga/basys3/bram_fifo.sv: the RX FIFO of the board.  The memory has a   *)
(* registered read port, addressed with the read pointer after this edge's *)
(* pop, and the reader goes by a write pointer that is one edge behind.    *)
(* Both ports are free, as in SyncFifo; "port" is a ghost.                 *)
(***************************************************************************)
EXTENDS FifoPointers, PortTrace

VARIABLES mem, rd_data, wr_ptr, wr_ptr_visible, rd_ptr, port

vars == <<mem, rd_data, wr_ptr, wr_ptr_visible, rd_ptr, port>>

stored == Distance(wr_ptr, rd_ptr)

\* Fault: full goes by the words that the reader can see.
FullByVisible == Distance(wr_ptr_visible, rd_ptr) >= DEPTH

full == stored >= DEPTH         \* stored[AW]

\* Fault: the reader goes by the write pointer itself.
CountWithoutDelay == stored

count == Distance(wr_ptr_visible, rd_ptr)
empty == count = 0

do_read(rd_en) == rd_en /\ ~empty

rd_ptr_next(rd_en) == IF do_read(rd_en) THEN Following(rd_ptr) ELSE rd_ptr

Init ==
  /\ mem \in Memory
  /\ rd_data \in Word
  /\ wr_ptr = 0
  /\ wr_ptr_visible = 0
  /\ rd_ptr = 0
  /\ port = IdlePort

\* Fault: the memory is read at the pointer from before the pop.
ReadsBehindPop(wr_en, word, rd_en) ==
  /\ mem' = IF wr_en /\ ~full
            THEN [mem EXCEPT ![Address(wr_ptr)] = word] ELSE mem
  /\ rd_data' = mem[Address(rd_ptr)]

\* The memory's two ports.  Neither has a reset, and the read port returns
\* the content from before the write.
AccessMemory(wr_en, word, rd_en) ==
  /\ mem' = IF wr_en /\ ~full
            THEN [mem EXCEPT ![Address(wr_ptr)] = word] ELSE mem
  /\ rd_data' = mem[Address(rd_ptr_next(rd_en))]

Clock(wr_en, word, rd_en) ==
  /\ AccessMemory(wr_en, word, rd_en)
  /\ wr_ptr' = IF wr_en /\ ~full THEN Following(wr_ptr) ELSE wr_ptr
  /\ wr_ptr_visible' = wr_ptr
  /\ rd_ptr' = rd_ptr_next(rd_en)
  /\ port' = [rst_n |-> TRUE, offered |-> OneIf(wr_en, word), wanted |-> rd_en,
              accepted |-> OneIf(wr_en /\ ~full, word),
              delivered |-> OneIf(do_read(rd_en), rd_data)]

\* Fault: reset forgets the delayed write pointer.
ResetKeepsVisible(wr_en, word, rd_en) ==
  /\ AccessMemory(wr_en, word, rd_en)
  /\ wr_ptr' = 0
  /\ rd_ptr' = 0
  /\ port' = IdlePort
  /\ UNCHANGED wr_ptr_visible

Reset(wr_en, word, rd_en) ==
  /\ AccessMemory(wr_en, word, rd_en)
  /\ wr_ptr' = 0
  /\ wr_ptr_visible' = 0
  /\ rd_ptr' = 0
  /\ port' = IdlePort

Next ==
  \E wr_en, rd_en \in BOOLEAN, word \in Word :
    Reset(wr_en, word, rd_en) \/ Clock(wr_en, word, rd_en)

Spec == Init /\ [][Next]_vars

-----------------------------------------------------------------------------
(* Properties. *)

TypeOK ==
  /\ mem \in Memory
  /\ rd_data \in Word
  /\ wr_ptr \in Pointer
  /\ wr_ptr_visible \in Pointer
  /\ rd_ptr \in Pointer

\* The comment at bram_fifo.sv:33, "stored never exceeds DEPTH"; and the
\* reader never counts a word that is not stored.
StoredWithinDepth == count <= stored /\ stored <= DEPTH

\* The comment at bram_fifo.sv:5: the registered output always shows the word
\* at the head of the FIFO, however writes, pops and resets interleave.
HeadIsShown == ~empty => rd_data = mem[Address(rd_ptr)]

\* The comment at bram_fifo.sv:6-8: what the read port fetches on an edge that
\* writes the same address is never shown, so it does not matter what the
\* memory returns in that case.
CollisionIsNotShown ==
  [][port'.accepted # << >> /\ Address(wr_ptr) = Address(rd_ptr') => empty']_vars

\* The FIFO keeps every word it accepts, in order, and shows it one edge late
\* (bram_fifo.sv:32-57).
Lagged == INSTANCE LaggedFifo WITH
            Item <- Word, Depth <- DEPTH,
            visible <- Words(mem, rd_ptr, count),
            arriving <- Words(mem, wr_ptr_visible,
                              Distance(wr_ptr, wr_ptr_visible))
ImplementsLaggedFifo == Lagged!Spec
=============================================================================

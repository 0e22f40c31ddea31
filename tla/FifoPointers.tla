---------------------------- MODULE FifoPointers ----------------------------
(***************************************************************************)
(* The pointer arithmetic that fpga/basys3/sync_fifo.sv and bram_fifo.sv   *)
(* share.  A pointer has one bit more than an address, so that a full and  *)
(* an empty FIFO differ; every operation on it is modulo 2 * DEPTH.        *)
(***************************************************************************)
EXTENDS Integers, Sequences

CONSTANTS DEPTH, Word

\* Both files: DEPTH must be a power of two, which makes the truncation to
\* $clog2(DEPTH) bits a remainder.  An address has at least one bit.
ASSUME DepthAssumption ==
  /\ DEPTH \in Nat /\ DEPTH > 1
  /\ \E AW \in 1 .. DEPTH : DEPTH = 2^AW

\* The memory powers up with some content.
ASSUME WordAssumption == Word # {}

Pointer == 0 .. 2 * DEPTH - 1
Memory == [0 .. DEPTH - 1 -> Word]

Address(ptr) == ptr % DEPTH

\* Fault: a pointer with one bit too many.
FollowingTooWide(ptr) == (ptr + 1) % (4 * DEPTH)

Following(ptr) == (ptr + 1) % (2 * DEPTH)
Distance(ahead, behind) == (ahead - behind) % (2 * DEPTH)

\* The "number" words of memory "m" that start at pointer "ptr".
Words(m, ptr, number) ==
  [i \in 1 .. number |-> m[Address(ptr + i - 1)]]
=============================================================================

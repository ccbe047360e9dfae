-------------------------- MODULE CircularBuffer --------------------------
(***************************************************************************)
(* hittop::io::CircularBuffer: a ring of Capacity bytes between two heads  *)
(* that run free in unsigned integers of a fixed width.  Modulus stands    *)
(* for 2^64: the heads wrap, and the size is their wrapped difference.     *)
(*                                                                         *)
(* The module gives the buffer's state, its operations as actions on that  *)
(* state (commit, consume) and as values (data, prepare), and what they    *)
(* rely on.  It has no behaviour of its own: its user                      *)
(* AsyncCircularBufferStream calls it with its mutex held.                 *)
(***************************************************************************)
EXTENDS Integers, Sequences

CONSTANTS
  Capacity,    \* 1 << size_log_2
  Modulus      \* the number of values of std::size_t

(***************************************************************************)
(* A power of two divides 2^64 and, as size_log_2 is an int, is far below  *)
(* it.                                                                     *)
(***************************************************************************)
ASSUME CapacityAssumption ==
  /\ Capacity \in Nat \ {0}
  /\ Modulus \in Nat
  /\ Modulus >= 2 * Capacity
ASSUME MaskAssumption == Modulus % Capacity = 0

VARIABLES
  storage_,      \* storage_[i]: the byte in cell i
  read_head_,
  write_head_

bufferVars == <<storage_, read_head_, write_head_>>

Heads == 0..(Modulus - 1)
Cells == 0..(Capacity - 1)

\* Unsigned addition and subtraction of at most Modulus.
HeadAdd(head, n) ==
  IF head + n < Modulus THEN head + n ELSE head + n - Modulus

HeadSub(a, b) == IF a >= b THEN a - b ELSE a - b + Modulus

BufferInit(byte) ==
  /\ storage_ = [i \in Cells |-> byte]
  /\ read_head_ = 0
  /\ write_head_ = 0

size  == HeadSub(write_head_, read_head_)
space == Capacity - size

\* head & mask_
Masked(head) == head % Capacity

commit(byte_count) ==
  /\ write_head_' = HeadAdd(write_head_, byte_count)
  /\ UNCHANGED <<storage_, read_head_>>

consume(byte_count) ==
  /\ read_head_' = HeadAdd(read_head_, byte_count)
  /\ UNCHANGED <<storage_, write_head_>>

\* Wrong: the two segments the other way round.
GetRangeSwapped(offset, count) ==
  IF offset + count <= Capacity
  THEN << [at |-> offset, len |-> count] >>
  ELSE << [at |-> 0, len |-> offset + count - Capacity],
          [at |-> offset, len |-> Capacity - offset] >>

(***************************************************************************)
(* The buffers that cover count bytes from cell offset on: one, or two     *)
(* when the range runs over the end of the storage.                        *)
(***************************************************************************)
GetRange(offset, count) ==
  IF offset + count <= Capacity
  THEN << [at |-> offset, len |-> count] >>
  ELSE << [at |-> offset, len |-> Capacity - offset],
          [at |-> 0, len |-> offset + count - Capacity] >>

\* Wrong: everything up to the end of the storage.
dataToTheEnd    == GetRange(Masked(read_head_), Capacity - Masked(read_head_))
prepareToTheEnd == GetRange(Masked(write_head_), Capacity - Masked(write_head_))

data    == GetRange(Masked(read_head_), size)
prepare == GetRange(Masked(write_head_), space)

---------------------------------------------------------------------------
(* What a client does with a buffer sequence.                               *)

Total(buffers) ==
  IF buffers = <<>> THEN 0
  ELSE IF Len(buffers) = 1 THEN buffers[1].len
  ELSE buffers[1].len + buffers[2].len

\* The cell of the i-th byte (from 0) of a buffer sequence.
CellAt(buffers, i) ==
  IF i < buffers[1].len THEN buffers[1].at + i
                        ELSE buffers[2].at + (i - buffers[1].len)

CellsOf(buffers) == {CellAt(buffers, i) : i \in 0..(Total(buffers) - 1)}
===========================================================================

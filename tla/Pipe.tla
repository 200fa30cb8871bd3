------------------------------- MODULE Pipe --------------------------------
(***************************************************************************)
(* The kernel's unidirectional pipe (kernel/fs/pipe.c): a ring buffer of   *)
(* sz bytes with a read and a write index.  read_ptr = write_ptr means     *)
(* empty, so at most sz - 1 bytes are ever stored.                         *)
(*                                                                         *)
(* Each call is one action.  Its callers are the read and write system     *)
(* calls and the keyboard interrupt; all of them enter through interrupt   *)
(* gates (0xee for int 0x30, 0x8e for the IRQs), which clear IF, so on     *)
(* this uniprocessor no other caller runs between two iterations of the    *)
(* byte loops, and the closed form of a loop is what a caller observes.    *)
(***************************************************************************)
EXTENDS Integers, Sequences

CONSTANTS
  Byte,       \* the values of a byte
  Sz          \* the size pipe_create was given

ASSUME SzAssumption == Sz \in Nat \ {0}

VARIABLES
  buf,        \* pipe->buf, indexed from 0
  read_ptr,
  write_ptr

pipeVars == <<buf, read_ptr, write_ptr>>

Index == 0 .. Sz - 1

SmallerOf(a, b) == IF a < b THEN a ELSE b

-----------------------------------------------------------------------------
\* Bytes waiting to be read.
pipe_size ==
  IF read_ptr = write_ptr THEN 0
  ELSE IF read_ptr > write_ptr THEN (Sz - read_ptr) + write_ptr
  ELSE write_ptr - read_ptr

\* Mutant: the slot that tells a full ring from an empty one is given away.
pipe_avail_AllSlots ==
  IF read_ptr = write_ptr THEN Sz
  ELSE IF read_ptr > write_ptr THEN read_ptr - write_ptr
  ELSE (Sz - write_ptr) + read_ptr

\* Bytes that can still be written.
pipe_avail ==
  IF read_ptr = write_ptr THEN Sz - 1
  ELSE IF read_ptr > write_ptr THEN read_ptr - write_ptr - 1
  ELSE (Sz - write_ptr) + read_ptr - 1

\* How far the slot i lies after the slot from, going round the ring.
Offset(i, from) == IF i >= from THEN i - from ELSE i + Sz - from

\* Mutant: the wrap round the end of the buffer is forgotten.
Advance_NoWrap(ptr, n) == ptr + n

\* (ptr + n) % sz for the n single steps of a loop that makes at most sz - 1.
Advance(ptr, n) == (ptr + n) % Sz

\* The count oldest bytes of the ring.
Oldest(count) == [i \in 1 .. count |-> buf[Advance(read_ptr, i - 1)]]

\* kmalloc leaves the buffer's bytes as they were; memset clears the indices.
pipe_create ==
  /\ buf \in [Index -> Byte]
  /\ read_ptr = 0
  /\ write_ptr = 0

\* A read of sz bytes; read is its return value.
pipe_read(sz, read) ==
  /\ read = SmallerOf(pipe_size, sz)
  /\ read_ptr' = Advance(read_ptr, read)
  /\ UNCHANGED <<buf, write_ptr>>

\* Mutant: a write that does not fit overwrites what is unread.
pipe_write_Overwrite(s, written) ==
  /\ written = SmallerOf(Sz - 1, Len(s))
  /\ buf' = [i \in Index |-> IF Offset(i, write_ptr) < written
                             THEN s[Offset(i, write_ptr) + 1] ELSE buf[i]]
  /\ write_ptr' = Advance(write_ptr, written)
  /\ UNCHANGED read_ptr

\* A write of the bytes s; written is its return value.
pipe_write(s, written) ==
  /\ written = SmallerOf(pipe_avail, Len(s))
  /\ buf' = [i \in Index |-> IF Offset(i, write_ptr) < written
                             THEN s[Offset(i, write_ptr) + 1] ELSE buf[i]]
  /\ write_ptr' = Advance(write_ptr, written)
  /\ UNCHANGED read_ptr

-----------------------------------------------------------------------------
\* Both indices stay inside the buffer and every slot holds a byte: no access
\* of the loops at pipe.c:20 and pipe.c:33 is out of bounds.
TypeOK ==
  /\ buf \in [Index -> Byte]
  /\ read_ptr \in Index
  /\ write_ptr \in Index

\* The two counts pipe_size_p and pipe_avail_p are computed by separate case
\* analyses of the same pair of indices, yet they always share out exactly the
\* sz - 1 usable slots: the loops of pipe_read and pipe_write can never both
\* find room for, or both miss, the same slot.
CountsAgree ==
  /\ pipe_size \in 0 .. Sz - 1
  /\ pipe_size + pipe_avail = Sz - 1

=============================================================================

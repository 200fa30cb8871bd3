------------------------------ MODULE PipeCalls -----------------------------
(***************************************************************************)
(* A pipe and arbitrary callers: every interleaving of fs_read and         *)
(* fs_write on one pipe node, whoever makes the calls.                     *)
(***************************************************************************)
EXTENDS Pipe

CONSTANTS
  Requests,   \* the byte strings callers write
  ReadSizes   \* the sizes callers ask a read for

ASSUME CallsAssumption == Requests \subseteq Seq(Byte) /\ ReadSizes \subseteq Nat

VARIABLE
  last        \* what the last call was and what it returned

vars == <<buf, read_ptr, write_ptr, last>>

-----------------------------------------------------------------------------
Init ==
  /\ pipe_create
  /\ last = [call |-> "create", count |-> 0, bytes |-> << >>]

Read(sz) ==
  \E n \in 0 .. Sz - 1 :
    /\ pipe_read(sz, n)
    /\ last' = [call |-> "read", count |-> n, bytes |-> Oldest(n)]

Write(s) ==
  \E n \in 0 .. Sz - 1 :
    /\ pipe_write(s, n)
    /\ last' = [call |-> "write", count |-> n, bytes |-> << >>]

Next ==
  \/ \E sz \in ReadSizes : Read(sz)
  \/ \E s \in Requests : Write(s)

Spec == Init /\ [][Next]_vars

-----------------------------------------------------------------------------
\* The pipe of pipe.c is a queue of capacity sz - 1: whatever the indices are
\* and however the stored bytes wrap round the end of the buffer, a read
\* returns the oldest bytes in the order they were written, and a write that
\* does not fit keeps the prefix that does and overwrites nothing unread.
Fifo == INSTANCE BoundedFifo
          WITH Capacity <- Sz - 1, queue <- Oldest(pipe_size), last <- last
ImplementsFifo == Fifo!Spec

=============================================================================

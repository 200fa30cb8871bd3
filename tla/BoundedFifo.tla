---------------------------- MODULE BoundedFifo ----------------------------
(***************************************************************************)
(* What a pipe promises its users: a first-in first-out queue of at most   *)
(* Capacity bytes.  A write stores as long a prefix of its argument as     *)
(* fits and says how long that was; a read removes and returns as many     *)
(* bytes as it asked for and the queue holds.  Neither ever blocks.        *)
(***************************************************************************)
EXTENDS Integers, Sequences

CONSTANTS
  Byte,       \* the values of a byte
  Capacity,   \* the most bytes the queue can hold
  Requests,   \* the byte strings callers write
  ReadSizes   \* the sizes callers ask a read for

VARIABLES
  queue,      \* the bytes written and not yet read, oldest first
  last        \* what the last call was and what it returned

SmallerOf(a, b) == IF a < b THEN a ELSE b

Init ==
  /\ queue = << >>
  /\ last = [call |-> "create", count |-> 0, bytes |-> << >>]

Write(s) ==
  LET n == SmallerOf(Capacity - Len(queue), Len(s))
  IN  /\ queue' = queue \o SubSeq(s, 1, n)
      /\ last' = [call |-> "write", count |-> n, bytes |-> << >>]

Read(sz) ==
  LET n == SmallerOf(Len(queue), sz)
  IN  /\ queue' = SubSeq(queue, n + 1, Len(queue))
      /\ last' = [call |-> "read", count |-> n, bytes |-> SubSeq(queue, 1, n)]

Next ==
  \/ \E s \in Requests : Write(s)
  \/ \E sz \in ReadSizes : Read(sz)

Spec == Init /\ [][Next]_<<queue, last>>

=============================================================================

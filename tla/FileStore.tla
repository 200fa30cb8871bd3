----------------------------- MODULE FileStore -----------------------------
(***************************************************************************)
(* What a file system promises of the contents of its files: a write puts  *)
(* its words where it says and leaves every other word alone, a truncation *)
(* keeps what is in front of the new end, and a gap reads as zeros.        *)
(* Once the disk is spoilt nothing is promised any more.                   *)
(***************************************************************************)
EXTENDS Integers, Sequences

CONSTANTS Files, Zero,
          Offsets, Lengths, Sizes,   \* where and how much is written and kept
          Word(_, _)   \* Word(f, i): what is written at offset i of f

VARIABLES content,     \* the words of each file
          spoilt       \* whether a block could not be given or was taken wrongly

fileVars == <<content, spoilt>>

Init == content = [f \in Files |-> << >>] /\ spoilt = FALSE

Bigger(a, b) == IF a < b THEN b ELSE a

Write(f, off, n) ==
  content' = [content EXCEPT ![f] =
    [i \in 1 .. Bigger(Len(@), off + n) |->
       IF off < i /\ i <= off + n THEN Word(f, i - 1)
       ELSE IF i <= Len(@) THEN @[i] ELSE Zero]]

Truncate(f, size) ==
  content' = [content EXCEPT ![f] =
    [i \in 1 .. size |-> IF i <= Len(@) THEN @[i] ELSE Zero]]

Next ==
  \/ /\ ~ spoilt /\ UNCHANGED spoilt
     /\ \E f \in Files : \/ \E off \in Offsets, n \in Lengths : Write(f, off, n)
                         \/ \E size \in Sizes \union {0} : Truncate(f, size)
  \/ spoilt'

Spec == Init /\ [][Next]_fileVars
=============================================================================

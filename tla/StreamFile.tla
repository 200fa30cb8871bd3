----------------------------- MODULE StreamFile -----------------------------
(***************************************************************************)
(* What a program is promised of a stream on a file of fixed size: bytes   *)
(* go to and come from the stream's position, which they advance, nothing  *)
(* else moves, and each call returns what it did.                          *)
(***************************************************************************)
EXTENDS Integers, Sequences

CONSTANTS
  Size, Initial, \* the file at first, a function on 0 .. Size - 1
  Texts,         \* what is written
  ReadSizes,
  SeekTargets    \* positions to seek to

VARIABLES content, pos, answer

streamVars == <<content, pos, answer>>

Answer(op, ret, data) == [op |-> op, ret |-> ret, data |-> data]

Init == content = Initial /\ pos = 0 /\ answer = Answer("none", 0, << >>)

AtMost(a, b) == IF a < b THEN a ELSE b

\* A stream starts at the beginning, or at the end to append.
Open == pos' \in {0, Size} /\ answer' = Answer("fopen", 0, << >>) /\ UNCHANGED content

\* As many bytes as there is room for.
Write(text) ==
  LET n == IF pos > Size THEN 0 ELSE AtMost(Len(text), Size - pos)
  IN /\ content' = [i \in 0 .. Size - 1 |->
                      IF i \in pos .. pos + n - 1 THEN text[i - pos + 1] ELSE content[i]]
     /\ pos' = pos + n
     /\ answer' = Answer("fwrite", n, << >>)

Read(n) ==
  LET got == IF pos > Size THEN 0 ELSE AtMost(n, Size - pos)
  IN /\ answer' = Answer("fread", got, [i \in 0 .. got - 1 |-> content[pos + i]])
     /\ pos' = pos + got
     /\ UNCHANGED content

\* The descriptor was not opened for this.
Refused == /\ \E op \in {"fread", "fwrite"} : answer' = Answer(op, -13, << >>)
           /\ UNCHANGED <<content, pos>>

Seek == /\ pos' \in SeekTargets
        /\ answer' = Answer("fseek", pos', << >>)
        /\ UNCHANGED content

Tell == answer' = Answer("ftell", pos, << >>) /\ UNCHANGED <<content, pos>>

\* The other calls leave the stream where it is; closing gives it up.
Other == /\ \E op \in {"fflush", "setvbuf", "fclose", "exit"} : answer' = Answer(op, 0, << >>)
         /\ pos' \in {pos, 0}
         /\ UNCHANGED content

Next == \/ Open
        \/ \E text \in Texts : Write(text)
        \/ \E n \in ReadSizes : Read(n)
        \/ Refused
        \/ Seek
        \/ Tell
        \/ Other

Spec == Init /\ [][Next]_streamVars
=============================================================================

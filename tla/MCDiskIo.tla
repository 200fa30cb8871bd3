------------------------------ MODULE MCDiskIo ------------------------------
(***************************************************************************)
(* A drive of 32 sectors of two bytes, two sectors to a block, task-file   *)
(* registers of three values.  The partition starts on an odd sector, so   *)
(* no block boundary of the drive is one of the partition, and its sectors *)
(* 25 to 28 need a fourth register.  Every byte holds its address at first.*)
(***************************************************************************)
EXTENDS Stdio

MCImage == [b \in 0 .. 63 |-> IF b = 0 THEN 25 ELSE IF b = 1 THEN 4 ELSE b]

\* One byte, a line in the middle, and more than the buffer holds.
MCTexts == {<<101>>, <<102, Newline, 103>>, <<104, 105, 106, 107, 108, 109>>}

\* The memory malloc gives fopen is zero; or the index in it happens to be 1.
MCNoJunk == {<< >>}
MCJunk == {<< >>, <<0>>}
=============================================================================

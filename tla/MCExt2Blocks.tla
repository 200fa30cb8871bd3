---------------------------- MODULE MCExt2Blocks ----------------------------
(* A file that reaches the doubly indirect block and a directory of up to    *)
(* two blocks, on a disk of two groups that both together fill, for TLC.     *)
EXTENDS Ext2Blocks

MCMaxSize == [f \in Files |-> IF f = 1 THEN 8 ELSE 4]
=============================================================================

----------------------------- MODULE MCExt2Dir -----------------------------
(* Ext2Dir with names of two lengths: a directory's first block holds       *)
(* both, but in the root, where the kernel is, only the short one.          *)
EXTENDS Ext2Dir

MCUnits(name) == IF name \in {"b", "kernel"} THEN 2 ELSE 1
=============================================================================

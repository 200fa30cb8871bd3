------------------------------- MODULE MCPipe ------------------------------
(***************************************************************************)
(* PipeCalls with a four-byte ring, two byte values and every request of up to    *)
(* one byte more than fits.                                                *)
(***************************************************************************)
EXTENDS PipeCalls, SequencesExt

CONSTANT MaxRequest   \* the longest request

MCRequests == BoundedSeq(Byte, MaxRequest)
MCReadSizes == 0 .. MaxRequest
=============================================================================

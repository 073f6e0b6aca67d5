--------------------------- MODULE MCDecoderLife ----------------------------
(* DecoderLife for TLC: one or two capture buffers, and as many descriptor   *)
(* numbers as are in use at a time, so that numbers are given again.         *)
EXTENDS DecoderLife
=============================================================================

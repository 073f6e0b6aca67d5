--------------------------- MODULE MCDecChannels ----------------------------
(* One or two channels with a short camera stream each; the configurations *)
(* choose the codec, what can be lost and which device calls can fail.     *)
EXTENDS DecChannels
=============================================================================

---------------------------- MODULE MCDecCodecs -----------------------------
(* The byte buffer of a channel for itself, or the channels with H.265: a   *)
(* behaviour is of one of these.  Every kind of NAL unit comes from a       *)
(* camera whose channel the layouts show and hide; the channels' buffers    *)
(* hold three fragments, one too few for two parameter sets and a frame.    *)
(* The byte buffer has a heap of five bytes and takes chunks of up to       *)
(* three: appends that fill it, compactions and overflows all happen.       *)
EXTENDS DecChannels, DecBuf

VARIABLE part

MCInit == part \in {"channels", "bytes"} /\ Init /\ BufInit

MCNext ==
  /\ UNCHANGED part
  /\ \/ part = "bytes" /\ BufNext /\ UNCHANGED vars
     \/ part = "channels" /\ Next /\ UNCHANGED bufVars

MCSpec == MCInit /\ [][MCNext]_<<part, vars, bufVars>>
=============================================================================

------------------------------- MODULE MCOsal -------------------------------
(* Two channels; delays of one, two and three ticks keep the order of the  *)
(* 300, 1000 and 150000 milliseconds of the code.                          *)
EXTENDS Osal
=============================================================================

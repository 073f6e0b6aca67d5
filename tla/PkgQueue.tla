------------------------------ MODULE PkgQueue ------------------------------
(***************************************************************************)
(* What the unix socket between the two processes promises: the decoder    *)
(* handles the packets that rtsp_bin sends, each once, whole and in order. *)
(***************************************************************************)
EXTENDS Naturals, Sequences

CONSTANT Packet(_)   \* the bytes of the n-th packet

VARIABLES
  sent,      \* number of packets sent
  handled    \* the packets handled, as the decoder got them

Init == sent = 0 /\ handled = << >>

\* Some packets at a time.
Send == sent' \in Nat /\ sent' > sent /\ UNCHANGED handled

Handle ==
  /\ Len(handled) < sent
  /\ handled' = Append(handled, Packet(Len(handled) + 1))
  /\ UNCHANGED sent

Next == Send \/ Handle

Spec == Init /\ [][Next]_<<sent, handled>>
=============================================================================

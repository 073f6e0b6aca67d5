---------------------------- MODULE MCRtspMedia -----------------------------
(* RtspMedia for TLC: three pools, two channels, three cameras.  main starts  *)
(* with an open one; channel 0 is then offered one that asks for a password,  *)
(* or none, and channel 1 one that does not answer, or its address with an    *)
(* empty URL.  Free pools are all alike, so get_pool gives one that is fixed. *)
EXTENDS RtspMedia

CONSTANTS open, locked, dark, bare, nothing

AllCams == {open, locked, dark}
Answers == {open, locked}
AsksPassword == {locked}
NotCams == {bare, nothing}
Offered == [c \in Channels |-> IF c = 0 THEN {locked, nothing} ELSE {dark, bare}]
Matching == [c \in AllCams |-> IF c = dark THEN {dark, bare} ELSE {c}]
FirstFree == [free \in SUBSET Clients |-> IF free = {} THEN {} ELSE {CHOOSE i \in free : TRUE}]
=============================================================================

----------------------------- MODULE ConfigPort -----------------------------
(***************************************************************************)
(* The port on which rtsp_bin takes its configuration (rtsp/main.c         *)
(* server_read_handle, config_pkg, search_pkg_head).  A package is a       *)
(* struct netConfig_st, found by the four bytes of its magic number; what  *)
(* is not one is thrown away up to the next three of them.  What a package *)
(* does to the clients is RtspMedia's; here it is served.                  *)
(*                                                                         *)
(* A byte is <<n, v>>: of package n, or of none when n = 0; its value v is *)
(* 1 to 4 for the bytes of the magic number in their order.                *)
(***************************************************************************)
EXTENDS Naturals, Sequences, SequencesExt

CONSTANTS
  CfgLen,      \* sizeof(struct netConfig_st)
  Packages,    \* bound: packages the client sends
  Noise        \* what may come before a package that is none

\* Noise with the magic number in it would be a package.
ASSUME PortAssumption ==
  /\ CfgLen \in Nat /\ CfgLen >= 4
  /\ Packages \in Nat
  /\ \A noise \in Noise :
       /\ noise \in Seq(Nat)
       /\ \A i \in 0 .. Len(noise) - 4 : \E v \in 1 .. 4 : noise[i + v] # v

VARIABLES
  asked,       \* packages the client has sent
  port,        \* the bytes that are on their way
  cfgBuf,      \* c->readBuf
  served       \* the packages served

portVars == <<asked, port, cfgBuf, served>>

Package(n) == [i \in 1 .. CfgLen |-> <<n, i>>]
Garbage(values) == [i \in DOMAIN values |-> <<0, values[i]>>]

PortInit ==
  /\ asked = 0
  /\ port = << >>
  /\ cfgBuf = << >>
  /\ served = << >>

\* The client sends a package, with noise before it.
SendPackage ==
  /\ asked < Packages
  /\ asked' = asked + 1
  /\ \E noise \in Noise : port' = port \o (Garbage(noise) \o Package(asked + 1))
  /\ UNCHANGED <<cfgBuf, served>>

\* The bytes of buf after the first n have the values of the first k of magic.
Heads(buf, n, k) == \A i \in 1 .. k : buf[n + i][2] = i

\* config_pkg: a package begins after the first n bytes of buf, and is there whole.
IsPackage(buf, n) == n + CfgLen <= Len(buf) /\ Heads(buf, n, 4)

\* k packages follow each other from the head of buf on, and no more.
HoldsPackages(buf, k) ==
  /\ \A j \in 0 .. k - 1 : IsPackage(buf, j * CfgLen)
  /\ ~IsPackage(buf, k * CfgLen)

\* Mutant of SearchPkgHead: nothing is kept when no head is found.
SearchPkgHeadToEnd(buf) ==
  Min({ i \in 0 .. Len(buf) - 3 : Heads(buf, i, 3) } \cup {Len(buf)})

\* search_pkg_head: the last two bytes may be the beginning of a head.
SearchPkgHead(buf) ==
  Min({ i \in 0 .. Len(buf) - 3 : Heads(buf, i, 3) } \cup {Len(buf) - 2})

\* What is left behind k packages, which is short or a bad package.
Left(buf, k) ==
  LET rest == SubSeq(buf, k * CfgLen + 1, Len(buf))
  IN  IF Len(rest) < CfgLen THEN rest
      ELSE SubSeq(rest, SearchPkgHead(rest) + 1, Len(rest))

\* server_read_handle: n bytes come, of 4096 at most, more than the client
\* sends in all, and k packages are served.  After a bad package the next one
\* is looked for only when more bytes come.
ReadConfig(n, k) ==
  LET buf == cfgBuf \o SubSeq(port, 1, n)
  IN  /\ HoldsPackages(buf, k)
      /\ port' = SubSeq(port, n + 1, Len(port))
      /\ cfgBuf' = Left(buf, k)
      /\ served' = served \o [j \in 1 .. k |-> buf[(j - 1) * CfgLen + 1][1]]
      /\ UNCHANGED asked

-----------------------------------------------------------------------------
\* Packages of which no byte has been thrown away.
Waiting(n) ==
  \E i \in 0 .. Len(cfgBuf) + Len(port) - CfgLen :
    SubSeq(cfgBuf \o port, i + 1, i + CfgLen) = Package(n)

(* Whatever comes between packages, and wherever the bytes that have come  *)
(* end: each package is served once and in order, and none is thrown away  *)
(* with what comes before it (rtsp/main.c:88-96, 270-281).                 *)
NoPackageLost ==
  /\ \A k \in DOMAIN served : served[k] = k
  /\ \A n \in Len(served) + 1 .. asked : Waiting(n)
=============================================================================

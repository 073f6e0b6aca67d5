----------------------------- MODULE FileReader -----------------------------
(***************************************************************************)
(* read_decoder_input_nalu of fileDecoder/decoder.cpp: the next NAL unit   *)
(* of a file.  A window of one chunk is read, the first start code in it   *)
(* is searched, then the next one, to which the stream is set back.        *)
(*                                                                         *)
(* A file is its length and its units, each [at, code, slice]: where its   *)
(* start code begins, of how many bytes that is, and whether a picture can *)
(* be decoded from the unit.  What was copied is the pair of positions     *)
(* between which it lies in the file.                                      *)
(***************************************************************************)
EXTENDS Integers, Sequences, SequencesExt, FiniteSetsExt

CONSTANT Chunk   \* CHUNK_SIZE

ASSUME ChunkAssumption == Chunk \in Nat /\ Chunk > 3

\* Units follow each other, each with at least one byte behind its start code.
WellFormed(file) ==
  /\ file.len \in Nat
  /\ file.units \in Seq([at : Nat, code : {3, 4}, slice : BOOLEAN])
  /\ \A n \in DOMAIN file.units : file.units[n].at + file.units[n].code < file.len
  /\ \A m, n \in DOMAIN file.units :
       m < n => file.units[m].at + file.units[m].code < file.units[n].at

\* bytesused = 0
Nothing == <<0, 0>>
IsNothing(range) == range[1] = range[2]

\* IS_NAL_UNIT_START and IS_NAL_UNIT_START1: a code of four bytes holds one of
\* three.
Starts(file) ==
  UNION { IF u.code = 4 THEN {u.at, u.at + 1} ELSE {u.at} : u \in ToSet(file.units) }

\* gcount() after read().
BytesRead(file, stream) ==
  IF stream.fail THEN 0 ELSE Min({Chunk, file.len - stream.pos})
WindowEnd(file, stream) == stream.pos + BytesRead(file, stream)

\* The start codes the loops find: they stop three bytes before the end.
Seen(file, stream, from) ==
  { q \in Starts(file) : from <= q /\ q < WindowEnd(file, stream) - 3 }

\* The stream after the whole window: a short read sets eofbit and failbit.
AfterWindow(file, stream) ==
  [ pos |-> WindowEnd(file, stream), fail |-> BytesRead(file, stream) < Chunk ]

\* Mutant of AtNext: what the short read has set is not cleared.
AtNextNotCleared(file, stream, next) ==
  [pos |-> next, fail |-> AfterWindow(file, stream).fail]

\* clear() and seekg().
AtNext(file, stream, next) == [pos |-> next, fail |-> FALSE]

\* The buffer keeps what it held when no start code is in sight.
ReadNalu(file, stream, held) ==
  IF BytesRead(file, stream) = 0 THEN [stream |-> [stream EXCEPT !.fail = TRUE], data |-> Nothing]
  ELSE LET firsts == Seen(file, stream, stream.pos)
           first  == Min(firsts)
           nexts  == Seen(file, stream, first + 4)
       IN CASE firsts = {} -> [stream |-> AfterWindow(file, stream), data |-> held]
            [] firsts # {} /\ nexts = {} ->
                 [ stream |-> AfterWindow(file, stream),
                   data   |-> <<first, Max({first + 4, WindowEnd(file, stream) - 3})>> ]
            [] firsts # {} /\ nexts # {} ->
                 [ stream |-> AtNext(file, stream, Min(nexts)),
                   data   |-> <<first, Min(nexts)>> ]

\* The unit that a copied range begins with is a slice.
HasSlice(file, range) ==
  \E u \in ToSet(file.units) : u.slice /\ range[1] \in {u.at, u.at + u.code - 3}
=============================================================================

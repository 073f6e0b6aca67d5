---------------------------- MODULE MCFileDecoder ----------------------------
(* FileDecoder for TLC: three files whose units fit the chunk, two with      *)
(* leading bytes; one with a unit longer than two windows; one without units. *)
EXTENDS FileDecoder

Unit3(at, slice) == [at |-> at, code |-> 3, slice |-> slice]
Unit4(at, slice) == [at |-> at, code |-> 4, slice |-> slice]

MCFiles ==
  { [units |-> <<Unit4(0, FALSE), Unit3(8, TRUE), Unit4(15, TRUE)>>, len |-> 25],
    [units |-> <<Unit3(3, FALSE), Unit4(8, TRUE)>>, len |-> 20],
    [units |-> <<Unit4(0, FALSE), Unit3(6, TRUE), Unit4(36, TRUE)>>, len |-> 46],
    [units |-> <<Unit4(2, TRUE), Unit4(8, FALSE), Unit3(16, TRUE), Unit3(22, TRUE)>>, len |-> 27],
    [units |-> << >>, len |-> 5] }
=============================================================================

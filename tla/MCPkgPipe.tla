----------------------------- MODULE MCPkgPipe ------------------------------
(* Short packets, of which a chunk holds two and a part of a third, and    *)
(* packages of five bytes between noise of which some resembles a package. *)
EXTENDS PkgPipe

NoiseOf == { << >>, <<0, 0, 1>>, <<1, 2>>, <<0, 0, 0, 0, 1, 2>>, <<1, 2, 3, 0>> }
=============================================================================

--------------------------- MODULE MCChunkedSearch ---------------------------
(* Instances of ChunkedSearch for TLC. *)
EXTENDS ChunkedSearch

MCQuery == {0, 1}
MCMatch == {<<0, 0>>, <<0, 3>>, <<0, 4>>, <<1, 1>>, <<1, 2>>, <<1, 6>>}
=============================================================================

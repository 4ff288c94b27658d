---------------------------- MODULE MCStartupLoad ----------------------------
(* The loader with three rows, ranges of two records and two partitions.   *)
EXTENDS StartupLoad
=============================================================================

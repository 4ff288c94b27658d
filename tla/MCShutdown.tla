------------------------------ MODULE MCShutdown ------------------------------
(* A channel of two results and a counter of six values.                   *)
EXTENDS Shutdown
===============================================================================

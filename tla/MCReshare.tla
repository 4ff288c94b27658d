------------------------------ MODULE MCReshare ------------------------------
(* Two clients that may be started, and started again, with other settings. *)
EXTENDS Reshare
=============================================================================

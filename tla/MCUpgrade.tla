-------------------------------- MODULE MCUpgrade --------------------------------
(* Two servers, batches of two rows, ranges of three: databases that agree *)
(* on three rows (a full batch and a rest), or have the same hole and so a *)
(* full batch only; command lines that differ; databases that are out of   *)
(* step, between the clients and between shares and masks.                 *)
EXTENDS Upgrade

Line(start, end, eye) == [start |-> start, end |-> end, batch_size |-> 2, eye |-> eye]
MCServer == <<"s0", "s1">>
Setup(start, end0, end1, rows0, rows1, masks0, masks1) ==
    [args |-> [c \in {0, 1} |-> Line(start, IF c = 0 THEN end0 ELSE end1, "left")],
     shares |-> [c \in {0, 1} |-> IF c = 0 THEN rows0 ELSE rows1],
     masks |-> [c \in {0, 1} |-> IF c = 0 THEN masks0 ELSE masks1]]
All == <<0, 1, 2, 3>>
Gap == <<0, 1, 3>>
Holes == <<0, 2>>
MCSetups ==
    {Setup(1, 4, 4, All, All, All, All), Setup(0, 3, 3, Holes, Holes, Holes, Holes),
     Setup(0, 3, 4, All, All, All, All), Setup(0, 3, 3, Holes, All, Holes, All),
     Setup(0, 3, 3, All, All, Gap, Gap)}
===================================================================================

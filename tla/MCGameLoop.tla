----------------------------- MODULE MCGameLoop -----------------------------
(* Instances of GameLoop for TLC. *)
EXTENDS GameLoop
CONSTANTS p1, p2, p3
=============================================================================

---------------------------- MODULE MCActionStream ----------------------------
(* Instances of ActionStream for TLC. *)
EXTENDS ActionStream
CONSTANTS p1, p2, p3

\* The two players without GProxy++ are alike.
Alike == Permutations({p2, p3})
=============================================================================

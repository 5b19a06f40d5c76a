----------------------------- MODULE MCModeration -----------------------------
(* Instances of Moderation for TLC. *)
EXTENDS Moderation
CONSTANTS bob, A, B

TwoRealms == <<A, B>>
=============================================================================

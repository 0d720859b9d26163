---------------------------- MODULE MCEmailGrant ----------------------------
(* TLC instances of EmailGrant. *)
EXTENDS EmailGrant, TLC

Symmetry == Permutations(Jti) \cup Permutations(Call)
=============================================================================

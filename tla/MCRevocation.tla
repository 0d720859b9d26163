----------------------------- MODULE MCRevocation -----------------------------
(* TLC instance of SessionRevocation alone. *)
EXTENDS SessionRevocation

Expiries == [j \in Jti |-> 3]
=============================================================================

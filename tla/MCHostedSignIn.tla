--------------------------- MODULE MCHostedSignIn ---------------------------
(* TLC instances of HostedSignIn. *)
EXTENDS HostedSignIn, TLC

HostedSymmetry ==
    Permutations(Call) \cup Permutations(Browser) \cup Permutations(Handle)
        \cup Permutations(RequestId) \cup Permutations(Grant)

\* A second mail, a change of the rules and the expiry of a proof are each followed
\* to the end, but not together.
HostedBounded ==
    /\ lapsed # {} => Cardinality(mails) <= 1
    /\ rules # Email \X Site => Cardinality(mails) <= 1 /\ lapsed = {}
=============================================================================

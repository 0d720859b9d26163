------------------------------ MODULE MCManager ------------------------------
EXTENDS Manager, TLC

CONSTANTS s1, s2, a, r

\* The base file: one managed site, one the operator keeps; in the first file
\* the operator has given one person both "*" and a named scope there, and in the last
\* the managed site is missing.
File(rest, managed, other) ==
    [rest |-> rest, rules |-> (s1 :> [e \in Email |-> managed]) @@ (s2 :> [e \in Email |-> other])]
MCBaseFiles == {File(1, {Full}, {Full, r}), File(2, {r}, {}),
                [rest |-> 1, rules |-> (s2 :> [e \in Email |-> {}])]}
MCSnapshots == {[s \in {} |-> {}],
                s1 :> [grants |-> {[email |-> e, scopes |-> {r}] : e \in Email}, catalog |-> {}]}
=============================================================================

------------------------------- MODULE MCClassic -------------------------------
(* TLC instance of the two sides of a classic e-mail sign-in: each behaviour is one
   of the server's grants or one of an application and its visitor. *)
EXTENDS EmailGrant, ClassicClient, TLC

VARIABLE side

\* The configuration names a link after its mail and a call after its tab, so that one
\* permutation serves both sides.
ClassicSymmetry == Permutations(Tab) \union Permutations(Mail) \union Permutations(Url)

ClassicInit ==
    /\ side \in {"server", "application"}
    /\ Init
    /\ ClientInit
    \* The side that does not move stands in one place.
    /\ side = "server" =>
           /\ app = "nuxt" /\ page = [t \in Tab |-> Landed(Nil)]
           /\ \A m, n \in Mail : asked[m] = asked[n]

ClassicNext ==
    \/ side = "server" /\ Next /\ UNCHANGED <<side, clientVars>>
    \/ side = "application" /\ ClientNext /\ UNCHANGED <<side, vars>>

ClassicSpec == ClassicInit /\ [][ClassicNext]_<<side, vars, clientVars>>
================================================================================

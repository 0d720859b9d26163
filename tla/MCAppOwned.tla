------------------------------- MODULE MCAppOwned -------------------------------
EXTENDS AppOwnedSignIn, TLC

Symmetric == Permutations(State) \union Permutations(Req) \union Permutations(Mail)
                 \union Permutations(Email) \union Permutations(Tab) \union Permutations(Browser)
================================================================================

------------------------- MODULE MCBrowserSsoStore -------------------------
(* TLC instances of BrowserSsoStore. *)
EXTENDS BrowserSsoStore, TLC

Symmetry == Permutations(Browser) \cup Permutations(Handle) \cup Permutations(RequestId)
               \cup Permutations(Ticket)
=============================================================================

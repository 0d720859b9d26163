---------------------------- MODULE MCOccSessions ----------------------------
(***************************************************************************)
(* BrowserSsoOcc with the operations that race at logout: redeemCode,       *)
(* redeemBootstrapTicket and endBrowserSession of one browser.  A session   *)
(* or ticket holds its binding's epoch, the binding holds the current one,  *)
(* a stored code holds 0.                                                   *)
(***************************************************************************)
EXTENDS BrowserSsoOcc, TLC

CONSTANTS
    Redeemers, Adopters, Leavers,  \* calls of the three operations
    MaxEpoch,                      \* bound: logouts of the browser
    Expiring                       \* keys whose deadline may pass meanwhile

Symmetry == Permutations(Redeemers)

MCTxn   == Redeemers \cup Adopters \cup Leavers
MCKey   == {"code", "session", "binding", "ticket", "adopted"}
MCValue == {Absent} \cup 0..MaxEpoch
MCAnswer == {"redeemed", "rejected", "ended"}
MCInitially == {[k \in MCKey |-> IF k = "adopted" THEN Absent ELSE 0]}
MCMayExpire(k, d) == k \in Expiring

Missing(seen, k) == k \in DOMAIN seen /\ seen[k] = Absent
Mismatch(seen, k) ==
    /\ {k, "binding"} \subseteq DOMAIN seen
    /\ seen[k] # seen["binding"]

\* The keys an operation asks for, in order, and when it answers without more.
Path(t) == CASE t \in Redeemers -> <<"code", "session", "binding">>
             [] t \in Adopters  -> <<"ticket", "binding", "adopted">>
             [] t \in Leavers   -> <<"session", "binding">>
Rejects(t, seen) ==
    \/ t \in Redeemers /\ (\/ \E k \in {"code", "session", "binding"} : Missing(seen, k)
                           \/ Mismatch(seen, "session"))
    \/ t \in Adopters  /\ (\/ \E k \in {"ticket", "binding"} : Missing(seen, k)
                           \/ Mismatch(seen, "ticket"))
    \/ t \in Leavers /\ "binding" \in DOMAIN seen /\ seen["binding"] = MaxEpoch  \* the bound

MCNextKey(t, seen) ==
    LET unread == {i \in DOMAIN Path(t) : Path(t)[i] \notin DOMAIN seen}
    IN  IF Rejects(t, seen) \/ unread = {} THEN Enough
        ELSE Path(t)[CHOOSE i \in unread : \A j \in unread : i <= j]

MCEffect(t, seen) ==
    IF Rejects(t, seen) THEN Nothing
    ELSE CASE t \in Redeemers -> [k \in {"code"} |-> Absent]
           [] t \in Adopters  -> [k \in {"ticket", "adopted", "binding"} |->
                                    IF k = "ticket" THEN Absent ELSE seen["binding"]]
           [] t \in Leavers   -> [k \in {"session", "binding"} |->
                                    IF k = "session" \/ Missing(seen, "binding") THEN Absent
                                    ELSE seen["binding"] + 1]

MCResult(t, seen) ==
    IF Rejects(t, seen) THEN "rejected"
    ELSE IF t \in Leavers THEN "ended" ELSE "redeemed"

\* The operations BrowserSsoOcc is run with here are these.
ASSUME SessionsAssumption ==
    /\ Txn = MCTxn /\ Key = MCKey /\ Value = MCValue /\ Answer = MCAnswer
    /\ Initially = MCInitially
    /\ \A t \in Txn, seen \in Seen :
          /\ NextKey(t, seen) = MCNextKey(t, seen)
          /\ NextKey(t, seen) = Enough =>
                 Effect(t, seen) = MCEffect(t, seen) /\ Result(t, seen) = MCResult(t, seen)
    /\ Redeemers \cap Adopters = {} /\ Leavers \cap (Redeemers \cup Adopters) = {}
    /\ MaxEpoch \in Nat /\ Absent \notin Nat

\* A code and a ticket are redeemed by at most one of the calls that race for
\* it, a call whose reply was lost and that ran again included.
RedeemedOnce ==
    \A T \in {Redeemers, Adopters} : \A s, t \in T :
        outcome[s] = "redeemed" /\ outcome[t] = "redeemed" => s = t

SessionActive(k) == db[k] # Absent /\ db[k] = db["binding"]

LoggedOut == \E t \in Leavers : pc[t] = "answered" /\ outcome[t] = "ended"

\* Once a logout has been answered, no call that was already under way with what
\* it had read before turns a code or a ticket into a sign-in.
NothingRedeemedAfterLogout ==
    [][LoggedOut =>
           \A t \in Redeemers \cup Adopters :
               outcome'[t] = "redeemed" => outcome[t] = "redeemed"]_vars

\* Once a logout has been answered, neither the browser's session nor one that a
\* ticket was being exchanged for during the logout is active.
SignedOutForGood ==
    LoggedOut => \A k \in {"session", "adopted"} : ~SessionActive(k)

\* A logout that has been answered is final, for what exists and for what is under way.
LogoutIsFinal == NothingRedeemedAfterLogout /\ []SignedOutForGood
=============================================================================

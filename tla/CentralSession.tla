--------------------------- MODULE CentralSession ---------------------------
(***************************************************************************)
(* What the issuer promises about a central session, without records,       *)
(* bindings, epochs or deadlines: every handle names at most one session,   *)
(* a session starts once and, once it is over, it is over for good.         *)
(***************************************************************************)
CONSTANT Handle
VARIABLE life

Life == {"unborn", "active", "over"}

Init == life = [h \in Handle |-> "unborn"]

Active == {h \in Handle : life[h] = "active"}

\* One session starts; the one it replaces, if any, is over.
Start(h, replaced) ==
    /\ life[h] = "unborn"
    /\ life' = [k \in Handle |-> IF k = h THEN "active"
                                 ELSE IF k \in replaced THEN "over" ELSE life[k]]

\* Sessions are logged out, revoked, or reach their deadline.
Finish(done) == life' = [k \in Handle |-> IF k \in done THEN "over" ELSE life[k]]

Next ==
    \/ \E h \in Handle, replaced \in SUBSET Active : Start(h, replaced)
    \/ \E done \in SUBSET Active : Finish(done)

Spec == Init /\ [][Next]_life
=============================================================================

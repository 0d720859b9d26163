----------------------------- MODULE MCManagerVisits -----------------------------
(* TLC instance of the manager's two sides: each behaviour is one of what it keeps and
   publishes, or one of who gets through to it. *)
EXTENDS MCManager, ManagerAccess

CONSTANTS Ann, Ben, AnnsSession, BensSession

VARIABLE side

\* Ann has the scope the manager requires, Ben has one that is not enough.
Owners == [x \in Session |-> IF x = AnnsSession THEN Ann ELSE Ben]
ScopesHeld == [x \in Session |-> IF x = AnnsSession THEN RequiredScope ELSE r]
Sites == [x \in Session |-> OwnSite]

SideInit ==
    /\ side \in {"state", "access"}
    /\ Init
    /\ AccessInit /\ bearerToken = "old" /\ (authMode = "bearer-token" => ~trustProxy)
    \* A side that does not move stands in one place.
    /\ side = "state" => authMode = "gate" /\ trustProxy
    /\ side = "access" => runtime = None /\ base = File(2, {r}, {})

SideNext ==
    \/ side = "state" /\ Next /\ UNCHANGED <<side, accessVars>>
    \/ side = "access" /\ AccessNext /\ UNCHANGED <<side, vars>>

SideSpec ==
    /\ SideInit /\ [][SideNext]_<<side, vars, accessVars>>
    /\ side = "state" => WF_vars(Proceeds(Ui))
================================================================================

-------------------------------- MODULE MCFiles --------------------------------
(* TLC instance of the modules about files on disk, and of the one about the rules
   in the configuration file: each behaviour is one of one of them, the part chosen
   at the start; the others do not move. *)
EXTENDS AuditLog, SessionRevocation, SignInLimiter, SnapshotFile, OtpFile, ManagerLock,
        SiteAccess

CONSTANTS Server, Cli, Post1, Post2, Command, Gallery, Board, Here, There, Moved, Ann, Read

VARIABLE part

Part == {"audit", "revocation", "limiter", "snapshot", "otp", "lock", "sites"}

Expiries == [j \in Jti |-> 3]
ServerAndCli == [t \in Task |-> IF t = Command THEN Cli ELSE Server]

\* The sites: a managed one with a page that must match exactly and a directory,
\* another one, and files that change their rules, move a site or cannot be read.
Address(origin, path) == [origin |-> origin, path |-> path, odd |-> FALSE]
Exact(origin, path) == [origin |-> origin, path |-> path, subpath |-> FALSE, odd |-> FALSE]
Below(origin, path) == [origin |-> origin, path |-> path, subpath |-> TRUE, odd |-> FALSE]
Rule(e, scopes) == [email |-> e, scopes |-> scopes]

GallerySite == [id |-> Gallery, origins |-> {Here},
                uris |-> {Exact(Here, <<"cb">>), Below(Here, <<"app">>)},
                allowedEmails |-> {Ann, Blank}, accessRules |-> {}]
BoardSite == [id |-> Board, origins |-> {There, Blank}, uris |-> {Below(There, << >>)},
              allowedEmails |-> {}, accessRules |-> {Rule(Ann, {Full})}]

Plain == <<GallerySite, BoardSite>>
ByScope == <<[GallerySite EXCEPT !.allowedEmails = {},
                                 !.accessRules = {Rule(Ann, {Read}), Rule(Ann, {Blank, Full})}], BoardSite>>
SiteMoved == <<[GallerySite EXCEPT !.origins = {Moved}, !.uris = {Below(Moved, <<"app">>)}],
               BoardSite>>
SharedOrigin == <<GallerySite, [BoardSite EXCEPT !.origins = {Here, There}]>>
NoScope == <<[GallerySite EXCEPT !.accessRules = {Rule(Ann, {Blank})}], BoardSite>>
NoAddress == <<[GallerySite EXCEPT !.allowedEmails = {Ann, Malformed}], BoardSite>>

Texts == {Plain, ByScope, SiteMoved, SharedOrigin, NoScope, NoAddress}
Sets == {{}, {Full}, {Read}}
Urls == {Address(Here, <<"app", "x">>), Address(Here, <<"cb", "x">>), Address(There, <<"z">>),
         [Address(Here, <<"app", "y">>) EXCEPT !.odd = TRUE]}

FilesInit ==
    /\ part \in Part
    /\ AuditInit /\ (part # "audit" => ~files[0].there)
    /\ RevocationInit /\ (part # "revocation" => backend = "file")
    /\ LimiterInit /\ (part # "limiter" => limiter = "file")
    /\ SnapshotInit /\ OtpInit /\ Init /\ SiteInit

FilesNext ==
    /\ UNCHANGED part
    /\ IF part = "audit" THEN AuditNext ELSE UNCHANGED auditVars
    /\ IF part = "revocation" THEN RevocationNext ELSE UNCHANGED revocationVars
    /\ IF part = "limiter" THEN LimiterNext ELSE UNCHANGED limiterVars
    /\ IF part = "snapshot" THEN SnapshotNext ELSE UNCHANGED snapshotVars
    /\ IF part = "otp" THEN OtpNext ELSE UNCHANGED otpVars
    /\ IF part = "lock" THEN Next ELSE UNCHANGED vars
    /\ IF part = "sites" THEN SiteNext ELSE UNCHANGED siteVars

filesVars ==
    <<part, auditVars, revocationVars, limiterVars, snapshotVars, otpVars, vars, siteVars>>

FilesSpec == FilesInit /\ [][FilesNext]_filesVars /\ (part = "lock" => Fairness)
================================================================================

---------------------------- MODULE HostedSignIn ----------------------------
(***************************************************************************)
(* The hosted sign-in: the handlers of server/src/browserSsoRoutes.ts on    *)
(* top of the store, one step per operation they wait for, and one more for *)
(* the code between two waits where that code reads the access rules.       *)
(* Several handlers run at the same time, the rules are reloaded under      *)
(* them, and each may fail or lose its reply anywhere.                      *)
(*                                                                          *)
(* The binding cookie is the browser's name.  A one-time code and a link    *)
(* carry the same grant, so one record stands for the mail and for its      *)
(* challenge; guessing is the subject of EmailGrant.  Each of the two has a *)
(* deadline of its own, the code's first: it may pass at any time, and with *)
(* it that of the marker the proof left when it was spent.  The clock of    *)
(* the store stands still: its deadlines are the subject of                 *)
(* BrowserSsoStore, and so are the tickets of the app-owned login.          *)
(***************************************************************************)
EXTENDS BrowserSsoStore

CONSTANTS
    Call,       \* requests the server works on at the same time
    Launcher,   \* "My applications", which no site's rules speak of
    MaxLapses   \* bound: how many codes and links expire

Site == App \ {Launcher}
Mail == [grant : Grant, request : RequestId, email : Email]

\* A mail proves an address by its one-time code or by its link.
Proof == {"code", "link"}

\* challenge.expiresAt, and the exp of the link's token.
Deadline == [grant : Grant, of : Proof]

Origin == [grant : Grant, by : Proof, request : RequestId, flow : Flow]

ASSUME HostedAssumption ==
    /\ Launcher \in App
    /\ {"hosted", "launcher"} \subseteq Flow
    /\ None \notin RequestId \cup Request \cup Code \cup Email \cup App
    /\ None \notin Mail \cup Origin \cup Proof
    /\ MaxLapses \in Nat

VARIABLES
    call,       \* what each call is doing, and what it has read so far
    cookie,     \* the central session cookie of every browser
    rules,      \* config.sites: who may use which application
    mails,      \* mails that were sent
    challenges, \* one-time codes that can be entered, one per request
    lapsed,     \* deadlines that have passed
    markers,    \* what the replay store has seen, each until its deadline
    origin,     \* history: which confirmation created a session
    delivered,  \* history: codes that reached a browser
    tokens      \* history: access tokens that were released

hostedButCall == <<cookie, rules, mails, challenges, lapsed, markers>>
traces == <<origin, delivered, tokens>>
all    == <<vars, call, hostedButCall, traces>>

Place ==
    {"idle", "session", "sessionRules", "create",
     "bind", "challenge", "send",
     "verifyRead", "otpRead", "otpVerify",
     "rules", "spend", "consume", "start", "recheck", "replace", "undo", "reply",
     "issue", "issued", "release",
     "redeem", "redeemed", "signed",
     "signout", "signedOut"}

\* A call: the browser and the cookie it came with, the request it is about (as
\* it read it, in seen), the mail it confirms or writes and what it confirms it
\* by, the session it created or speaks of, and the code.
Work == [at : Place, browser : Browser \cup {None}, cookie : Handle \cup {None},
         app : App \cup {None}, email : Email \cup {None},
         request : RequestId \cup {None}, seen : Request \cup {None},
         mail : Mail \cup {None}, by : Proof \cup {None},
         handle : Handle \cup {None}, code : Code \cup {None}]

Idle == [at |-> "idle", browser |-> None, cookie |-> None, app |-> None,
         email |-> None, request |-> None, seen |-> None, mail |-> None, by |-> None,
         handle |-> None, code |-> None]

Arrives(c, w) == call[c] = Idle /\ call' = [call EXCEPT ![c] = w]
At(c, place)  == call[c].at = place
Goes(c, w)    == call' = [call EXCEPT ![c] = w]
GoesTo(c, place) == call' = [call EXCEPT ![c].at = place]
Ends(c)       == call' = [call EXCEPT ![c] = Idle]

\* siteAllows for a site, launcherApplications(...).length > 0 for the launcher.
Allowed(e, r) ==
    IF r.flow = "launcher" THEN \E a \in Site : <<e, a>> \in rules
    ELSE <<e, r.app>> \in rules

\* A call that has read nothing before its first wait begins with that wait, and
\* with the rules it asks then only to turn a caller away that is asked about
\* again before anything is given out (SignIn, Exchange).
\* Steps of the store, of everything but the store, and of neither.
StoreOnly  == UNCHANGED <<hostedButCall, traces>>
Reading    == Prune(clock) /\ StoreOnly
Thinking   == UNCHANGED <<vars, hostedButCall, traces>>

-----------------------------------------------------------------------------
(***************************************************************************)
(* GET /sso/authorize and POST /sso/apps/signin.                            *)
(***************************************************************************)
\* With prompt=login the session is read and then ignored.  Bound: none is begun
\* when no identifier is left for its request, as no mail below without a grant.
Authorize(c, b, a, login) ==
    /\ RequestId \ minted # {}
    /\ Arrives(c, [Idle EXCEPT !.browser = b, !.cookie = cookie[b], !.app = a,
           !.at = IF cookie[b] = None \/ login \/ a = Launcher THEN "create" ELSE "session"])
    /\ Thinking

ReadSession(c) ==
    /\ At(c, "session")
    /\ LET found == ActiveSessions(call[c].cookie, clock)
       IN  \/ /\ found = {}
              /\ GoesTo(c, "create")
           \/ \E s \in found :
                 Goes(c, [call[c] EXCEPT !.at = "sessionRules", !.handle = s.id,
                                         !.email = s.email])
    /\ Reading

SessionAllowed(c) ==
    /\ At(c, "sessionRules")
    /\ IF <<call[c].email, call[c].app>> \in rules THEN GoesTo(c, "create") ELSE Ends(c)
    /\ Thinking

Create(c) ==
    /\ At(c, "create")
    /\ \E id \in RequestId :
          /\ CreateRequest(id, IF call[c].app = Launcher THEN "launcher" ELSE "hosted",
                           call[c].browser, call[c].app, clock)
          /\ IF call[c].handle = None THEN Ends(c)
             ELSE Goes(c, [call[c] EXCEPT !.at = "issue", !.request = id])
    /\ StoreOnly

(***************************************************************************)
(* POST /sso/signin.                                                        *)
(***************************************************************************)
\* boundRequest
Bound(id, b) == {r \in Named(requests, id, clock) : r.binding = b}

\* Grants are fresh: no other call, mail, code or marker has this one.
Unused(g) ==
    /\ \A m \in mails \cup challenges \cup markers : m.grant # g
    /\ \A d \in Call : call[d].mail # None => call[d].mail.grant # g
    /\ \A r \in requests : r.grant # g

SignIn(c, b, id, e) ==
    /\ \E g \in Grant : Unused(g)
    /\ \E r \in Bound(id, b) :
          /\ Allowed(e, r)
          /\ Arrives(c, [Idle EXCEPT !.at = "bind", !.browser = b, !.request = id,
                                     !.email = e])
    /\ Reading

Bind(c) ==
    /\ At(c, "bind")
    /\ \/ \E g \in Grant :
             /\ Unused(g)
             /\ BindGrant(call[c].request, call[c].browser, g, clock)
             /\ Goes(c, [call[c] EXCEPT !.at = "challenge",
                   !.mail = [grant |-> g, request |-> call[c].request,
                             email |-> call[c].email]])
       \/ /\ Named(requests, call[c].request, clock) = {}
          /\ Ends(c) /\ Prune(clock)
    /\ StoreOnly

\* otpChallengeStore.create under the request's rotation key.
Challenge(c) ==
    /\ At(c, "challenge")
    /\ challenges' = {m \in challenges : m.request # call[c].request} \cup {call[c].mail}
    /\ GoesTo(c, "send")
    /\ UNCHANGED <<vars, cookie, rules, mails, lapsed, markers, traces>>

Send(c) ==
    /\ At(c, "send")
    /\ mails' = mails \cup {call[c].mail}
    /\ Ends(c)
    /\ UNCHANGED <<vars, cookie, rules, challenges, lapsed, markers, traces>>

(***************************************************************************)
(* POST /sso/verify, from any browser, and POST /sso/otp.                   *)
(***************************************************************************)
Past(g, of) == [grant |-> g, of |-> of] \in lapsed

\* The link's token is verified before the request is read.
Confirm(c, b, m, by) ==
    /\ by = "link" => ~Past(m.grant, "link")
    /\ Arrives(c, [Idle EXCEPT !.at = IF by = "link" THEN "verifyRead" ELSE "otpRead",
                               !.browser = b, !.cookie = cookie[b], !.mail = m, !.by = by,
                               !.email = m.email, !.request = m.request])
    /\ Thinking

\* proofContext
ReadProof(c) ==
    /\ At(c, "verifyRead")
    /\ LET proven == {r \in Named(requests, call[c].request, clock) :
                         r.grant = call[c].mail.grant}
       IN  \/ proven = {} /\ Ends(c)
           \/ \E r \in proven : Goes(c, [call[c] EXCEPT !.at = "rules", !.seen = r])
    /\ Reading

ReadBound(c) ==
    /\ At(c, "otpRead")
    /\ LET bound == Bound(call[c].request, call[c].browser)
       IN  \/ bound = {} /\ Ends(c)
           \/ \E r \in bound : Goes(c, [call[c] EXCEPT !.at = "otpVerify", !.seen = r])
    /\ Reading

\* The challenge is consumed, and then compared with the request as it was read.
VerifyCode(c) ==
    /\ At(c, "otpVerify")
    /\ challenges' = challenges \ {call[c].mail}
    /\ IF /\ call[c].mail \in challenges /\ ~Past(call[c].mail.grant, "code")
          /\ call[c].seen.grant = call[c].mail.grant
       THEN GoesTo(c, "rules") ELSE Ends(c)
    /\ UNCHANGED <<vars, cookie, rules, mails, lapsed, markers, traces>>

\* finishVerification, to the end of this section.
ConfirmAllowed(c) ==
    /\ At(c, "rules")
    /\ IF Allowed(call[c].email, call[c].seen) THEN GoesTo(c, "spend") ELSE Ends(c)
    /\ Thinking

\* Mutant: the answer of the replay store is ignored.
Spendable_Always(g) == TRUE

Marks(g) == {m \in markers : m.grant = g}

\* A marker is there until its deadline, and may be a while after it: Redis drops
\* it then, the file store when it next prunes, the store in memory never.
Spendable(g) == Marks(g) \subseteq lapsed

\* The marker ends with the proof it was spent by (input.expiresAt).
Spend(c) ==
    /\ At(c, "spend")
    /\ LET g == call[c].mail.grant
       IN  \/ /\ Marks(g) # {}
              /\ Ends(c) /\ UNCHANGED markers
           \/ /\ Spendable(g)
              /\ markers' = (markers \ Marks(g)) \cup {[grant |-> g, of |-> call[c].by]}
              /\ GoesTo(c, IF call[c].seen.flow = "launcher" THEN "consume" ELSE "start")
    /\ UNCHANGED <<vars, cookie, rules, mails, challenges, lapsed, traces>>

Consume(c) ==
    /\ At(c, "consume")
    /\ \/ /\ ConsumeLauncherRequest(call[c].request, call[c].mail.grant, clock)
          /\ GoesTo(c, "start")
       \/ /\ \A r \in Named(requests, call[c].request, clock) :
                r.grant # call[c].mail.grant
          /\ Ends(c) /\ Prune(clock)
    /\ StoreOnly

\* Mutant: the session of the cookie is left alone.
Replaced_Nobody(w) == None

\* The launcher replaces the previous session in a transaction of its own.
Replaced(w) == IF w.seen.flow = "launcher" THEN None ELSE w.cookie

Start(c) ==
    /\ At(c, "start")
    /\ \E h \in Handle :
          /\ CreateSession(h, call[c].email, Replaced(call[c]), clock)
          /\ Goes(c, [call[c] EXCEPT !.handle = h,
                 !.at = IF call[c].seen.flow = "launcher" THEN "recheck"
                        ELSE IF call[c].seen.binding = call[c].browser THEN "issue"
                        ELSE "reply"])
          /\ origin' = [origin EXCEPT ![h] = [grant |-> call[c].mail.grant,
                 by |-> call[c].by, request |-> call[c].request,
                 flow |-> call[c].seen.flow]]
    /\ UNCHANGED <<hostedButCall, delivered, tokens>>

\* finalizeLauncherSession
Recheck(c) ==
    /\ At(c, "recheck")
    /\ GoesTo(c, IF ~Allowed(call[c].email, call[c].seen) THEN "undo"
                 ELSE IF call[c].cookie = None THEN "reply" ELSE "replace")
    /\ Thinking

Undo(c) ==
    /\ At(c, "undo")
    /\ RevokeSession(call[c].handle, clock)
    /\ Ends(c)
    /\ StoreOnly

Replace(c) ==
    /\ At(c, "replace")
    /\ RevokeSession(call[c].cookie, clock)
    /\ GoesTo(c, "reply")
    /\ StoreOnly

\* A verification's reply sets the cookie, whatever becomes of the code.
SetsCookie(c) ==
    cookie' = IF call[c].mail = None THEN cookie
              ELSE [cookie EXCEPT ![call[c].browser] = call[c].handle]

Reply(c) ==
    /\ At(c, "reply")
    /\ SetsCookie(c)
    /\ Ends(c)
    /\ UNCHANGED <<vars, rules, mails, challenges, lapsed, markers, traces>>

(***************************************************************************)
(* issue, called by authorize and by a confirmation in the request's own    *)
(* browser; then the application exchanges the code (POST /sso/exchange).   *)
(***************************************************************************)
GrantOf(c) == IF call[c].mail = None THEN None ELSE call[c].mail.grant

CanIssue(c) ==
    /\ ActiveSessions(call[c].handle, clock) # {}
    /\ \E r \in Named(requests, call[c].request, clock) :
          Issuable(r, call[c].browser, GrantOf(c))

Issue(c) ==
    /\ At(c, "issue")
    /\ \/ \E k \in Code :
             /\ IssueCode(k, call[c].request, call[c].browser, call[c].handle,
                          GrantOf(c), clock)
             /\ Goes(c, [call[c] EXCEPT !.at = "issued", !.code = k])
       \/ /\ ~CanIssue(c)
          /\ GoesTo(c, "reply") /\ Prune(clock)
    /\ StoreOnly

\* The session is read once more, for its e-mail.
ReadIssued(c) ==
    /\ At(c, "issued")
    /\ LET found == ActiveSessions(call[c].handle, clock)
       IN  \/ found = {} /\ GoesTo(c, "reply")
           \/ \E s \in found :
                 Goes(c, [call[c] EXCEPT !.at = "release", !.email = s.email])
    /\ Reading

AppOf(w) == IF w.seen = None THEN w.app ELSE w.seen.app

\* Mutant: what was allowed when the handler first asked is still allowed.
StillAllowed_Stale(e, a) == TRUE

StillAllowed(e, a) == <<e, a>> \in rules

Release(c) ==
    /\ At(c, "release")
    /\ delivered' = IF StillAllowed(call[c].email, AppOf(call[c]))
                    THEN delivered \cup {[code |-> call[c].code,
                                          browser |-> call[c].browser]}
                    ELSE delivered
    /\ SetsCookie(c)
    /\ Ends(c)
    /\ UNCHANGED <<vars, rules, mails, challenges, lapsed, markers, origin, tokens>>

\* inspectCode; the application names the redirect URI the code was issued for.
Exchange(c, k) ==
    /\ \E x \in Named(codes, k, clock) : \E s \in ActiveSessions(x.session, clock) :
          /\ <<s.email, x.app>> \in rules
          /\ Arrives(c, [Idle EXCEPT !.at = "redeem", !.code = k, !.app = x.app,
                                     !.email = s.email])
    /\ Reading

CanRedeem(c) ==
    \E x \in Named(codes, call[c].code, clock) : ActiveSessions(x.session, clock) # {}

Redeem(c) ==
    /\ At(c, "redeem")
    /\ \/ /\ RedeemCode(call[c].code, call[c].app, call[c].email, clock)
          /\ GoesTo(c, "redeemed")
       \/ /\ ~CanRedeem(c)
          /\ Ends(c) /\ Prune(clock)
    /\ StoreOnly

\* The token is signed, and the rules are read before and after that.
RedeemedAllowed(c) ==
    /\ At(c, "redeemed")
    /\ IF <<call[c].email, call[c].app>> \in rules THEN GoesTo(c, "signed") ELSE Ends(c)
    /\ Thinking

ReleaseToken(c) ==
    /\ At(c, "signed")
    /\ tokens' = IF StillAllowed(call[c].email, call[c].app)
                 THEN tokens \cup {[code |-> call[c].code, email |-> call[c].email,
                                    app |-> call[c].app]}
                 ELSE tokens
    /\ Ends(c)
    /\ UNCHANGED <<vars, hostedButCall, origin, delivered>>

(***************************************************************************)
(* POST /sso/signout, the reload of the access rules, time, and failures.   *)
(***************************************************************************)
SignOut(c, b) ==
    /\ Arrives(c, [Idle EXCEPT !.at = "signout", !.browser = b, !.cookie = cookie[b]])
    /\ Thinking

EndSession(c) ==
    /\ At(c, "signout")
    /\ EndBrowserSession(call[c].cookie, call[c].browser, clock)
    /\ GoesTo(c, "signedOut")
    /\ StoreOnly

SignedOut(c) ==
    /\ At(c, "signedOut")
    /\ cookie' = [cookie EXCEPT ![call[c].browser] = None]
    /\ Ends(c)
    /\ UNCHANGED <<vars, rules, mails, challenges, lapsed, markers, traces>>

\* Registrations do not change without a restart; who is allowed does.
Reload(r) ==
    /\ rules' = r
    /\ UNCHANGED <<vars, call, cookie, mails, challenges, lapsed, markers, traces>>

\* The code of a mail, or its link, expires; the link does not before the code.
Lapse(g, of) ==
    /\ ~Past(g, of)
    /\ of = "link" => Past(g, "code")
    /\ Cardinality(lapsed) < MaxLapses
    /\ lapsed' = lapsed \cup {[grant |-> g, of |-> of]}
    /\ UNCHANGED <<vars, call, cookie, rules, mails, challenges, markers, traces>>

\* A call fails, meets a limit or loses its reply.  A confirmation that fails in issue has set
\* its cookie in the reply that reports the failure.
Vanish(c) ==
    /\ ~At(c, "idle")
    /\ Ends(c)
    /\ \/ UNCHANGED cookie
       \/ call[c].at \in {"issue", "issued"} /\ SetsCookie(c)
    /\ UNCHANGED <<vars, rules, mails, challenges, lapsed, markers, traces>>

-----------------------------------------------------------------------------
HostedInit ==
    /\ Init
    /\ call = [c \in Call |-> Idle]
    /\ cookie = [b \in Browser |-> None]
    /\ rules = Email \X Site
    /\ mails = {} /\ challenges = {} /\ lapsed = {} /\ markers = {}
    /\ origin = [h \in Handle |-> None]
    /\ delivered = {} /\ tokens = {}

Arrival(c) ==
    \/ \E b \in Browser, a \in App, login \in BOOLEAN : Authorize(c, b, a, login)
    \/ \E b \in Browser, id \in Known(RequestId), e \in Email : SignIn(c, b, id, e)
    \/ \E b \in Browser, m \in mails, by \in Proof : Confirm(c, b, m, by)
    \/ \E d \in delivered : Exchange(c, d.code)
    \/ \E b \in Browser : SignOut(c, b)

SignInStep(c) ==
    \/ ReadSession(c) \/ SessionAllowed(c) \/ Create(c)
    \/ Bind(c) \/ Challenge(c) \/ Send(c)

ConfirmStep(c) ==
    \/ ReadProof(c) \/ ReadBound(c) \/ VerifyCode(c) \/ ConfirmAllowed(c) \/ Spend(c) \/ Consume(c)
    \/ Start(c) \/ Recheck(c) \/ Undo(c) \/ Replace(c) \/ Reply(c)

CodeOrTokenStep(c) ==
    \/ Issue(c) \/ ReadIssued(c) \/ Release(c)
    \/ Redeem(c) \/ RedeemedAllowed(c)
    \/ ReleaseToken(c)

SignOutStep(c) == EndSession(c) \/ SignedOut(c)

HostedNext ==
    \/ \E c \in Call : \/ Arrival(c) \/ SignInStep(c) \/ ConfirmStep(c)
                       \/ CodeOrTokenStep(c) \/ SignOutStep(c) \/ Vanish(c)
    \/ \E r \in SUBSET (Email \X Site) : Reload(r)
    \/ \E m \in mails, of \in Proof : Lapse(m.grant, of)

HostedSpec == HostedInit /\ [][HostedNext]_all

-----------------------------------------------------------------------------
(***************************************************************************)
(* What the routes promise.                                                 *)
(***************************************************************************)
HostedTypeOK ==
    /\ TypeOK
    /\ call \in [Call -> Work]
    /\ cookie \in [Browser -> Handle \cup {None}]
    /\ rules \subseteq Email \X Site
    /\ mails \subseteq Mail /\ challenges \subseteq Mail
    /\ lapsed \subseteq Deadline /\ markers \subseteq Deadline
    /\ origin \in [Handle -> Origin \cup {None}]
    /\ delivered \subseteq [code : Code, browser : Browser]
    /\ tokens \subseteq [code : Code, email : Email, app : Site]

\* When a grant spent by one proof may be forgotten although the other confirmation
\* of it was begun in time: the code has expired and one of the two is by the link,
\* which lives longer; or both are by the link, and it expired before the second,
\* already under way, spent it.
Forgotten(g, by, again) ==
    \/ Past(g, "code") /\ by # again
    \/ Past(g, "link") /\ by = "link" /\ again = "link"

\* One mail signs in once, wherever the calls stand when one of them spends the
\* grant: never twice by its code, never by both before the code has expired, and
\* never twice by its link before that has.  The replay store keeps a grant no
\* longer than the proof it was first spent by.  (finishVerification)
MailSignsInOnce ==
    \A g, h \in Handle :
        /\ g # h /\ origin[g] # None /\ origin[h] # None
        /\ origin[g].grant = origin[h].grant
        => Forgotten(origin[g].grant, origin[g].by, origin[h].by)

\* A request of the launcher starts one session at most, however many mails were
\* written for it.  (finishVerification, consumeLauncherRequest)
LauncherRequestSignsInOnce ==
    \A g, h \in Handle :
        /\ origin[g] # None /\ origin[h] # None
        /\ origin[g].flow = "launcher" /\ origin[g].request = origin[h].request
        => g = h

\* Once a mail was written for a request, only the confirmation of the latest
\* one completes it: neither an earlier mail whose confirmation was under way,
\* nor a session the browser had before.  (finishVerification, issue, bindGrant)
CompletedByLatestMail ==
    [][\A x \in codes' \ codes, r \in requests :
          r.id \in spent' \ spent /\ r.grant # None =>
              origin[x.session] # None /\ origin[x.session].grant = r.grant]_all

\* When the reply of a confirmation is under way, the session the browser came
\* with is over: no account is left behind.
\* (finishVerification, finalizeLauncherSession)
NoIdentityLeftBehind ==
    \A c \in Call :
        /\ call[c].mail # None /\ call[c].cookie # None
        /\ call[c].at \in {"issue", "issued", "release", "reply"}
        => ~IsActive(call[c].cookie)

\* A code that reaches a browser, and a token that reaches an application, are
\* allowed by the rules as they are then, not as they were when the handler
\* first looked.  (issue, POST /sso/exchange)
NothingReleasedAgainstTheRules ==
    [][/\ \A t \in tokens' \ tokens : <<t.email, t.app>> \in rules
       /\ \A d \in delivered' \ delivered, x \in codes, s \in sessions :
             x.id = d.code /\ s.id = x.session => <<s.email, x.app>> \in rules]_all

=============================================================================

----------------------------- MODULE ManagerAccess -----------------------------
(* Who may change what the manager keeps: requests on their way through the gate
   to the manager, or straight to a manager with a token of its own, and whom the
   manager takes them for.  A request is authenticated in one place and carried out
   in another, later: people sign out and the manager is restarted in between.

   Of a request only what decides about it is kept; of a change, whom it is recorded
   for.  That a session is rightly live is the subject of ClassicClient. *)
EXTENDS Naturals

CONSTANTS
    Person,
    Session, OwnerOf, ScopeOf, SiteOf,  \* central sessions: whose, and the token's scope and site
    Secret,                              \* values [service.auth] may give bearerToken
    OwnSite, RequiredScope, FullAccess, \* requiredSiteId, requiredScope, FULL_ACCESS_SCOPE
    Visit, Nobody,
    LoginMax, MutationMax, MaxVisits    \* allowances of a minute; a bound on requests

ASSUME ManagerAccessAssumption ==
    /\ LoginMax \in Nat /\ MutationMax \in Nat /\ MaxVisits \in Nat
    /\ Nobody \notin Person \union Session \union Secret
    /\ OwnerOf \in [Session -> Person]

VARIABLES
    authMode, trustProxy,   \* settings of the manager
    bearerToken,            \* the token of its present run
    signedOut,              \* sessions revoked at the server
    gateCookie, uiCookie,   \* the browser's: a session, and the value of the manager's cookie
    underWay,                  \* [Visit -> how far a request has come]; from and late are history
    hits,                   \* the manager's rate limits: requests counted in this minute
    made,                   \* history: the last change, and the request it was made for
    visits

accessVars == <<authMode, trustProxy, bearerToken, signedOut, gateCookie, uiCookie, underWay,
                hits, made, visits>>

Settings == <<authMode, trustProxy>>
Gone == [at |-> "gone"]
Reply(cookie) == [at |-> "reply", cookie |-> cookie]
\* A request that has got somewhere: what it says of itself, and what was found of it.
Brought(r, at, headers, session, actor) ==
    [at |-> at, kind |-> r.kind, origin |-> r.origin, headers |-> headers, bearer |-> r.bearer,
     session |-> session, cookie |-> r.cookie, actor |-> actor, from |-> r.from, late |-> r.late]
Moves(q, r) == underWay' = [underWay EXCEPT ![q] = r]
Refused(q) == Moves(q, Gone)

\* Where the browser believes to be, and another page that posts there.
Origin == {IF authMode = "gate" THEN "gate" ELSE "manager", "elsewhere"}
\* What a request says of itself; the gate's own headers are a record or Nobody.
Identity(email, scope, siteId) == [email |-> email, scope |-> scope, siteId |-> siteId]

AccessInit ==
    /\ authMode \in {"gate", "bearer-token"} /\ trustProxy \in BOOLEAN
    /\ bearerToken \in Secret
    /\ signedOut = {} /\ gateCookie = Nobody /\ uiCookie = Nobody
    /\ underWay = [q \in Visit |-> Gone]
    /\ hits = [login |-> 0, mutation |-> 0]
    /\ made = Nobody /\ visits = 0

--------------------------------------------------------------------------------
\* The browser, and programs that use the interface under /api/.
SignsIn(s) ==
    /\ authMode = "gate" /\ s \notin signedOut
    /\ gateCookie' = s
    /\ UNCHANGED <<Settings, bearerToken, signedOut, uiCookie, underWay, hits, made, visits>>
\* The gate has the session revoked, and its reply takes the cookie away.
SignsOut(s) ==
    /\ authMode = "gate" /\ gateCookie = s
    /\ signedOut' = signedOut \union {s}
    /\ UNCHANGED <<Settings, bearerToken, gateCookie, uiCookie, underWay, hits, made, visits>>
LosesGateCookie ==
    /\ gateCookie \in signedOut /\ gateCookie' = Nobody
    /\ UNCHANGED <<Settings, bearerToken, signedOut, uiCookie, underWay, hits, made, visits>>

Sends(q, kind, origin, claim, token) ==
    /\ underWay[q] = Gone /\ visits < MaxVisits
    /\ visits' = visits + 1
    /\ kind \in {"login", "logout"} => authMode = "bearer-token"
    /\ claim # Nobody => authMode = "gate"
    /\ token # Nobody => authMode = "bearer-token" /\ kind \in {"api", "login"}
    /\ Moves(q, [at |-> IF authMode = "gate" THEN "gate" ELSE "sent", kind |-> kind,
                 origin |-> origin, headers |-> claim, bearer |-> token,
                 session |-> gateCookie, cookie |-> uiCookie, actor |-> Nobody,
                 from |-> gateCookie, late |-> gateCookie \in signedOut])
    /\ UNCHANGED <<Settings, bearerToken, signedOut, gateCookie, uiCookie, hits, made>>

--------------------------------------------------------------------------------
\* The gate asks the server about the session, and takes no answer for a no.
MayBeRevoked_OnlyWhenTold(s, answered) == answered /\ s \in signedOut
MayBeRevoked(s, answered) == answered => s \in signedOut
LiveSession(s, answered) == s # Nobody /\ ~MayBeRevoked(s, answered)

\* What it forwards: nothing that pretends to come from it, and what it found.
StripTrustedUpstreamHeaders(r) == Brought(r, "sent", Nobody, Nobody, Nobody)
BuildUpstreamHeaders(s) == Identity(OwnerOf[s], ScopeOf[s], SiteOf[s])
BuildProxyRequestHeaders(r) ==
    Brought(StripTrustedUpstreamHeaders(r), "sent", BuildUpstreamHeaders(r.session), Nobody, Nobody)

HandleProxyRequest(q, answered) ==
    /\ underWay[q].at = "gate"
    /\ IF LiveSession(underWay[q].session, answered)
       THEN Moves(q, BuildProxyRequestHeaders(underWay[q]))
       ELSE Refused(q)
    /\ UNCHANGED <<Settings, bearerToken, signedOut, gateCookie, uiCookie, hits, made, visits>>

--------------------------------------------------------------------------------
\* The manager.  The origin it believes to have is that of the Host header, which
\* the gate sets to the manager's, or of the forwarded one if it trusts that.
RequestOrigin == IF authMode = "gate" /\ trustProxy THEN "gate" ELSE "manager"
SameOrigin(r) == r.origin = RequestOrigin

AuthenticateApiRequest(token) == token = bearerToken
AuthenticateGateRequest(h) ==
    /\ h # Nobody
    /\ h.siteId = OwnSite
    /\ h.scope \in {FullAccess, RequiredScope}
BearerActor == [authType |-> "internal-bearer-token"]
GateActor(h) == [authType |-> "gate-forwarded-user", email |-> h.email]

\* Nobody, or whom a request is taken for; a form shows the cookie as its token.
Authenticated(r, token) ==
    IF authMode = "gate"
    THEN IF AuthenticateGateRequest(r.headers) THEN GateActor(r.headers) ELSE Nobody
    ELSE IF AuthenticateApiRequest(token) THEN BearerActor ELSE Nobody
AuthenticateManagerRequest(r) == Authenticated(r, r.bearer)
RequireUiSession(r) == Authenticated(r, r.cookie)

\* onRequest: what is not under /api/ is let through as it is.
OnRequest(r) ==
    r.kind = "api" => /\ AuthenticateManagerRequest(r) # Nobody
                      /\ authMode = "gate" => SameOrigin(r)
\* preHandler: counted, whatever becomes of it later; /logout is not limited.
LimitOf(kind) == IF kind = "login" THEN "login" ELSE "mutation"
MaxOf(kind) == IF kind = "login" THEN LoginMax ELSE MutationMax
Limited(kind) == kind # "logout" /\ hits[LimitOf(kind)] >= MaxOf(kind)
Counted(kind) ==
    hits' = IF kind = "logout" \/ Limited(kind) THEN hits
            ELSE [hits EXCEPT ![LimitOf(kind)] = @ + 1]

Arrives(q) ==
    /\ underWay[q].at = "sent"
    /\ LET sent == underWay[q]
       IN  IF ~OnRequest(sent) THEN Refused(q) /\ UNCHANGED hits
           ELSE /\ Counted(sent.kind)
                /\ IF Limited(sent.kind) THEN Refused(q)
                   ELSE Moves(q, Brought(sent, "admitted", sent.headers, sent.session,
                                         IF sent.kind = "api"
                                         THEN AuthenticateManagerRequest(sent) ELSE Nobody))
    /\ UNCHANGED <<Settings, bearerToken, signedOut, gateCookie, uiCookie, made, visits>>

\* In the audit log a person is named by the address, a token by where it was shown.
CreateRequestAuditActor(r, who) ==
    IF who.authType = "gate-forwarded-user" THEN who.email
    ELSE IF r.kind = "api" THEN "internal-bearer-token" ELSE "browser-session"

\* A handler under the state lock makes its change; it may find the lock taken, the
\* base file edited, or the change impossible.
PersistAuditedMutation(r, who) ==
    \/ made' = [user |-> CreateRequestAuditActor(r, who), kind |-> r.kind, origin |-> r.origin,
                from |-> r.from, late |-> r.late, token |-> bearerToken,
                shown |-> IF r.kind = "form" THEN r.cookie ELSE r.bearer]
    \/ UNCHANGED made
CarryOut(q) ==
    /\ underWay[q].at = "admitted" /\ underWay[q].kind \in {"form", "api"}
    /\ LET sent == underWay[q]
           who == IF sent.kind = "form" THEN RequireUiSession(sent) ELSE sent.actor
       IN  IF who # Nobody /\ (sent.kind = "form" => SameOrigin(sent))
           THEN PersistAuditedMutation(sent, who)
           ELSE UNCHANGED made
    /\ Moves(q, Gone)
    /\ UNCHANGED <<Settings, bearerToken, signedOut, gateCookie, uiCookie, hits, visits>>

\* POST /login and /logout: the reply brings the cookie, when it gets there.
LoginPost(q) ==
    /\ underWay[q].at = "admitted" /\ underWay[q].kind = "login"
    /\ IF SameOrigin(underWay[q]) /\ AuthenticateApiRequest(underWay[q].bearer)
       THEN Moves(q, Reply(underWay[q].bearer))
       ELSE Refused(q)
    /\ UNCHANGED <<Settings, bearerToken, signedOut, gateCookie, uiCookie, hits, made, visits>>
LogoutPost(q) ==
    /\ underWay[q].at = "admitted" /\ underWay[q].kind = "logout"
    /\ IF SameOrigin(underWay[q]) THEN Moves(q, Reply(Nobody))
       ELSE Refused(q)
    /\ UNCHANGED <<Settings, bearerToken, signedOut, gateCookie, uiCookie, hits, made, visits>>
StoresCookie(q) ==
    /\ underWay[q].at = "reply"
    /\ uiCookie' = underWay[q].cookie /\ Moves(q, Gone)
    /\ UNCHANGED <<Settings, bearerToken, signedOut, gateCookie, hits, made, visits>>

Minute ==
    /\ hits # [login |-> 0, mutation |-> 0]
    /\ hits' = [login |-> 0, mutation |-> 0]
    /\ UNCHANGED <<Settings, bearerToken, signedOut, gateCookie, uiCookie, underWay, made, visits>>
\* The manager is started again, perhaps with another token; what it was about to do
\* is lost, and so is what it had counted.
ManagerRestarts(token) ==
    /\ authMode = "bearer-token" /\ bearerToken' = token
    /\ hits' = [login |-> 0, mutation |-> 0]
    /\ underWay' = [q \in Visit |-> IF underWay[q].at = "admitted" THEN Gone ELSE underWay[q]]
    /\ UNCHANGED <<Settings, signedOut, gateCookie, uiCookie, made, visits>>

AccessNext ==
    \/ \E s \in Session : SignsIn(s) \/ SignsOut(s)
    \/ LosesGateCookie
    \/ \E q \in Visit :
          \/ \E kind \in {"form", "api", "login", "logout"}, origin \in Origin :
             \E token \in Secret \union {Nobody} :
             \E claim \in {Nobody} \union {Identity(p, FullAccess, OwnSite) : p \in Person} :
                Sends(q, kind, origin, claim, token)
          \/ \E answered \in BOOLEAN : HandleProxyRequest(q, answered)
          \/ Arrives(q) \/ CarryOut(q) \/ LoginPost(q) \/ LogoutPost(q) \/ StoresCookie(q)
    \/ Minute
    \/ \E token \in Secret : ManagerRestarts(token)

AccessSpec == AccessInit /\ [][AccessNext]_accessVars

--------------------------------------------------------------------------------
\* Every change is recorded for whom it was made.  Behind the gate that is the person
\* whose session the request carried, not revoked when it was sent and with enough
\* access to the manager's site, whatever the request said of itself; a manager with a
\* token is shown that of its present run.  No form of another site changes anything.
ChangesAreTheirs ==
    made # Nobody =>
        /\ authMode = "gate" =>
              /\ ~made.late /\ made.user = OwnerOf[made.from]
              /\ SiteOf[made.from] = OwnSite
              /\ ScopeOf[made.from] \in {FullAccess, RequiredScope}
        /\ authMode = "bearer-token" => made.shown = made.token
        /\ authMode = "gate" \/ made.kind = "form" => made.origin = RequestOrigin
================================================================================

----------------------------- MODULE AppOwnedSignIn -----------------------------
(* Browser SSO as an application takes part in it: the transaction an application
   starts, its own sign-in forms (the app-owned login) and the ticket with which
   its sign-in becomes the browser's shared session, and the callback that trades a
   code for a session of its own.  The application is a backend that keeps nothing
   between requests: what it knows is in sealed cookies that all tabs of a browser
   share, and what a tab is about is in the address it was redirected to.  Several
   tabs, a second browser and the rules of the site interleave with it.

   The sign-in server is modelled as far as the application meets it; its store is
   the subject of BrowserSsoStore, its own pages are that of HostedSignIn. *)
EXTENDS FiniteSets, Naturals

CONSTANTS
    Browser, Tab,
    State,            \* transactions, each named by its state
    Req,              \* requests the sign-in server keeps for them
    Mail, Email,
    None,
    MaxPending,       \* maxPendingAppTransactions
    MaxFaults         \* lost calls and replies, reloads, copied addresses, lapses

ASSUME OwnedAssumption ==
    /\ None \notin Req \union Email
    /\ None \notin [email : Email, state : State, spent : BOOLEAN]

VARIABLES
    app,          \* which integration this is
    home,         \* [Tab -> the browser it is in]
    jar,          \* [Browser -> its cookies, for the application and the server]
    tab,          \* [Tab -> what it shows or waits for]
    late,         \* transactions past their deadline
    requests, tickets, codes,
    active,       \* [Browser -> the account of its shared session]
    mail,         \* [Mail -> None or what it was sent for], spent or not
    allowed,      \* accounts the site's rules admit
    begun,        \* history: [State -> the browser whose transaction it is]
    acknowledged, \* history: accounts the visitor of a browser said yes to
    received,     \* history: sessions of the application that reached a browser
    redeemed,     \* history: tickets that gave a browser its shared session
    completed,    \* history: shared sign-ins the application called complete
    faults

ownedVars == <<app, home, jar, tab, late, requests, tickets, codes, active, mail, allowed,
               begun, acknowledged, received, redeemed, completed, faults>>
server == <<requests, tickets, codes, active, mail, allowed, redeemed>>

TxCookie(s) == <<"tx", s>>
Continuation(s) == <<"continuation", s>>
ConfirmCookie(s) == <<"confirm", s>>
Auth == <<"auth", None>>
Central == <<"central", None>>
Cookie == {TxCookie(s) : s \in State} \union {Continuation(s) : s \in State}
              \union {ConfirmCookie(s) : s \in State} \union {Auth, Central}

\* An application's session is told apart by what it was given for.
Token(e, by) == [email |-> e, by |-> by]
Prepared(r) == [phase |-> "prepared", req |-> r, token |-> None]
Finishing(r, tok) == [phase |-> "finish", req |-> r, token |-> tok]

\* An address, or the page that was opened from it.
Visit(at, s, r, x) == [at |-> at, state |-> s, req |-> r, with |-> x]
Rest == Visit("rest", None, None, None)
To(at, v, x) == Visit(at, v.state, v.req, x)
Local == Visit("local", None, None, None)
AtApplication == Visit("application", None, None, None)
Shows(v) == [stage |-> "shows", visit |-> v]
Sent(v) == [stage |-> "sent", visit |-> v]
Answered(v, set, next) == [stage |-> "answered", visit |-> v, set |-> set, next |-> next]

\* Pages wait for their visitor; any other address is asked for at once.
Page == {"rest", "form", "mailed", "confirm", "adopt", "failed", "local", "application", "issuer"}

\* The cookies a reply sets, with others, and over those of the browser.
Unchanged == [n \in {} |-> None]
Puts(n, v) == [x \in {n} |-> v]
With(set, other) ==
    [n \in DOMAIN set \union DOMAIN other |-> IF n \in DOMAIN set THEN set[n] ELSE other[n]]
Over(set, old) == [n \in DOMAIN old |-> IF n \in DOMAIN set THEN set[n] ELSE old[n]]

OwnedInit ==
    /\ app \in {"http", "django", "gate", "nextjs"}
    /\ home \in [Tab -> Browser]
    /\ jar = [b \in Browser |-> [n \in Cookie |-> None]]
    /\ tab = [t \in Tab |-> Shows(Rest)]
    /\ late = {} /\ requests = {} /\ tickets = {} /\ codes = {}
    /\ active = [b \in Browser |-> None]
    /\ mail = [m \in Mail |-> None]
    /\ allowed = Email
    /\ begun = [s \in State |-> None]
    /\ acknowledged = {} /\ received = {} /\ redeemed = {} /\ completed = {}
    /\ faults = 0

Faulty == faults < MaxFaults /\ faults' = faults + 1
Fine == UNCHANGED faults

--------------------------------------------------------------------------------
\* The visitor and the browser.
Asks(t, v) == tab' = [tab EXCEPT ![t] = Sent(v)]
Presses(t, at) == tab[t].stage = "shows" /\ tab[t].visit.at = at
Watching == UNCHANGED <<app, home, jar, late, server, begun, received, completed>>
Acknowledges(t, e) == acknowledged' = acknowledged \union {<<home[t], e>>}

\* A form that is open is gone through with; other tabs do something else meanwhile.
Free(t) == Presses(t, "rest") \/ Presses(t, "local") \/ Presses(t, "application")
OpenApplication(t) ==
    /\ Free(t)
    /\ \E ui \in {"own", "login"} \union IF Presses(t, "local") THEN {"hosted"} ELSE {} :
          Asks(t, Visit("start", None, None, ui))
    /\ Watching /\ Fine /\ UNCHANGED acknowledged
SubmitAddress(t) ==
    /\ Presses(t, "form")
    /\ \E e \in Email : Asks(t, To("send", tab[t].visit, e))
    /\ Watching /\ Fine /\ UNCHANGED acknowledged
FollowMail(t) ==
    /\ Free(t) \/ Presses(t, "mailed")
    /\ \E m \in Mail : /\ mail[m] # None /\ ~mail[m].spent
                       /\ Asks(t, Visit("preview", mail[m].state, None, m))
    /\ Watching /\ Fine /\ UNCHANGED acknowledged
PressContinue(t) ==
    /\ Presses(t, "confirm")
    /\ Asks(t, To("verify", tab[t].visit, tab[t].visit.with))
    /\ Acknowledges(t, mail[tab[t].visit.with].email)
    /\ Watching /\ Fine
TypeCode(t) ==
    /\ Presses(t, "mailed")
    /\ Asks(t, To("otp", tab[t].visit, tab[t].visit.with))
    /\ Acknowledges(t, mail[tab[t].visit.with].email)
    /\ Watching /\ Fine
PressConfirmShared(t) ==
    /\ Presses(t, "adopt")
    /\ Asks(t, To("adoptConfirmed", tab[t].visit, tab[t].visit.with))
    /\ Acknowledges(t, tab[t].visit.with)
    /\ Watching /\ Fine
ReturnToApplication(t) ==
    /\ Presses(t, "failed")
    /\ Asks(t, To("finish", tab[t].visit, None))
    /\ Watching /\ Fine /\ UNCHANGED acknowledged
SignOutEverywhere(t) ==
    /\ Free(t) /\ jar[home[t]][Central] # None
    /\ Asks(t, Visit("signout", None, None, None))
    /\ Watching /\ Fine /\ UNCHANGED acknowledged
\* An address is opened once more, by a reload or in another tab or browser.
OpenAgain(t, u) ==
    /\ tab[t].visit.at \in {"authorize", "prepared", "redeem", "finish", "callback"}
    /\ u = t \/ Free(u)
    /\ Asks(u, tab[t].visit)
    /\ Watching /\ Faulty /\ UNCHANGED acknowledged

\* A reply arrives, or is lost.
Arrive(t) ==
    /\ tab[t].stage = "answered"
    /\ LET b == home[t]
           next == tab[t].next
       IN  /\ jar' = [jar EXCEPT ![b] = Over(tab[t].set, @)]
           /\ tab' = [tab EXCEPT ![t] = IF next.at \in Page THEN Shows(next)
                                        ELSE Sent(next)]
    /\ received' = IF Auth \in DOMAIN tab[t].set
                   THEN received \union {[browser |-> home[t], token |-> tab[t].set[Auth]]}
                   ELSE received
    /\ Fine /\ UNCHANGED <<app, home, late, server, begun, acknowledged, completed>>
Lose(t) ==
    /\ tab[t].stage = "answered"
    /\ tab' = [tab EXCEPT ![t] = Shows(Rest)]
    /\ Faulty /\ UNCHANGED <<app, home, jar, late, server, begun, acknowledged, received, completed>>

\* The deadline of a transaction passes; the browser drops its cookie, now or later.
Lapse(s) ==
    /\ s \notin late /\ \E b \in Browser : jar[b][TxCookie(s)] # None
    /\ late' = late \union {s}
    /\ \/ UNCHANGED jar
       \/ jar' = [b \in Browser |-> Over(Puts(TxCookie(s), None), jar[b])]
    /\ Faulty /\ UNCHANGED <<app, home, tab, server, begun, acknowledged, received, completed>>

\* The site's rules are reloaded.
Reload ==
    /\ \E e \in Email : allowed' = allowed \ {e} /\ e \in allowed
    /\ Faulty /\ UNCHANGED <<app, home, jar, tab, late, requests, tickets, codes, active, mail,
                             redeemed, begun, acknowledged, received, completed>>

--------------------------------------------------------------------------------
\* A request is answered.  The application changes no state but the reply's.
Handles(t, at) == tab[t].stage = "sent" /\ tab[t].visit.at = at
Reply(t, set, next) == tab' = [tab EXCEPT ![t] = Answered(@.visit, set, next)]
ByApplication == UNCHANGED <<app, home, jar, late, begun, acknowledged, received>>
ByServer == UNCHANGED <<app, home, late, begun, acknowledged, received, completed>>
Here(t) == tab[t].visit.state
Carried(t) == jar[home[t]]
Fails(t) == Reply(t, Unchanged, Rest)
\* The server's answers arrive at once.
Opens(t, v) == tab' = [tab EXCEPT ![t] = IF v.at \in Page THEN Shows(v) ELSE Sent(v)]
Stores(t, e) == jar' = [jar EXCEPT ![home[t]] = Over(Puts(Central, e), @)]

\* What the cookies of a request are worth.
HasTransaction(c, s) == c[TxCookie(s)] # None /\ s \notin late
InPhase(c, s, phase) ==
    /\ HasTransaction(c, s) /\ c[Continuation(s)] # None
    /\ c[Continuation(s)].phase = phase
Context(c, s) == IF InPhase(c, s, "prepared") THEN c[Continuation(s)].req ELSE None
Clear(s) == With(Puts(TxCookie(s), None), Puts(Continuation(s), None))

Pending(c) == {s \in State : HasTransaction(c, s)}
Expired(c) == [n \in {TxCookie(s) : s \in {x \in late : c[TxCookie(x)] # None}} |-> None]
Fresh == {s \in State :
             /\ \A t \in Tab : tab[t].visit.state # s
             /\ \A t \in Tab : tab[t].stage = "answered" => tab[t].next.state # s
             /\ \A b \in Browser : jar[b][TxCookie(s)] = None
             /\ \A q \in requests : q.state # s
             /\ s \notin late}

\* start: unless the server does not offer what the application wants, or cannot be
\* asked, a new transaction, of which a browser has only so many at a time.
Start(t, ui) ==
    /\ Handles(t, "start")
    /\ UNCHANGED <<app, home, jar, late, acknowledged, received, server, completed>>
    /\ \/ Faulty /\ Fails(t) /\ UNCHANGED begun
       \/ /\ Fine /\ UNCHANGED begun /\ Cardinality(Pending(Carried(t))) >= MaxPending
          /\ Reply(t, Expired(Carried(t)), Rest)
       \/ /\ Fine /\ Cardinality(Pending(Carried(t))) < MaxPending
          /\ \E s \in Fresh :
                /\ Reply(t, With(Puts(TxCookie(s), "live"), Expired(Carried(t))),
                         Visit("authorize", s, None, ui))
                /\ begun' = [begun EXCEPT ![s] = home[t]]

\* The integrations that speak HTTP through the core, and Django, may sign in with
\* forms of their own; the gate's and Next.js's own routes use the server's pages.
HttpStart(t) == app = "http" /\ Start(t, tab[t].visit.with)
DjangoStart(t) == app = "django" /\ Start(t, tab[t].visit.with)
HostedUi(ui) == IF ui = "login" THEN "hostedLogin" ELSE "hosted"
GateStart(t) == app = "gate" /\ Start(t, HostedUi(tab[t].visit.with))
NextStart(t) == app = "nextjs" /\ Start(t, HostedUi(tab[t].visit.with))

\* GET /sso/authorize, at the server: a code for the browser's shared session, or a
\* request that the application's forms or the server's pages take up.
Authorize(t) ==
    /\ Handles(t, "authorize") /\ ByServer
    /\ UNCHANGED <<jar, tickets, active, mail, allowed, redeemed>> /\ Fine
    /\ LET e == Carried(t)[Central]
           ui == tab[t].visit.with
           signedIn == e # None /\ active[home[t]] = e /\ ui \notin {"login", "hostedLogin"}
       IN  IF signedIn /\ e \notin allowed
           THEN Opens(t, Rest) /\ UNCHANGED <<requests, codes>>
           ELSE \E r \in Req :
                  /\ \A q \in requests : q.id # r
                  /\ requests' = requests \union {[id |-> r, state |-> Here(t), grant |-> None,
                                                   browser |-> home[t], open |-> ~signedIn]}
                  /\ IF signedIn
                     THEN /\ codes' = codes \union {[req |-> r, state |-> Here(t),
                                                     browser |-> home[t], email |-> e]}
                          /\ Opens(t, Visit("callback", Here(t), r, None))
                     ELSE /\ Opens(t, Visit(IF ui \in {"hosted", "hostedLogin"} THEN "issuer"
                                            ELSE "prepared", Here(t), r, None))
                          /\ UNCHANGED codes

\* The open request of a context that names it and holds its transaction.
Asked(r, s) == {q \in requests : q.id = r /\ q.state = s /\ q.open}
Closed(r) == requests' = {IF q.id = r THEN [q EXCEPT !.open = FALSE] ELSE q : q \in requests}

\* Signing in on the server's own pages (HostedSignIn) ends with a shared session
\* and a code.
SignInAtServer(t, e) ==
    /\ Presses(t, "issuer")
    /\ Asked(tab[t].visit.req, Here(t)) # {} /\ Closed(tab[t].visit.req)
    /\ e \in allowed
    /\ active' = [active EXCEPT ![home[t]] = e] /\ Stores(t, e)
    /\ codes' = codes \union {[req |-> tab[t].visit.req, state |-> Here(t),
                               browser |-> home[t], email |-> e]}
    /\ Opens(t, To("callback", tab[t].visit, tab[t].visit.with))
    /\ Acknowledges(t, e)
    /\ Fine /\ UNCHANGED <<app, home, late, tickets, mail, allowed, begun, received, redeemed,
                             completed>>

\* prepare: the application's form, for a transaction and the request the server
\* keeps for it.
Prepare(t) ==
    /\ Handles(t, "prepared") /\ ByApplication /\ UNCHANGED <<server, completed>>
    /\ \/ /\ Fine /\ HasTransaction(Carried(t), Here(t)) /\ Asked(tab[t].visit.req, Here(t)) # {}
          /\ Reply(t, Puts(Continuation(Here(t)), Prepared(tab[t].visit.req)),
                   To("form", tab[t].visit, tab[t].visit.with))
       \/ Fine /\ ~HasTransaction(Carried(t), Here(t)) /\ Fails(t)
       \/ Fine /\ Asked(tab[t].visit.req, Here(t)) = {} /\ Fails(t)
       \/ Faulty /\ Fails(t)

HttpPrepare(t) == app = "http" /\ Prepare(t)
DjangoPrepare(t) == app = "django" /\ Prepare(t)

Mailed(e, s, spent) == [email |-> e, state |-> s, spent |-> spent]

\* POST /signin with a context binds the mail to the request before it is sent.
BindBootstrapGrant(r, s, m) ==
    requests' = (requests \ Asked(r, s)) \union {[q EXCEPT !.grant = m] : q \in Asked(r, s)}
SendForm(t) ==
    /\ Handles(t, "send") /\ ByApplication
    /\ UNCHANGED <<tickets, codes, active, allowed, redeemed, completed>>
    /\ LET r == Context(Carried(t), Here(t))
           e == tab[t].visit.with
       IN  \/ /\ Fine /\ (r = None \/ Asked(r, Here(t)) = {} \/ e \notin allowed)
              /\ Fails(t) /\ UNCHANGED <<requests, mail>>
           \/ /\ r # None /\ Asked(r, Here(t)) # {} /\ e \in allowed
              /\ \E m \in Mail :
                   /\ mail[m] = None
                   /\ BindBootstrapGrant(r, Here(t), m)
                   /\ \/ /\ mail' = [mail EXCEPT ![m] = Mailed(e, Here(t), FALSE)]
                         /\ \/ Fine /\ Reply(t, Unchanged, Visit("mailed", Here(t), r, m))
                            \/ Faulty /\ Fails(t)
                      \/ UNCHANGED mail /\ Faulty /\ Fails(t)

HttpSendForm(t) == app = "http" /\ SendForm(t)
DjangoSendForm(t) == app = "django" /\ SendForm(t)

\* The link of a mail: the confirmation page, and a cookie that names this page.
Confirmation(t) ==
    /\ Handles(t, "preview") /\ ByApplication /\ UNCHANGED <<server, completed>>
    /\ LET m == tab[t].visit.with
       IN  \/ /\ Fine /\ ~mail[m].spent
              /\ Reply(t, Puts(ConfirmCookie(Here(t)), t), Visit("confirm", Here(t), None, m))
           \/ Fine /\ mail[m].spent /\ Fails(t)
           \/ Faulty /\ Fails(t)

HttpConfirmation(t) == app = "http" /\ Confirmation(t)
DjangoConfirmation(t) == app = "django" /\ Confirmation(t)

\* POST /verify-email or /verify-email/otp at the server: the mail is spent, and a
\* sign-in that came with its context gets a ticket, unless the rules of the site
\* changed, before or while it is made out.
NoTicket == UNCHANGED <<requests, tickets>>
CanHaveTicket(r, s, m) == \E q \in Asked(r, s) : q.grant = m
IssueTicket(r, s, m) ==
    /\ Closed(r)
    /\ tickets' = tickets \union {[req |-> q.id, state |-> s, browser |-> q.browser,
                                    token |-> Token(mail[m].email, m)] : q \in Asked(r, s)}
Spend(m) == ~mail[m].spent /\ mail' = [mail EXCEPT ![m] = Mailed(@.email, @.state, TRUE)]
Exchanged(m, r, s, answer) ==
    /\ UNCHANGED <<codes, active, redeemed>>
    /\ \/ /\ answer = "refused" /\ UNCHANGED <<mail, allowed>> /\ NoTicket
          /\ \/ mail[m].spent /\ Fine
             \/ Faulty
       \/ /\ Spend(m) /\ mail[m].email \in allowed
          /\ IF CanHaveTicket(r, s, m)
             THEN \/ /\ IssueTicket(r, s, m)
                     /\ \/ answer = "ticket" /\ Fine /\ UNCHANGED allowed
                        \/ answer = "refused" /\ Faulty /\ UNCHANGED allowed
                        \/ /\ answer = "refused" /\ Faulty
                           /\ allowed' = allowed \ {mail[m].email}
                  \/ answer = "local" /\ Faulty /\ NoTicket /\ UNCHANGED allowed
             ELSE /\ NoTicket /\ UNCHANGED allowed
                  /\ \/ answer = "local" /\ Fine
                     \/ answer = "refused" /\ Faulty
       \/ /\ Spend(m) /\ mail[m].email \notin allowed
          /\ NoTicket /\ Fine /\ UNCHANGED allowed
          /\ answer = IF r = None THEN "local" ELSE "refused"

\* complete: the session is handed out whatever became of the shared sign-in, whose
\* next step waits in the continuation cookie.
SignedIn(tok) == Puts(Auth, tok)
ToRedeem_SharedFirst(t, r, tok, clears) ==
    Reply(t, With(Puts(Continuation(Here(t)), Finishing(r, tok)), clears),
          Visit("redeem", Here(t), r, None))
ToRedeem(t, r, tok, clears) ==
    Reply(t, With(Puts(Continuation(Here(t)), Finishing(r, tok)), With(clears, SignedIn(tok))),
          Visit("redeem", Here(t), r, None))
StaysLocal(t, clears, tok) ==
    Reply(t, With(clears, SignedIn(tok)), Local)
LocalClears(c, s) ==
    IF InPhase(c, s, "prepared") \/ (app = "django" /\ InPhase(c, s, "finish"))
    THEN Clear(s) ELSE Unchanged
Complete(t, m, clears) ==
    LET r == Context(Carried(t), Here(t))
        tok == Token(mail[m].email, m)
    IN  \/ Exchanged(m, r, Here(t), "refused") /\ Fails(t)
        \/ Exchanged(m, r, Here(t), "ticket") /\ ToRedeem(t, r, tok, clears)
        \/ /\ Exchanged(m, r, Here(t), "local")
           /\ StaysLocal(t, With(LocalClears(Carried(t), Here(t)), clears), tok)

\* The confirmation form counts only with the cookie its page was shown with.
Verify(t) ==
    /\ Handles(t, "verify") /\ ByApplication /\ UNCHANGED completed
    /\ IF Carried(t)[ConfirmCookie(Here(t))] = t
       THEN Complete(t, tab[t].visit.with, Puts(ConfirmCookie(Here(t)), None))
       ELSE Fails(t) /\ Fine /\ UNCHANGED server
\* A code needs the context it was asked for in.
Otp(t) ==
    /\ Handles(t, "otp") /\ ByApplication /\ UNCHANGED completed
    /\ IF Context(Carried(t), Here(t)) # None
       THEN Complete(t, tab[t].visit.with, Unchanged)
       ELSE Fails(t) /\ Fine /\ UNCHANGED server

HttpVerify(t) == app = "http" /\ (Verify(t) \/ Otp(t))
DjangoVerify(t) == app = "django" /\ (Verify(t) \/ Otp(t))

--------------------------------------------------------------------------------
\* GET and POST /sso/bootstrap/redeem, at the server: the ticket becomes the shared
\* session of the browser it was made for; another browser, or one that is signed
\* in as somebody else, is asked first.
LiveTickets(r, s) == {k \in tickets : k.req = r /\ k.state = s}
SameBrowser(k, b) == k.browser = b
SignedInElse(c, b, e) == c[Central] # None /\ active[b] = c[Central] /\ c[Central] # e
NeedsConfirmation_OtherAccountOnly(k, t) ==
    SignedInElse(Carried(t), home[t], k.token.email)
NeedsConfirmation(k, t) ==
    ~SameBrowser(k, home[t]) \/ SignedInElse(Carried(t), home[t], k.token.email)

FailedShared(t) == Opens(t, To("failed", tab[t].visit, None))
Redeems(t, k) ==
    /\ tickets' = tickets \ {k}
    /\ \/ /\ active' = [active EXCEPT ![home[t]] = k.token.email] /\ Stores(t, k.token.email)
          /\ IF SameBrowser(k, home[t])
             THEN /\ redeemed' = redeemed \union {[browser |-> home[t], state |-> k.state,
                                                    token |-> k.token]}
                  /\ Opens(t, Visit("finish", k.state, k.req, [req |-> k.req, token |-> k.token]))
             ELSE Opens(t, Rest) /\ UNCHANGED redeemed
          /\ Fine /\ UNCHANGED allowed
       \* The rules change while the session is made, which is revoked again, or
       \* nobody hears of it.
       \/ /\ active' = [active EXCEPT ![home[t]] = None]
          /\ \/ allowed' = allowed \ {k.token.email} /\ FailedShared(t)
             \/ Opens(t, Rest) /\ UNCHANGED allowed
          /\ Faulty /\ UNCHANGED <<jar, redeemed>>
Redeem(t) ==
    /\ Handles(t, "redeem") \/ Handles(t, "adoptConfirmed")
    /\ ByServer /\ UNCHANGED <<requests, codes, mail>>
    /\ LET found == LiveTickets(tab[t].visit.req, Here(t))
           refused == \A k \in found : k.token.email \notin allowed
           same == UNCHANGED <<jar, tickets, active, allowed, redeemed>> /\ Fine
       IN  IF refused THEN FailedShared(t) /\ same
           ELSE \E k \in found :
                  IF Handles(t, "redeem") /\ NeedsConfirmation(k, t)
                  THEN Opens(t, To("adopt", tab[t].visit, k.token.email)) /\ same
                  ELSE Redeems(t, k)

\* POST /sso/signout: the shared session ends and with it the tickets of the browser.
SignOut(t) ==
    /\ Handles(t, "signout") /\ ByServer
    /\ active' = [active EXCEPT ![home[t]] = None] /\ Stores(t, None)
    /\ tickets' = {k \in tickets : k.browser # home[t]}
    /\ Opens(t, Rest)
    /\ Fine /\ UNCHANGED <<requests, codes, mail, allowed, redeemed>>

\* finish: the shared sign-in is complete if the receipt speaks of this transaction,
\* its ticket and the session the application's cookie holds now.
ReceiptFits(cont, receipt) == receipt = [req |-> cont.req, token |-> cont.token]
SameSession_Any(c, cont) == c[Auth] # None
SameSession(c, cont) == c[Auth] # None /\ c[Auth] = cont.token
Finish(t) ==
    /\ Handles(t, "finish") /\ ByApplication /\ UNCHANGED server /\ Fine
    /\ LET c == Carried(t)
           s == Here(t)
           receipt == tab[t].visit.with
       IN  IF ~InPhase(c, s, "finish") THEN Fails(t) /\ UNCHANGED completed
           ELSE IF /\ receipt # None /\ SameSession(c, c[Continuation(s)])
                   /\ ReceiptFits(c[Continuation(s)], receipt)
           THEN /\ completed' = completed \union {[browser |-> home[t], state |-> s,
                                                    token |-> c[Auth]]}
                /\ Reply(t, Clear(s), AtApplication)
           ELSE Reply(t, Clear(s), Local) /\ UNCHANGED completed

HttpFinish(t) == app = "http" /\ Finish(t)
DjangoFinish(t) == app = "django" /\ Finish(t)

\* callback: a code is traded once, with the transaction it belongs to, which the
\* browser forgets whatever the answer is.
Trade(t, ok) ==
    \/ /\ Faulty /\ ~ok /\ UNCHANGED codes
    \/ /\ Fine /\ ~ok
       /\ \A k \in codes : k.req = tab[t].visit.req =>
             k.state # Here(t) \/ active[k.browser] # k.email \/ k.email \notin allowed
       /\ UNCHANGED codes
    \/ \E k \in codes :
          /\ k.req = tab[t].visit.req /\ k.state = Here(t)
          /\ active[k.browser] = k.email /\ k.email \in allowed
          /\ codes' = codes \ {k}
          /\ IF ok THEN Fine ELSE Faulty
CodeToken(t) == LET k == CHOOSE k \in codes : k.req = tab[t].visit.req IN Token(k.email, k.req)
ClearTransaction(c, s) ==
    IF InPhase(c, s, "prepared") \/ InPhase(c, s, "finish") THEN Clear(s) ELSE Puts(TxCookie(s), None)
Callback(t) ==
    /\ Handles(t, "callback") /\ ByApplication
    /\ UNCHANGED <<requests, tickets, active, mail, allowed, redeemed, completed>>
    /\ LET c == Carried(t)
           s == Here(t)
       IN  CASE c[TxCookie(s)] = None -> Fails(t) /\ Fine /\ UNCHANGED codes
             [] c[TxCookie(s)] # None /\ s \in late ->
                    Reply(t, ClearTransaction(c, s), Rest) /\ Fine /\ UNCHANGED codes
             [] OTHER ->
                    \/ /\ Trade(t, TRUE)
                       /\ Reply(t, With(ClearTransaction(c, s), SignedIn(CodeToken(t))),
                                AtApplication)
                    \/ Trade(t, FALSE) /\ Reply(t, ClearTransaction(c, s), Rest)

HttpCallback(t) == app = "http" /\ Callback(t)
DjangoCallback(t) == app = "django" /\ Callback(t)
GateCallback(t) == app = "gate" /\ Callback(t)
NextCallback(t) == app = "nextjs" /\ Callback(t)

Visitor(t) ==
    \/ OpenApplication(t) \/ SubmitAddress(t) \/ FollowMail(t) \/ PressContinue(t)
    \/ TypeCode(t) \/ PressConfirmShared(t) \/ ReturnToApplication(t) \/ SignOutEverywhere(t)
    \/ \E u \in Tab : OpenAgain(t, u)
    \/ \E e \in Email : SignInAtServer(t, e)
    \/ Arrive(t) \/ Lose(t)
Application(t) ==
    \/ HttpStart(t) \/ DjangoStart(t) \/ GateStart(t) \/ NextStart(t)
    \/ HttpPrepare(t) \/ DjangoPrepare(t) \/ HttpSendForm(t) \/ DjangoSendForm(t)
    \/ HttpConfirmation(t) \/ DjangoConfirmation(t) \/ HttpVerify(t) \/ DjangoVerify(t)
    \/ HttpFinish(t) \/ DjangoFinish(t)
    \/ HttpCallback(t) \/ DjangoCallback(t) \/ GateCallback(t) \/ NextCallback(t)
OwnedNext ==
    \/ \E t \in Tab : Visitor(t) \/ Application(t) \/ Authorize(t) \/ Redeem(t) \/ SignOut(t)
    \/ \E s \in State : Lapse(s)
    \/ Reload

OwnedSpec == OwnedInit /\ [][OwnedNext]_ownedVars

--------------------------------------------------------------------------------
\* Transactions that a browser other than their own took to the server, because the
\* address they wait at was opened there.
Strayed == {s \in State : \E q \in requests : q.state = s /\ q.browser # begun[s]}
Met(b, s) == begun[s] = b \/ \E q \in requests : q.state = s /\ q.browser = b

\* Whenever an application calls a shared sign-in complete, the session its cookie
\* holds is the one whose ticket gave this very browser its shared session, however
\* the tabs' sign-ins overlap and whatever addresses are opened twice.
CompletedForItsSession ==
    \A c \in completed : c \in redeemed \/ c.state \in Strayed

\* No browser is signed in, at the server or at the application, as anybody its
\* visitor did not say yes to in this browser: on a confirmation page, with a code,
\* or on the server's own pages.
SignedInByItsVisitor ==
    \A b \in Browser :
        \/ \E s \in Strayed : Met(b, s)
        \/ /\ active[b] # None => <<b, active[b]>> \in acknowledged
           /\ jar[b][Auth] # None => <<b, jar[b][Auth].email>> \in acknowledged

\* The application's own session comes first: a ticket gives a browser its shared
\* session only after the session it was made out with has reached that browser.
LocalSessionFirst ==
    \A k \in redeemed :
        [browser |-> k.browser, token |-> k.token] \in received \/ k.state \in Strayed
================================================================================

----------------------------- MODULE ClassicClient -----------------------------
(* The e-mail sign-in as the applications run it: the gate, the Next.js, Nuxt and
   Django packages, the Angular and Fastify integrations, and the sign-in server's
   own pages, for a site that brings none.  An application keeps
   nothing between two requests; everything is in the browser's cookie jar, which
   all tabs share, in the page a tab shows, and at the sign-in server.  A request
   carries the cookies the jar held when it was sent, and its reply changes the
   jar when it arrives, so the requests of two tabs overlap freely. *)
EXTENDS Naturals

CONSTANTS Tab, Mail, Url,
          Nil,
          Kept,             \* for a cookie that a reply leaves as it is
          MaxRequests,      \* requests the browser sends in one behaviour
          MaxFaults         \* lost calls or replies, and requests that name no origin

ASSUME ClassicClientAssumption ==
    /\ Nil \notin Mail /\ Kept \notin Mail \union Nat \union {Nil}
    /\ {Nil, Kept} \intersect [mail : Mail, url : Url \union {Nil}] = {}

VARIABLES
    app,         \* the application all of this happens in
    jar,         \* the browser's cookies for it
    page,        \* what each tab shows
    call,        \* the request a tab waits for
    mail,        \* [Mail -> the server's view of the mail, its link and its code]
    asked,       \* [Mail -> the page the sign-in was asked from, its returnUrl]
    session,     \* [Mail -> the session the mail was exchanged for]
    csrfs,       \* CSRF values handed out
    socket,      \* sessions of the WebSockets the gate holds open
    confirmed,   \* mails the visitor continued with, by button or by code
    delivered,   \* sessions whose cookie reached the browser
    lost,        \* sessions whose reply never reached the application
    requests, faults

clientVars == <<app, jar, page, call, mail, asked, session, csrfs, socket,
                confirmed, delivered, lost, requests, faults>>

App == {"server", "gate", "nextjs", "nuxt", "angular", "django", "fastify"}
\* Where the script of the page keeps the challenge and shows the code form.
Scripted == {"nextjs", "nuxt", "angular"}

\* Pages: the sign-in form, or the code form when it offers a mail's challenge;
\* the confirmation page of a mail; a page of the application.
Login(u, m) == [kind |-> "login", url |-> u, mail |-> m, csrf |-> 0, token |-> Nil]
Confirmation(m, u, n, tok) ==
    [kind |-> "confirm", url |-> u, mail |-> m, csrf |-> n, token |-> tok]
Landed(u) == [kind |-> "landed", url |-> u, mail |-> Nil, csrf |-> 0, token |-> Nil]
ErrorPage == [kind |-> "error", url |-> Nil, mail |-> Nil, csrf |-> 0, token |-> Nil]
\* A redirect to the sign-in form, where what the form offers depends on the jar.
Redirect(u) == [kind |-> "redirect", url |-> u, mail |-> Nil, csrf |-> 0, token |-> Nil]

Waiting == [stage |-> "idle"]
Cookies(auth, csrf, token, otp) == [auth |-> auth, csrf |-> csrf, token |-> token, otp |-> otp]
NoCookies == Cookies(Nil, 0, Nil, Nil)

\* What a reply sets, over what another one sets or the jar holds.
Unchanged == Cookies(Kept, Kept, Kept, Kept)
Or(new, old) == IF new = Kept THEN old ELSE new
Over(set, old) == Cookies(Or(set.auth, old.auth), Or(set.csrf, old.csrf),
                          Or(set.token, old.token), Or(set.otp, old.otp))

Request(op, form, input, cookies, named) ==
    [stage |-> "sent", op |-> op, page |-> form, input |-> input, cookies |-> cookies,
     named |-> named, set |-> Unchanged, next |-> form]
At(stage, c, set, next) ==
    [stage |-> stage, op |-> c.op, page |-> c.page, input |-> c.input, cookies |-> c.cookies,
     named |-> c.named, set |-> set, next |-> next]

ClientInit ==
    /\ app \in App
    /\ jar = NoCookies
    /\ call = [t \in Tab |-> Waiting]
    \* The tabs show sign-in forms, or the mails were asked for in another browser.
    /\ \/ /\ page \in [Tab -> {Login(u, Nil) : u \in Url}]
          /\ mail = [m \in Mail |-> "unsent"] /\ asked = [m \in Mail |-> Nil]
       \/ /\ page = [t \in Tab |-> Landed(Nil)]
          /\ mail = [m \in Mail |-> "live"] /\ asked \in [Mail -> Url]
    /\ session = [m \in Mail |-> "none"]
    /\ csrfs = 0 /\ socket = {}
    /\ confirmed = {} /\ delivered = {} /\ lost = {}
    /\ requests = 0 /\ faults = 0

--------------------------------------------------------------------------------
\* The visitor.  A tab sends one request at a time and waits for its reply.
Send(t, op, input) ==
    /\ call[t] = Waiting /\ requests < MaxRequests
    /\ requests' = requests + 1
    /\ \E named \in BOOLEAN :
         /\ \/ named
            \/ /\ faults < MaxFaults /\ op \in {"signin", "confirm", "code", "logout"}
               /\ app = "server" => op = "logout"    \* its forms carry a CSRF value
         /\ faults' = IF named THEN faults ELSE faults + 1
         /\ call' = [call EXCEPT ![t] = Request(op, page[t], input, jar, named)]
    /\ UNCHANGED <<app, jar, page, mail, asked, session, csrfs, socket, delivered, lost>>

Browse(t) == \E u \in Url : app # "server" /\ Send(t, "visit", u) /\ UNCHANGED confirmed
OpenSocket(t) ==
    app = "gate" /\ page[t].kind = "landed" /\ Send(t, "upgrade", Nil) /\ UNCHANGED confirmed
OpenLogin(t) == \E u \in Url : Send(t, "login", u) /\ UNCHANGED confirmed
UseAnotherAddress(t) ==
    /\ app \notin Scripted /\ page[t].kind = "login" /\ page[t].mail # Nil
    /\ Send(t, "reset", page[t].url) /\ UNCHANGED confirmed
\* The script forgets the challenge and asks nobody.
ForgetChallenge(t) ==
    /\ app \in Scripted /\ call[t] = Waiting /\ page[t].kind = "login" /\ page[t].mail # Nil
    /\ page' = [page EXCEPT ![t] = Login(@.url, Nil)]
    /\ UNCHANGED <<app, jar, call, mail, asked, session, csrfs, socket,
                   confirmed, delivered, lost, requests, faults>>
AskToSignIn(t) ==
    /\ page[t].kind = "login" /\ page[t].mail = Nil
    /\ \E m \in Mail : mail[m] = "unsent" /\ Send(t, "signin", m)
    /\ UNCHANGED confirmed
FollowLink(t) ==
    \E m \in Mail : mail[m] # "unsent" /\ Send(t, "preview", m) /\ UNCHANGED confirmed
PressContinue(t) ==
    /\ page[t].kind = "confirm"
    /\ Send(t, "confirm", Nil) /\ confirmed' = confirmed \union {page[t].mail}
TypeCode(t) ==
    /\ page[t].kind = "login" /\ page[t].mail # Nil
    /\ \E m \in Mail : /\ mail[m] # "unsent" /\ Send(t, "code", m)
                       /\ confirmed' = confirmed \union {m}
PressLogout(t) == page[t].kind = "landed" /\ Send(t, "logout", Nil) /\ UNCHANGED confirmed

\* The reply arrives: its Set-Cookie lines change the jar, its page replaces the
\* one the tab shows, and a redirect to the form is followed at once.
Arrive(t) ==
    /\ call[t].stage = "answered"
    /\ jar' = Over(call[t].set, jar)
    /\ LET next == call[t].next
       IN  IF next.kind = "redirect"
           THEN /\ call' = [call EXCEPT ![t] = Request("login", next, next.url, jar', TRUE)]
                /\ UNCHANGED page
           ELSE page' = [page EXCEPT ![t] = next] /\ call' = [call EXCEPT ![t] = Waiting]
    /\ delivered' = delivered \union ({call[t].set.auth} \ {Nil, Kept})
    /\ UNCHANGED <<app, mail, asked, session, csrfs, socket, confirmed, lost, requests, faults>>

--------------------------------------------------------------------------------
\* The sign-in server, as a call of the application meets it.
\* POST /signin: a mail goes out, or not; the application sees it, or not.
ServerMails(m, u, ok) ==
    LET sends == mail' = [mail EXCEPT ![m] = "live"] /\ asked' = [asked EXCEPT ![m] = u]
    IN  /\ \/ ok /\ mail[m] = "unsent" /\ sends /\ UNCHANGED faults
           \/ ~ok /\ faults < MaxFaults /\ faults' = faults + 1
              /\ (UNCHANGED <<mail, asked>> \/ (mail[m] = "unsent" /\ sends))
           \/ ~ok /\ mail[m] # "unsent" /\ UNCHANGED <<mail, asked, faults>>
        /\ UNCHANGED <<session, lost>>

\* GET /verify-email: says whose mail it is and changes nothing.  A spent mail is
\* shown until its link expires: the replay store is not asked.
ServerPreviews(m, ok) ==
    /\ \/ mail[m] \in {"live", "spent"} /\ ok /\ UNCHANGED faults
       \/ ~ok /\ mail[m] \in {"spent", "lapsed"} /\ UNCHANGED faults
       \/ ~ok /\ faults < MaxFaults /\ faults' = faults + 1
    /\ UNCHANGED <<mail, asked, session, lost>>

\* POST /verify-email and /verify-email/otp: exchanges a live mail once.
ServerExchanges(m, ok) ==
    /\ \/ /\ mail[m] = "live"
          /\ mail' = [mail EXCEPT ![m] = "spent"]
          /\ session' = [session EXCEPT ![m] = "valid"]
          /\ \/ ok /\ UNCHANGED <<lost, faults>>
             \/ ~ok /\ faults < MaxFaults /\ faults' = faults + 1 /\ lost' = lost \union {m}
       \/ ~ok /\ mail[m] # "live" /\ UNCHANGED <<mail, session, lost, faults>>
       \/ ~ok /\ faults < MaxFaults /\ faults' = faults + 1 /\ UNCHANGED <<mail, session, lost>>
    /\ UNCHANGED asked

\* A code is exchanged for the challenge it was mailed with and no other.
ServerTakesCode(challenge, code, ok) ==
    IF challenge = code THEN ServerExchanges(challenge, ok)
    ELSE ~ok /\ UNCHANGED <<mail, asked, session, lost, faults>>

Known(s) == s # Nil /\ session[s] # "lapsed"

\* POST /logout: a session that is none of the server's, or has lapsed, is let be.
ServerRevokes(s) ==
    session' = IF Known(s) THEN [session EXCEPT ![s] = "revoked"] ELSE session

ServerAside == UNCHANGED <<mail, asked, session, lost, faults>>

\* Links and sessions reach the end of their life.
Lapse(m) ==
    /\ \/ mail[m] = "live" /\ mail' = [mail EXCEPT ![m] = "lapsed"] /\ UNCHANGED session
       \/ session[m] = "valid" /\ session' = [session EXCEPT ![m] = "lapsed"] /\ UNCHANGED mail
    /\ faults < MaxFaults /\ faults' = faults + 1
    /\ UNCHANGED <<app, jar, page, call, asked, csrfs, socket, confirmed, delivered, lost, requests>>

\* An application answers the request of a tab.
Handles(a, t, op) == app = a /\ call[t].stage = "sent" /\ call[t].op = op
Answer(t, set, next) ==
    /\ call' = [call EXCEPT ![t] = At("answered", @, set, next)]
    /\ UNCHANGED <<app, jar, page, socket, confirmed, delivered, requests>>
Reply(t, set, next) == Answer(t, set, next) /\ UNCHANGED csrfs
Stays(t) == call[t].page
\* Cookies that replies of several applications set.
SignedIn(m) == Cookies(m, Kept, Kept, Kept)
SignedOut == Cookies(Nil, Kept, Kept, Kept)
Csrf(n) == Cookies(Kept, n, Kept, Kept)
Verification(n, m) == Cookies(Kept, n, m, Kept)
ClearCsrf == Csrf(0)
ClearConfirm == Verification(0, Nil)
ClearToken == Cookies(Kept, Kept, Nil, Kept)
ClearOtp == Cookies(Kept, Kept, Kept, Nil)
ClearVerifyEmail == Over(ClearConfirm, ClearOtp)

PlainLogin(t) == Reply(t, Unchanged, Login(call[t].input, Nil)) /\ ServerAside
DropsCookie(t) ==
    Reply(t, IF call[t].named THEN SignedOut ELSE Unchanged, Landed(Nil)) /\ ServerAside
\* The cookie's signature and expiry are checked and no server is asked.
ChecksLocally(t, otherwise) ==
    /\ Reply(t, Unchanged, IF Known(call[t].cookies.auth) THEN Landed(call[t].input) ELSE otherwise)
    /\ ServerAside

--------------------------------------------------------------------------------
\* The gate.
\* The confirmation form is honoured only with the CSRF value of the jar; the token
\* is the form's or else the jar's, and the two never disagree.
SameCsrf(c) == c.cookies.csrf # 0 /\ c.page.csrf = c.cookies.csrf
SubmittedToken(c) ==
    CASE c.page.token = Nil -> c.cookies.token
      [] c.page.token # Nil /\ c.cookies.token \in {Nil, c.page.token} -> c.page.token
      [] OTHER -> Nil
GateTokenToExchange_SignatureOnly(c) == IF c.page.csrf # 0 THEN SubmittedToken(c) ELSE Nil
GateTokenToExchange(c) == IF SameCsrf(c) THEN SubmittedToken(c) ELSE Nil

OtpChallenge(m, u) == [mail |-> m, url |-> u]
OtpChallengeCookie(m, u) == Cookies(Kept, Kept, Kept, OtpChallenge(m, u))

GateLogin(t) ==
    /\ Handles("gate", t, "login")
    /\ LET c == call[t]
           offered == IF c.cookies.otp # Nil /\ c.cookies.otp.url = c.input
                      THEN c.cookies.otp.mail ELSE Nil
       IN  Reply(t, Unchanged, Login(c.input, offered))
    /\ ServerAside
GateReset(t) ==
    /\ Handles("gate", t, "reset")
    /\ Reply(t, ClearOtp, Redirect(call[t].input)) /\ ServerAside

GateSignIn(t) ==
    /\ Handles("gate", t, "signin")
    /\ LET m == call[t].input
           u == call[t].page.url
       IN  \/ ~call[t].named /\ ServerAside /\ Reply(t, Unchanged, Landed(Nil))
           \/ call[t].named /\ ServerMails(m, u, FALSE) /\ Reply(t, Unchanged, Redirect(u))
           \/ /\ call[t].named /\ ServerMails(m, u, TRUE)
              /\ \/ Reply(t, OtpChallengeCookie(m, u), Redirect(u))
                 \/ Reply(t, ClearOtp, Redirect(u))

GatePreview(t) ==
    /\ Handles("gate", t, "preview")
    /\ LET m == call[t].input
           u == asked[m]
       IN  \/ /\ ServerPreviews(m, TRUE) /\ csrfs' = csrfs + 1
              /\ Answer(t, Verification(csrfs + 1, m),
                        Confirmation(m, u, csrfs + 1, Nil))
           \/ ServerPreviews(m, FALSE) /\ Reply(t, ClearVerifyEmail, Redirect(u))

GateConfirm(t) ==
    /\ Handles("gate", t, "confirm")
    /\ LET c == call[t]
           m == GateTokenToExchange(c)
           u == c.page.url
       IN  \/ ~c.named /\ ServerAside /\ Reply(t, Unchanged, Landed(Nil))
           \/ c.named /\ m = Nil /\ ServerAside /\ Reply(t, ClearVerifyEmail, Redirect(u))
           \/ /\ c.named /\ m # Nil
              /\ \/ ServerExchanges(m, TRUE)
                    /\ Reply(t, Over(SignedIn(m), ClearVerifyEmail), Landed(u))
                 \/ ServerExchanges(m, FALSE)
                    /\ Reply(t, ClearVerifyEmail, Redirect(u))

\* The challenge comes from the jar, whatever the page offered, and so does the page
\* to go to.
CodeLeadsTo_FormPage(c) == c.page.url
CodeLeadsTo(c) == c.cookies.otp.url

GateCode(t) ==
    /\ Handles("gate", t, "code")
    /\ LET c == call[t]
           otp == c.cookies.otp
       IN  \/ ~c.named /\ ServerAside /\ Reply(t, Unchanged, Landed(Nil))
           \/ c.named /\ otp = Nil /\ ServerAside /\ Reply(t, ClearOtp, Redirect(Nil))
           \/ /\ c.named /\ otp # Nil
              /\ \/ ServerTakesCode(otp.mail, c.input, TRUE)
                    /\ Reply(t, Over(SignedIn(otp.mail), ClearOtp), Landed(CodeLeadsTo(c)))
                 \/ ServerTakesCode(otp.mail, c.input, FALSE)
                    /\ Reply(t, Unchanged, Redirect(otp.url))

\* Logging out asks the server to revoke the session, and goes on without it.
GateLogout(t) ==
    /\ Handles("gate", t, "logout")
    /\ IF ~call[t].named
       THEN ServerAside /\ Reply(t, Unchanged, Landed(Nil))
       ELSE LET s == call[t].cookies.auth
            IN  /\ Reply(t, SignedOut, Landed(Nil))
                /\ UNCHANGED <<mail, asked, lost>>
                /\ \/ ServerRevokes(s)
                      /\ (UNCHANGED faults \/ (faults < MaxFaults /\ faults' = faults + 1))
                   \/ s # Nil /\ faults < MaxFaults /\ faults' = faults + 1 /\ UNCHANGED session

IsSessionRevoked_FailsOpen(s, revoked) ==
    \/ revoked = (session[s] = "revoked") /\ UNCHANGED faults
    \/ ~revoked /\ faults < MaxFaults /\ faults' = faults + 1
\* Is the session revoked?  Any failure to learn it counts as revoked.
IsSessionRevoked(s, revoked) ==
    \/ revoked = (session[s] = "revoked") /\ UNCHANGED faults
    \/ revoked /\ faults < MaxFaults /\ faults' = faults + 1

VerifyRequestAuth(c, ok) ==
    LET s == c.cookies.auth
    IN  IF Known(s) THEN IsSessionRevoked(s, ~ok) ELSE ~ok /\ UNCHANGED faults

Forwards(t) ==
    /\ call' = [call EXCEPT ![t] = At("forward", @, Unchanged, @.next)]
    /\ UNCHANGED <<app, jar, page, socket, confirmed, delivered, requests, csrfs>>

GateChecksVisit(t) ==
    /\ Handles("gate", t, "visit")
    /\ UNCHANGED <<mail, asked, session, lost>>
    /\ \/ VerifyRequestAuth(call[t], TRUE) /\ Forwards(t)
       \/ VerifyRequestAuth(call[t], FALSE) /\ Reply(t, Unchanged, Redirect(call[t].input))

\* The request goes on to the application behind the gate, whose answer may set
\* any cookie but the gate's own.
GateForwardsVisit(t) ==
    /\ app = "gate" /\ call[t].stage = "forward" /\ call[t].op = "visit"
    /\ Reply(t, Unchanged, Landed(call[t].input)) /\ ServerAside

GateChecksUpgrade(t) ==
    /\ Handles("gate", t, "upgrade")
    /\ UNCHANGED <<mail, asked, session, lost>>
    /\ \/ VerifyRequestAuth(call[t], TRUE) /\ Forwards(t)
       \/ VerifyRequestAuth(call[t], FALSE) /\ Reply(t, Unchanged, Stays(t))

GateForwardsUpgrade(t) ==
    /\ app = "gate" /\ call[t].stage = "forward" /\ call[t].op = "upgrade"
    /\ socket' = socket \union {call[t].cookies.auth}
    /\ call' = [call EXCEPT ![t] = At("answered", @, Unchanged, page[t])]
    /\ UNCHANGED <<app, jar, page, confirmed, delivered, requests, csrfs>> /\ ServerAside

GateHandles(t) ==
    \/ GateLogin(t) \/ GateReset(t) \/ GateSignIn(t) \/ GatePreview(t) \/ GateConfirm(t)
    \/ GateCode(t) \/ GateLogout(t) \/ GateChecksVisit(t) \/ GateForwardsVisit(t)
    \/ GateChecksUpgrade(t) \/ GateForwardsUpgrade(t)

--------------------------------------------------------------------------------
\* Pages whose script asks for the mail and the code keep the challenge themselves:
\* Next.js, Nuxt and Angular.  A reply leaves the form as it was or offers the code.
ScriptedSignIn(t) ==
    LET m == call[t].input
        u == call[t].page.url
    IN  \/ ServerMails(m, u, FALSE) /\ Reply(t, Unchanged, Stays(t))
        \/ ServerMails(m, u, TRUE)
           /\ (Reply(t, Unchanged, Login(u, m)) \/ Reply(t, Unchanged, Login(u, Nil)))

ScriptedCode(t) ==
    LET c == call[t]
    IN  \/ ServerTakesCode(c.page.mail, c.input, FALSE) /\ Reply(t, Unchanged, Stays(t))
        \/ ServerTakesCode(c.page.mail, c.input, TRUE)
           /\ Reply(t, SignedIn(c.page.mail), Landed(c.page.url))

NextLogin(t) == Handles("nextjs", t, "login") /\ PlainLogin(t)
NextSignIn(t) == Handles("nextjs", t, "signin") /\ ScriptedSignIn(t)
NextCode(t) ==
    /\ Handles("nextjs", t, "code")
    /\ IF call[t].named THEN ScriptedCode(t) ELSE Reply(t, Unchanged, Stays(t)) /\ ServerAside

NextPreview(t) ==
    /\ Handles("nextjs", t, "preview")
    /\ LET m == call[t].input
           u == asked[m]
       IN  \/ /\ ServerPreviews(m, TRUE) /\ csrfs' = csrfs + 1
              /\ Answer(t, Verification(csrfs + 1, m),
                        Confirmation(m, u, csrfs + 1, Nil))
           \/ ServerPreviews(m, FALSE) /\ Reply(t, Unchanged, Login(u, Nil))

NextVerifiedToken(c) == IF SameCsrf(c) THEN SubmittedToken(c) ELSE Nil

NextFails(t) == Reply(t, ClearConfirm, Login(call[t].page.url, Nil))

NextConfirm(t) ==
    /\ Handles("nextjs", t, "confirm")
    /\ LET m == NextVerifiedToken(call[t])
       IN  \/ m = Nil /\ ServerAside /\ NextFails(t)
           \/ m # Nil /\ ServerExchanges(m, FALSE) /\ NextFails(t)
           \/ m # Nil /\ ServerExchanges(m, TRUE)
              /\ Reply(t, Over(SignedIn(m), ClearConfirm), Landed(call[t].page.url))

NextLogout(t) == Handles("nextjs", t, "logout") /\ DropsCookie(t)

\* The middleware asks no server, and drops a session it cannot verify.
NextVisit(t) ==
    /\ Handles("nextjs", t, "visit")
    /\ LET s == call[t].cookies.auth
       IN  CASE s = Nil -> Reply(t, Unchanged, Login(call[t].input, Nil))
             [] s # Nil /\ Known(s) -> Reply(t, Unchanged, Landed(call[t].input))
             [] OTHER -> Reply(t, SignedOut, Login(call[t].input, Nil))
    /\ ServerAside

NextHandles(t) ==
    \/ NextLogin(t) \/ NextSignIn(t) \/ NextPreview(t) \/ NextConfirm(t)
    \/ NextCode(t) \/ NextLogout(t) \/ NextVisit(t)

--------------------------------------------------------------------------------
\* Nuxt: the confirmation form carries the token, the jar only the CSRF value.
NuxtLogin(t) == Handles("nuxt", t, "login") /\ PlainLogin(t)
NuxtSignIn(t) == Handles("nuxt", t, "signin") /\ ScriptedSignIn(t)
NuxtCode(t) ==
    /\ Handles("nuxt", t, "code")
    /\ IF call[t].named THEN ScriptedCode(t) ELSE Reply(t, Unchanged, Stays(t)) /\ ServerAside

NuxtPreview(t) ==
    /\ Handles("nuxt", t, "preview")
    /\ LET m == call[t].input
           u == asked[m]
       IN  \/ /\ ServerPreviews(m, TRUE) /\ csrfs' = csrfs + 1
              /\ Answer(t, Csrf(csrfs + 1), Confirmation(m, u, csrfs + 1, m))
           \/ ServerPreviews(m, FALSE) /\ Reply(t, Unchanged, Login(u, Nil))

NuxtConfirmedToken(c) == IF SameCsrf(c) THEN c.page.token ELSE Nil

NuxtConfirm_CsrfLast(t) ==
    /\ Handles("nuxt", t, "confirm")
    /\ LET c == call[t]
           m == c.page.token
       IN  \/ ServerExchanges(m, FALSE) /\ Reply(t, ClearCsrf, Login(c.page.url, Nil))
           \/ ServerExchanges(m, TRUE)
              /\ IF SameCsrf(c) THEN Reply(t, Over(SignedIn(m), ClearCsrf), Landed(c.page.url))
                 ELSE Reply(t, ClearCsrf, Login(c.page.url, Nil))
NuxtConfirm(t) ==
    /\ Handles("nuxt", t, "confirm")
    /\ LET m == NuxtConfirmedToken(call[t])
           u == call[t].page.url
       IN  \/ m = Nil /\ ServerAside /\ Reply(t, ClearCsrf, Login(u, Nil))
           \/ m # Nil /\ ServerExchanges(m, FALSE) /\ Reply(t, ClearCsrf, Login(u, Nil))
           \/ m # Nil /\ ServerExchanges(m, TRUE) /\ Reply(t, Over(SignedIn(m), ClearCsrf), Landed(u))

NuxtLogout(t) == Handles("nuxt", t, "logout") /\ DropsCookie(t)

NuxtVisit(t) ==
    Handles("nuxt", t, "visit") /\ ChecksLocally(t, Login(call[t].input, Nil))

NuxtHandles(t) ==
    \/ NuxtLogin(t) \/ NuxtSignIn(t) \/ NuxtPreview(t) \/ NuxtConfirm(t)
    \/ NuxtCode(t) \/ NuxtLogout(t) \/ NuxtVisit(t)

--------------------------------------------------------------------------------
\* Angular on Express.
AngularLogin(t) == Handles("angular", t, "login") /\ PlainLogin(t)
AngularSignIn(t) == Handles("angular", t, "signin") /\ ScriptedSignIn(t)
AngularCode(t) ==
    /\ Handles("angular", t, "code")
    /\ IF call[t].named THEN ScriptedCode(t) ELSE Reply(t, Unchanged, Stays(t)) /\ ServerAside

AngularPreview(t) ==
    /\ Handles("angular", t, "preview")
    /\ LET m == call[t].input
           u == asked[m]
       IN  \/ /\ ServerPreviews(m, TRUE) /\ csrfs' = csrfs + 1
              /\ Answer(t, Verification(csrfs + 1, m),
                        Confirmation(m, u, csrfs + 1, Nil))
           \/ ServerPreviews(m, FALSE) /\ Reply(t, Unchanged, Login(u, Nil))

\* The verification cookies go whatever comes of the submission.
AngularConfirm(t) ==
    /\ Handles("angular", t, "confirm")
    /\ LET c == call[t]
           u == c.page.url
           m == IF SameCsrf(c) THEN SubmittedToken(c) ELSE Nil
       IN  \/ m = Nil /\ ServerAside /\ Reply(t, ClearConfirm, Login(u, Nil))
           \/ m # Nil /\ ServerExchanges(m, FALSE) /\ Reply(t, ClearConfirm, Login(u, Nil))
           \/ m # Nil /\ ServerExchanges(m, TRUE)
              /\ Reply(t, Over(SignedIn(m), ClearConfirm), Landed(u))

AngularLogout(t) == Handles("angular", t, "logout") /\ DropsCookie(t)

AngularVisit(t) ==
    Handles("angular", t, "visit") /\ ChecksLocally(t, Login(call[t].input, Nil))

AngularHandles(t) ==
    \/ AngularLogin(t) \/ AngularSignIn(t) \/ AngularPreview(t) \/ AngularConfirm(t)
    \/ AngularCode(t) \/ AngularLogout(t) \/ AngularVisit(t)

--------------------------------------------------------------------------------
\* Django: the token and the challenge travel in the rendered forms, every POST is
\* under Django's own CSRF check, and failures render the form with no redirect.
DjangoLogin(t) == (Handles("django", t, "login") \/ Handles("django", t, "reset")) /\ PlainLogin(t)

DjangoSignIn(t) ==
    /\ Handles("django", t, "signin")
    /\ LET m == call[t].input
           u == call[t].page.url
       IN  \/ ServerMails(m, u, FALSE) /\ Reply(t, Unchanged, Login(u, Nil))
           \/ ServerMails(m, u, TRUE)
              /\ \E offered \in {m, Nil} : Reply(t, Unchanged, Login(u, offered))

DjangoPreview(t) ==
    /\ Handles("django", t, "preview")
    /\ LET m == call[t].input
           u == asked[m]
       IN  \/ ServerPreviews(m, TRUE) /\ Reply(t, Unchanged, Confirmation(m, u, 0, m))
           \/ ServerPreviews(m, FALSE) /\ Reply(t, Unchanged, Login(u, Nil))

DjangoConfirm(t) ==
    /\ Handles("django", t, "confirm")
    /\ LET m == call[t].page.token
           u == call[t].page.url
       IN  \/ ServerExchanges(m, FALSE) /\ Reply(t, Unchanged, Login(u, Nil))
           \/ ServerExchanges(m, TRUE) /\ Reply(t, SignedIn(m), Landed(u))

DjangoCode(t) ==
    /\ Handles("django", t, "code")
    /\ LET c == call[t]
       IN  \/ ServerTakesCode(c.page.mail, c.input, FALSE)
              /\ Reply(t, Unchanged, Login(c.page.url, c.page.mail))
           \/ ServerTakesCode(c.page.mail, c.input, TRUE)
              /\ Reply(t, SignedIn(c.page.mail), Landed(c.page.url))

DjangoLogout(t) ==
    /\ Handles("django", t, "logout")
    /\ Reply(t, SignedOut, Landed(Nil)) /\ ServerAside

DjangoVisit(t) ==
    Handles("django", t, "visit") /\ ChecksLocally(t, Login(call[t].input, Nil))

DjangoHandles(t) ==
    \/ DjangoLogin(t) \/ DjangoSignIn(t) \/ DjangoPreview(t) \/ DjangoConfirm(t)
    \/ DjangoCode(t) \/ DjangoLogout(t) \/ DjangoVisit(t)

--------------------------------------------------------------------------------
\* Fastify: like the gate, but the challenge cookie does not say where it came from
\* and nothing is revoked or asked at the server.
FastifyLogin(t) ==
    /\ Handles("fastify", t, "login")
    /\ LET otp == call[t].cookies.otp
       IN  Reply(t, Unchanged, Login(call[t].input, IF otp = Nil THEN Nil ELSE otp.mail))
    /\ ServerAside
FastifyReset(t) ==
    /\ Handles("fastify", t, "reset")
    /\ Reply(t, ClearOtp, Login(call[t].input, Nil)) /\ ServerAside

StoreOtpChallenge(m) == OtpChallengeCookie(m, Nil)

FastifySignIn(t) ==
    /\ Handles("fastify", t, "signin")
    /\ LET m == call[t].input
           u == call[t].page.url
       IN  \/ ServerMails(m, u, FALSE) /\ Reply(t, Unchanged, Redirect(u))
           \/ ServerMails(m, u, TRUE)
              /\ \E set \in {StoreOtpChallenge(m), ClearOtp} : Reply(t, set, Redirect(u))

FastifyCode(t) ==
    /\ Handles("fastify", t, "code")
    /\ LET c == call[t]
           otp == c.cookies.otp
           u == c.page.url
       IN  \/ (~c.named \/ otp = Nil) /\ ServerAside /\ Reply(t, Unchanged, Redirect(u))
           \/ /\ c.named /\ otp # Nil
              /\ \/ ServerTakesCode(otp.mail, c.input, TRUE)
                    /\ Reply(t, Over(SignedIn(otp.mail), ClearOtp), Landed(u))
                 \/ ServerTakesCode(otp.mail, c.input, FALSE)
                    /\ Reply(t, Unchanged, Redirect(u))

FastifyPreview(t) ==
    /\ Handles("fastify", t, "preview")
    /\ LET m == call[t].input
           u == asked[m]
       IN  \/ /\ ServerPreviews(m, TRUE) /\ csrfs' = csrfs + 1
              /\ Answer(t, Verification(csrfs + 1, m),
                        Confirmation(m, u, csrfs + 1, Nil))
           \/ ServerPreviews(m, FALSE) /\ Reply(t, ClearVerifyEmail, Redirect(u))

FastifyConfirm(t) ==
    /\ Handles("fastify", t, "confirm")
    /\ LET c == call[t]
           u == c.page.url
           m == IF SameCsrf(c) THEN SubmittedToken(c) ELSE Nil
       IN  \/ m = Nil /\ ServerAside /\ Reply(t, ClearVerifyEmail, Redirect(u))
           \/ m # Nil /\ ServerExchanges(m, FALSE) /\ Reply(t, ClearVerifyEmail, Redirect(u))
           \/ m # Nil /\ ServerExchanges(m, TRUE)
              /\ Reply(t, Over(SignedIn(m), ClearVerifyEmail), Landed(u))

FastifyLogout(t) == Handles("fastify", t, "logout") /\ DropsCookie(t)

FastifyVisit(t) ==
    Handles("fastify", t, "visit") /\ ChecksLocally(t, Redirect(call[t].input))

FastifyHandles(t) ==
    \/ FastifyLogin(t) \/ FastifyReset(t) \/ FastifySignIn(t) \/ FastifyCode(t)
    \/ FastifyPreview(t) \/ FastifyConfirm(t) \/ FastifyLogout(t) \/ FastifyVisit(t)

--------------------------------------------------------------------------------
\* The sign-in server's own pages.  One CSRF cookie serves the sign-in form, the code
\* form and the confirmation page, and every page with a form renews it; the token
\* of a link is in the jar only.  The visitor's request is the server's, so no call
\* lies between them that could be lost.
FreshLogin(t, u, m) ==
    /\ csrfs' = csrfs + 1
    /\ Answer(t, Csrf(csrfs + 1), 
           [kind |-> "login", url |-> u, mail |-> m, csrf |-> csrfs + 1, token |-> Nil])

DirectLogin(t) ==
    /\ Handles("server", t, "login") \/ Handles("server", t, "reset")
    /\ FreshLogin(t, call[t].input, Nil) /\ ServerAside

DirectSignIn(t) ==
    /\ Handles("server", t, "signin")
    /\ LET m == call[t].input
           u == call[t].page.url
       IN  \/ ~SameCsrf(call[t]) /\ ServerAside /\ FreshLogin(t, Nil, Nil)
           \/ SameCsrf(call[t]) /\ ServerMails(m, u, FALSE) /\ FreshLogin(t, u, Nil)
           \/ SameCsrf(call[t]) /\ ServerMails(m, u, TRUE)
              /\ \E offered \in {m, Nil} : FreshLogin(t, u, offered)

DirectPreview(t) ==
    /\ Handles("server", t, "preview")
    /\ LET m == call[t].input
       IN  \/ /\ ServerPreviews(m, TRUE) /\ csrfs' = csrfs + 1
              /\ Answer(t, Verification(csrfs + 1, m),
                        Confirmation(m, asked[m], csrfs + 1, Nil))
           \/ ServerPreviews(m, FALSE) /\ Reply(t, ClearToken, ErrorPage)

DirectConfirm(t) ==
    /\ Handles("server", t, "confirm")
    /\ LET m == IF SameCsrf(call[t]) THEN call[t].cookies.token ELSE Nil
       IN  IF m # Nil /\ mail[m] = "live"
           THEN /\ ServerExchanges(m, TRUE)
                /\ Reply(t, Over(SignedIn(m), ClearToken), Landed(asked[m]))
           ELSE ServerAside /\ Reply(t, ClearToken, ErrorPage)

\* A wrong code shows the form for it again, unless the challenge is gone.
DirectCode(t) ==
    /\ Handles("server", t, "code")
    /\ LET c == call[t]
           m == c.page.mail
       IN  IF SameCsrf(c) /\ c.input = m /\ mail[m] = "live"
           THEN ServerTakesCode(m, c.input, TRUE) /\ Reply(t, SignedIn(m), Landed(asked[m]))
           ELSE /\ ServerAside
                /\ \/ FreshLogin(t, Nil, Nil)
                   \/ SameCsrf(c) /\ mail[m] = "live" /\ FreshLogin(t, c.page.url, m)

DirectLogout(t) ==
    /\ Handles("server", t, "logout")
    /\ IF call[t].named
       THEN /\ ServerRevokes(call[t].cookies.auth) /\ Reply(t, SignedOut, Landed(Nil))
            /\ UNCHANGED <<mail, asked, lost, faults>>
       ELSE ServerAside /\ Reply(t, Unchanged, ErrorPage)

DirectHandles(t) ==
    \/ DirectLogin(t) \/ DirectSignIn(t) \/ DirectPreview(t) \/ DirectConfirm(t)
    \/ DirectCode(t) \/ DirectLogout(t)

--------------------------------------------------------------------------------
Visitor(t) ==
    \/ Browse(t) \/ OpenSocket(t) \/ OpenLogin(t) \/ UseAnotherAddress(t)
    \/ ForgetChallenge(t) \/ AskToSignIn(t) \/ FollowLink(t) \/ PressContinue(t)
    \/ TypeCode(t) \/ PressLogout(t) \/ Arrive(t)

ClientNext ==
    \/ \E t \in Tab : \/ Visitor(t) \/ DirectHandles(t) \/ GateHandles(t) \/ NextHandles(t) \/ NuxtHandles(t)
                      \/ AngularHandles(t) \/ DjangoHandles(t) \/ FastifyHandles(t)
    \/ \E m \in Mail : Lapse(m)

ClientSpec == ClientInit /\ [][ClientNext]_clientVars

--------------------------------------------------------------------------------
\* A mail is exchanged only after the visitor continued from a page that showed this
\* mail, or typed its code: following a link signs nobody in, and two confirmation
\* pages that overwrite each other's cookies do not confirm each other's mail.
ExchangedOnlyIfConfirmed == \A m \in Mail : session[m] # "none" => m \in confirmed

\* A mail is spent for its visitor: whenever an application has had one exchanged,
\* the session reached the jar, or is in the reply on its way, or the server's own
\* reply was lost.  No refusal comes after the exchange.
SpentForItsVisitor ==
    \A m \in Mail : mail[m] = "spent" =>
        \/ m \in delivered \union lost
        \/ \E t \in Tab : call[t].stage = "answered" /\ call[t].set.auth = m

\* A sign-in ends on the page it was asked from, although forms, links and cookies of
\* other sign-ins lie between.  (Fastify's challenge cookie does not hold the page; a
\* code entered there ends where the form was opened.)
EndsWhereItBegan ==
    \A t \in Tab :
        call[t].stage = "answered" /\ call[t].set.auth \in Mail =>
            \/ app = "fastify" /\ call[t].op = "code"
            \/ call[t].next = Landed(asked[call[t].set.auth])

\* The gate lets a request or a WebSocket through only with a session that is valid
\* at the moment of the check, although the check may fail and the cookie may be an
\* old one the browser sent before a logout in another tab.
ForwardsOnlyLiveSessions ==
    [][\A t \in Tab : call[t].stage = "sent" /\ call'[t].stage = "forward"
                          => /\ call[t].cookies.auth \in Mail
                             /\ session[call[t].cookies.auth] = "valid"]_clientVars
=============================================================================

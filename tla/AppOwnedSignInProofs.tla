-------------------------- MODULE AppOwnedSignInProofs --------------------------
(* The app-owned sign-in for any number of browsers, tabs, transactions and mails, any
   limit on pending transactions and any number of faults. *)
EXTENDS AppOwnedSignIn, TLAPS

--------------------------------------------------------------------------------
\* What a tab or a browser relies on outside itself.
World == [requests |-> requests, begun |-> begun, tickets |-> tickets, mail |-> mail,
          acknowledged |-> acknowledged, received |-> received, redeemed |-> redeemed]

StrayedIn(w) == {s \in State : \E q \in w.requests : q.state = s /\ q.browser # w.begun[s]}
MetIn(w, b, s) == w.begun[s] = b \/ \E q \in w.requests : q.state = s /\ q.browser = b
Vouched(w, b, e) ==
    <<b, e>> \in w.acknowledged \/ \E s \in StrayedIn(w) : MetIn(w, b, s)

\* A transaction that was taken to the server and is settled there.
Settled(w, r, s) == \E q \in w.requests : q.id = r /\ q.state = s /\ ~q.open
OnlyTicket(w, r, tok) == \A k \in w.tickets : k.req = r => k.token = tok

VisitFits(w, b, v) ==
    /\ v.at \notin {"rest", "local", "application", "start", "signout"} => v.state \in State
    /\ v.at \in {"mailed", "preview", "confirm", "verify", "otp"} =>
           v.with \in Mail /\ w.mail[v.with] # None
    /\ v.at \in {"verify", "otp"} => <<b, w.mail[v.with].email>> \in w.acknowledged
    /\ v.at = "issuer" =>
           \E q \in w.requests : q.id = v.req /\ q.state = v.state /\ q.browser = b
    /\ v.at \in {"redeem", "adopt", "adoptConfirmed"} =>
           /\ Settled(w, v.req, v.state)
           /\ \E e \in w.received : /\ e = [browser |-> w.begun[v.state], token |-> e.token]
                                      /\ OnlyTicket(w, v.req, e.token)
    /\ v.at \in {"adopt", "adoptConfirmed"} =>
           \A k \in w.tickets : k.req = v.req => k.token.email = v.with
    /\ v.at = "adoptConfirmed" => <<b, v.with>> \in w.acknowledged
    /\ v.at = "finish" /\ v.with # None =>
           \E k \in w.redeemed : k.state = v.state /\ k.token = v.with.token

\* A reply on its way; one that leads on to the ticket brings the session along.
ReplyFits(w, b, set, next) ==
    /\ IF next.at = "redeem"
       THEN /\ next.state \in State /\ w.begun[next.state] = b /\ Settled(w, next.req, next.state)
            /\ Auth \in DOMAIN set /\ OnlyTicket(w, next.req, set[Auth])
       ELSE VisitFits(w, b, next)
    /\ Auth \in DOMAIN set => Vouched(w, b, set[Auth].email)
    /\ \A s \in State : TxCookie(s) \in DOMAIN set /\ set[TxCookie(s)] # None =>
                            w.begun[s] = b /\ next.state = s

TabFits(w, b, x) ==
    /\ x.stage \in {"shows", "sent", "answered"} /\ VisitFits(w, b, x.visit)
    /\ x.stage = "answered" => ReplyFits(w, b, x.set, x.next)
JarFits(w, b, c) ==
    /\ \A s \in State : c[TxCookie(s)] # None => w.begun[s] = b
    /\ c[Auth] # None => Vouched(w, b, c[Auth].email)

OwnedTyped ==
    /\ home \in [Tab -> Browser] /\ DOMAIN tab = Tab
    /\ DOMAIN jar = Browser /\ \A b \in Browser : DOMAIN jar[b] = Cookie
    /\ DOMAIN begun = State /\ DOMAIN active = Browser /\ allowed \subseteq Email
    /\ mail \in [Mail -> {None} \union [email : Email, state : State, spent : BOOLEAN]]

RequestsFit ==
    /\ \A q \in requests :
          /\ q = [id |-> q.id, state |-> q.state, grant |-> q.grant, browser |-> q.browser,
                  open |-> q.open]
          /\ q.id \in Req /\ q.state \in State /\ q.browser \in Browser
    /\ \A p, q \in requests : p.id = q.id => p = q
\* What is made out for a request is made out once, and closes it.
MadeOut(x) == \E q \in requests : /\ q.id = x.req /\ q.state = x.state
                                  /\ q.browser = x.browser /\ ~q.open
TicketsFit ==
    /\ \A k \in tickets : MadeOut(k) /\ <<begun[k.state], k.token.email>> \in acknowledged
    /\ \A j, k \in tickets : j.req = k.req => j = k
CodesFit ==
    /\ \A c \in codes : MadeOut(c)
    /\ \A c, d \in codes : c.req = d.req => c = d
RedeemedFit ==
    \A k \in redeemed :
        /\ k = [browser |-> k.browser, state |-> k.state, token |-> k.token]
        /\ \E q \in requests : q.state = k.state /\ q.browser = k.browser
ActiveFits == \A b \in Browser : active[b] # None => Vouched(World, b, active[b])

BrowsersFit == \A b \in Browser : JarFits(World, b, jar[b])
TabsFit == \A t \in Tab : TabFits(World, home[t], tab[t])
ServerFits ==
    /\ RequestsFit /\ TicketsFit /\ CodesFit /\ RedeemedFit /\ ActiveFits
    /\ CompletedForItsSession /\ LocalSessionFirst
OwnedInv == OwnedTyped /\ ServerFits /\ BrowsersFit /\ TabsFit

--------------------------------------------------------------------------------
\* Time goes on: new is the transaction a step begins, if it begins one.
Grows(w, v, new) ==
    /\ \A s \in State \ new : v.begun[s] = w.begun[s]
    /\ \A q \in w.requests : q.state \in State \ new /\ \E p \in v.requests :
           p.id = q.id /\ p.state = q.state /\ p.browser = q.browser /\ (~q.open => ~p.open)
    /\ \A p, q \in w.requests : p.id = q.id => p = q
    /\ \A k \in v.tickets : k \in w.tickets \/ \E q \in w.requests : q.id = k.req /\ q.open
    /\ \A m \in Mail : w.mail[m] # None => v.mail[m] # None /\ v.mail[m].email = w.mail[m].email
    /\ w.acknowledged \subseteq v.acknowledged /\ w.received \subseteq v.received
    /\ w.redeemed \subseteq v.redeemed

LEMMA VouchedKeeps ==
    ASSUME NEW w, NEW v, NEW new, Grows(w, v, new), NEW b, NEW e, Vouched(w, b, e)
    PROVE  Vouched(v, b, e)
<1>1. CASE <<b, e>> \in w.acknowledged
    BY <1>1 DEF Grows, Vouched
<1>2. ASSUME NEW s \in StrayedIn(w), MetIn(w, b, s) PROVE Vouched(v, b, e)
    <2>1. PICK q \in w.requests : q.state = s /\ q.browser # w.begun[s]
        BY DEF StrayedIn
    <2>2. s \in StrayedIn(v)
        BY <2>1 DEF Grows, StrayedIn
    <2>3. MetIn(v, b, s)
        BY <1>2, <2>1 DEF Grows, MetIn
    <2> QED BY <2>2, <2>3 DEF Vouched
<1> QED BY <1>1, <1>2 DEF Vouched

LEMMA SettledKeeps ==
    ASSUME NEW w, NEW v, NEW new, Grows(w, v, new), NEW r, NEW s, Settled(w, r, s)
    PROVE  /\ Settled(v, r, s) /\ s \in State \ new /\ v.begun[s] = w.begun[s]
           /\ \A k \in v.tickets : k.req = r => k \in w.tickets
<1>1. PICK q \in w.requests : q.id = r /\ q.state = s /\ ~q.open
    BY DEF Settled
<1>2. Settled(v, r, s)
    BY <1>1 DEF Grows, Settled
<1>3. ASSUME NEW k \in v.tickets, k.req = r PROVE k \in w.tickets
    BY <1>1, <1>3 DEF Grows
<1> QED BY <1>1, <1>2, <1>3 DEF Grows

LEMMA VisitKeeps ==
    ASSUME NEW w, NEW v, NEW new, Grows(w, v, new), NEW b, NEW x, VisitFits(w, b, x)
    PROVE  VisitFits(v, b, x)
<1>1. x.at \in {"mailed", "preview", "confirm", "verify", "otp"} =>
          /\ x.with \in Mail /\ w.mail[x.with] # None
          /\ v.mail[x.with] # None /\ v.mail[x.with].email = w.mail[x.with].email
    BY DEF VisitFits, Grows
<1>2. x.at = "issuer" =>
          \E q \in v.requests : q.id = x.req /\ q.state = x.state /\ q.browser = b
    BY DEF VisitFits, Grows
<1>3. ASSUME x.at \in {"redeem", "adopt", "adoptConfirmed"}
      PROVE  /\ Settled(v, x.req, x.state)
             /\ \E e \in v.received : /\ e = [browser |-> v.begun[x.state], token |-> e.token]
                                      /\ OnlyTicket(v, x.req, e.token)
             /\ x.at \in {"adopt", "adoptConfirmed"} =>
                    \A k \in v.tickets : k.req = x.req => k.token.email = x.with
    <2>1. Settled(w, x.req, x.state)
        BY <1>3 DEF VisitFits
    <2>2. /\ Settled(v, x.req, x.state) /\ v.begun[x.state] = w.begun[x.state]
          /\ \A k \in v.tickets : k.req = x.req => k \in w.tickets
        BY <2>1, SettledKeeps
    <2>3. PICK e \in w.received : /\ e = [browser |-> w.begun[x.state], token |-> e.token]
                                  /\ OnlyTicket(w, x.req, e.token)
        BY <1>3 DEF VisitFits
    <2>4. e \in v.received /\ OnlyTicket(v, x.req, e.token)
        BY <2>2, <2>3 DEF Grows, OnlyTicket
    <2> QED BY <1>3, <2>2, <2>3, <2>4 DEF VisitFits
<1>4. <<b, x.with>> \in w.acknowledged => <<b, x.with>> \in v.acknowledged
    BY DEF Grows
<1>5. x.at = "finish" /\ x.with # None =>
          \E k \in v.redeemed : k.state = x.state /\ k.token = x.with.token
    BY DEF VisitFits, Grows
<1>6. x.at \in {"verify", "otp"} => <<b, v.mail[x.with].email>> \in v.acknowledged
    BY <1>1 DEF VisitFits, Grows
<1> QED BY <1>1, <1>2, <1>3, <1>4, <1>5, <1>6 DEF VisitFits

\* A visit to a page of the application, or of the server, needs no other's word.
LEMMA ReplyKeeps ==
    ASSUME NEW w, NEW v, NEW new, Grows(w, v, new), NEW b, NEW set, NEW next,
           ReplyFits(w, b, set, next), next.state \notin new
    PROVE  ReplyFits(v, b, set, next)
<1>1. Auth \in DOMAIN set => Vouched(v, b, set[Auth].email)
    BY VouchedKeeps DEF ReplyFits
<1>2. \A s \in State : TxCookie(s) \in DOMAIN set /\ set[TxCookie(s)] # None =>
                           v.begun[s] = b /\ next.state = s
    BY DEF ReplyFits, Grows
<1>3. CASE next.at = "redeem"
    <2>1. Settled(w, next.req, next.state) /\ OnlyTicket(w, next.req, set[Auth])
        BY <1>3 DEF ReplyFits
    <2>2. /\ Settled(v, next.req, next.state) /\ v.begun[next.state] = w.begun[next.state]
          /\ \A k \in v.tickets : k.req = next.req => k \in w.tickets
        BY <2>1, SettledKeeps
    <2>3. OnlyTicket(v, next.req, set[Auth])
        BY <2>1, <2>2 DEF OnlyTicket
    <2> QED BY <1>1, <1>2, <1>3, <2>2, <2>3 DEF ReplyFits
<1>4. CASE next.at # "redeem"
    BY <1>1, <1>2, <1>4, VisitKeeps DEF ReplyFits
<1> QED BY <1>3, <1>4

LEMMA TabKeeps ==
    ASSUME NEW w, NEW v, NEW new, Grows(w, v, new), NEW b, NEW x, TabFits(w, b, x),
           x.stage = "answered" => x.next.state \notin new
    PROVE  TabFits(v, b, x)
BY VisitKeeps, ReplyKeeps DEF TabFits

LEMMA JarKeeps ==
    ASSUME NEW w, NEW v, NEW new, Grows(w, v, new), NEW b, NEW c, JarFits(w, b, c),
           \A s \in new : c[TxCookie(s)] = None
    PROVE  JarFits(v, b, c)
<1>1. \A s \in State : c[TxCookie(s)] # None => v.begun[s] = b
    BY DEF JarFits, Grows
<1> QED BY <1>1, VouchedKeeps DEF JarFits

--------------------------------------------------------------------------------
\* The parts of the invariant that a step leaves alone.
LEMMA StrayedGrows ==
    ASSUME NEW new, Grows(World, World', new)
    PROVE  Strayed \subseteq Strayed'
BY DEF Grows, World, Strayed

LEMMA MadeOutKeeps ==
    ASSUME NEW new, Grows(World, World', new), NEW x, MadeOut(x)
    PROVE  /\ \E q \in requests' : q.id = x.req /\ q.state = x.state
                                   /\ q.browser = x.browser /\ ~q.open
           /\ x.state \in State /\ begun'[x.state] = begun[x.state]
BY DEF Grows, World, MadeOut

LEMMA TicketsKeep ==
    ASSUME TicketsFit, NEW new, Grows(World, World', new), tickets' \subseteq tickets
    PROVE  TicketsFit'
<1>1. acknowledged \subseteq acknowledged'
    BY DEF Grows, World
<1>2. ASSUME NEW k \in tickets' PROVE MadeOut(k)' /\ <<begun'[k.state], k.token.email>> \in acknowledged'
    <2>1. MadeOut(k) /\ <<begun[k.state], k.token.email>> \in acknowledged
        BY DEF TicketsFit
    <2>2. /\ \E q \in requests' : q.id = k.req /\ q.state = k.state
                                  /\ q.browser = k.browser /\ ~q.open
          /\ begun'[k.state] = begun[k.state]
        BY <2>1, MadeOutKeeps
    <2> QED BY <1>1, <2>1, <2>2 DEF MadeOut
<1> QED BY <1>2 DEF TicketsFit

LEMMA CodesKeep ==
    ASSUME CodesFit, NEW new, Grows(World, World', new), codes' \subseteq codes
    PROVE  CodesFit'
<1>1. ASSUME NEW c \in codes' PROVE MadeOut(c)'
    <2>1. MadeOut(c)
        BY DEF CodesFit
    <2> QED BY <2>1, MadeOutKeeps DEF MadeOut
<1> QED BY <1>1 DEF CodesFit

LEMMA RedeemedKeep ==
    ASSUME RedeemedFit, LocalSessionFirst, NEW new, Grows(World, World', new), redeemed' = redeemed
    PROVE  RedeemedFit' /\ LocalSessionFirst'
<1>1. RedeemedFit'
    BY DEF Grows, World, RedeemedFit
<1>2. LocalSessionFirst'
    <2>1. Strayed \subseteq Strayed' /\ received \subseteq received'
        BY StrayedGrows DEF Grows, World
    <2> QED BY <2>1 DEF LocalSessionFirst
<1> QED BY <1>1, <1>2

LEMMA ActiveKeeps ==
    ASSUME ActiveFits, NEW new, Grows(World, World', new),
           NEW B, \A b \in Browser \ B : active'[b] \in {active[b], None},
           \A b \in B \intersect Browser : active'[b] # None => Vouched(World', b, active'[b])
    PROVE  ActiveFits'
<1>1. ASSUME NEW b \in Browser, active'[b] # None PROVE Vouched(World', b, active'[b])
    <2>1. CASE b \in B
        BY <1>1, <2>1
    <2>2. CASE b \notin B
        <3>1. Vouched(World, b, active[b]) /\ active'[b] = active[b]
            BY <1>1, <2>2 DEF ActiveFits
        <3> QED BY <3>1, VouchedKeeps
    <2> QED BY <2>1, <2>2
<1> QED BY <1>1 DEF ActiveFits

LEMMA ActiveSame ==
    ASSUME ActiveFits, NEW new, Grows(World, World', new), active' = active
    PROVE  ActiveFits'
<1> DEFINE B == {}
<1>1. /\ \A b \in Browser \ B : active'[b] \in {active[b], None}
      /\ \A b \in B \intersect Browser : active'[b] # None => Vouched(World', b, active'[b])
    OBVIOUS
<1> HIDE DEF B
<1> QED BY <1>1, ActiveKeeps

LEMMA CompletedKeeps ==
    ASSUME CompletedForItsSession, NEW new, Grows(World, World', new), completed' = completed
    PROVE  CompletedForItsSession'
BY StrayedGrows DEF Grows, World, CompletedForItsSession

LEMMA TabsKeep ==
    ASSUME OwnedTyped, TabsFit, NEW new, Grows(World, World', new), home' = home,
           NEW t \in Tab, \A x \in Tab \ {t} : tab'[x] = tab[x],
           \A x \in Tab : tab[x].stage = "answered" => tab[x].next.state \notin new,
           TabFits(World', home[t], tab'[t])
    PROVE  TabsFit'
<1>1. ASSUME NEW x \in Tab PROVE TabFits(World', home[x], tab'[x])
    <2>1. TabFits(World', home[x], tab[x])
        BY TabKeeps DEF TabsFit
    <2> QED BY <2>1
<1> QED BY <1>1 DEF TabsFit

LEMMA BrowsersKeep ==
    ASSUME BrowsersFit, NEW new, Grows(World, World', new),
           \A b \in Browser : \A s \in new : jar[b][TxCookie(s)] = None, jar' = jar
    PROVE  BrowsersFit'
<1>1. ASSUME NEW b \in Browser PROVE JarFits(World', b, jar'[b])
    BY JarKeeps DEF BrowsersFit
<1> QED BY <1>1 DEF BrowsersFit

\* A step of one tab that changes nothing at the server but what it offers.
LEMMA TabStep ==
    ASSUME OwnedInv, Grows(World, World', {}), RequestsFit', UNCHANGED <<home, jar, begun>>,
           UNCHANGED <<codes, active, redeemed, completed>>, tickets' \subseteq tickets,
           allowed' \subseteq allowed,
           mail' \in [Mail -> {None} \union [email : Email, state : State, spent : BOOLEAN]],
           NEW t \in Tab, NEW x, tab' = [tab EXCEPT ![t] = x],
           TabFits(World', home[t], x)
    PROVE  OwnedInv'
<1>1. OwnedTyped'
    BY DEF OwnedInv, OwnedTyped
<1>2. ServerFits'
    <2>1. RequestsFit' /\ TicketsFit' /\ CodesFit' /\ RedeemedFit' /\ LocalSessionFirst'
          /\ CompletedForItsSession'
        BY TicketsKeep, CodesKeep, RedeemedKeep, CompletedKeeps DEF OwnedInv, ServerFits
    <2>2. ActiveFits'
        BY ActiveKeeps DEF OwnedInv, ServerFits
    <2> QED BY <2>1, <2>2 DEF ServerFits
<1>3. BrowsersFit'
    BY BrowsersKeep DEF OwnedInv
<1>4. TabsFit'
    BY TabsKeep DEF OwnedInv, OwnedTyped
<1> QED BY <1>1, <1>2, <1>3, <1>4 DEF OwnedInv

--------------------------------------------------------------------------------
\* The visitor.
LEMMA NothingNew ==
    ASSUME OwnedInv, UNCHANGED <<requests, begun, tickets, mail, redeemed>>,
           acknowledged \subseteq acknowledged', received \subseteq received'
    PROVE  Grows(World, World', {}) /\ RequestsFit'
BY DEF OwnedInv, ServerFits, RequestsFit, Grows, World

LEMMA QuietTab ==
    ASSUME OwnedInv, UNCHANGED <<home, jar, begun, requests, tickets, mail, redeemed>>,
           UNCHANGED <<codes, active, completed>>, allowed' \subseteq allowed,
           acknowledged \subseteq acknowledged', received \subseteq received',
           NEW t \in Tab, NEW x, tab' = [tab EXCEPT ![t] = x],
           TabFits(World', home[t], x)
    PROVE  OwnedInv'
<1>1. Grows(World, World', {}) /\ RequestsFit'
    BY NothingNew
<1> QED BY <1>1, TabStep DEF OwnedInv, OwnedTyped

\* A visit that relies on nothing outside itself.
Plain(v) ==
    /\ v.at \in {"rest", "local", "application", "start", "signout"} \/ v.state \in State
    /\ v.at \in {"rest", "local", "application", "start", "signout", "authorize", "prepared", "form",
                 "send", "callback", "failed"}
         \/ (v.at = "finish" /\ v.with = None)

LEMMA PlainFits ==
    ASSUME NEW w, NEW b, NEW v, Plain(v)
    PROVE  VisitFits(w, b, v)
BY DEF Plain, VisitFits

LEMMA AsksKeeps ==
    ASSUME OwnedInv, NEW t \in Tab, NEW v, Asks(t, v), Watching,
           acknowledged \subseteq acknowledged', VisitFits(World', home[t], v)
    PROVE  OwnedInv'
<1>1. tab' = [tab EXCEPT ![t] = Sent(v)] /\ TabFits(World', home[t], Sent(v))
    BY DEF Asks, TabFits, Sent
<1> QED BY <1>1, QuietTab DEF Watching, server

LEMMA ShownFits ==
    ASSUME OwnedInv, NEW t \in Tab
    PROVE  VisitFits(World, home[t], tab[t].visit)
BY DEF OwnedInv, TabsFit, TabFits

LEMMA VisitorAsks ==
    ASSUME OwnedInv, NEW t \in Tab,
           \/ OpenApplication(t) \/ SubmitAddress(t) \/ FollowMail(t) \/ PressContinue(t)
           \/ TypeCode(t) \/ PressConfirmShared(t) \/ ReturnToApplication(t) \/ SignOutEverywhere(t)
    PROVE  OwnedInv'
<1> DEFINE v == tab[t].visit
           b == home[t]
<1>1. VisitFits(World, b, v)
    BY ShownFits
<1>2. CASE OpenApplication(t)
    <2>1. PICK ui : Asks(t, Visit("start", None, None, ui))
        BY <1>2 DEF OpenApplication
    <2>2. VisitFits(World', b, Visit("start", None, None, ui))
        BY PlainFits DEF Plain, Visit
    <2> QED BY <1>2, <2>1, <2>2, AsksKeeps DEF OpenApplication
<1>3. CASE SubmitAddress(t)
    <2>1. PICK e \in Email : Asks(t, To("send", v, e))
        BY <1>3 DEF SubmitAddress
    <2>2. VisitFits(World', b, To("send", v, e))
        BY <1>1, <1>3, PlainFits DEF Plain, To, Visit, VisitFits, SubmitAddress, Presses
    <2> QED BY <1>3, <2>1, <2>2, AsksKeeps DEF SubmitAddress
<1>4. CASE FollowMail(t)
    <2>1. PICK m \in Mail : mail[m] # None /\ Asks(t, Visit("preview", mail[m].state, None, m))
        BY <1>4 DEF FollowMail
    <2>2. mail[m].state \in State /\ mail' = mail
        BY <1>4, <2>1 DEF OwnedInv, OwnedTyped, FollowMail, Watching, server
    <2>3. VisitFits(World', b, Visit("preview", mail[m].state, None, m))
        BY <2>1, <2>2 DEF VisitFits, Visit, World
    <2> QED BY <1>4, <2>1, <2>3, AsksKeeps DEF FollowMail
<1>5. CASE PressContinue(t) \/ TypeCode(t)
    <2>1. PICK at \in {"verify", "otp"} : Asks(t, To(at, v, v.with))
        BY <1>5 DEF PressContinue, TypeCode
    <2>2. /\ v.at \in {"confirm", "mailed"} /\ Watching
          /\ acknowledged' = acknowledged \union {<<b, mail[v.with].email>>}
        BY <1>5 DEF PressContinue, TypeCode, Acknowledges, Presses
    <2>3. mail' = mail
        BY <2>2 DEF Watching, server
    <2>4. VisitFits(World', b, To(at, v, v.with))
        BY <1>1, <2>2, <2>3 DEF VisitFits, To, Visit, World
    <2> QED BY <2>1, <2>2, <2>4, AsksKeeps
<1>6. CASE PressConfirmShared(t)
    <2>1. /\ Asks(t, To("adoptConfirmed", v, v.with)) /\ Watching /\ v.at = "adopt"
          /\ acknowledged' = acknowledged \union {<<b, v.with>>}
        BY <1>6 DEF PressConfirmShared, Acknowledges, Presses
    <2>2. Grows(World, World', {})
        BY <2>1, NothingNew DEF Watching, server
    <2>3. VisitFits(World', b, v)
        BY <1>1, <2>2, VisitKeeps
    <2>4. VisitFits(World', b, To("adoptConfirmed", v, v.with))
        BY <2>1, <2>3 DEF VisitFits, To, Visit, World
    <2> QED BY <2>1, <2>4, AsksKeeps
<1>7. CASE ReturnToApplication(t)
    <2>1. VisitFits(World', b, To("finish", v, None))
        BY <1>1, <1>7, PlainFits DEF Plain, To, Visit, VisitFits, ReturnToApplication, Presses
    <2> QED BY <1>7, <2>1, AsksKeeps DEF ReturnToApplication
<1>8. CASE SignOutEverywhere(t)
    <2>1. VisitFits(World', b, Visit("signout", None, None, None))
        BY PlainFits DEF Plain, Visit
    <2> QED BY <1>8, <2>1, AsksKeeps DEF SignOutEverywhere
<1> QED BY <1>2, <1>3, <1>4, <1>5, <1>6, <1>7, <1>8

LEMMA OpenAgainKeeps ==
    ASSUME OwnedInv, NEW t \in Tab, NEW u \in Tab, OpenAgain(t, u)
    PROVE  OwnedInv'
<1> DEFINE v == tab[t].visit
<1>1. /\ v.at \in {"authorize", "prepared", "redeem", "finish", "callback"} /\ Asks(u, v)
      /\ Watching /\ acknowledged' = acknowledged
    BY DEF OpenAgain
<1>2. Grows(World, World', {})
    BY <1>1, NothingNew DEF Watching, server
<1>3. VisitFits(World', home[t], v)
    BY <1>2, ShownFits, VisitKeeps
<1>4. VisitFits(World', home[u], v)
    BY <1>1, <1>3 DEF VisitFits
<1> QED BY <1>1, <1>4, AsksKeeps

\* A session that arrives with its cookies is one the browser's visitor asked for, and
\* the tab that goes on to the ticket goes there after it.
LEMMA ArriveKeeps ==
    ASSUME OwnedInv, NEW t \in Tab, Arrive(t)
    PROVE  OwnedInv'
<1> DEFINE b == home[t]
           set == tab[t].set
           next == tab[t].next
           x == IF next.at \in Page THEN Shows(next) ELSE Sent(next)
<1>1. /\ tab[t].stage = "answered"
      /\ jar' = [jar EXCEPT ![b] = Over(set, jar[b])] /\ tab' = [tab EXCEPT ![t] = x]
      /\ received' = IF Auth \in DOMAIN set
                     THEN received \union {[browser |-> b, token |-> set[Auth]]} ELSE received
      /\ UNCHANGED <<home, requests, tickets, codes, active, mail, allowed, redeemed, begun,
                     acknowledged, completed>>
    BY DEF Arrive, server
<1>2. Grows(World, World', {}) /\ RequestsFit'
    BY <1>1, NothingNew
<1>3. ReplyFits(World, b, set, next) /\ ReplyFits(World', b, set, next)
    <2>1. ReplyFits(World, b, set, next)
        BY <1>1 DEF OwnedInv, TabsFit, TabFits
    <2> QED BY <1>2, <2>1, ReplyKeeps
<1>4. TabFits(World', b, x)
    <2>1. CASE next.at # "redeem"
        BY <1>3, <2>1 DEF ReplyFits, TabFits, Shows, Sent
    <2>2. CASE next.at = "redeem"
        <3>1. /\ Settled(World', next.req, next.state) /\ begun'[next.state] = b
              /\ Auth \in DOMAIN set /\ OnlyTicket(World', next.req, set[Auth]) /\ next.state \in State
            BY <1>3, <2>2 DEF ReplyFits, World
        <3> DEFINE e == [browser |-> b, token |-> set[Auth]]
        <3>2. e \in received' /\ e.token = set[Auth]
            BY <1>1, <3>1
        <3>3. e = [browser |-> begun'[next.state], token |-> e.token]
            BY <3>1
        <3> HIDE DEF e
        <3>4. VisitFits(World', b, next)
            BY <2>2, <3>1, <3>2, <3>3 DEF VisitFits, World
        <3> QED BY <3>4 DEF TabFits, Shows, Sent
    <2> QED BY <2>1, <2>2
<1>5. b \in Browser /\ DOMAIN jar = Browser /\ DOMAIN jar[b] = Cookie
    BY DEF OwnedInv, OwnedTyped
<1>6. JarFits(World', b, Over(set, jar[b]))
    <2>1. JarFits(World', b, jar[b])
        BY <1>2, <1>5, JarKeeps DEF OwnedInv, BrowsersFit
    <2>2. Auth \in Cookie /\ \A s \in State : TxCookie(s) \in Cookie
        BY DEF Cookie
    <2> QED BY <1>3, <1>5, <2>1, <2>2 DEF JarFits, ReplyFits, Over
<1>7. BrowsersFit'
    <2>1. ASSUME NEW c \in Browser PROVE JarFits(World', c, jar'[c])
        <3>1. JarFits(World', c, jar[c])
            BY <1>2, JarKeeps DEF OwnedInv, BrowsersFit
        <3> QED BY <1>1, <1>5, <1>6, <3>1
    <2> QED BY <2>1 DEF BrowsersFit
<1>8. OwnedTyped'
    <2>1. DOMAIN Over(set, jar[b]) = Cookie
        BY <1>5 DEF Over
    <2> QED BY <1>1, <1>5, <2>1 DEF OwnedInv, OwnedTyped
<1>9. ServerFits'
    <2>1. TicketsFit' /\ CodesFit' /\ RedeemedFit' /\ LocalSessionFirst' /\ CompletedForItsSession'
        BY <1>1, <1>2, TicketsKeep, CodesKeep, RedeemedKeep, CompletedKeeps DEF OwnedInv, ServerFits
    <2>2. ActiveFits'
        BY <1>1, <1>2, ActiveKeeps DEF OwnedInv, ServerFits
    <2> QED BY <1>2, <2>1, <2>2 DEF ServerFits
<1>10. TabsFit'
    <2>1. tab'[t] = x /\ \A y \in Tab \ {t} : tab'[y] = tab[y]
        BY <1>1 DEF OwnedInv, OwnedTyped
    <2> HIDE DEF x
    <2> QED BY <1>1, <1>2, <1>4, <2>1, TabsKeep DEF OwnedInv
<1> QED BY <1>7, <1>8, <1>9, <1>10 DEF OwnedInv

LEMMA LoseKeeps ==
    ASSUME OwnedInv, NEW t \in Tab, Lose(t)
    PROVE  OwnedInv'
<1>1. TabFits(World', home[t], Shows(Rest))
    BY PlainFits DEF TabFits, Shows, Rest, Visit, Plain
<1> QED BY <1>1, QuietTab DEF Lose, server

LEMMA NoTabKeeps ==
    ASSUME OwnedInv, UNCHANGED <<home, tab, begun, requests, tickets, mail, redeemed, acknowledged,
                                 received, codes, active, completed>>,
           allowed' \subseteq allowed, DOMAIN jar' = Browser,
           \A b \in Browser : /\ DOMAIN jar'[b] = Cookie /\ jar'[b][Auth] = jar[b][Auth]
                              /\ \A s \in State : jar'[b][TxCookie(s)] \in {jar[b][TxCookie(s)], None}
    PROVE  OwnedInv'
<1>1. World' = World /\ RequestsFit'
    BY DEF World, OwnedInv, ServerFits, RequestsFit
<1>2. Grows(World, World', {})
    BY NothingNew
<1>3. BrowsersFit'
    BY <1>1 DEF OwnedInv, BrowsersFit, JarFits
<1>4. TabsFit' /\ OwnedTyped'
    BY <1>1 DEF OwnedInv, TabsFit, OwnedTyped
<1>5. ServerFits'
    <2>1. TicketsFit' /\ CodesFit' /\ RedeemedFit' /\ LocalSessionFirst' /\ CompletedForItsSession'
        BY <1>2, TicketsKeep, CodesKeep, RedeemedKeep, CompletedKeeps DEF OwnedInv, ServerFits
    <2>2. ActiveFits'
        BY <1>2, ActiveKeeps DEF OwnedInv, ServerFits
    <2> QED BY <1>1, <2>1, <2>2 DEF ServerFits
<1> QED BY <1>3, <1>4, <1>5 DEF OwnedInv

LEMMA CookiesDiffer ==
    /\ Auth \in Cookie /\ Auth # Central
    /\ \A s, r \in State : /\ TxCookie(s) \in Cookie /\ TxCookie(s) # Auth /\ TxCookie(s) # Central
                           /\ Continuation(s) # TxCookie(r) /\ Continuation(s) # Auth
                           /\ ConfirmCookie(s) # TxCookie(r) /\ ConfirmCookie(s) # Auth
                           /\ (TxCookie(s) = TxCookie(r) => s = r)
BY DEF Cookie, Auth, Central, TxCookie, Continuation, ConfirmCookie

LEMMA LapseKeeps ==
    ASSUME OwnedInv, NEW s \in State, Lapse(s)
    PROVE  OwnedInv'
<1>1. UNCHANGED <<home, tab, begun, requests, tickets, mail, redeemed, acknowledged,
                  received, codes, active, completed, allowed>>
    BY DEF Lapse, server
<1>2. DOMAIN jar = Browser /\ \A b \in Browser : DOMAIN jar[b] = Cookie
    BY DEF OwnedInv, OwnedTyped
<1>3. CASE UNCHANGED jar
    BY <1>1, <1>2, <1>3, NoTabKeeps
<1>4. CASE jar' = [b \in Browser |-> Over(Puts(TxCookie(s), None), jar[b])]
    <2>1. ASSUME NEW b \in Browser
          PROVE  /\ DOMAIN jar'[b] = Cookie /\ jar'[b][Auth] = jar[b][Auth]
                 /\ \A r \in State : jar'[b][TxCookie(r)] \in {jar[b][TxCookie(r)], None}
        BY <1>2, <1>4, CookiesDiffer DEF Over, Puts
    <2> QED BY <1>1, <1>4, <2>1, NoTabKeeps
<1> QED BY <1>3, <1>4 DEF Lapse

LEMMA ReloadKeeps ==
    ASSUME OwnedInv, Reload
    PROVE  OwnedInv'
BY NoTabKeeps DEF Reload, OwnedInv, OwnedTyped

--------------------------------------------------------------------------------
\* The application's replies.
LEMMA ReplyStep ==
    ASSUME OwnedInv, Grows(World, World', {}), RequestsFit', UNCHANGED <<home, jar, begun>>,
           UNCHANGED <<active, redeemed, completed>>, codes' = codes, tickets' \subseteq tickets,
           allowed' \subseteq allowed,
           mail' \in [Mail -> {None} \union [email : Email, state : State, spent : BOOLEAN]],
           NEW t \in Tab, NEW set, NEW next, Reply(t, set, next),
           ReplyFits(World', home[t], set, next)
    PROVE  OwnedInv'
<1> DEFINE x == Answered(tab[t].visit, set, next)
<1>1. tab' = [tab EXCEPT ![t] = x]
    BY DEF Reply
<1>2. VisitFits(World', home[t], tab[t].visit)
    BY ShownFits, VisitKeeps
<1>3. TabFits(World', home[t], x)
    BY <1>2 DEF TabFits, Answered
<1> HIDE DEF x
<1> QED BY <1>1, <1>3, TabStep

\* Most replies bring no session and begin no transaction.
Sober(set) ==
    /\ Auth \notin DOMAIN set
    /\ \A s \in State : TxCookie(s) \in DOMAIN set => set[TxCookie(s)] = None

LEMMA SoberFits ==
    ASSUME NEW w, NEW b, NEW set, Sober(set), NEW next, next.at # "redeem", VisitFits(w, b, next)
    PROVE  ReplyFits(w, b, set, next)
BY DEF Sober, ReplyFits

LEMMA SoberSets ==
    ASSUME NEW s \in State, NEW c, NEW x
    PROVE  /\ Sober(Unchanged) /\ Sober(Clear(s)) /\ Sober(Puts(TxCookie(s), None))
           /\ Sober(Puts(ConfirmCookie(s), x)) /\ Sober(Puts(Continuation(s), x))
           /\ Sober(Expired(c)) /\ Sober(ClearTransaction(c, s)) /\ Sober(LocalClears(c, s))
<1>1. Sober(Unchanged) /\ Sober(Clear(s)) /\ Sober(Puts(TxCookie(s), None))
    BY CookiesDiffer DEF Sober, Unchanged, Clear, Puts, With
<1>2. Sober(Puts(ConfirmCookie(s), x)) /\ Sober(Puts(Continuation(s), x))
    BY CookiesDiffer DEF Sober, Puts
<1>3. Sober(Expired(c))
    <2>1. \A y \in late : TxCookie(y) # Auth
        BY DEF TxCookie, Auth
    <2> DEFINE D == {TxCookie(y) : y \in {z \in State : z \in late /\ c[TxCookie(z)] # None}}
    <2> QED BY <2>1 DEF Sober, Expired
<1> QED BY <1>1, <1>2, <1>3 DEF ClearTransaction, LocalClears

LEMMA ShownState ==
    ASSUME OwnedInv, NEW t \in Tab,
           tab[t].visit.at \notin {"rest", "local", "application", "start", "signout"}
    PROVE  Here(t) \in State
BY ShownFits DEF VisitFits, Here

LEMMA FailsFits ==
    ASSUME NEW w, NEW b
    PROVE  ReplyFits(w, b, Unchanged, Rest)
BY PlainFits DEF ReplyFits, Unchanged, Plain, Rest, Visit

\* A reply that is about nothing the server keeps.
LEMMA IdleReply ==
    ASSUME OwnedInv, ByApplication, UNCHANGED <<server, completed>>,
           NEW t \in Tab, NEW set, Sober(set), NEW next, Reply(t, set, next),
           next.at # "redeem", VisitFits(World', home[t], next)
    PROVE  OwnedInv'
<1>1. UNCHANGED <<home, jar, begun, requests, tickets, mail, redeemed, codes, active, completed,
                  allowed, acknowledged, received>>
    BY DEF ByApplication, server
<1>2. Grows(World, World', {}) /\ RequestsFit'
    BY <1>1, NothingNew
<1>3. ReplyFits(World', home[t], set, next)
    BY SoberFits
<1> QED BY <1>1, <1>2, <1>3, ReplyStep DEF OwnedInv, OwnedTyped

LEMMA FailsKeeps ==
    ASSUME OwnedInv, ByApplication, UNCHANGED <<server, completed>>, NEW t \in Tab, Fails(t)
    PROVE  OwnedInv'
<1>1. Sober(Unchanged) /\ VisitFits(World', home[t], Rest) /\ Rest.at # "redeem"
    BY PlainFits DEF Sober, Unchanged, Plain, Rest, Visit
<1> QED BY <1>1, IdleReply DEF Fails

LEMMA StartKeeps ==
    ASSUME OwnedInv, NEW t \in Tab, NEW ui, Start(t, ui)
    PROVE  OwnedInv'
<1> DEFINE b == home[t]
<1>1. CASE Fails(t) /\ UNCHANGED begun
    BY <1>1, FailsKeeps DEF Start, ByApplication
<1>2. CASE Reply(t, Expired(Carried(t)), Rest) /\ UNCHANGED begun
    <2>1. VisitFits(World', b, Rest) /\ Rest.at # "redeem"
        BY PlainFits DEF Plain, Rest, Visit
    <2>2. Sober(Expired(Carried(t)))
        BY DEF Sober, Expired, TxCookie, Auth
    <2> QED BY <1>2, <2>1, <2>2, IdleReply DEF Start, ByApplication
<1>3. ASSUME NEW s \in Fresh, begun' = [begun EXCEPT ![s] = b],
             Reply(t, With(Puts(TxCookie(s), "live"), Expired(Carried(t))),
                   Visit("authorize", s, None, ui))
      PROVE  OwnedInv'
    <2> DEFINE set == With(Puts(TxCookie(s), "live"), Expired(Carried(t)))
               next == Visit("authorize", s, None, ui)
    <2>1. /\ UNCHANGED <<home, jar, requests, tickets, codes, active, mail, allowed, redeemed,
                         acknowledged, received, completed>>
          /\ s \in State /\ \A q \in requests : q.state # s
          /\ \A x \in Tab : tab[x].stage = "answered" => tab[x].next.state # s
          /\ \A c \in Browser : jar[c][TxCookie(s)] = None
        BY DEF Start, server, Fresh
    <2>2. /\ b \in Browser /\ begun'[s] = b /\ \A r \in State \ {s} : begun'[r] = begun[r]
          /\ DOMAIN begun' = State
        BY <1>3, <2>1 DEF OwnedInv, OwnedTyped
    <2>3. Grows(World, World', {s}) /\ RequestsFit'
        BY <2>1, <2>2 DEF Grows, World, OwnedInv, ServerFits, RequestsFit
    <2>4. ReplyFits(World', b, set, next)
        <3>1. VisitFits(World', b, next) /\ next.at # "redeem" /\ next.state = s
            BY <2>1, PlainFits DEF Plain, Visit
        <3>2. Auth \notin DOMAIN set
            BY <2>1, CookiesDiffer DEF With, Puts, Expired, Auth, TxCookie
        <3>3. ASSUME NEW r \in State, TxCookie(r) \in DOMAIN set, set[TxCookie(r)] # None
              PROVE  r = s
            <4>1. TxCookie(r) \in DOMAIN Expired(Carried(t)) => Expired(Carried(t))[TxCookie(r)] = None
                BY DEF Expired
            <4>2. TxCookie(r) \notin DOMAIN Puts(TxCookie(s), "live") => r # s /\
                      set[TxCookie(r)] = Expired(Carried(t))[TxCookie(r)]
                         /\ TxCookie(r) \in DOMAIN Expired(Carried(t))
                BY <3>3 DEF With, Puts
            <4>3. TxCookie(r) \in DOMAIN Puts(TxCookie(s), "live")
                BY <3>3, <4>1, <4>2
            <4> QED BY <2>1, <4>3, CookiesDiffer DEF Puts
        <3> QED BY <2>2, <3>1, <3>2, <3>3 DEF ReplyFits, World
    <2>5. VisitFits(World', b, tab[t].visit)
        BY <2>3, ShownFits, VisitKeeps
    <2>6. TabFits(World', b, Answered(tab[t].visit, set, next))
        BY <2>4, <2>5 DEF TabFits, Answered
    <2>7. tab' = [tab EXCEPT ![t] = Answered(tab[t].visit, set, next)]
        BY <1>3 DEF Reply
    <2>8. TabsFit'
        <3>1. tab'[t] = Answered(tab[t].visit, set, next) /\ \A y \in Tab \ {t} : tab'[y] = tab[y]
            BY <2>7 DEF OwnedInv, OwnedTyped
        <3> QED BY <2>1, <2>3, <2>6, <3>1, TabsKeep DEF OwnedInv
    <2>9. BrowsersFit'
        BY <2>1, <2>3, BrowsersKeep DEF OwnedInv
    <2>10. OwnedTyped'
        BY <2>1, <2>2, <2>7 DEF OwnedInv, OwnedTyped
    <2>11. ServerFits'
        <3>1. TicketsFit' /\ CodesFit' /\ RedeemedFit' /\ LocalSessionFirst' /\ CompletedForItsSession'
            BY <2>1, <2>3, TicketsKeep, CodesKeep, RedeemedKeep, CompletedKeeps DEF OwnedInv, ServerFits
        <3>2. ActiveFits'
            BY <2>1, <2>3, ActiveSame DEF OwnedInv, ServerFits
        <3> QED BY <2>3, <3>1, <3>2 DEF ServerFits
    <2> QED BY <2>8, <2>9, <2>10, <2>11 DEF OwnedInv
<1> QED BY <1>1, <1>2, <1>3 DEF Start

LEMMA PrepareKeeps ==
    ASSUME OwnedInv, NEW t \in Tab, Prepare(t)
    PROVE  OwnedInv'
<1> DEFINE v == tab[t].visit
<1>1. Here(t) \in State /\ Here(t) = v.state
    BY ShownState DEF Prepare, Handles, Here
<1>2. CASE Fails(t)
    BY <1>2, FailsKeeps DEF Prepare
<1>3. CASE Reply(t, Puts(Continuation(Here(t)), Prepared(v.req)), To("form", v, v.with))
    <2>1. VisitFits(World', home[t], To("form", v, v.with)) /\ To("form", v, v.with).at # "redeem"
        BY <1>1, PlainFits DEF Plain, To, Visit
    <2>2. Sober(Puts(Continuation(Here(t)), Prepared(v.req)))
        BY <1>1, SoberSets
    <2> QED BY <1>3, <2>1, <2>2, IdleReply DEF Prepare
<1> QED BY <1>2, <1>3 DEF Prepare

LEMMA ConfirmationKeeps ==
    ASSUME OwnedInv, NEW t \in Tab, Confirmation(t)
    PROVE  OwnedInv'
<1> DEFINE m == tab[t].visit.with
           next == Visit("confirm", Here(t), None, m)
<1>1. Here(t) \in State /\ m \in Mail /\ mail[m] # None
    BY ShownState, ShownFits DEF Confirmation, Handles, VisitFits, World
<1>2. CASE Fails(t)
    BY <1>2, FailsKeeps DEF Confirmation
<1>3. CASE Reply(t, Puts(ConfirmCookie(Here(t)), t), next)
    <2>1. VisitFits(World', home[t], next) /\ next.at # "redeem"
        BY <1>1 DEF VisitFits, Visit, World, Confirmation, server
    <2>2. Sober(Puts(ConfirmCookie(Here(t)), t))
        BY <1>1, SoberSets
    <2> QED BY <1>3, <2>1, <2>2, IdleReply DEF Confirmation
<1> QED BY <1>2, <1>3 DEF Confirmation

\* The requests go on as they were: the same ones, and closed ones stay closed.
RequestsGoOn ==
    /\ RequestsFit'
    /\ \A q \in requests : \E p \in requests' :
           p.id = q.id /\ p.state = q.state /\ p.browser = q.browser /\ (~q.open => ~p.open)

LEMMA BindGoesOn ==
    ASSUME RequestsFit, NEW r, NEW s, NEW m, BindBootstrapGrant(r, s, m)
    PROVE  RequestsGoOn
<1> DEFINE G(q) == IF q \in Asked(r, s) THEN [q EXCEPT !.grant = m] ELSE q
<1>1. ASSUME NEW q \in requests
      PROVE  /\ G(q).id = q.id /\ G(q).state = q.state /\ G(q).browser = q.browser /\ G(q).open = q.open
             /\ G(q) = [id |-> q.id, state |-> q.state, grant |-> G(q).grant,
                        browser |-> q.browser, open |-> q.open]
    <2>1. q = [id |-> q.id, state |-> q.state, grant |-> q.grant, browser |-> q.browser,
               open |-> q.open]
        BY DEF RequestsFit
    <2>2. [q EXCEPT !.grant = m] = [id |-> q.id, state |-> q.state, grant |-> m,
                                    browser |-> q.browser, open |-> q.open]
        BY <2>1
    <2> QED BY <2>1, <2>2
<1>2. requests' = {G(q) : q \in requests}
    BY DEF BindBootstrapGrant, Asked
<1> HIDE DEF G
<1>3. RequestsFit'
    BY <1>1, <1>2 DEF RequestsFit
<1> QED BY <1>1, <1>2, <1>3 DEF RequestsGoOn

LEMMA ClosedGoesOn ==
    ASSUME RequestsFit, NEW r, Closed(r)
    PROVE  RequestsGoOn /\ \A q \in requests : q.id = r =>
               \E p \in requests' : p.id = r /\ p.state = q.state /\ p.browser = q.browser /\ ~p.open
<1> DEFINE G(q) == IF q.id = r THEN [q EXCEPT !.open = FALSE] ELSE q
<1>1. ASSUME NEW q \in requests
      PROVE  /\ G(q).id = q.id /\ G(q).state = q.state /\ G(q).browser = q.browser
             /\ ~q.open => ~G(q).open
             /\ q.id = r => ~G(q).open
             /\ G(q) = [id |-> q.id, state |-> q.state, grant |-> q.grant,
                        browser |-> q.browser, open |-> G(q).open]
    <2>1. q = [id |-> q.id, state |-> q.state, grant |-> q.grant, browser |-> q.browser,
               open |-> q.open]
        BY DEF RequestsFit
    <2>2. [q EXCEPT !.open = FALSE] = [id |-> q.id, state |-> q.state, grant |-> q.grant,
                                       browser |-> q.browser, open |-> FALSE]
        <3>1. ASSUME NEW o
              PROVE  [q EXCEPT !.open = o] = [id |-> q.id, state |-> q.state, grant |-> q.grant,
                                              browser |-> q.browser, open |-> o]
            BY <2>1
        <3> QED BY <3>1
    <2> QED BY <2>1, <2>2
<1>2. requests' = {G(q) : q \in requests}
    BY DEF Closed
<1> HIDE DEF G
<1>3. RequestsFit'
    BY <1>1, <1>2 DEF RequestsFit
<1> QED BY <1>1, <1>2, <1>3 DEF RequestsGoOn

MailTyped == mail \in [Mail -> {None} \union [email : Email, state : State, spent : BOOLEAN]]
MailGoesOn ==
    /\ MailTyped'
    /\ \A m \in Mail : mail[m] # None => mail'[m] # None /\ mail'[m].email = mail[m].email

LEMMA GoesOn ==
    ASSUME OwnedInv, RequestsGoOn, MailGoesOn, UNCHANGED begun, redeemed \subseteq redeemed',
           \A k \in tickets' : k \in tickets \/ \E q \in requests : q.id = k.req /\ q.open,
           acknowledged \subseteq acknowledged', received \subseteq received'
    PROVE  Grows(World, World', {})
BY DEF OwnedInv, ServerFits, RequestsFit, RequestsGoOn, MailGoesOn, Grows, World

LEMMA SameGoOn ==
    ASSUME OwnedInv
    PROVE  (UNCHANGED mail => MailGoesOn) /\ (UNCHANGED requests => RequestsGoOn)
BY DEF OwnedInv, OwnedTyped, ServerFits, RequestsFit, MailGoesOn, MailTyped, RequestsGoOn

LEMMA SendFormKeeps ==
    ASSUME OwnedInv, NEW t \in Tab, SendForm(t)
    PROVE  OwnedInv'
<1> DEFINE s == Here(t)
           r == Context(Carried(t), s)
           e == tab[t].visit.with
<1>1. s \in State
    BY ShownState DEF SendForm, Handles
<1>2. UNCHANGED <<home, jar, begun, acknowledged, received, tickets, codes, active, allowed,
                  redeemed, completed>>
    BY DEF SendForm, ByApplication
<1>3. CASE Fails(t) /\ UNCHANGED <<requests, mail>>
    BY <1>2, <1>3, FailsKeeps DEF SendForm, server
<1>4. ASSUME NEW m \in Mail, mail[m] = None, BindBootstrapGrant(r, s, m), e \in allowed,
             \/ mail' = [mail EXCEPT ![m] = Mailed(e, s, FALSE)]
                /\ (Reply(t, Unchanged, Visit("mailed", s, r, m)) \/ Fails(t))
             \/ UNCHANGED mail /\ Fails(t)
      PROVE  OwnedInv'
    <2>1. RequestsGoOn
        BY <1>4, BindGoesOn DEF OwnedInv, ServerFits
    <2>2. Mailed(e, s, FALSE) \in [email : Email, state : State, spent : BOOLEAN]
        BY <1>1, <1>4 DEF Mailed, OwnedInv, OwnedTyped
    <2>3. MailGoesOn
        BY <1>4, <2>2, SameGoOn DEF MailGoesOn, MailTyped, OwnedInv, OwnedTyped
    <2>4. Grows(World, World', {}) /\ RequestsFit'
        BY <1>2, <2>1, <2>3, GoesOn DEF RequestsGoOn
    <2>5. CASE Fails(t)
        BY <1>2, <2>3, <2>4, <2>5, FailsFits, ReplyStep DEF Fails, MailGoesOn, MailTyped
    <2>6. CASE mail' = [mail EXCEPT ![m] = Mailed(e, s, FALSE)]
               /\ Reply(t, Unchanged, Visit("mailed", s, r, m))
        <3>1. mail'[m] # None
            BY <2>2, <2>6, OwnedAssumption DEF OwnedInv, OwnedTyped
        <3>2. VisitFits(World', home[t], Visit("mailed", s, r, m)) /\ Visit("mailed", s, r, m).at # "redeem"
            BY <1>1, <3>1 DEF VisitFits, Visit, World
        <3>3. ReplyFits(World', home[t], Unchanged, Visit("mailed", s, r, m))
            BY <1>1, <3>2, SoberSets, SoberFits
        <3> QED BY <1>2, <2>3, <2>4, <2>6, <3>3, ReplyStep DEF MailGoesOn, MailTyped
    <2> QED BY <1>4, <2>5, <2>6
<1> QED BY <1>3, <1>4 DEF SendForm

--------------------------------------------------------------------------------
\* The server's answers arrive at once, and some bring a cookie of its own.
LEMMA WholeStep ==
    ASSUME OwnedInv, Grows(World, World', {}), UNCHANGED <<home, begun>>,
           RequestsFit', TicketsFit', CodesFit', RedeemedFit', LocalSessionFirst', ActiveFits',
           CompletedForItsSession', BrowsersFit', allowed' \subseteq allowed, MailGoesOn,
           DOMAIN active' = Browser,
           DOMAIN jar' = Browser /\ \A b \in Browser : DOMAIN jar'[b] = Cookie,
           NEW t \in Tab, NEW x, tab' = [tab EXCEPT ![t] = x], TabFits(World', home[t], x)
    PROVE  OwnedInv'
<1>1. OwnedTyped'
    BY DEF OwnedInv, OwnedTyped, MailGoesOn, MailTyped
<1>2. TabsFit'
    <2>1. tab'[t] = x /\ \A y \in Tab \ {t} : tab'[y] = tab[y]
        BY DEF OwnedInv, OwnedTyped
    <2> QED BY <2>1, TabsKeep DEF OwnedInv
<1> QED BY <1>1, <1>2 DEF OwnedInv, ServerFits

LEMMA OpensFits ==
    ASSUME OwnedInv, NEW t \in Tab, NEW v, Opens(t, v), VisitFits(World', home[t], v)
    PROVE  \E x : tab' = [tab EXCEPT ![t] = x] /\ TabFits(World', home[t], x)
<1> DEFINE x == IF v.at \in Page THEN Shows(v) ELSE Sent(v)
<1>1. tab' = [tab EXCEPT ![t] = x] /\ TabFits(World', home[t], x)
    BY DEF Opens, TabFits, Shows, Sent
<1> HIDE DEF x
<1> QED BY <1>1

LEMMA StoresKeep ==
    ASSUME OwnedInv, Grows(World, World', {}), NEW t \in Tab, NEW e, Stores(t, e)
    PROVE  /\ DOMAIN jar' = Browser /\ \A b \in Browser : DOMAIN jar'[b] = Cookie
           /\ BrowsersFit'
<1>1. home[t] \in Browser /\ DOMAIN jar = Browser /\ \A b \in Browser : DOMAIN jar[b] = Cookie
    BY DEF OwnedInv, OwnedTyped
<1>2. jar' = [jar EXCEPT ![home[t]] = Over(Puts(Central, e), jar[home[t]])]
    BY DEF Stores
<1>3. ASSUME NEW b \in Browser
      PROVE  /\ DOMAIN jar'[b] = Cookie /\ jar'[b][Auth] = jar[b][Auth]
             /\ \A s \in State : jar'[b][TxCookie(s)] = jar[b][TxCookie(s)]
    BY <1>1, <1>2, CookiesDiffer DEF Over, Puts
<1>4. ASSUME NEW b \in Browser PROVE JarFits(World', b, jar'[b])
    <2>1. JarFits(World', b, jar[b])
        BY JarKeeps DEF OwnedInv, BrowsersFit
    <2> QED BY <1>3, <2>1 DEF JarFits
<1> QED BY <1>1, <1>2, <1>3, <1>4 DEF BrowsersFit

\* Nothing has been made out for a request that is open.
LEMMA OpenRequest ==
    ASSUME OwnedInv, NEW q \in requests, q.open
    PROVE  /\ \A c \in codes : c.req # q.id
           /\ \A k \in tickets : k.req # q.id
<1>1. ASSUME NEW x, MadeOut(x), x.req = q.id PROVE FALSE
    BY <1>1 DEF OwnedInv, ServerFits, RequestsFit, MadeOut
<1>2. (\A c \in codes : MadeOut(c)) /\ (\A k \in tickets : MadeOut(k))
    BY DEF OwnedInv, ServerFits, CodesFit, TicketsFit
<1> QED BY <1>1, <1>2

LEMMA NewCode ==
    ASSUME OwnedInv, Grows(World, World', {}), NEW c, codes' = codes \union {c}, MadeOut(c)',
           \A d \in codes : d.req # c.req
    PROVE  CodesFit'
<1>1. ASSUME NEW d \in codes PROVE MadeOut(d)'
    <2>1. MadeOut(d)
        BY DEF OwnedInv, ServerFits, CodesFit
    <2> QED BY <2>1, MadeOutKeeps DEF MadeOut
<1> QED BY <1>1 DEF CodesFit, OwnedInv, ServerFits

LEMMA ActiveMoves ==
    ASSUME OwnedInv, Grows(World, World', {}), NEW b \in Browser, NEW e,
           active' = [active EXCEPT ![b] = e], e # None => Vouched(World', b, e)
    PROVE  ActiveFits' /\ DOMAIN active' = Browser
<1> DEFINE B == {b}
<1>1. DOMAIN active = Browser /\ ActiveFits
    BY DEF OwnedInv, OwnedTyped, ServerFits
<1>2. /\ \A x \in Browser \ B : active'[x] \in {active[x], None}
      /\ \A x \in B \intersect Browser : active'[x] # None => Vouched(World', x, active'[x])
    BY <1>1
<1> HIDE DEF B
<1> QED BY <1>1, <1>2, ActiveKeeps

LEMMA SignInAtServerKeeps ==
    ASSUME OwnedInv, NEW t \in Tab, NEW e \in Email, SignInAtServer(t, e)
    PROVE  OwnedInv'
<1> DEFINE v == tab[t].visit
           r == v.req
           s == Here(t)
           b == home[t]
<1>c. PICK c : c = [req |-> r, state |-> s, browser |-> b, email |-> e]
    OBVIOUS
<1>1. /\ Closed(r) /\ active' = [active EXCEPT ![b] = e] /\ Stores(t, e)
      /\ codes' = codes \union {c} /\ Opens(t, To("callback", v, v.with))
      /\ acknowledged' = acknowledged \union {<<b, e>>}
      /\ UNCHANGED <<home, tickets, mail, allowed, begun, received, redeemed, completed>>
    BY <1>c DEF SignInAtServer, Acknowledges
<1>2. b \in Browser
    BY DEF OwnedInv, OwnedTyped
<1>3. PICK q \in requests : q.id = r /\ q.state = s /\ q.browser = b
    BY ShownFits DEF SignInAtServer, Presses, VisitFits, World, Here
<1>4. q.open
    BY <1>3 DEF SignInAtServer, Asked, OwnedInv, ServerFits, RequestsFit
<1>5. RequestsGoOn /\ \E p \in requests' : p.id = r /\ p.state = s /\ p.browser = b /\ ~p.open
    BY <1>1, <1>3, ClosedGoesOn DEF OwnedInv, ServerFits
<1>6. MailGoesOn
    BY <1>1, SameGoOn
<1>7. Grows(World, World', {}) /\ RequestsFit'
    BY <1>1, <1>5, <1>6, GoesOn DEF RequestsGoOn
<1>8. CodesFit'
    <2>1. MadeOut(c)'
        BY <1>c, <1>5 DEF MadeOut
    <2>2. \A d \in codes : d.req # c.req
        BY <1>c, <1>3, <1>4, OpenRequest
    <2> QED BY <1>1, <1>7, <2>1, <2>2, NewCode
<1>9. ActiveFits' /\ DOMAIN active' = Browser
    <2>1. Vouched(World', b, e)
        BY <1>1 DEF Vouched, World
    <2> QED BY <1>1, <1>2, <1>7, <2>1, ActiveMoves
<1>10. TicketsFit' /\ RedeemedFit' /\ LocalSessionFirst' /\ CompletedForItsSession'
    BY <1>1, <1>7, TicketsKeep, RedeemedKeep, CompletedKeeps DEF OwnedInv, ServerFits
<1>11. VisitFits(World', b, To("callback", v, v.with))
    BY ShownState, PlainFits DEF SignInAtServer, Presses, Plain, To, Visit, Here
<1>12. PICK x : tab' = [tab EXCEPT ![t] = x] /\ TabFits(World', b, x)
    BY <1>1, <1>11, OpensFits
<1>13. /\ DOMAIN jar' = Browser /\ \A a \in Browser : DOMAIN jar'[a] = Cookie
       /\ BrowsersFit'
    BY <1>1, <1>7, StoresKeep
<1> QED BY <1>1, <1>6, <1>7, <1>8, <1>9, <1>10, <1>12, <1>13, WholeStep

LEMMA NewRequest ==
    ASSUME OwnedInv, NEW q, requests' = requests \union {q}, \A p \in requests : p.id # q.id,
           q = [id |-> q.id, state |-> q.state, grant |-> q.grant, browser |-> q.browser,
                open |-> q.open],
           q.id \in Req, q.state \in State, q.browser \in Browser
    PROVE  RequestsGoOn /\ \A c \in codes : c.req # q.id
<1>1. \A c \in codes : MadeOut(c)
    BY DEF OwnedInv, ServerFits, CodesFit
<1>2. \A c \in codes : c.req # q.id
    BY <1>1 DEF MadeOut
<1> QED BY <1>2 DEF OwnedInv, ServerFits, RequestsFit, RequestsGoOn

\* A step that moves no session, ticket or mail.
LEMMA RequestStep ==
    ASSUME OwnedInv, RequestsGoOn, CodesFit', NEW t \in Tab, NEW v, Opens(t, v),
           UNCHANGED <<home, jar, begun, acknowledged, received, completed>>,
           UNCHANGED <<tickets, active, mail, allowed, redeemed>>,
           VisitFits(World', home[t], v)
    PROVE  OwnedInv'
<1>1. MailGoesOn
    BY SameGoOn
<1>2. Grows(World, World', {}) /\ RequestsFit'
    BY <1>1, GoesOn DEF RequestsGoOn
<1>3. PICK x : tab' = [tab EXCEPT ![t] = x] /\ TabFits(World', home[t], x)
    BY OpensFits
<1>4. TicketsFit' /\ RedeemedFit' /\ LocalSessionFirst' /\ CompletedForItsSession'
    BY <1>2, TicketsKeep, RedeemedKeep, CompletedKeeps DEF OwnedInv, ServerFits
<1>5. ActiveFits' /\ BrowsersFit'
    BY <1>2, ActiveSame, BrowsersKeep DEF OwnedInv, ServerFits
<1> QED BY <1>1, <1>2, <1>3, <1>4, <1>5, WholeStep DEF OwnedInv, OwnedTyped

LEMMA AuthorizeKeeps ==
    ASSUME OwnedInv, NEW t \in Tab, Authorize(t)
    PROVE  OwnedInv'
<1> DEFINE s == Here(t)
           b == home[t]
           e == Carried(t)[Central]
           ui == tab[t].visit.with
           signedIn == e # None /\ active[b] = e /\ ui \notin {"login", "hostedLogin"}
           Makes(r) ==
               /\ requests' = requests \union {[id |-> r, state |-> s, grant |-> None,
                                                browser |-> b, open |-> ~signedIn]}
               /\ IF signedIn
                  THEN /\ codes' = codes \union {[req |-> r, state |-> s, browser |-> b,
                                                  email |-> e]}
                       /\ Opens(t, Visit("callback", s, r, None))
                  ELSE /\ Opens(t, Visit(IF ui \in {"hosted", "hostedLogin"} THEN "issuer"
                                         ELSE "prepared", s, r, None))
                       /\ UNCHANGED codes
<1>1. /\ UNCHANGED <<home, jar, begun, acknowledged, received, completed>>
      /\ UNCHANGED <<tickets, active, mail, allowed, redeemed>>
      /\ s \in State /\ b \in Browser
    BY ShownState DEF Authorize, ByServer, Handles, OwnedInv, OwnedTyped
<1>2. CASE Opens(t, Rest) /\ UNCHANGED <<requests, codes>>
    <2>1. RequestsGoOn /\ CodesFit'
        BY <1>2, SameGoOn DEF OwnedInv, ServerFits, CodesFit, MadeOut
    <2>2. VisitFits(World', b, Rest)
        BY PlainFits DEF Plain, Rest, Visit
    <2> QED BY <1>1, <1>2, <2>1, <2>2, RequestStep
<1>3. ASSUME NEW r \in Req, \A p \in requests : p.id # r, NEW q, NEW o, o = ~signedIn,
             q = [id |-> r, state |-> s, grant |-> None, browser |-> b, open |-> o],
             requests' = requests \union {q},
             \/ /\ signedIn /\ Opens(t, Visit("callback", s, r, None))
                /\ codes' = codes \union {[req |-> r, state |-> s, browser |-> b, email |-> e]}
             \/ /\ UNCHANGED codes
                /\ \E at \in {"issuer", "prepared"} : Opens(t, Visit(at, s, r, None))
      PROVE  OwnedInv'
    <2>1. /\ q.id = r /\ q.state = s /\ q.browser = b /\ q.open = o
          /\ q = [id |-> q.id, state |-> q.state, grant |-> q.grant, browser |-> q.browser,
                  open |-> q.open]
        BY <1>3
    <2>2. RequestsGoOn /\ \A c \in codes : c.req # r
        BY <1>1, <1>3, <2>1, NewRequest
    <2>3. Grows(World, World', {})
        BY <1>1, <2>2, SameGoOn, GoesOn
    <2>4. CASE signedIn /\ Opens(t, Visit("callback", s, r, None))
               /\ codes' = codes \union {[req |-> r, state |-> s, browser |-> b, email |-> e]}
        <3>1. PICK c : c = [req |-> r, state |-> s, browser |-> b, email |-> e]
            OBVIOUS
        <3>2. ~q.open
            BY <1>3, <2>1, <2>4
        <3>3. MadeOut(c)'
            BY <1>3, <2>1, <3>1, <3>2 DEF MadeOut
        <3>4. CodesFit'
            BY <2>2, <2>3, <2>4, <3>1, <3>3, NewCode
        <3>5. VisitFits(World', b, Visit("callback", s, r, None))
            BY <1>1, PlainFits DEF Plain, Visit
        <3> QED BY <1>1, <2>2, <2>4, <3>4, <3>5, RequestStep
    <2>5. ASSUME UNCHANGED codes, NEW at \in {"issuer", "prepared"}, Opens(t, Visit(at, s, r, None))
          PROVE  OwnedInv'
        <3>1. CodesFit'
            BY <2>3, <2>5, CodesKeep DEF OwnedInv, ServerFits
        <3>2. VisitFits(World', b, Visit(at, s, r, None))
            BY <1>1, <1>3, <2>1 DEF VisitFits, Visit, World
        <3> QED BY <1>1, <2>2, <2>5, <3>1, <3>2, RequestStep
    <2> QED BY <1>3, <2>4, <2>5
<1>4. ASSUME NEW r \in Req, \A p \in requests : p.id # r, Makes(r) PROVE OwnedInv'
    <2>1. PICK o : o = ~signedIn
        OBVIOUS
    <2>2. PICK q : q = [id |-> r, state |-> s, grant |-> None, browser |-> b, open |-> o]
        OBVIOUS
    <2>3. requests' = requests \union {q}
        BY <1>4, <2>1, <2>2
    <2> QED BY <1>3, <1>4, <2>1, <2>2, <2>3
<1>5. \/ Opens(t, Rest) /\ UNCHANGED <<requests, codes>>
      \/ \E r \in Req : (\A p \in requests : p.id # r) /\ Makes(r)
    BY DEF Authorize
<1> QED BY <1>2, <1>4, <1>5

--------------------------------------------------------------------------------
\* A mail is spent, and the ticket it may bring.
LEMMA ReplyFitsTab ==
    ASSUME OwnedInv, Grows(World, World', {}), NEW t \in Tab, NEW set, NEW next,
           Reply(t, set, next), ReplyFits(World', home[t], set, next)
    PROVE  \E x : tab' = [tab EXCEPT ![t] = x] /\ TabFits(World', home[t], x)
<1> DEFINE x == Answered(tab[t].visit, set, next)
<1>1. tab' = [tab EXCEPT ![t] = x]
    BY DEF Reply
<1>2. VisitFits(World', home[t], tab[t].visit)
    BY ShownFits, VisitKeeps
<1>3. TabFits(World', home[t], x)
    BY <1>2 DEF TabFits, Answered
<1> HIDE DEF x
<1> QED BY <1>1, <1>3

\* What a session that is handed out needs, besides the cookies it comes with.
LEMMA SignsIn ==
    ASSUME NEW clears, Sober(clears), NEW tok
    PROVE  /\ Auth \in DOMAIN With(clears, SignedIn(tok)) /\ With(clears, SignedIn(tok))[Auth] = tok
           /\ \A s \in State : TxCookie(s) \in DOMAIN With(clears, SignedIn(tok)) =>
                                   With(clears, SignedIn(tok))[TxCookie(s)] = None
BY CookiesDiffer DEF Sober, With, SignedIn, Puts

LEMMA SoberBoth ==
    ASSUME NEW a, NEW c, Sober(a), Sober(c)
    PROVE  Sober(With(a, c))
BY DEF Sober, With

LEMMA Exchanges ==
    ASSUME NEW m, NEW r, NEW s, NEW answer, Exchanged(m, r, s, answer)
    PROVE  /\ UNCHANGED <<codes, active, redeemed>> /\ allowed' \subseteq allowed
           /\ mail' = mail \/ mail' = [mail EXCEPT ![m] = Mailed(@.email, @.state, TRUE)]
           /\ \/ answer # "ticket" /\ UNCHANGED <<requests, tickets>>
              \/ IssueTicket(r, s, m) /\ CanHaveTicket(r, s, m)
BY DEF Exchanged, NoTicket, Spend

LEMMA IssueGoesOn ==
    ASSUME OwnedInv, NEW m, NEW r, NEW s \in State, IssueTicket(r, s, m), CanHaveTicket(r, s, m),
           UNCHANGED begun, acknowledged \subseteq acknowledged', received \subseteq received',
           redeemed \subseteq redeemed', MailGoesOn,
           <<begun[s], mail[m].email>> \in acknowledged
    PROVE  /\ Grows(World, World', {}) /\ RequestsFit' /\ TicketsFit'
           /\ Settled(World', r, s) /\ OnlyTicket(World', r, Token(mail[m].email, m))
<1>1. PICK q \in requests : q.id = r /\ q.state = s /\ q.open
    BY DEF CanHaveTicket, Asked
<1>2. \A p \in Asked(r, s) : p = q
    BY <1>1 DEF Asked, OwnedInv, ServerFits, RequestsFit
<1>3. /\ RequestsGoOn
      /\ \E p \in requests' : p.id = r /\ p.state = s /\ p.browser = q.browser /\ ~p.open
    BY <1>1, ClosedGoesOn DEF IssueTicket, OwnedInv, ServerFits
<1>4. PICK k : k = [req |-> r, state |-> s, browser |-> q.browser,
                    token |-> Token(mail[m].email, m)]
    OBVIOUS
<1>5. tickets' = tickets \union {k}
    <2>1. q \in Asked(r, s)
        BY <1>1 DEF Asked
    <2> QED BY <1>1, <1>2, <1>4, <2>1 DEF IssueTicket
<1>6. \A j \in tickets : j.req # k.req
    BY <1>1, <1>4, OpenRequest
<1>7. Grows(World, World', {})
    BY <1>1, <1>3, <1>4, <1>5, GoesOn
<1>8. \A j \in tickets : MadeOut(j)' /\ <<begun'[j.state], j.token.email>> \in acknowledged'
    <2>1. ASSUME NEW j \in tickets
          PROVE  MadeOut(j)' /\ <<begun'[j.state], j.token.email>> \in acknowledged'
        <3>1. MadeOut(j) /\ <<begun[j.state], j.token.email>> \in acknowledged
            BY DEF OwnedInv, ServerFits, TicketsFit
        <3> QED BY <1>7, <3>1, MadeOutKeeps DEF MadeOut
    <2> QED BY <2>1
<1>9. MadeOut(k)' /\ <<begun'[k.state], k.token.email>> \in acknowledged'
    BY <1>3, <1>4 DEF MadeOut, Token
<1>10. TicketsFit'
    BY <1>5, <1>6, <1>8, <1>9 DEF TicketsFit, OwnedInv, ServerFits
<1>11. Settled(World', r, s) /\ OnlyTicket(World', r, Token(mail[m].email, m))
    BY <1>3, <1>4, <1>5, <1>6 DEF Settled, OnlyTicket, World
<1> QED BY <1>3, <1>7, <1>10, <1>11 DEF RequestsGoOn

LEMMA CompleteKeeps ==
    ASSUME OwnedInv, NEW t \in Tab, Handles(t, "verify") \/ Handles(t, "otp"),
           ByApplication, UNCHANGED completed, NEW clears, Sober(clears),
           Complete(t, tab[t].visit.with, clears)
    PROVE  OwnedInv'
<1> DEFINE s == Here(t)
           b == home[t]
           m == tab[t].visit.with
           r == Context(Carried(t), s)
           tok == Token(mail[m].email, m)
<1>1. /\ s \in State /\ b \in Browser /\ m \in Mail /\ mail[m] # None
      /\ <<b, mail[m].email>> \in acknowledged
    BY ShownState, ShownFits DEF Handles, VisitFits, World, OwnedInv, OwnedTyped
<1>2. UNCHANGED <<home, jar, begun, acknowledged, received, completed>>
    BY DEF ByApplication
<1>3. PICK answer \in {"refused", "ticket", "local"} :
          /\ Exchanged(m, r, s, answer)
          /\ answer = "refused" => Fails(t)
          /\ answer = "ticket" => ToRedeem(t, r, tok, clears)
          /\ answer = "local" => StaysLocal(t, With(LocalClears(Carried(t), s), clears), tok)
    BY DEF Complete
<1>4. /\ UNCHANGED <<codes, active, redeemed>> /\ allowed' \subseteq allowed
      /\ mail' = mail \/ mail' = [mail EXCEPT ![m] = Mailed(@.email, @.state, TRUE)]
      /\ \/ answer # "ticket" /\ UNCHANGED <<requests, tickets>>
         \/ IssueTicket(r, s, m) /\ CanHaveTicket(r, s, m)
    BY <1>3, Exchanges
<1>5. MailGoesOn
    <2>1. CASE mail' = mail
        BY <2>1, SameGoOn
    <2>2. CASE mail' = [mail EXCEPT ![m] = Mailed(mail[m].email, mail[m].state, TRUE)]
        <3>1. MailTyped
            BY DEF OwnedInv, OwnedTyped, MailTyped
        <3>2. /\ Mailed(mail[m].email, mail[m].state, TRUE) \in
                     [email : Email, state : State, spent : BOOLEAN]
              /\ Mailed(mail[m].email, mail[m].state, TRUE).email = mail[m].email
            BY <1>1, <3>1 DEF Mailed, MailTyped
        <3>3. Mailed(mail[m].email, mail[m].state, TRUE) # None
            BY <3>2, OwnedAssumption
        <3> QED BY <1>1, <2>2, <3>1, <3>2, <3>3 DEF MailGoesOn, MailTyped
    <2> QED BY <1>4, <2>1, <2>2
<1>6. /\ Grows(World, World', {}) /\ RequestsFit' /\ TicketsFit'
      /\ answer = "ticket" => /\ Settled(World', r, s) /\ OnlyTicket(World', r, tok)
                              /\ begun[s] = b
    <2>1. CASE answer # "ticket" /\ UNCHANGED <<requests, tickets>>
        <3>1. Grows(World, World', {}) /\ RequestsFit'
            BY <1>2, <1>4, <1>5, <2>1, SameGoOn, GoesOn DEF RequestsGoOn
        <3> QED BY <2>1, <3>1, TicketsKeep DEF OwnedInv, ServerFits
    <2>2. CASE IssueTicket(r, s, m) /\ CanHaveTicket(r, s, m)
        <3>1. r \in Req
            BY <2>2 DEF CanHaveTicket, Asked, OwnedInv, ServerFits, RequestsFit
        <3>2. Carried(t)[TxCookie(s)] # None
            BY <3>1, OwnedAssumption DEF Context, InPhase, HasTransaction
        <3>3. begun[s] = b
            BY <1>1, <3>2 DEF OwnedInv, BrowsersFit, JarFits, World, Carried
        <3> QED BY <1>1, <1>2, <1>4, <1>5, <2>2, <3>3, IssueGoesOn
    <2> QED BY <1>4, <2>1, <2>2
<1>7. \E set, next : Reply(t, set, next) /\ ReplyFits(World', b, set, next)
    <2>1. tok.email = mail[m].email /\ Vouched(World', b, tok.email)
        BY <1>1, <1>2 DEF Vouched, World, Token
    <2>2. CASE Fails(t)
        BY <2>2, FailsFits DEF Fails
    <2>3. CASE answer = "ticket"
        <3> DEFINE in == With(clears, SignedIn(tok))
                   set == With(Puts(Continuation(s), Finishing(r, tok)), in)
                   next == Visit("redeem", s, r, None)
        <3>1. Reply(t, set, next)
            BY <1>3, <2>3 DEF ToRedeem
        <3>2. /\ Auth \in DOMAIN in /\ in[Auth] = tok
              /\ \A x \in State : TxCookie(x) \in DOMAIN in => in[TxCookie(x)] = None
            BY SignsIn
        <3>3. /\ Auth \in DOMAIN set /\ set[Auth] = tok
              /\ \A x \in State : TxCookie(x) \in DOMAIN set => set[TxCookie(x)] = None
            <4> HIDE DEF in
            <4> QED BY <1>1, <3>2, CookiesDiffer DEF With, Puts
        <3>4. next.at = "redeem" /\ next.state = s /\ next.req = r
            BY DEF Visit
        <3> HIDE DEF set, next
        <3>5. ReplyFits(World', b, set, next)
            BY <1>1, <1>2, <1>6, <2>1, <2>3, <3>3, <3>4 DEF ReplyFits, World
        <3> QED BY <3>1, <3>5
    <2>4. CASE answer = "local"
        <3> DEFINE drop == With(LocalClears(Carried(t), s), clears)
                   set == With(drop, SignedIn(tok))
        <3>1. Reply(t, set, Local)
            BY <1>3, <2>4 DEF StaysLocal
        <3>2. Sober(drop)
            BY <1>1, SoberSets, SoberBoth
        <3>3. VisitFits(World', b, Local) /\ Local.at # "redeem"
            BY PlainFits DEF Plain, Local, Visit
        <3> HIDE DEF drop
        <3>4. ReplyFits(World', b, set, Local)
            BY <2>1, <3>2, <3>3, SignsIn DEF ReplyFits
        <3> QED BY <3>1, <3>4
    <2> QED BY <1>3, <2>2, <2>3, <2>4
<1>8. \E x : tab' = [tab EXCEPT ![t] = x] /\ TabFits(World', b, x)
    BY <1>6, <1>7, ReplyFitsTab
<1>9. /\ CodesFit' /\ RedeemedFit' /\ LocalSessionFirst' /\ CompletedForItsSession'
      /\ ActiveFits' /\ BrowsersFit'
    BY <1>2, <1>4, <1>6, CodesKeep, RedeemedKeep, CompletedKeeps, ActiveSame, BrowsersKeep
    DEF OwnedInv, ServerFits
<1> QED BY <1>2, <1>4, <1>5, <1>6, <1>8, <1>9, WholeStep DEF OwnedInv, OwnedTyped

LEMMA VerifyKeeps ==
    ASSUME OwnedInv, NEW t \in Tab, Verify(t) \/ Otp(t)
    PROVE  OwnedInv'
<1>1. ByApplication /\ UNCHANGED completed /\ (Handles(t, "verify") \/ Handles(t, "otp"))
    BY DEF Verify, Otp
<1>2. CASE Fails(t) /\ UNCHANGED server
    BY <1>1, <1>2, FailsKeeps
<1>3. Here(t) \in State
    BY <1>1, ShownState DEF Handles
<1>4. CASE Complete(t, tab[t].visit.with, Puts(ConfirmCookie(Here(t)), None))
    BY <1>1, <1>3, <1>4, SoberSets, CompleteKeeps
<1>5. CASE Complete(t, tab[t].visit.with, Unchanged)
    BY <1>1, <1>3, <1>5, SoberSets, CompleteKeeps
<1> QED BY <1>2, <1>4, <1>5 DEF Verify, Otp

--------------------------------------------------------------------------------
\* A browser's shared session begins or ends.
LEMMA RedeemGoesOn ==
    ASSUME OwnedInv, UNCHANGED <<begun, received, acknowledged, requests, mail>>,
           tickets' \subseteq tickets, redeemed \subseteq redeemed'
    PROVE  /\ Grows(World, World', {}) /\ RequestsFit' /\ MailGoesOn
           /\ Strayed' = Strayed
           /\ redeemed' = redeemed => RedeemedFit' /\ LocalSessionFirst'
<1>1. MailGoesOn /\ RequestsGoOn
    BY SameGoOn
<1>2. Grows(World, World', {}) /\ RequestsFit'
    BY <1>1, GoesOn DEF RequestsGoOn
<1>3. Strayed' = Strayed
    BY DEF Strayed
<1> QED BY <1>1, <1>2, <1>3, RedeemedKeep DEF OwnedInv, ServerFits

LEMMA SessionStep ==
    ASSUME OwnedInv, NEW t \in Tab, UNCHANGED <<home, begun, received, acknowledged, completed>>,
           UNCHANGED <<requests, codes, mail>>,
           tickets' \subseteq tickets, allowed' \subseteq allowed, redeemed \subseteq redeemed',
           RedeemedFit', LocalSessionFirst',
           NEW e, active' = [active EXCEPT ![home[t]] = e], e # None => Vouched(World', home[t], e),
           Stores(t, e) \/ UNCHANGED jar,
           NEW v, Opens(t, v), VisitFits(World', home[t], v)
    PROVE  OwnedInv'
<1>1. Grows(World, World', {}) /\ RequestsFit' /\ MailGoesOn
    BY RedeemGoesOn
<1>2. PICK x : tab' = [tab EXCEPT ![t] = x] /\ TabFits(World', home[t], x)
    BY <1>1, OpensFits
<1>3. TicketsFit' /\ CodesFit' /\ CompletedForItsSession'
    BY <1>1, TicketsKeep, CodesKeep, CompletedKeeps DEF OwnedInv, ServerFits
<1>4. ActiveFits' /\ DOMAIN active' = Browser
    <2>1. home[t] \in Browser
        BY DEF OwnedInv, OwnedTyped
    <2> QED BY <1>1, <2>1, ActiveMoves
<1>5. /\ DOMAIN jar' = Browser /\ \A b \in Browser : DOMAIN jar'[b] = Cookie
      /\ BrowsersFit'
    BY <1>1, StoresKeep, BrowsersKeep DEF OwnedInv, OwnedTyped
<1> QED BY <1>1, <1>2, <1>3, <1>4, <1>5, WholeStep

LEMMA SignOutKeeps ==
    ASSUME OwnedInv, NEW t \in Tab, SignOut(t)
    PROVE  OwnedInv'
<1>1. VisitFits(World', home[t], Rest)
    BY PlainFits DEF Plain, Rest, Visit
<1>2. RedeemedFit' /\ LocalSessionFirst' /\ tickets' \subseteq tickets
    BY RedeemGoesOn DEF SignOut, ByServer
<1> QED BY <1>1, <1>2, SessionStep DEF SignOut, ByServer

\* The ticket's account is one the visitor of this browser said yes to, or of the
\* browser the transaction strayed from; and its session went there before.
LEMMA RedeemsKeeps ==
    ASSUME OwnedInv, NEW t \in Tab, Handles(t, "redeem") \/ Handles(t, "adoptConfirmed"),
           ByServer, UNCHANGED <<requests, codes, mail>>,
           NEW k \in LiveTickets(tab[t].visit.req, Here(t)), Redeems(t, k),
           Handles(t, "redeem") => SameBrowser(k, home[t])
    PROVE  OwnedInv'
<1> DEFINE v == tab[t].visit
           s == Here(t)
           b == home[t]
           e == k.token.email
<1>1. /\ UNCHANGED <<home, begun, received, acknowledged, completed>>
      /\ tickets' = tickets \ {k} /\ tickets' \subseteq tickets /\ allowed' \subseteq allowed
      /\ redeemed \subseteq redeemed'
    BY DEF Redeems, ByServer
<1>2. s \in State /\ b \in Browser /\ VisitFits(World, b, v)
    BY ShownState, ShownFits DEF Handles, OwnedInv, OwnedTyped
<1>3. /\ k \in tickets /\ k.req = v.req /\ k.state = s /\ <<begun[s], e>> \in acknowledged
      /\ \E q \in requests : q.state = s /\ q.browser = k.browser
    BY DEF LiveTickets, OwnedInv, ServerFits, TicketsFit, MadeOut
<1>4. /\ Grows(World, World', {}) /\ Strayed' = Strayed
      /\ redeemed' = redeemed => RedeemedFit' /\ LocalSessionFirst'
    BY <1>1, RedeemGoesOn
<1>5. SameBrowser(k, b) => begun[s] = b \/ s \in Strayed
    BY <1>2, <1>3 DEF SameBrowser, Strayed
<1>6. Vouched(World', b, e)
    <2>1. CASE Handles(t, "adoptConfirmed")
        <3>1. v.with = e /\ <<b, v.with>> \in acknowledged
            BY <1>2, <1>3, <2>1 DEF Handles, VisitFits, World
        <3> QED BY <1>1, <3>1 DEF Vouched, World
    <2>2. CASE Handles(t, "redeem")
        <3>1. CASE begun[s] = b
            BY <1>1, <1>3, <3>1 DEF Vouched, World
        <3>2. CASE begun[s] # b
            <4>1. s \in StrayedIn(World') /\ MetIn(World', b, s)
                BY <1>1, <1>2, <1>3, <2>2, <3>2 DEF StrayedIn, MetIn, World, SameBrowser
            <4> QED BY <4>1 DEF Vouched
        <3> QED BY <3>1, <3>2
    <2> QED BY <2>1, <2>2
<1>7. CASE /\ active' = [active EXCEPT ![b] = e] /\ Stores(t, e)
           /\ IF SameBrowser(k, b)
              THEN /\ redeemed' = redeemed \union {[browser |-> b, state |-> k.state,
                                                     token |-> k.token]}
                   /\ Opens(t, Visit("finish", k.state, k.req,
                                     [req |-> k.req, token |-> k.token]))
              ELSE Opens(t, Rest) /\ UNCHANGED redeemed
    <2>1. CASE ~SameBrowser(k, b)
        <3>1. VisitFits(World', b, Rest)
            BY PlainFits DEF Plain, Rest, Visit
        <3> QED BY <1>1, <1>4, <1>6, <1>7, <2>1, <3>1, SessionStep
    <2>2. CASE SameBrowser(k, b)
        <3>1. PICK x : x = [browser |-> b, state |-> s, token |-> k.token]
            OBVIOUS
        <3>2. redeemed' = redeemed \union {x}
            BY <1>3, <1>7, <2>2, <3>1
        <3>3. RedeemedFit'
            <4>1. /\ x = [browser |-> x.browser, state |-> x.state, token |-> x.token]
                  /\ \E q \in requests' : q.state = x.state /\ q.browser = x.browser
                BY <1>3, <2>2, <3>1 DEF SameBrowser
            <4>2. \A y \in redeemed :
                      /\ y = [browser |-> y.browser, state |-> y.state, token |-> y.token]
                      /\ \E q \in requests' : q.state = y.state /\ q.browser = y.browser
                BY DEF OwnedInv, ServerFits, RedeemedFit
            <4> QED BY <3>2, <4>1, <4>2 DEF RedeemedFit
        <3>4. LocalSessionFirst'
            <4>1. \E g \in received : /\ g = [browser |-> begun[s], token |-> g.token]
                                      /\ OnlyTicket(World, v.req, g.token)
                BY <1>2 DEF Handles, VisitFits, World, Here
            <4>2. [browser |-> begun[s], token |-> k.token] \in received
                BY <1>3, <4>1 DEF OnlyTicket, World
            <4>3. [browser |-> x.browser, token |-> x.token] \in received' \/ x.state \in Strayed'
                BY <1>1, <1>4, <1>5, <2>2, <3>1, <4>2
            <4> QED BY <1>1, <1>4, <3>2, <4>3 DEF LocalSessionFirst, OwnedInv, ServerFits
        <3> DEFINE next == Visit("finish", k.state, k.req, [req |-> k.req, token |-> k.token])
        <3>5. VisitFits(World', b, next)
            <4>1. x.state = next.state /\ x.token = next.with.token /\ x \in redeemed'
                BY <1>3, <3>1, <3>2 DEF Visit
            <4>2. next.at = "finish" /\ next.state \in State
                BY <1>2, <1>3 DEF Visit
            <4> HIDE DEF next
            <4> QED BY <4>1, <4>2 DEF VisitFits, World
        <3>6. PICK y : y = next
            OBVIOUS
        <3>7. Opens(t, y) /\ VisitFits(World', b, y)
            BY <1>7, <2>2, <3>5, <3>6
        <3> HIDE DEF next
        <3> QED BY <1>1, <1>6, <1>7, <3>3, <3>4, <3>7, SessionStep
    <2> QED BY <2>1, <2>2
<1>8. CASE /\ active' = [active EXCEPT ![b] = None] /\ UNCHANGED <<jar, redeemed>>
           /\ FailedShared(t) \/ Opens(t, Rest)
    <2>1. VisitFits(World', b, Rest) /\ VisitFits(World', b, To("failed", v, None))
        BY <1>2, PlainFits DEF Plain, Rest, To, Visit, Here
    <2> QED BY <1>1, <1>4, <1>8, <2>1, SessionStep DEF FailedShared
<1> QED BY <1>7, <1>8 DEF Redeems

LEMMA RedeemKeeps ==
    ASSUME OwnedInv, NEW t \in Tab, Redeem(t)
    PROVE  OwnedInv'
<1> DEFINE v == tab[t].visit
           b == home[t]
           found == LiveTickets(v.req, Here(t))
           same == UNCHANGED <<jar, tickets, active, allowed, redeemed>>
<1>1. /\ Handles(t, "redeem") \/ Handles(t, "adoptConfirmed")
      /\ ByServer /\ UNCHANGED <<requests, codes, mail>>
    BY DEF Redeem
<1>2. Here(t) \in State /\ Here(t) = v.state /\ VisitFits(World, b, v)
    BY <1>1, ShownState, ShownFits DEF Handles, Here
<1>3. same => RequestsGoOn /\ CodesFit' /\ Grows(World, World', {})
    BY <1>1, SameGoOn, NothingNew DEF ByServer, OwnedInv, ServerFits, CodesFit, MadeOut
<1>4. CASE FailedShared(t) /\ same
    <2>1. VisitFits(World', b, To("failed", v, None))
        BY <1>2, PlainFits DEF Plain, To, Visit
    <2> QED BY <1>1, <1>3, <1>4, <2>1, RequestStep DEF FailedShared, ByServer
<1>5. ASSUME NEW k \in found, Opens(t, To("adopt", v, k.token.email)), same, Handles(t, "redeem")
      PROVE  OwnedInv'
    <2>1. VisitFits(World', b, v) /\ v.at = "redeem"
        BY <1>2, <1>3, <1>5, VisitKeeps DEF Handles
    <2>2. \A j \in tickets : j.req = v.req => j.token.email = k.token.email
        BY DEF LiveTickets, OwnedInv, ServerFits, TicketsFit
    <2>3. VisitFits(World', b, To("adopt", v, k.token.email))
        BY <1>5, <2>1, <2>2 DEF VisitFits, To, Visit, World
    <2> QED BY <1>1, <1>3, <1>5, <2>3, RequestStep DEF ByServer
<1>6. ASSUME NEW k \in found, Redeems(t, k), Handles(t, "redeem") => ~NeedsConfirmation(k, t)
      PROVE  OwnedInv'
    BY <1>1, <1>6, RedeemsKeeps DEF NeedsConfirmation
<1> QED BY <1>4, <1>5, <1>6 DEF Redeem

--------------------------------------------------------------------------------
\* The application hears what became of the shared sign-in, or trades a code.
LEMMA AnswerStep ==
    ASSUME OwnedInv, ByApplication, UNCHANGED <<requests, tickets, active, mail, allowed, redeemed>>,
           codes' \subseteq codes, CompletedForItsSession',
           NEW t \in Tab, NEW set, NEW next, Reply(t, set, next),
           ReplyFits(World', home[t], set, next)
    PROVE  OwnedInv'
<1>1. UNCHANGED <<home, jar, begun, acknowledged, received>>
    BY DEF ByApplication
<1>2. /\ Grows(World, World', {}) /\ RequestsFit' /\ MailGoesOn
      /\ RedeemedFit' /\ LocalSessionFirst'
    BY <1>1, RedeemGoesOn
<1>3. \E x : tab' = [tab EXCEPT ![t] = x] /\ TabFits(World', home[t], x)
    BY <1>2, ReplyFitsTab
<1>4. TicketsFit' /\ CodesFit' /\ ActiveFits' /\ BrowsersFit'
    BY <1>1, <1>2, TicketsKeep, CodesKeep, ActiveSame, BrowsersKeep DEF OwnedInv, ServerFits
<1> QED BY <1>1, <1>2, <1>3, <1>4, WholeStep DEF OwnedInv, OwnedTyped

LEMMA SameWorld ==
    ASSUME OwnedInv, ByApplication, UNCHANGED <<requests, tickets, active, mail, allowed, redeemed>>
    PROVE  /\ World' = World
           /\ UNCHANGED completed => CompletedForItsSession'
BY DEF ByApplication, World, OwnedInv, ServerFits, CompletedForItsSession, Strayed

LEMMA FinishKeeps ==
    ASSUME OwnedInv, NEW t \in Tab, Finish(t)
    PROVE  OwnedInv'
<1> DEFINE c == Carried(t)
           s == Here(t)
           b == home[t]
           receipt == tab[t].visit.with
           cont == c[Continuation(s)]
<1>1. /\ ByApplication /\ UNCHANGED <<requests, tickets, codes, active, mail, allowed, redeemed>>
      /\ Handles(t, "finish") /\ tab[t].visit.at = "finish"
    BY DEF Finish, server, Handles
<1>2. s \in State /\ b \in Browser /\ World' = World
    BY <1>1, ShownState, SameWorld DEF OwnedInv, OwnedTyped
<1>3. CASE Fails(t) /\ UNCHANGED completed
    BY <1>1, <1>3, FailsKeeps DEF server
<1>4. \A next \in {Local, AtApplication} : ReplyFits(World', b, Clear(s), next)
    <2>1. \A next \in {Local, AtApplication} :
              VisitFits(World', b, next) /\ next.at # "redeem"
        BY PlainFits DEF Plain, Local, AtApplication, Visit
    <2> QED BY <1>2, <2>1, SoberSets, SoberFits
<1>5. CASE Reply(t, Clear(s), Local) /\ UNCHANGED completed
    BY <1>1, <1>4, <1>5, SameWorld, AnswerStep
<1>6. CASE /\ InPhase(c, s, "finish") /\ receipt # None /\ SameSession(c, cont)
           /\ ReceiptFits(cont, receipt) /\ Reply(t, Clear(s), AtApplication)
           /\ completed' = completed \union {[browser |-> b, state |-> s, token |-> c[Auth]]}
    <2>1. receipt.token = c[Auth]
        BY <1>6 DEF SameSession, ReceiptFits
    <2>2. PICK k \in redeemed : k.state = s /\ k.token = c[Auth]
        <3>1. VisitFits(World, b, tab[t].visit)
            BY ShownFits
        <3>2. \E k \in redeemed : k.state = tab[t].visit.state /\ k.token = receipt.token
            BY <1>1, <1>6, <3>1 DEF VisitFits, World
        <3> QED BY <2>1, <3>2 DEF Here
    <2>3. begun[s] = b
        BY <1>2, <1>6 DEF InPhase, HasTransaction, OwnedInv, BrowsersFit, JarFits, World, Carried
    <2>4. [browser |-> b, state |-> s, token |-> c[Auth]] \in redeemed \/ s \in Strayed
        <3>1. /\ k = [browser |-> k.browser, state |-> k.state, token |-> k.token]
              /\ \E q \in requests : q.state = k.state /\ q.browser = k.browser
            BY DEF OwnedInv, ServerFits, RedeemedFit
        <3>2. CASE k.browser = b
            <4>1. k = [browser |-> b, state |-> s, token |-> c[Auth]]
                BY <2>2, <3>1, <3>2
            <4> QED BY <4>1
        <3>3. CASE k.browser # b
            BY <1>2, <2>2, <2>3, <3>1, <3>3 DEF Strayed
        <3> QED BY <3>2, <3>3
    <2>5. CompletedForItsSession'
        <3>1. PICK x : x = [browser |-> b, state |-> s, token |-> c[Auth]]
            OBVIOUS
        <3>2. completed' = completed \union {x} /\ (x \in redeemed \/ x.state \in Strayed)
            BY <1>6, <2>4, <3>1
        <3>3. redeemed' = redeemed /\ Strayed' = Strayed
            BY <1>1 DEF ByApplication, Strayed
        <3> QED BY <3>2, <3>3 DEF CompletedForItsSession, OwnedInv, ServerFits
    <2> QED BY <1>1, <1>4, <1>6, <2>5, AnswerStep
<1> QED BY <1>3, <1>5, <1>6 DEF Finish

\* A code is only good for the account its browser is signed in with at the server; a
\* browser that has another's transaction trades another's code.
LEMMA CallbackKeeps ==
    ASSUME OwnedInv, NEW t \in Tab, Callback(t)
    PROVE  OwnedInv'
<1> DEFINE c == Carried(t)
           s == Here(t)
           b == home[t]
           clears == ClearTransaction(c, s)
<1>1. /\ ByApplication /\ UNCHANGED <<requests, tickets, active, mail, allowed, redeemed, completed>>
      /\ Handles(t, "callback") /\ tab[t].visit.at = "callback"
    BY DEF Callback, Handles
<1>2. s \in State /\ b \in Browser /\ World' = World /\ CompletedForItsSession'
    BY <1>1, ShownState, SameWorld DEF OwnedInv, OwnedTyped
<1>3. CASE Fails(t) /\ UNCHANGED codes
    BY <1>1, <1>3, FailsKeeps DEF server
<1>4. \A next \in {Rest, AtApplication} : VisitFits(World', b, next) /\ next.at # "redeem"
    BY PlainFits DEF Plain, Rest, AtApplication, Visit
<1>5. CASE Reply(t, clears, Rest) /\ codes' \subseteq codes
    <2>1. ReplyFits(World', b, clears, Rest)
        BY <1>2, <1>4, SoberSets, SoberFits
    <2> QED BY <1>1, <1>2, <1>5, <2>1, AnswerStep
<1>6. CASE /\ c[TxCookie(s)] # None /\ Trade(t, TRUE)
           /\ Reply(t, With(clears, SignedIn(CodeToken(t))), AtApplication)
    <2>1. PICK k \in codes : /\ k.req = tab[t].visit.req /\ k.state = s
                             /\ active[k.browser] = k.email /\ k.email \in allowed
                             /\ codes' = codes \ {k}
        BY <1>6 DEF Trade
    <2>2. CodeToken(t).email = k.email
        <3>1. \A x \in codes : x.req = tab[t].visit.req => x = k
            BY <2>1 DEF OwnedInv, ServerFits, CodesFit
        <3>2. (CHOOSE x \in codes : x.req = tab[t].visit.req) = k
            BY <2>1, <3>1
        <3> QED BY <3>2 DEF CodeToken, Token
    <2>3. k.email # None
        BY <2>1, OwnedAssumption DEF OwnedInv, OwnedTyped
    <2>4. PICK q \in requests : q.state = s /\ q.browser = k.browser /\ q.browser \in Browser
        BY <2>1 DEF OwnedInv, ServerFits, CodesFit, RequestsFit, MadeOut
    <2>5. Vouched(World, k.browser, k.email)
        BY <2>1, <2>3, <2>4 DEF OwnedInv, ServerFits, ActiveFits
    <2>6. begun[s] = b
        BY <1>2, <1>6 DEF OwnedInv, BrowsersFit, JarFits, World, Carried
    <2>7. Vouched(World', b, k.email)
        <3>1. CASE k.browser = b
            BY <1>2, <2>5, <3>1
        <3>2. CASE k.browser # b
            <4>1. s \in StrayedIn(World) /\ MetIn(World, b, s)
                BY <1>2, <2>4, <2>6, <3>2 DEF StrayedIn, MetIn, World
            <4> QED BY <1>2, <4>1 DEF Vouched
        <3> QED BY <3>1, <3>2
    <2>8. ReplyFits(World', b, With(clears, SignedIn(CodeToken(t))), AtApplication)
        <3>1. Sober(clears)
            BY <1>2, SoberSets
        <3>2. PICK tok : tok = CodeToken(t)
            OBVIOUS
        <3> HIDE DEF clears
        <3>3. ReplyFits(World', b, With(clears, SignedIn(tok)), AtApplication)
            BY <1>4, <2>2, <2>7, <3>1, <3>2, SignsIn DEF ReplyFits
        <3> QED BY <3>2, <3>3
    <2>9. codes' \subseteq codes
        BY <2>1
    <2> HIDE DEF clears
    <2> QED BY <1>1, <1>2, <1>6, <2>8, <2>9, AnswerStep
<1>7. Trade(t, FALSE) => codes' \subseteq codes
    BY DEF Trade
<1> QED BY <1>3, <1>5, <1>6, <1>7 DEF Callback

--------------------------------------------------------------------------------
LEMMA OwnedInitInv ==
    ASSUME OwnedInit
    PROVE  OwnedInv
<1>1. OwnedTyped
    BY DEF OwnedInit, OwnedTyped
<1>2. ServerFits
    BY DEF OwnedInit, ServerFits, RequestsFit, TicketsFit, CodesFit, RedeemedFit, ActiveFits,
           CompletedForItsSession, LocalSessionFirst
<1>3. BrowsersFit
    BY CookiesDiffer DEF OwnedInit, BrowsersFit, JarFits
<1>4. TabsFit
    <2>1. ASSUME NEW t \in Tab PROVE TabFits(World, home[t], Shows(Rest))
        BY PlainFits DEF TabFits, Shows, Rest, Visit, Plain
    <2> QED BY <2>1 DEF OwnedInit, TabsFit
<1> QED BY <1>1, <1>2, <1>3, <1>4 DEF OwnedInv

LEMMA OwnedStutters ==
    ASSUME OwnedInv, UNCHANGED ownedVars
    PROVE  OwnedInv'
BY NoTabKeeps DEF ownedVars, OwnedInv, OwnedTyped

LEMMA OwnedNextKeeps ==
    ASSUME OwnedInv, OwnedNext
    PROVE  OwnedInv'
<1>1. ASSUME NEW t \in Tab, Visitor(t) PROVE OwnedInv'
    BY <1>1, VisitorAsks, OpenAgainKeeps, SignInAtServerKeeps, ArriveKeeps, LoseKeeps DEF Visitor
<1>2. ASSUME NEW t \in Tab, Application(t) PROVE OwnedInv'
    <2>1. CASE HttpStart(t) \/ DjangoStart(t) \/ GateStart(t) \/ NextStart(t)
        BY <2>1, StartKeeps DEF HttpStart, DjangoStart, GateStart, NextStart
    <2>2. CASE HttpPrepare(t) \/ DjangoPrepare(t) \/ HttpSendForm(t) \/ DjangoSendForm(t)
        BY <2>2, PrepareKeeps, SendFormKeeps
        DEF HttpPrepare, DjangoPrepare, HttpSendForm, DjangoSendForm
    <2>3. CASE HttpConfirmation(t) \/ DjangoConfirmation(t) \/ HttpVerify(t) \/ DjangoVerify(t)
        BY <2>3, ConfirmationKeeps, VerifyKeeps
        DEF HttpConfirmation, DjangoConfirmation, HttpVerify, DjangoVerify
    <2>4. CASE \/ HttpFinish(t) \/ DjangoFinish(t)
               \/ HttpCallback(t) \/ DjangoCallback(t) \/ GateCallback(t) \/ NextCallback(t)
        BY <2>4, FinishKeeps, CallbackKeeps
        DEF HttpFinish, DjangoFinish, HttpCallback, DjangoCallback, GateCallback, NextCallback
    <2> QED BY <1>2, <2>1, <2>2, <2>3, <2>4 DEF Application
<1>3. ASSUME NEW t \in Tab, Authorize(t) \/ Redeem(t) \/ SignOut(t) PROVE OwnedInv'
    BY <1>3, AuthorizeKeeps, RedeemKeeps, SignOutKeeps
<1> QED BY <1>1, <1>2, <1>3, LapseKeeps, ReloadKeeps DEF OwnedNext

LEMMA OwnedAlways == OwnedSpec => []OwnedInv
<1>1. OwnedInit => OwnedInv
    BY OwnedInitInv
<1>2. OwnedInv /\ [OwnedNext]_ownedVars => OwnedInv'
    BY OwnedNextKeeps, OwnedStutters
<1> QED BY <1>1, <1>2, PTL DEF OwnedSpec

\* completeAppTransaction: whatever tabs overlap and addresses are opened again, a
\* sign-in that the application calls complete is one whose ticket gave this browser
\* its shared session, together with the session that its cookie holds.
THEOREM CompleteMeansShared == OwnedSpec => []CompletedForItsSession
<1>1. OwnedInv => CompletedForItsSession
    BY DEF OwnedInv, ServerFits
<1> QED BY <1>1, OwnedAlways, PTL

\* bootstrap/redeem and the callback: no browser is signed in, at the server or at the
\* application, as anybody its visitor did not say yes to in it.
THEOREM NobodyIsSignedInUnasked == OwnedSpec => []SignedInByItsVisitor
<1>1. ASSUME OwnedInv PROVE SignedInByItsVisitor
    <2>1. ASSUME NEW b \in Browser, NEW e, Vouched(World, b, e)
          PROVE  <<b, e>> \in acknowledged \/ \E s \in Strayed : Met(b, s)
        BY <2>1 DEF Vouched, StrayedIn, MetIn, World, Strayed, Met
    <2>2. ASSUME NEW b \in Browser
          PROVE  /\ active[b] # None => Vouched(World, b, active[b])
                 /\ jar[b][Auth] # None => Vouched(World, b, jar[b][Auth].email)
        BY <1>1 DEF OwnedInv, ServerFits, ActiveFits, BrowsersFit, JarFits
    <2> QED BY <2>1, <2>2 DEF SignedInByItsVisitor
<1> QED BY <1>1, OwnedAlways, PTL

\* verify-email and bootstrap/redeem: the ticket is of use only after the application's
\* own session has reached the browser.
THEOREM TheLocalSessionComesFirst == OwnedSpec => []LocalSessionFirst
<1>1. OwnedInv => LocalSessionFirst
    BY DEF OwnedInv, ServerFits
<1> QED BY <1>1, OwnedAlways, PTL
================================================================================

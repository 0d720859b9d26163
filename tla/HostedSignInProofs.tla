------------------------ MODULE HostedSignInProofs ------------------------
(***************************************************************************)
(* The handlers of the hosted sign-in use the store as it may be used:      *)
(* every step of theirs is a step of BrowserSsoStore or leaves the store    *)
(* alone, so that everything proved about the store holds below them.  On   *)
(* top of that, their own promises, for any number of calls, browsers,      *)
(* mails and sessions.                                                      *)
(***************************************************************************)
EXTENDS HostedSignIn, BrowserSsoStoreProofs

Confirming == {"verifyRead", "otpRead", "otpVerify", "rules", "spend", "consume", "start"}
Confirmed  == {"recheck", "replace", "undo"}
Writing    == {"challenge", "send"}
Releasing  == {"issue", "issued", "release"}
Exchanging == {"redeem", "redeemed", "signed"}

\* What a call must know to be at a place: every field the handler uses there.
Has(place, w) ==
    /\ place \notin {"idle"} \cup Exchanging => w.browser \in Browser
    /\ place \in {"session", "sessionRules", "create"} => w.app \in App /\ w.mail = None
    /\ place \in {"bind"} \cup Writing \cup Confirming \cup Releasing => w.request \in RequestId
    /\ place \in {"bind"} \cup Confirming => w.email \in Email
    /\ place \in Writing \cup Confirming \cup Confirmed => w.mail \in Mail
    /\ place \in Confirming => w.by \in Proof
    /\ place = "verifyRead" => w.by = "link"
    /\ place \in {"otpRead", "otpVerify"} => w.by = "code"
    /\ place \in {"otpVerify", "rules", "spend", "consume", "start", "recheck"} =>
           w.seen \in Request /\ w.seen.id = w.request
    /\ place \in {"recheck", "undo"} \cup Releasing => w.handle \in Handle
    /\ place = "replace" => w.cookie \in Handle
    /\ place \in {"issued", "release"} \cup Exchanging => w.code \in Code
    /\ place \in Exchanging => w.app \in Site /\ w.email \in Email

CallsHold ==
    /\ call \in [Call -> Work]
    /\ \A c \in Call : /\ Has(call[c].at, call[c])
                       /\ call[c].cookie \in minted \cup {None}
                       /\ call[c].handle \in minted \cup {None}

StateHolds ==
    /\ cookie \in [Browser -> Handle \cup {None}]
    /\ \A b \in Browser : cookie[b] \in minted \cup {None}
    /\ rules \subseteq Email \X Site
    /\ mails \subseteq Mail /\ challenges \subseteq Mail
    /\ lapsed \subseteq Deadline /\ markers \subseteq Deadline
    /\ origin \in [Handle -> Origin \cup {None}]
    /\ delivered \subseteq [code : Code, browser : Browser]
    /\ tokens \subseteq [code : Code, email : Email, app : Site]

HostedInv == Inv /\ CallsHold /\ StateHolds

-----------------------------------------------------------------------------
(***************************************************************************)
(* A step of one call.                                                      *)
(***************************************************************************)
LEMMA Now == Inv => clock \in Sampled /\ clock \in Nat
BY LifetimeAssumption DEF Inv, TypeOK, Sampled

\* The call that moves has what it needs, the others keep what they had.
LEMMA OneCallMoves ==
    ASSUME CallsHold, NEW c \in Call, NEW w \in Work, call' = [call EXCEPT ![c] = w],
           Has(w.at, w), w.cookie \in minted' \cup {None}, w.handle \in minted' \cup {None},
           minted \subseteq minted'
    PROVE  CallsHold'
<1>1. call' \in [Call -> Work]  BY DEF CallsHold
<1>2. ASSUME NEW d \in Call
      PROVE  /\ Has(call'[d].at, call'[d])
             /\ call'[d].cookie \in minted' \cup {None}
             /\ call'[d].handle \in minted' \cup {None}
  <2>1. CASE d = c
    <3>1. call'[d] = w  BY <2>1 DEF CallsHold
    <3>2. QED BY <3>1
  <2>2. CASE d # c
    <3>1. call'[d] = call[d]  BY <2>2 DEF CallsHold
    <3>2. QED BY <3>1 DEF CallsHold
  <2>3. QED BY <2>1, <2>2
<1>3. QED BY <1>1, <1>2 DEF CallsHold, Has

LEMMA IdleHas == Idle \in Work /\ Has("idle", Idle) /\ Idle.at = "idle"
BY DEF Has, Idle, Work, Place, Confirming, Confirmed, Writing, Releasing, Exchanging

LEMMA CallEnds ==
    ASSUME CallsHold, NEW c \in Call, Ends(c), minted \subseteq minted'
    PROVE  CallsHold'
<1>1. Idle.cookie = None /\ Idle.handle = None  BY DEF Idle
<1>2. QED BY <1>1, IdleHas, OneCallMoves DEF Ends

\* A call at another place, with the same knowledge.
LEMMA AtPlace ==
    ASSUME NEW w \in Work, NEW place \in Place, NEW v, v = [w EXCEPT !.at = place]
    PROVE  /\ v \in Work /\ v.at = place
           /\ v.browser = w.browser /\ v.cookie = w.cookie /\ v.app = w.app
           /\ v.email = w.email /\ v.request = w.request /\ v.seen = w.seen
           /\ v.mail = w.mail /\ v.by = w.by /\ v.handle = w.handle /\ v.code = w.code
BY DEF Work

LEMMA CallGoesTo ==
    ASSUME CallsHold, NEW c \in Call, NEW place \in Place, GoesTo(c, place),
           Has(place, call[c]), minted \subseteq minted'
    PROVE  CallsHold'
<1> DEFINE v == [call[c] EXCEPT !.at = place]
<1>1. call[c] \in Work /\ call[c].cookie \in minted \cup {None}
      /\ call[c].handle \in minted \cup {None}
  BY DEF CallsHold
<1>2. /\ v \in Work /\ v.at = place
      /\ v.browser = call[c].browser /\ v.cookie = call[c].cookie /\ v.app = call[c].app
      /\ v.email = call[c].email /\ v.request = call[c].request /\ v.seen = call[c].seen
      /\ v.mail = call[c].mail /\ v.by = call[c].by /\ v.handle = call[c].handle
      /\ v.code = call[c].code
  BY <1>1, AtPlace
<1>3. call' = [call EXCEPT ![c] = v]  BY DEF GoesTo
<1> HIDE DEF v
<1>4. Has(place, v)  BY <1>2 DEF Has
<1>5. QED BY <1>1, <1>2, <1>3, <1>4, OneCallMoves

\* A new call knows what it came with.
LEMMA CallArrives ==
    ASSUME CallsHold, NEW c \in Call, NEW w \in Work, Arrives(c, w), Has(w.at, w),
           w.cookie \in minted \cup {None}, w.handle = None, minted \subseteq minted'
    PROVE  CallsHold'
BY OneCallMoves DEF Arrives

-----------------------------------------------------------------------------
(***************************************************************************)
(* Steps by what they touch.                                                *)
(***************************************************************************)
LEMMA ReadingIsPruning ==
    ASSUME HostedInv, Prune(clock), StoreOnly
    PROVE  [Next]_vars /\ minted' = minted /\ StateHolds'
<1>1. clock \in Sampled  BY Now DEF HostedInv
<1>2. minted' = minted  BY DEF Prune, history
<1>3. StateHolds'
  BY <1>2 DEF StoreOnly, hostedButCall, traces, HostedInv, StateHolds
<1>4. QED BY <1>1, <1>2, <1>3 DEF Next

LEMMA ThinkingIsStuttering ==
    ASSUME HostedInv, Thinking
    PROVE  [Next]_vars /\ minted' = minted /\ StateHolds'
<1>1. minted' = minted  BY DEF Thinking, vars, history
<1>2. QED BY <1>1 DEF Thinking, hostedButCall, traces, HostedInv, StateHolds

LEMMA StoreOnlyKeeps ==
    ASSUME StateHolds, StoreOnly, minted \subseteq minted'
    PROVE  StateHolds'
BY DEF StoreOnly, hostedButCall, traces, StateHolds

-----------------------------------------------------------------------------
(***************************************************************************)
(* Every action is a step of the store, and leaves every call with what it  *)
(* needs.  First the requests that arrive.                                  *)
(***************************************************************************)
Proper == [Next]_vars /\ CallsHold' /\ StateHolds'

LEMMA AuthorizeProper ==
    ASSUME HostedInv, NEW c \in Call, NEW b \in Browser, NEW a \in App, NEW login \in BOOLEAN,
           Authorize(c, b, a, login)
    PROVE  Proper
<1>1. [Next]_vars /\ minted' = minted /\ StateHolds'
  BY ThinkingIsStuttering DEF Authorize
<1> PICK k : k = cookie[b]
  OBVIOUS
<1>2. k \in Handle \cup {None} /\ k \in minted \cup {None}
  BY DEF HostedInv, StateHolds
<1> PICK place : place = IF k = None \/ login \/ a = Launcher THEN "create" ELSE "session"
  OBVIOUS
<1> DEFINE w == [Idle EXCEPT !.browser = b, !.cookie = k, !.app = a, !.at = place]
<1>3. place \in {"create", "session"}  OBVIOUS
<1>4. /\ w.at = place /\ w.browser = b /\ w.cookie = k /\ w.app = a
      /\ w.handle = None /\ w.mail = None /\ w \in Work
  BY <1>2, <1>3 DEF Idle, Work, Place
<1>5. Arrives(c, w)  BY DEF Authorize
<1> HIDE DEF w
<1>6. Has(w.at, w)
  BY <1>3, <1>4 DEF Has, Confirming, Confirmed, Writing, Releasing, Exchanging
<1>7. CallsHold'  BY <1>1, <1>2, <1>4, <1>5, <1>6, CallArrives DEF HostedInv
<1>8. QED BY <1>1, <1>7 DEF Proper

LEMMA SignInProper ==
    ASSUME HostedInv, NEW c \in Call, NEW b \in Browser, NEW id \in Known(RequestId),
           NEW e \in Email, SignIn(c, b, id, e)
    PROVE  Proper
<1> DEFINE w == [Idle EXCEPT !.at = "bind", !.browser = b, !.request = id, !.email = e]
<1>1. [Next]_vars /\ minted' = minted /\ StateHolds'
  BY ReadingIsPruning DEF SignIn, Reading
<1>2. /\ w.at = "bind" /\ w.browser = b /\ w.cookie = None /\ w.request = id /\ w.email = e
      /\ w.handle = None /\ w \in Work
  BY DEF Idle, Work, Place, Known
<1>3. Arrives(c, w)  BY DEF SignIn
<1> HIDE DEF w
<1>4. Has(w.at, w)
  BY <1>2 DEF Has, Confirming, Confirmed, Writing, Releasing, Exchanging, Known
<1>5. CallsHold'  BY <1>1, <1>2, <1>3, <1>4, CallArrives DEF HostedInv
<1>6. QED BY <1>1, <1>5 DEF Proper

LEMMA ConfirmProper ==
    ASSUME HostedInv, NEW c \in Call, NEW b \in Browser, NEW m \in mails,
           NEW by \in Proof, Confirm(c, b, m, by)
    PROVE  Proper
<1> PICK place : place = IF by = "link" THEN "verifyRead" ELSE "otpRead"
  OBVIOUS
<1> DEFINE w == [Idle EXCEPT !.at = place, !.browser = b, !.cookie = cookie[b], !.mail = m,
                             !.by = by, !.email = m.email, !.request = m.request]
<1>1. [Next]_vars /\ minted' = minted /\ StateHolds'
  BY ThinkingIsStuttering DEF Confirm
<1>2. m \in Mail /\ m.email \in Email /\ m.request \in RequestId
  BY DEF HostedInv, StateHolds, Mail
<1>3. /\ w.at = place /\ w.browser = b /\ w.cookie = cookie[b] /\ w.mail = m /\ w.by = by
      /\ w.email = m.email /\ w.request = m.request /\ w.handle = None /\ w \in Work
  BY <1>2 DEF Idle, Work, Place, HostedInv, StateHolds
<1>4. Arrives(c, w) /\ (place = "verifyRead" <=> by = "link") /\ (place = "otpRead" <=> by = "code")
      /\ place \in {"verifyRead", "otpRead"}
  BY DEF Confirm, Proof
<1>5. w.cookie \in minted \cup {None}  BY <1>3 DEF HostedInv, StateHolds
<1> HIDE DEF w
<1>6. Has(w.at, w)
  BY <1>2, <1>3, <1>4 DEF Has, Confirming, Confirmed, Writing, Releasing, Exchanging
<1>7. CallsHold'  BY <1>1, <1>3, <1>4, <1>5, <1>6, CallArrives DEF HostedInv
<1>8. QED BY <1>1, <1>7 DEF Proper

LEMMA ExchangeProper ==
    ASSUME HostedInv, NEW c \in Call, NEW k \in Code, Exchange(c, k)
    PROVE  Proper
<1>1. [Next]_vars /\ minted' = minted /\ StateHolds'
  BY ReadingIsPruning DEF Exchange, Reading
<1>2. PICK a, e : /\ <<e, a>> \in rules
                  /\ Arrives(c, [Idle EXCEPT !.at = "redeem", !.code = k, !.app = a,
                                             !.email = e])
  BY DEF Exchange
<1> DEFINE w == [Idle EXCEPT !.at = "redeem", !.code = k, !.app = a, !.email = e]
<1>3. e \in Email /\ a \in Site /\ a \in App
  BY <1>2 DEF HostedInv, StateHolds, Site
<1>4. /\ w.at = "redeem" /\ w.code = k /\ w.app = a /\ w.email = e
      /\ w.cookie = None /\ w.handle = None /\ w \in Work
  BY <1>3 DEF Idle, Work, Place
<1>5. Arrives(c, w)  BY <1>2
<1> HIDE DEF w
<1>6. Has(w.at, w)
  BY <1>3, <1>4 DEF Has, Confirming, Confirmed, Writing, Releasing, Exchanging
<1>7. CallsHold'  BY <1>1, <1>4, <1>5, <1>6, CallArrives DEF HostedInv
<1>8. QED BY <1>1, <1>7 DEF Proper

LEMMA SignOutProper ==
    ASSUME HostedInv, NEW c \in Call, NEW b \in Browser, SignOut(c, b)
    PROVE  Proper
<1> DEFINE w == [Idle EXCEPT !.at = "signout", !.browser = b, !.cookie = cookie[b]]
<1>1. [Next]_vars /\ minted' = minted /\ StateHolds'
  BY ThinkingIsStuttering DEF SignOut
<1>2. /\ w.at = "signout" /\ w.browser = b /\ w.cookie = cookie[b] /\ w.handle = None
      /\ w \in Work
  BY DEF Idle, Work, Place, HostedInv, StateHolds
<1>3. Arrives(c, w)  BY DEF SignOut
<1>4. w.cookie \in minted \cup {None}  BY <1>2 DEF HostedInv, StateHolds
<1> HIDE DEF w
<1>5. Has(w.at, w)
  BY <1>2 DEF Has, Confirming, Confirmed, Writing, Releasing, Exchanging
<1>6. CallsHold'  BY <1>1, <1>2, <1>3, <1>4, <1>5, CallArrives DEF HostedInv
<1>7. QED BY <1>1, <1>6 DEF Proper

-----------------------------------------------------------------------------
(***************************************************************************)
(* The steps of authorize and of POST /sso/signin.                          *)
(***************************************************************************)
LEMMA ReadSessionProper ==
    ASSUME HostedInv, NEW c \in Call, ReadSession(c)
    PROVE  Proper
<1>1. [Next]_vars /\ minted' = minted /\ StateHolds'
  BY ReadingIsPruning DEF ReadSession, Reading
<1>2. call[c] \in Work /\ call[c].at = "session" /\ Has(call[c].at, call[c])
      /\ call[c].cookie \in minted \cup {None}
  BY DEF ReadSession, At, HostedInv, CallsHold
<1>3. CASE GoesTo(c, "create")
  <2>1. Has("create", call[c]) /\ "create" \in Place
    BY <1>2 DEF Has, Place, Confirming, Confirmed, Writing, Releasing, Exchanging
  <2>2. QED BY <1>1, <1>3, <2>1, CallGoesTo DEF HostedInv, Proper
<1>4. CASE \E s \in ActiveSessions(call[c].cookie, clock) :
              Goes(c, [call[c] EXCEPT !.at = "sessionRules", !.handle = s.id,
                                      !.email = s.email])
  <2>1. PICK s \in ActiveSessions(call[c].cookie, clock) :
              Goes(c, [call[c] EXCEPT !.at = "sessionRules", !.handle = s.id,
                                      !.email = s.email])
    BY <1>4
  <2>2. s \in Session /\ s.id \in minted
    BY DEF ActiveSessions, Named, Alive, HostedInv, Inv, TypeOK, IInv, MintedInv
  <2> PICK u \in Work : u = call[c]
    BY DEF HostedInv, CallsHold
  <2> PICK w : w = [u EXCEPT !.at = "sessionRules", !.handle = s.id, !.email = s.email]
    OBVIOUS
  <2>3. s.id \in Handle /\ s.email \in Email /\ "sessionRules" \in Place
    BY <2>2 DEF Session, Place
  <2>4. /\ w \in Work /\ w.at = "sessionRules" /\ w.handle = s.id /\ w.email = s.email
        /\ w.cookie = call[c].cookie /\ w.app = call[c].app /\ w.browser = call[c].browser
        /\ w.mail = call[c].mail
    BY <2>3 DEF Work
  <2>5. call' = [call EXCEPT ![c] = w]  BY <2>1 DEF Goes
  <2>6. Has(w.at, w)
    BY <1>2, <2>4 DEF Has, Confirming, Confirmed, Writing, Releasing, Exchanging
  <2>7. w.cookie \in minted' \cup {None} /\ w.handle \in minted' \cup {None}
    BY <1>1, <1>2, <2>2, <2>4
  <2>8. w \in Work /\ minted \subseteq minted'  BY <1>1, <2>4
  <2>9. CallsHold'  BY <2>5, <2>6, <2>7, <2>8, OneCallMoves DEF HostedInv
  <2>10. QED BY <1>1, <2>9 DEF Proper
<1>5. QED BY <1>3, <1>4 DEF ReadSession

LEMMA SessionAllowedProper ==
    ASSUME HostedInv, NEW c \in Call, SessionAllowed(c)
    PROVE  Proper
<1>1. [Next]_vars /\ minted' = minted /\ StateHolds'
  BY ThinkingIsStuttering DEF SessionAllowed
<1>2. call[c].at = "sessionRules" /\ Has(call[c].at, call[c])
  BY DEF SessionAllowed, At, HostedInv, CallsHold
<1>3. Has("create", call[c]) /\ "create" \in Place
  BY <1>2 DEF Has, Place, Confirming, Confirmed, Writing, Releasing, Exchanging
<1>4. GoesTo(c, "create") \/ Ends(c)  BY DEF SessionAllowed
<1>5. QED BY <1>1, <1>3, <1>4, CallGoesTo, CallEnds DEF HostedInv, Proper

LEMMA CreateProper ==
    ASSUME HostedInv, NEW c \in Call, Create(c)
    PROVE  Proper
<1>1. call[c] \in Work /\ call[c].at = "create" /\ Has(call[c].at, call[c])
      /\ call[c].cookie \in minted \cup {None} /\ call[c].handle \in minted \cup {None}
  BY DEF Create, At, HostedInv, CallsHold
<1>2. call[c].browser \in Browser /\ call[c].app \in App
      /\ call[c].handle \in Handle \cup {None} /\ "issue" \in Place
  BY <1>1 DEF Has, Work, Place, Exchanging
<1> DEFINE flow == IF call[c].app = Launcher THEN "launcher" ELSE "hosted"
<1>3. flow \in Flow  BY HostedAssumption
<1> HIDE DEF flow
<1>4. PICK id \in RequestId :
          /\ CreateRequest(id, flow, call[c].browser, call[c].app, clock)
          /\ IF call[c].handle = None THEN Ends(c)
             ELSE Goes(c, [call[c] EXCEPT !.at = "issue", !.request = id])
  BY DEF Create, flow
<1>5. clock \in Sampled /\ minted \subseteq minted'
  BY <1>4, Now DEF CreateRequest, HostedInv
<1>6. [Next]_vars  BY <1>2, <1>3, <1>4, <1>5 DEF Next, RequestStep
<1>7. StateHolds'  BY <1>5, StoreOnlyKeeps DEF Create, HostedInv
<1>8. CASE call[c].handle = None
  BY <1>4, <1>5, <1>6, <1>7, <1>8, CallEnds DEF HostedInv, Proper
<1>9. CASE call[c].handle # None
  <2> PICK u \in Work : u = call[c]
    BY DEF HostedInv, CallsHold
  <2> PICK w : w = [u EXCEPT !.at = "issue", !.request = id]
    OBVIOUS
  <2>1. /\ w \in Work /\ w.at = "issue" /\ w.request = id /\ w.browser = call[c].browser
        /\ w.handle = call[c].handle /\ w.cookie = call[c].cookie
    BY <1>2 DEF Work
  <2>2. call' = [call EXCEPT ![c] = w]  BY <1>4, <1>9 DEF Goes
  <2>3. Has(w.at, w)
    BY <1>2, <1>9, <2>1 DEF Has, Confirming, Confirmed, Writing, Releasing, Exchanging
  <2>4. CallsHold'  BY <1>1, <1>5, <2>1, <2>2, <2>3, OneCallMoves DEF HostedInv
  <2>5. QED BY <1>6, <1>7, <2>4 DEF Proper
<1>10. QED BY <1>8, <1>9

LEMMA BindProper ==
    ASSUME HostedInv, NEW c \in Call, Bind(c)
    PROVE  Proper
<1>1. call[c] \in Work /\ call[c].at = "bind" /\ Has(call[c].at, call[c])
      /\ call[c].cookie \in minted \cup {None} /\ call[c].handle \in minted \cup {None}
  BY DEF Bind, At, HostedInv, CallsHold
<1>2. call[c].browser \in Browser /\ call[c].request \in RequestId /\ call[c].email \in Email
      /\ "challenge" \in Place
  BY <1>1 DEF Has, Place, Exchanging
<1>3. CASE Ends(c) /\ Prune(clock)
  <2>1. [Next]_vars /\ minted' = minted /\ StateHolds'
    BY <1>3, ReadingIsPruning DEF Bind
  <2>2. QED BY <1>3, <2>1, CallEnds DEF HostedInv, Proper
<1>4. ASSUME NEW g \in Grant, BindGrant(call[c].request, call[c].browser, g, clock),
             Goes(c, [call[c] EXCEPT !.at = "challenge",
                   !.mail = [grant |-> g, request |-> call[c].request,
                             email |-> call[c].email]])
      PROVE Proper
  <2> DEFINE m == [grant |-> g, request |-> call[c].request, email |-> call[c].email]
  <2>1. minted' = minted /\ clock \in Sampled
    BY <1>4, Now DEF BindGrant, Rebind, history, HostedInv
  <2>2. [Next]_vars  BY <1>2, <1>4, <2>1 DEF Next, RequestStep
  <2>3. StateHolds'  BY <2>1, StoreOnlyKeeps DEF Bind, HostedInv
  <2>4. m \in Mail  BY <1>2 DEF Mail
  <2> PICK u \in Work : u = call[c]
    BY DEF HostedInv, CallsHold
  <2> PICK w : w = [u EXCEPT !.at = "challenge", !.mail = m]
    OBVIOUS
  <2> HIDE DEF m
  <2>5. /\ w \in Work /\ w.at = "challenge" /\ w.mail = m /\ w.browser = call[c].browser
        /\ w.handle = call[c].handle /\ w.cookie = call[c].cookie
        /\ w.request = call[c].request
    BY <1>2, <2>4 DEF Work
  <2>6. call' = [call EXCEPT ![c] = w]  BY <1>4 DEF Goes, m
  <2>7. Has(w.at, w)
    BY <1>2, <2>4, <2>5 DEF Has, Confirming, Confirmed, Writing, Releasing, Exchanging
  <2>8. CallsHold'  BY <1>1, <2>1, <2>5, <2>6, <2>7, OneCallMoves DEF HostedInv
  <2>9. QED BY <2>2, <2>3, <2>8 DEF Proper
<1>5. QED BY <1>3, <1>4 DEF Bind

\* Steps that leave the store alone: only a table of the routes and the call.
LEMMA ChallengeProper ==
    ASSUME HostedInv, NEW c \in Call, Challenge(c)
    PROVE  Proper
<1>1. call[c].at = "challenge" /\ Has(call[c].at, call[c])
  BY DEF Challenge, At, HostedInv, CallsHold
<1>2. Has("send", call[c]) /\ "send" \in Place /\ call[c].mail \in Mail
  BY <1>1 DEF Has, Place, Confirming, Confirmed, Writing, Releasing, Exchanging
<1>3. minted' = minted /\ [Next]_vars  BY DEF Challenge, vars, history
<1>4. CallsHold'  BY <1>2, <1>3, CallGoesTo DEF Challenge, HostedInv
<1>5. challenges' \subseteq Mail  BY <1>2 DEF Challenge, HostedInv, StateHolds
<1>6. StateHolds'  BY <1>3, <1>5 DEF Challenge, HostedInv, StateHolds, traces
<1>7. QED BY <1>3, <1>4, <1>6 DEF Proper

LEMMA SendProper ==
    ASSUME HostedInv, NEW c \in Call, Send(c)
    PROVE  Proper
<1>1. call[c].at = "send" /\ Has(call[c].at, call[c])
  BY DEF Send, At, HostedInv, CallsHold
<1>2. call[c].mail \in Mail  BY <1>1 DEF Has, Writing
<1>3. minted' = minted /\ [Next]_vars  BY DEF Send, vars, history
<1>4. CallsHold'  BY <1>3, CallEnds DEF Send, HostedInv
<1>5. mails' \subseteq Mail  BY <1>2 DEF Send, HostedInv, StateHolds
<1>6. StateHolds'  BY <1>3, <1>5 DEF Send, HostedInv, StateHolds, traces
<1>7. QED BY <1>3, <1>4, <1>6 DEF Proper

-----------------------------------------------------------------------------
(***************************************************************************)
(* The steps of a confirmation.                                             *)
(***************************************************************************)
\* A call that has read the request it is about.
LEMMA ReadRequestProper ==
    ASSUME HostedInv, NEW c \in Call, NEW place \in {"rules", "otpVerify"},
           NEW r \in Named(requests, call[c].request, clock), Prune(clock), StoreOnly,
           call[c].at = IF place = "rules" THEN "verifyRead" ELSE "otpRead",
           Goes(c, [call[c] EXCEPT !.at = place, !.seen = r])
    PROVE  Proper
<1>1. [Next]_vars /\ minted' = minted /\ StateHolds'
  BY ReadingIsPruning
<1>2. call[c] \in Work /\ Has(call[c].at, call[c])
      /\ call[c].cookie \in minted \cup {None} /\ call[c].handle \in minted \cup {None}
  BY DEF HostedInv, CallsHold
<1>3. r \in Request /\ r.id = call[c].request /\ place \in Place
  BY DEF Named, Alive, HostedInv, Inv, TypeOK, Place
<1> PICK u \in Work : u = call[c]
  BY DEF HostedInv, CallsHold
<1> PICK w : w = [u EXCEPT !.at = place, !.seen = r]
  OBVIOUS
<1>4. /\ w \in Work /\ w.at = place /\ w.seen = r /\ w.browser = call[c].browser
      /\ w.handle = call[c].handle /\ w.cookie = call[c].cookie
      /\ w.request = call[c].request /\ w.email = call[c].email /\ w.mail = call[c].mail
      /\ w.by = call[c].by
  BY <1>3 DEF Work
<1>5. call' = [call EXCEPT ![c] = w]  BY DEF Goes
<1>6. Has(w.at, w)
  BY <1>2, <1>3, <1>4 DEF Has, Confirming, Confirmed, Writing, Releasing, Exchanging
<1>7. CallsHold'  BY <1>1, <1>2, <1>4, <1>5, <1>6, OneCallMoves DEF HostedInv
<1>8. QED BY <1>1, <1>7 DEF Proper

LEMMA ReadFailedProper ==
    ASSUME HostedInv, NEW c \in Call, Prune(clock), StoreOnly, Ends(c)
    PROVE  Proper
<1>1. [Next]_vars /\ minted' = minted /\ StateHolds'  BY ReadingIsPruning
<1>2. QED BY <1>1, CallEnds DEF HostedInv, Proper

LEMMA ReadProofProper ==
    ASSUME HostedInv, NEW c \in Call, ReadProof(c)
    PROVE  Proper
BY ReadRequestProper, ReadFailedProper DEF ReadProof, Reading, At

LEMMA ReadBoundProper ==
    ASSUME HostedInv, NEW c \in Call, ReadBound(c)
    PROVE  Proper
BY ReadRequestProper, ReadFailedProper DEF ReadBound, Bound, Reading, At

LEMMA VerifyCodeProper ==
    ASSUME HostedInv, NEW c \in Call, VerifyCode(c)
    PROVE  Proper
<1>1. call[c].at = "otpVerify" /\ Has(call[c].at, call[c])
  BY DEF VerifyCode, At, HostedInv, CallsHold
<1>2. Has("rules", call[c]) /\ "rules" \in Place
  BY <1>1 DEF Has, Place, Confirming, Confirmed, Writing, Releasing, Exchanging
<1>3. minted' = minted /\ [Next]_vars  BY DEF VerifyCode, vars, history
<1>4. GoesTo(c, "rules") \/ Ends(c)  BY DEF VerifyCode
<1>5. CallsHold'  BY <1>2, <1>3, <1>4, CallGoesTo, CallEnds DEF HostedInv
<1>6. StateHolds'  BY <1>3 DEF VerifyCode, HostedInv, StateHolds, traces
<1>7. QED BY <1>3, <1>5, <1>6 DEF Proper

LEMMA ConfirmAllowedProper ==
    ASSUME HostedInv, NEW c \in Call, ConfirmAllowed(c)
    PROVE  Proper
<1>1. [Next]_vars /\ minted' = minted /\ StateHolds'
  BY ThinkingIsStuttering DEF ConfirmAllowed
<1>2. call[c].at = "rules" /\ Has(call[c].at, call[c])
  BY DEF ConfirmAllowed, At, HostedInv, CallsHold
<1>3. Has("spend", call[c]) /\ "spend" \in Place
  BY <1>2 DEF Has, Place, Confirming, Confirmed, Writing, Releasing, Exchanging
<1>4. GoesTo(c, "spend") \/ Ends(c)  BY DEF ConfirmAllowed
<1>5. QED BY <1>1, <1>3, <1>4, CallGoesTo, CallEnds DEF HostedInv, Proper

LEMMA SpendProper ==
    ASSUME HostedInv, NEW c \in Call, Spend(c)
    PROVE  Proper
<1>1. call[c].at = "spend" /\ Has(call[c].at, call[c])
  BY DEF Spend, At, HostedInv, CallsHold
<1>2. /\ Has("consume", call[c]) /\ "consume" \in Place
      /\ Has("start", call[c]) /\ "start" \in Place
      /\ [grant |-> call[c].mail.grant, of |-> call[c].by] \in Deadline
  BY <1>1 DEF Has, Place, Mail, Deadline, Confirming, Confirmed, Writing, Releasing, Exchanging
<1>3. minted' = minted /\ [Next]_vars  BY DEF Spend, vars, history
<1>4. GoesTo(c, "consume") \/ GoesTo(c, "start") \/ Ends(c)  BY DEF Spend
<1>5. CallsHold'  BY <1>2, <1>3, <1>4, CallGoesTo, CallEnds DEF HostedInv
<1>6. markers' \subseteq Deadline  BY <1>2 DEF Spend, HostedInv, StateHolds
<1>7. StateHolds'  BY <1>3, <1>6 DEF Spend, HostedInv, StateHolds, traces
<1>8. QED BY <1>3, <1>5, <1>7 DEF Proper

LEMMA ConsumeProper ==
    ASSUME HostedInv, NEW c \in Call, Consume(c)
    PROVE  Proper
<1>1. call[c].at = "consume" /\ Has(call[c].at, call[c])
  BY DEF Consume, At, HostedInv, CallsHold
<1>2. /\ Has("start", call[c]) /\ "start" \in Place
      /\ call[c].request \in RequestId /\ call[c].mail.grant \in Grant
  BY <1>1 DEF Has, Place, Mail, Confirming, Confirmed, Writing, Releasing, Exchanging
<1>3. CASE ConsumeLauncherRequest(call[c].request, call[c].mail.grant, clock)
           /\ GoesTo(c, "start")
  <2>1. minted' = minted /\ clock \in Sampled
    BY <1>3, Now DEF ConsumeLauncherRequest, HostedInv
  <2>2. [Next]_vars  BY <1>2, <1>3, <2>1 DEF Next, RequestStep
  <2>3. StateHolds'  BY <2>1, StoreOnlyKeeps DEF Consume, HostedInv
  <2>4. CallsHold'  BY <1>2, <1>3, <2>1, CallGoesTo DEF HostedInv
  <2>5. QED BY <2>2, <2>3, <2>4 DEF Proper
<1>4. CASE Ends(c) /\ Prune(clock)
  BY <1>4, ReadFailedProper DEF Consume
<1>5. QED BY <1>3, <1>4 DEF Consume

LEMMA StartProper ==
    ASSUME HostedInv, NEW c \in Call, Start(c)
    PROVE  Proper
<1>1. call[c] \in Work /\ call[c].at = "start" /\ Has(call[c].at, call[c])
      /\ call[c].cookie \in minted \cup {None} /\ call[c].handle \in minted \cup {None}
  BY DEF Start, At, HostedInv, CallsHold
<1>2. /\ call[c].browser \in Browser /\ call[c].request \in RequestId
      /\ call[c].email \in Email /\ call[c].mail \in Mail /\ call[c].seen \in Request
      /\ call[c].seen.id = call[c].request /\ call[c].by \in Proof
  BY <1>1 DEF Has, Confirming, Exchanging
<1> DEFINE place == IF call[c].seen.flow = "launcher" THEN "recheck"
                    ELSE IF call[c].seen.binding = call[c].browser THEN "issue"
                    ELSE "reply"
           prev == Replaced(call[c])
<1>3. PICK h \in Handle :
          /\ CreateSession(h, call[c].email, prev, clock)
          /\ Goes(c, [call[c] EXCEPT !.handle = h, !.at = place])
          /\ origin' = [origin EXCEPT ![h] = [grant |-> call[c].mail.grant,
                 by |-> call[c].by, request |-> call[c].request,
                 flow |-> call[c].seen.flow]]
  BY DEF Start
<1>4. place \in {"recheck", "issue", "reply"} /\ place \in Place  BY DEF Place
<1>5. prev \in Known(Handle) \cup {None}
  BY <1>1 DEF Replaced, Known, Work
<1> HIDE DEF place, prev
<1>6. clock \in Sampled /\ minted' = minted \cup {h}
  BY <1>3, Now DEF CreateSession, HostedInv
<1>7. [Next]_vars  BY <1>2, <1>3, <1>5, <1>6 DEF Next, SessionStep
<1> PICK u \in Work : u = call[c]
  BY DEF HostedInv, CallsHold
<1> PICK w : w = [u EXCEPT !.handle = h, !.at = place]
  OBVIOUS
<1>8. /\ w \in Work /\ w.at = place /\ w.handle = h /\ w.browser = call[c].browser
      /\ w.cookie = call[c].cookie /\ w.request = call[c].request
      /\ w.mail = call[c].mail /\ w.seen = call[c].seen
  BY <1>4 DEF Work
<1>9. call' = [call EXCEPT ![c] = w]  BY <1>3 DEF Goes
<1>10. Has(w.at, w)
  BY <1>2, <1>4, <1>8 DEF Has, Confirming, Confirmed, Writing, Releasing, Exchanging
<1>11. CallsHold'
  <2>1. w.cookie \in minted' \cup {None} /\ w.handle \in minted' \cup {None}
    BY <1>1, <1>6, <1>8
  <2>2. w \in Work /\ minted \subseteq minted'  BY <1>6, <1>8
  <2>3. QED BY <1>9, <1>10, <2>1, <2>2, OneCallMoves DEF HostedInv
<1>12. [grant |-> call[c].mail.grant, by |-> call[c].by, request |-> call[c].request,
        flow |-> call[c].seen.flow] \in Origin
  BY <1>2 DEF Origin, Mail, Request
<1>13. origin' \in [Handle -> Origin \cup {None}]
  BY <1>3, <1>12 DEF HostedInv, StateHolds
<1>14. StateHolds'
  BY <1>6, <1>13 DEF Start, hostedButCall, HostedInv, StateHolds
<1>15. QED BY <1>7, <1>11, <1>14 DEF Proper

LEMMA RecheckProper ==
    ASSUME HostedInv, NEW c \in Call, Recheck(c)
    PROVE  Proper
<1>1. [Next]_vars /\ minted' = minted /\ StateHolds'
  BY ThinkingIsStuttering DEF Recheck
<1>2. call[c].at = "recheck" /\ Has(call[c].at, call[c])
  BY DEF Recheck, At, HostedInv, CallsHold
<1>3. call[c].cookie \in Handle \cup {None}
  BY DEF HostedInv, CallsHold, Work
<1>4. PICK place \in {"undo", "reply", "replace"} :
         GoesTo(c, place) /\ (place = "replace" => call[c].cookie # None)
  BY DEF Recheck
<1>5. place \in Place  BY DEF Place
<1>6. Has(place, call[c])
  BY <1>2, <1>3, <1>4 DEF Has, Confirming, Confirmed, Writing, Releasing, Exchanging
<1>7. QED BY <1>1, <1>4, <1>5, <1>6, CallGoesTo DEF HostedInv, Proper

LEMMA RevokeProper ==
    ASSUME HostedInv, NEW h \in minted, h \in Handle, RevokeSession(h, clock), StoreOnly
    PROVE  [Next]_vars /\ minted' = minted /\ StateHolds'
<1>1. clock \in Sampled /\ minted' = minted  BY Now DEF RevokeSession, HostedInv
<1>2. h \in Known(Handle)  BY DEF Known
<1>3. [Next]_vars  BY <1>1, <1>2 DEF Next, SessionStep
<1>4. QED BY <1>1, <1>3, StoreOnlyKeeps DEF HostedInv

LEMMA UndoProper ==
    ASSUME HostedInv, NEW c \in Call, Undo(c)
    PROVE  Proper
<1>1. call[c].at = "undo" /\ Has(call[c].at, call[c]) /\ call[c].handle \in minted \cup {None}
  BY DEF Undo, At, HostedInv, CallsHold
<1>2. call[c].handle \in Handle /\ call[c].handle \in minted
  BY <1>1, OptionAssumption DEF Has
<1>3. [Next]_vars /\ minted' = minted /\ StateHolds'  BY <1>2, RevokeProper DEF Undo
<1>4. QED BY <1>3, CallEnds DEF Undo, HostedInv, Proper

LEMMA ReplaceProper ==
    ASSUME HostedInv, NEW c \in Call, Replace(c)
    PROVE  Proper
<1>1. call[c].at = "replace" /\ Has(call[c].at, call[c])
      /\ call[c].cookie \in minted \cup {None}
  BY DEF Replace, At, HostedInv, CallsHold
<1>2. call[c].cookie \in Handle /\ call[c].cookie \in minted
  BY <1>1, OptionAssumption DEF Has
<1>3. Has("reply", call[c]) /\ "reply" \in Place
  BY <1>1 DEF Has, Place, Confirming, Confirmed, Writing, Releasing, Exchanging
<1>4. [Next]_vars /\ minted' = minted /\ StateHolds'  BY <1>2, RevokeProper DEF Replace
<1>5. QED BY <1>3, <1>4, CallGoesTo DEF Replace, HostedInv, Proper

\* The cookie a reply sets is one the store created.
LEMMA CookieHolds ==
    ASSUME HostedInv, NEW c \in Call, SetsCookie(c) \/ UNCHANGED cookie
    PROVE  /\ cookie' \in [Browser -> Handle \cup {None}]
           /\ \A b \in Browser : cookie'[b] \in minted \cup {None}
<1>1. /\ call[c].handle \in Handle \cup {None} /\ call[c].handle \in minted \cup {None}
      /\ cookie \in [Browser -> Handle \cup {None}]
      /\ \A b \in Browser : cookie[b] \in minted \cup {None}
  BY DEF HostedInv, CallsHold, StateHolds, Work
<1>2. cookie' = cookie \/ cookie' = [cookie EXCEPT ![call[c].browser] = call[c].handle]
  BY DEF SetsCookie
<1>3. QED BY <1>1, <1>2

LEMMA ReplyProper ==
    ASSUME HostedInv, NEW c \in Call, Reply(c)
    PROVE  Proper
<1>1. minted' = minted /\ [Next]_vars  BY DEF Reply, vars, history
<1>2. CallsHold'  BY <1>1, CallEnds DEF Reply, HostedInv
<1>3. StateHolds'  BY <1>1, CookieHolds DEF Reply, HostedInv, StateHolds, traces
<1>4. QED BY <1>1, <1>2, <1>3 DEF Proper

-----------------------------------------------------------------------------
(***************************************************************************)
(* The steps of issue and of POST /sso/exchange.                            *)
(***************************************************************************)
LEMMA IssueProper ==
    ASSUME HostedInv, NEW c \in Call, Issue(c)
    PROVE  Proper
<1>1. call[c] \in Work /\ call[c].at = "issue" /\ Has(call[c].at, call[c])
      /\ call[c].cookie \in minted \cup {None} /\ call[c].handle \in minted \cup {None}
  BY DEF Issue, At, HostedInv, CallsHold
<1>2. /\ call[c].browser \in Browser /\ call[c].request \in RequestId
      /\ call[c].handle \in Handle /\ GrantOf(c) \in Grant \cup {None}
      /\ "issued" \in Place /\ "reply" \in Place /\ Has("reply", call[c])
  BY <1>1 DEF Has, Work, Mail, GrantOf, Place, Confirming, Confirmed, Writing, Releasing,
              Exchanging
<1>3. CASE GoesTo(c, "reply") /\ Prune(clock)
  <2>1. [Next]_vars /\ minted' = minted /\ StateHolds'
    BY <1>3, ReadingIsPruning DEF Issue
  <2>2. QED BY <1>2, <1>3, <2>1, CallGoesTo DEF HostedInv, Proper
<1>4. ASSUME NEW k \in Code,
             IssueCode(k, call[c].request, call[c].browser, call[c].handle, GrantOf(c), clock),
             Goes(c, [call[c] EXCEPT !.at = "issued", !.code = k])
      PROVE  Proper
  <2>1. minted \subseteq minted' /\ clock \in Sampled
    BY <1>4, Now DEF IssueCode, HostedInv
  <2>2. [Next]_vars  BY <1>2, <1>4, <2>1 DEF Next, CodeStep
  <2>3. StateHolds'  BY <2>1, StoreOnlyKeeps DEF Issue, HostedInv
  <2> PICK u \in Work : u = call[c]
    BY DEF HostedInv, CallsHold
  <2> PICK w : w = [u EXCEPT !.at = "issued", !.code = k]
    OBVIOUS
  <2>4. /\ w \in Work /\ w.at = "issued" /\ w.code = k /\ w.browser = call[c].browser
        /\ w.handle = call[c].handle /\ w.cookie = call[c].cookie
        /\ w.request = call[c].request
    BY <1>2 DEF Work
  <2>5. call' = [call EXCEPT ![c] = w]  BY <1>4 DEF Goes
  <2>6. Has(w.at, w)
    BY <1>2, <2>4 DEF Has, Confirming, Confirmed, Writing, Releasing, Exchanging
  <2>7. CallsHold'  BY <1>1, <2>1, <2>4, <2>5, <2>6, OneCallMoves DEF HostedInv
  <2>8. QED BY <2>2, <2>3, <2>7 DEF Proper
<1>5. QED BY <1>3, <1>4 DEF Issue

LEMMA ReadIssuedProper ==
    ASSUME HostedInv, NEW c \in Call, ReadIssued(c)
    PROVE  Proper
<1>1. [Next]_vars /\ minted' = minted /\ StateHolds'
  BY ReadingIsPruning DEF ReadIssued, Reading
<1>2. call[c] \in Work /\ call[c].at = "issued" /\ Has(call[c].at, call[c])
      /\ call[c].cookie \in minted \cup {None} /\ call[c].handle \in minted \cup {None}
  BY DEF ReadIssued, At, HostedInv, CallsHold
<1>3. "reply" \in Place /\ "release" \in Place /\ Has("reply", call[c])
  BY <1>2 DEF Has, Place, Confirming, Confirmed, Writing, Releasing, Exchanging
<1>4. CASE GoesTo(c, "reply")
  BY <1>1, <1>3, <1>4, CallGoesTo DEF HostedInv, Proper
<1>5. ASSUME NEW s \in ActiveSessions(call[c].handle, clock),
             Goes(c, [call[c] EXCEPT !.at = "release", !.email = s.email])
      PROVE  Proper
  <2>1. s.email \in Email
    BY DEF ActiveSessions, Named, Alive, HostedInv, Inv, TypeOK, Session
  <2> PICK u \in Work : u = call[c]
    BY DEF HostedInv, CallsHold
  <2> PICK w : w = [u EXCEPT !.at = "release", !.email = s.email]
    OBVIOUS
  <2>2. /\ w \in Work /\ w.at = "release" /\ w.code = call[c].code
        /\ w.browser = call[c].browser /\ w.handle = call[c].handle
        /\ w.cookie = call[c].cookie /\ w.request = call[c].request
    BY <1>3, <2>1 DEF Work
  <2>3. call' = [call EXCEPT ![c] = w]  BY <1>5 DEF Goes
  <2>4. Has(w.at, w)
    BY <1>2, <2>2 DEF Has, Confirming, Confirmed, Writing, Releasing, Exchanging
  <2>5. CallsHold'  BY <1>1, <1>2, <2>2, <2>3, <2>4, OneCallMoves DEF HostedInv
  <2>6. QED BY <1>1, <2>5 DEF Proper
<1>6. QED BY <1>4, <1>5 DEF ReadIssued

LEMMA ReleaseProper ==
    ASSUME HostedInv, NEW c \in Call, Release(c)
    PROVE  Proper
<1>1. call[c].at = "release" /\ Has(call[c].at, call[c])
  BY DEF Release, At, HostedInv, CallsHold
<1>2. [code |-> call[c].code, browser |-> call[c].browser] \in [code : Code, browser : Browser]
  BY <1>1 DEF Has, Releasing, Exchanging
<1>3. minted' = minted /\ [Next]_vars  BY DEF Release, vars, history
<1>4. CallsHold'  BY <1>3, CallEnds DEF Release, HostedInv
<1>5. delivered' \subseteq [code : Code, browser : Browser]
  BY <1>2 DEF Release, HostedInv, StateHolds
<1>6. StateHolds'  BY <1>3, <1>5, CookieHolds DEF Release, HostedInv, StateHolds
<1>7. QED BY <1>3, <1>4, <1>6 DEF Proper

LEMMA RedeemProper ==
    ASSUME HostedInv, NEW c \in Call, Redeem(c)
    PROVE  Proper
<1>1. call[c].at = "redeem" /\ Has(call[c].at, call[c])
  BY DEF Redeem, At, HostedInv, CallsHold
<1>2. /\ Has("redeemed", call[c]) /\ "redeemed" \in Place
      /\ call[c].code \in Code /\ call[c].app \in App /\ call[c].email \in Email
  BY <1>1 DEF Has, Place, Site, Confirming, Confirmed, Writing, Releasing, Exchanging
<1>3. CASE RedeemCode(call[c].code, call[c].app, call[c].email, clock)
           /\ GoesTo(c, "redeemed")
  <2>1. minted' = minted /\ clock \in Sampled
    BY <1>3, Now DEF RedeemCode, HostedInv
  <2>2. [Next]_vars  BY <1>2, <1>3, <2>1 DEF Next, CodeStep
  <2>3. StateHolds'  BY <2>1, StoreOnlyKeeps DEF Redeem, HostedInv
  <2>4. CallsHold'  BY <1>2, <1>3, <2>1, CallGoesTo DEF HostedInv
  <2>5. QED BY <2>2, <2>3, <2>4 DEF Proper
<1>4. CASE Ends(c) /\ Prune(clock)
  BY <1>4, ReadFailedProper DEF Redeem
<1>5. QED BY <1>3, <1>4 DEF Redeem

LEMMA RedeemedAllowedProper ==
    ASSUME HostedInv, NEW c \in Call, RedeemedAllowed(c)
    PROVE  Proper
<1>1. [Next]_vars /\ minted' = minted /\ StateHolds'
  BY ThinkingIsStuttering DEF RedeemedAllowed
<1>2. call[c].at = "redeemed" /\ Has(call[c].at, call[c])
  BY DEF RedeemedAllowed, At, HostedInv, CallsHold
<1>3. Has("signed", call[c]) /\ "signed" \in Place
  BY <1>2 DEF Has, Place, Confirming, Confirmed, Writing, Releasing, Exchanging
<1>4. GoesTo(c, "signed") \/ Ends(c)  BY DEF RedeemedAllowed
<1>5. QED BY <1>1, <1>3, <1>4, CallGoesTo, CallEnds DEF HostedInv, Proper

LEMMA ReleaseTokenProper ==
    ASSUME HostedInv, NEW c \in Call, ReleaseToken(c)
    PROVE  Proper
<1>1. call[c].at = "signed" /\ Has(call[c].at, call[c])
  BY DEF ReleaseToken, At, HostedInv, CallsHold
<1>2. call[c].code \in Code /\ call[c].email \in Email /\ call[c].app \in Site
  BY <1>1 DEF Has, Exchanging
<1>3. minted' = minted /\ [Next]_vars  BY DEF ReleaseToken, vars, history
<1>4. CallsHold'  BY <1>3, CallEnds DEF ReleaseToken, HostedInv
<1>5. tokens' \subseteq [code : Code, email : Email, app : Site]
  BY <1>2 DEF ReleaseToken, HostedInv, StateHolds
<1>6. StateHolds'
  BY <1>3, <1>5 DEF ReleaseToken, hostedButCall, HostedInv, StateHolds
<1>7. QED BY <1>3, <1>4, <1>6 DEF Proper

-----------------------------------------------------------------------------
(***************************************************************************)
(* Sign-out, failures, and the whole.                                       *)
(***************************************************************************)
LEMMA EndSessionProper ==
    ASSUME HostedInv, NEW c \in Call, EndSession(c)
    PROVE  Proper
<1>1. call[c] \in Work /\ call[c].at = "signout" /\ Has(call[c].at, call[c])
      /\ call[c].cookie \in minted \cup {None}
  BY DEF EndSession, At, HostedInv, CallsHold
<1>2. /\ call[c].cookie \in Known(Handle) \cup {None} /\ call[c].browser \in Browser
      /\ Has("signedOut", call[c]) /\ "signedOut" \in Place
  BY <1>1 DEF Has, Known, Work, Place, Confirming, Confirmed, Writing, Releasing, Exchanging
<1>3. minted' = minted /\ clock \in Sampled
  BY Now DEF EndSession, EndBrowserSession, HostedInv
<1>4. [Next]_vars  BY <1>2, <1>3 DEF EndSession, Next, SessionStep
<1>5. StateHolds'  BY <1>3, StoreOnlyKeeps DEF EndSession, HostedInv
<1>6. CallsHold'  BY <1>2, <1>3, CallGoesTo DEF EndSession, HostedInv
<1>7. QED BY <1>4, <1>5, <1>6 DEF Proper

LEMMA SignedOutProper ==
    ASSUME HostedInv, NEW c \in Call, SignedOut(c)
    PROVE  Proper
<1>1. minted' = minted /\ [Next]_vars  BY DEF SignedOut, vars, history
<1>2. CallsHold'  BY <1>1, CallEnds DEF SignedOut, HostedInv
<1>3. /\ cookie' \in [Browser -> Handle \cup {None}]
      /\ \A b \in Browser : cookie'[b] \in minted \cup {None}
  BY DEF SignedOut, HostedInv, StateHolds
<1>4. StateHolds'  BY <1>1, <1>3 DEF SignedOut, HostedInv, StateHolds, traces
<1>5. QED BY <1>1, <1>2, <1>4 DEF Proper

LEMMA VanishProper ==
    ASSUME HostedInv, NEW c \in Call, Vanish(c)
    PROVE  Proper
<1>1. minted' = minted /\ [Next]_vars  BY DEF Vanish, vars, history
<1>2. CallsHold'  BY <1>1, CallEnds DEF Vanish, HostedInv
<1>3. SetsCookie(c) \/ UNCHANGED cookie  BY DEF Vanish
<1>4. StateHolds'  BY <1>1, <1>3, CookieHolds DEF Vanish, HostedInv, StateHolds, traces
<1>5. QED BY <1>1, <1>2, <1>4 DEF Proper

LEMMA ReloadProper ==
    ASSUME HostedInv, NEW r \in SUBSET (Email \X Site), Reload(r)
    PROVE  Proper
<1>1. minted' = minted /\ [Next]_vars  BY DEF Reload, vars, history
<1>2. CallsHold'  BY <1>1 DEF Reload, HostedInv, CallsHold, Has
<1>3. StateHolds'  BY <1>1 DEF Reload, HostedInv, StateHolds, traces
<1>4. QED BY <1>1, <1>2, <1>3 DEF Proper

LEMMA LapseProper ==
    ASSUME HostedInv, NEW m \in mails, NEW of \in Proof, Lapse(m.grant, of)
    PROVE  Proper
<1>1. minted' = minted /\ [Next]_vars  BY DEF Lapse, vars, history
<1>2. CallsHold'  BY <1>1 DEF Lapse, HostedInv, CallsHold, Has
<1>3. [grant |-> m.grant, of |-> of] \in Deadline
  BY DEF HostedInv, StateHolds, Mail, Deadline
<1>4. lapsed' \subseteq Deadline  BY <1>3 DEF Lapse, HostedInv, StateHolds
<1>5. StateHolds'  BY <1>1, <1>4 DEF Lapse, HostedInv, StateHolds, traces
<1>6. QED BY <1>1, <1>2, <1>5 DEF Proper

LEMMA HostedNextProper == HostedInv /\ HostedNext => Proper
<1> SUFFICES ASSUME HostedInv, HostedNext PROVE Proper
  OBVIOUS
<1>1. CASE \E r \in SUBSET (Email \X Site) : Reload(r)
  BY <1>1, ReloadProper
<1>2. ASSUME NEW c \in Call, Arrival(c) PROVE Proper
  <2>1. CASE \E b \in Browser, a \in App, login \in BOOLEAN : Authorize(c, b, a, login)
    BY <2>1, AuthorizeProper
  <2>2. CASE \E b \in Browser, id \in Known(RequestId), e \in Email : SignIn(c, b, id, e)
    BY <2>2, SignInProper
  <2>3. CASE \E b \in Browser, m \in mails, by \in Proof : Confirm(c, b, m, by)
    BY <2>3, ConfirmProper
  <2>4. CASE \E d \in delivered : Exchange(c, d.code)
    BY <2>4, ExchangeProper DEF HostedInv, StateHolds
  <2>5. CASE \E b \in Browser : SignOut(c, b)
    BY <2>5, SignOutProper
  <2>6. QED BY <1>2, <2>1, <2>2, <2>3, <2>4, <2>5 DEF Arrival
<1>3. ASSUME NEW c \in Call, SignInStep(c) PROVE Proper
  BY <1>3, ReadSessionProper, SessionAllowedProper, CreateProper, BindProper,
     ChallengeProper, SendProper DEF SignInStep
<1>4. ASSUME NEW c \in Call, ConfirmStep(c) PROVE Proper
  BY <1>4, ReadProofProper, ReadBoundProper, VerifyCodeProper, ConfirmAllowedProper,
     SpendProper, ConsumeProper, StartProper, RecheckProper, UndoProper, ReplaceProper,
     ReplyProper DEF ConfirmStep
<1>5. ASSUME NEW c \in Call, CodeOrTokenStep(c) PROVE Proper
  BY <1>5, IssueProper, ReadIssuedProper, ReleaseProper, RedeemProper,
     RedeemedAllowedProper, ReleaseTokenProper DEF CodeOrTokenStep
<1>6. ASSUME NEW c \in Call, SignOutStep(c) PROVE Proper
  BY <1>6, EndSessionProper, SignedOutProper DEF SignOutStep
<1>7. ASSUME NEW c \in Call, Vanish(c) PROVE Proper
  BY <1>7, VanishProper
<1>8. CASE \E m \in mails, of \in Proof : Lapse(m.grant, of)
  BY <1>8, LapseProper
<1>9. QED BY <1>1, <1>2, <1>3, <1>4, <1>5, <1>6, <1>7, <1>8 DEF HostedNext

LEMMA HostedInitInv == HostedInit => HostedInv
<1> SUFFICES ASSUME HostedInit PROVE HostedInv
  OBVIOUS
<1>1. Inv  BY InitInv DEF HostedInit
<1>2. CallsHold
  <2>1. Idle.cookie = None /\ Idle.handle = None  BY DEF Idle
  <2>2. QED BY <2>1, IdleHas DEF HostedInit, CallsHold
<1>3. StateHolds  BY DEF HostedInit, StateHolds
<1>4. QED BY <1>1, <1>2, <1>3 DEF HostedInv

LEMMA HostedNextInv == HostedInv /\ [HostedNext]_all => HostedInv' /\ [Next]_vars
<1> SUFFICES ASSUME HostedInv, [HostedNext]_all PROVE HostedInv' /\ [Next]_vars
  OBVIOUS
<1>1. CASE HostedNext
  BY <1>1, HostedNextProper, NextInv DEF HostedInv, Proper
<1>2. CASE UNCHANGED all
  <2>1. UNCHANGED vars /\ minted' = minted  BY <1>2 DEF all, vars, history
  <2>2. CallsHold'  BY <1>2, <2>1 DEF all, HostedInv, CallsHold, Has
  <2>3. StateHolds'
    BY <1>2, <2>1 DEF all, hostedButCall, traces, HostedInv, StateHolds
  <2>4. QED BY <2>1, <2>2, <2>3, NextInv DEF HostedInv
<1>3. QED BY <1>1, <1>2

LEMMA HostedInvHolds == HostedSpec => []HostedInv
<1>1. QED BY HostedInitInv, HostedNextInv, PTL DEF HostedSpec

\* The handlers are a correct use of the store: whatever they do, and however
\* they are interleaved, fail or lose their replies, the store goes through a
\* behaviour of its own specification.  (browserSsoRoutes.ts)
THEOREM RoutesUseTheStore == HostedSpec => Spec
<1>1. HostedInit => Init  BY DEF HostedInit
<1>2. QED BY <1>1, HostedInvHolds, HostedNextInv, PTL DEF HostedSpec, Spec

\* The state of the routes has its type.
THEOREM HostedTypeCorrect == HostedSpec => []HostedTypeOK
<1>1. HostedInv => HostedTypeOK
  BY DEF HostedInv, HostedTypeOK, CallsHold, StateHolds, Inv
<1>2. QED BY <1>1, HostedInvHolds, PTL

-----------------------------------------------------------------------------
(***************************************************************************)
(* One mail, one sign-in.  A grant is marked before a session is started    *)
(* with it; a launcher's request is spent before that.  While the marker    *)
(* lives, a call between the mark and the session is the only one with its  *)
(* grant, and no session comes from that grant yet.  When the marker has    *)
(* gone there may be another, but never two by the code: a challenge is     *)
(* consumed before the grant is marked.                                     *)
(***************************************************************************)
Pending  == {"consume", "start"}
Replying == {"issue", "issued", "release", "reply"}

FromGrant(h, g)    == origin[h] # None /\ origin[h].grant = g
FromLauncher(h, id) ==
    origin[h] # None /\ origin[h].flow = "launcher" /\ origin[h].request = id
Launching(c) == call[c].at = "start" /\ call[c].seen.flow = "launcher"

\* The replay store was told of the grant; of its link, as long as that lives.
Noted(g, by) ==
    /\ \E m \in markers : m.grant = g
    /\ by = "link" => [grant |-> g, of |-> "link"] \in markers \/ Past(g, "link")

LapseOrder == \A g \in Grant : Past(g, "link") => Past(g, "code")

GrantInv ==
    /\ \A c \in Call : call[c].at \in Pending =>
          /\ Noted(call[c].mail.grant, call[c].by)
          /\ \A h \in Handle : FromGrant(h, call[c].mail.grant) =>
                Forgotten(call[c].mail.grant, origin[h].by, call[c].by)
    /\ \A c, d \in Call :
          /\ c # d /\ call[c].at \in Pending /\ call[d].at \in Pending
          /\ call[c].mail.grant = call[d].mail.grant
          => Forgotten(call[c].mail.grant, call[c].by, call[d].by)
    /\ \A h \in Handle : origin[h] # None =>
          Noted(origin[h].grant, origin[h].by) /\ h \in minted
    /\ MailSignsInOnce
    /\ LapseOrder

\* A call whose code was accepted, until it has started its session.
Accepted(w) == w.by = "code" /\ w.at \in {"rules", "spend", "consume", "start"}

\* Until its challenge is stored, only the call that writes a mail knows its grant.
NewMail ==
    \A c \in Call : call[c].at = "challenge" =>
        /\ \A m \in mails \cup challenges : m.grant # call[c].mail.grant
        /\ \A d \in Call : d # c /\ call[d].mail # None =>
              call[d].mail.grant # call[c].mail.grant
        /\ \A h \in Handle : ~FromGrant(h, call[c].mail.grant)

\* A code is accepted once.
CodeOnce ==
    /\ \A m, n \in challenges : m.grant = n.grant => m = n
    /\ \A c \in Call : Accepted(call[c]) =>
          /\ \A m \in challenges : m.grant # call[c].mail.grant
          /\ \A h \in Handle : FromGrant(h, call[c].mail.grant) => origin[h].by # "code"
          /\ \A d \in Call : d # c /\ Accepted(call[d]) =>
                call[d].mail.grant # call[c].mail.grant
    /\ \A h \in Handle, m \in challenges :
          FromGrant(h, m.grant) => origin[h].by # "code"

CodeInv == NewMail /\ CodeOnce

LauncherInv ==
    /\ \A c \in Call : Launching(c) =>
          /\ call[c].request \in spent
          /\ \A h \in Handle : ~FromLauncher(h, call[c].request)
    /\ \A c, d \in Call :
          Launching(c) /\ Launching(d) /\ call[c].request = call[d].request => c = d
    /\ \A h \in Handle, id \in RequestId : FromLauncher(h, id) => id \in spent
    /\ \A g, h \in Handle, id \in RequestId :
          FromLauncher(g, id) /\ FromLauncher(h, id) => g = h

\* What a confirmation leaves in the call that answers it.
AnswerInv ==
    \A c \in Call :
        /\ call[c].at \in Replying /\ call[c].mail # None /\ call[c].cookie # None =>
              call[c].cookie \in ended
        /\ call[c].at = "issue" /\ call[c].mail # None =>
              FromGrant(call[c].handle, call[c].mail.grant)

\* Wherever a request is remembered, it is remembered with the same flow.
KnownAs(id, flow) ==
    \/ \E r \in requests : r.id = id /\ r.flow = flow
    \/ \E c \in Call : call[c].seen # None /\ call[c].seen.id = id /\ call[c].seen.flow = flow
    \/ \E h \in Handle : origin[h] # None /\ origin[h].request = id /\ origin[h].flow = flow

FlowInv ==
    /\ \A id, f, g : KnownAs(id, f) /\ KnownAs(id, g) => f = g
    /\ \A id, f : KnownAs(id, f) => id \in minted

OnceInv == GrantInv /\ LauncherInv /\ AnswerInv /\ FlowInv

-----------------------------------------------------------------------------
\* The histories only grow, and only a new request is not known yet.
LEMMA Grows ==
    ASSUME Inv, [Next]_vars
    PROVE  /\ minted \subseteq minted' /\ spent \subseteq spent' /\ ended \subseteq ended'
           /\ \A r \in requests' :
                 r.id \notin minted \/ \E q \in requests : q.id = r.id /\ q.flow = r.flow
<1>1. CASE UNCHANGED vars  BY <1>1 DEF vars, tables, history
<1>2. CASE Tick  BY <1>2 DEF Tick, tables, history
<1>3. ASSUME NEW now \in Sampled, SessionStep(now)
      PROVE  /\ minted \subseteq minted' /\ spent \subseteq spent' /\ ended \subseteq ended'
             /\ requests' \subseteq requests
  BY <1>3 DEF SessionStep, CreateSession, RevokeSession, EndBrowserSession, Alive
<1>4. ASSUME NEW now \in Sampled, RequestStep(now)
      PROVE  /\ minted \subseteq minted' /\ spent \subseteq spent' /\ ended \subseteq ended'
             /\ \A r \in requests' :
                   r.id \notin minted \/ \E q \in requests : q.id = r.id /\ q.flow = r.flow
  <2>1. ASSUME NEW id \in RequestId, NEW flow \in Flow, NEW b \in Browser, NEW a \in App,
               CreateRequest(id, flow, b, a, now)
        PROVE  /\ minted \subseteq minted' /\ spent \subseteq spent' /\ ended \subseteq ended'
               /\ \A r \in requests' : r.id \notin minted \/ r \in requests
    BY <2>1 DEF CreateRequest, Alive
  <2>2. ASSUME NEW r \in Alive(requests, now), NEW g \in Grant, Rebind(r, g, now)
        PROVE  /\ minted \subseteq minted' /\ spent \subseteq spent' /\ ended \subseteq ended'
               /\ \A q \in requests' :
                     q \in requests \/ (q.id = r.id /\ q.flow = r.flow /\ r \in requests)
    <3>1. r \in Request /\ r \in requests  BY DEF Alive, Inv, TypeOK
    <3>2. WithGrant(r, g).id = r.id /\ WithGrant(r, g).flow = r.flow
      BY <3>1 DEF WithGrant, Request
    <3>3. QED BY <2>2, <3>1, <3>2 DEF Rebind, Alive, history
  <2>3. ASSUME NEW id \in RequestId, NEW g \in Grant, ConsumeLauncherRequest(id, g, now)
        PROVE  /\ minted \subseteq minted' /\ spent \subseteq spent' /\ ended \subseteq ended'
               /\ requests' \subseteq requests
    BY <2>3 DEF ConsumeLauncherRequest, Consumed, Alive
  <2>4. QED BY <1>4, <2>1, <2>2, <2>3 DEF RequestStep, BindGrant, BindBootstrapGrant, Named
<1>5. ASSUME NEW now \in Sampled, CodeStep(now)
      PROVE  /\ minted \subseteq minted' /\ spent \subseteq spent' /\ ended \subseteq ended'
             /\ requests' \subseteq requests
  BY <1>5 DEF CodeStep, IssueCode, RedeemCode, Consumed, Alive
<1>6. ASSUME NEW now \in Sampled, BootstrapStep(now)
      PROVE  /\ minted \subseteq minted' /\ spent \subseteq spent' /\ ended \subseteq ended'
             /\ requests' \subseteq requests
  <2>1. ASSUME NEW t, NEW id, NEW a, NEW g, NEW e, IssueBootstrapTicket(t, id, a, g, e, now)
        PROVE  /\ minted \subseteq minted' /\ spent \subseteq spent' /\ ended \subseteq ended'
               /\ requests' \subseteq requests
    BY <2>1 DEF IssueBootstrapTicket, Consumed, Alive
  <2>2. ASSUME NEW t, NEW a, NEW b, NEW prev, NEW confirmed, NEW h,
               RedeemBootstrapTicket(t, a, b, prev, confirmed, h, now)
        PROVE  /\ minted \subseteq minted' /\ spent \subseteq spent' /\ ended \subseteq ended'
               /\ requests' \subseteq requests
    BY <2>2 DEF RedeemBootstrapTicket, Alive
  <2>3. QED BY <1>6, <2>1, <2>2 DEF BootstrapStep
<1>7. ASSUME NEW now \in Sampled, Prune(now)
      PROVE  /\ minted \subseteq minted' /\ spent \subseteq spent' /\ ended \subseteq ended'
             /\ requests' \subseteq requests
  BY <1>7 DEF Prune, Alive, history
<1>8. CASE Next
  BY <1>2, <1>3, <1>4, <1>5, <1>6, <1>7, <1>8 DEF Next
<1>9. QED BY <1>1, <1>8

\* A call that keeps its mail, ends or takes one that was sent, and has no code
\* accepted.
KeepsMail(c, w) ==
    /\ w.at # "challenge"
    /\ w.mail = None \/ w.mail = call[c].mail \/ w.mail \in mails
    /\ Accepted(w) => Accepted(call[c]) /\ w.mail = call[c].mail

\* A step that neither spends a grant nor starts a session, and changes one
\* call: it does not bring the call among those that do.
Quiet(c, w) ==
    /\ call' = [call EXCEPT ![c] = w]
    /\ UNCHANGED <<lapsed, markers, origin>>
    /\ \/ w.at \notin Pending \cup Replying
       \/ w.at = "issue" /\ w.mail = None
       \/ /\ w.at \in Replying \ {"issue"} /\ call[c].at \in Replying
          /\ w.mail = call[c].mail /\ w.cookie = call[c].cookie
    /\ w.seen = None \/ w.seen = call[c].seen \/ w.seen \in requests
    /\ call[c].at \notin {"bind", "otpVerify"} => KeepsMail(c, w)

LEMMA QuietKeepsGrant ==
    ASSUME HostedInv, GrantInv, NEW c \in Call, NEW w \in Work, Quiet(c, w),
           minted \subseteq minted'
    PROVE  GrantInv'
<1>1. \A d \in Call : call'[d] = IF d = c THEN w ELSE call[d]
  BY DEF Quiet, HostedInv, CallsHold
<1>2. w.at \notin Pending  BY DEF Quiet, Pending, Replying
<1>3. MailSignsInOnce' /\ LapseOrder'
  BY DEF Quiet, GrantInv, MailSignsInOnce, LapseOrder, Forgotten, Past
<1>4. QED BY <1>1, <1>2, <1>3 DEF Quiet, GrantInv, FromGrant, Noted, Forgotten, Past

LEMMA QuietKeepsLauncher ==
    ASSUME HostedInv, LauncherInv, NEW c \in Call, NEW w \in Work, Quiet(c, w),
           spent \subseteq spent'
    PROVE  LauncherInv'
<1>1. \A d \in Call : call'[d] = IF d = c THEN w ELSE call[d]
  BY DEF Quiet, HostedInv, CallsHold
<1>2. w.at # "start"  BY DEF Quiet, Pending, Replying
<1>3. QED BY <1>1, <1>2 DEF Quiet, LauncherInv, FromLauncher, Launching

LEMMA QuietKeepsAnswer ==
    ASSUME HostedInv, AnswerInv, NEW c \in Call, NEW w \in Work, Quiet(c, w),
           ended \subseteq ended'
    PROVE  AnswerInv'
<1>1. \A d \in Call : call'[d] = IF d = c THEN w ELSE call[d]
  BY DEF Quiet, HostedInv, CallsHold
<1>2. w.at \in Replying /\ w.mail # None /\ w.cookie # None => w.cookie \in ended
  BY DEF Quiet, AnswerInv, Pending, Replying
<1>3. w.at = "issue" => w.mail = None  BY DEF Quiet, Pending, Replying
<1>4. QED BY <1>1, <1>2, <1>3 DEF Quiet, AnswerInv, FromGrant

\* What is remembered of a request after a step was remembered before, or is of
\* a request that is new.
LEMMA KnownStays ==
    ASSUME Inv, Inv', FlowInv, minted \subseteq minted',
           \A id, f : KnownAs(id, f)' =>
               \/ KnownAs(id, f)
               \/ id \notin minted /\ \E r \in requests' : r.id = id /\ r.flow = f
    PROVE  FlowInv'
<1>1. UniqueIds(requests') /\ \A r \in requests' : r.id \in minted'
  BY DEF Inv, IInv, IdInv, MintedInv, UniqueIds
<1>2. ASSUME NEW id, NEW f, KnownAs(id, f)'
      PROVE  id \in minted'
  BY <1>1, <1>2 DEF FlowInv
<1>3. ASSUME NEW id, NEW f, NEW g, KnownAs(id, f)', KnownAs(id, g)'
      PROVE  f = g
  BY <1>1, <1>3 DEF FlowInv, UniqueIds
<1>4. QED BY <1>2, <1>3 DEF FlowInv

LEMMA FlowKept ==
    ASSUME HostedInv, Inv', FlowInv, NEW c \in Call, NEW w \in Work, [Next]_vars,
           call' = [call EXCEPT ![c] = w],
           w.seen = None \/ w.seen = call[c].seen \/ w.seen \in requests,
           \A h \in Handle : origin'[h] # None => KnownAs(origin'[h].request, origin'[h].flow)
    PROVE  FlowInv'
<1>1. /\ minted \subseteq minted'
      /\ \A r \in requests' :
            r.id \notin minted \/ \E q \in requests : q.id = r.id /\ q.flow = r.flow
  BY Grows DEF HostedInv
<1>2. \A d \in Call : call'[d] = IF d = c THEN w ELSE call[d]
  BY DEF HostedInv, CallsHold
<1>3. ASSUME NEW id, NEW f, KnownAs(id, f)'
      PROVE  \/ KnownAs(id, f)
             \/ id \notin minted /\ \E r \in requests' : r.id = id /\ r.flow = f
  <2>1. CASE \E r \in requests' : r.id = id /\ r.flow = f
    BY <1>1, <2>1 DEF KnownAs
  <2>2. CASE \E d \in Call :
               call'[d].seen # None /\ call'[d].seen.id = id /\ call'[d].seen.flow = f
    <3>1. PICK d \in Call :
               call'[d].seen # None /\ call'[d].seen.id = id /\ call'[d].seen.flow = f
      BY <2>2
    <3>2. CASE d # c  BY <1>2, <3>1, <3>2 DEF KnownAs
    <3>3. CASE d = c
      <4>1. w.seen # None /\ w.seen.id = id /\ w.seen.flow = f  BY <1>2, <3>1, <3>3
      <4>2. w.seen = call[c].seen \/ w.seen \in requests  BY <4>1
      <4>3. QED BY <4>1, <4>2 DEF KnownAs
    <3>4. QED BY <3>2, <3>3
  <2>3. CASE \E h \in Handle :
               origin'[h] # None /\ origin'[h].request = id /\ origin'[h].flow = f
    BY <2>3
  <2>4. QED BY <1>3, <2>1, <2>2, <2>3 DEF KnownAs
<1>4. QED BY <1>1, <1>3, KnownStays DEF HostedInv

LEMMA QuietKeeps ==
    ASSUME HostedInv, Inv', OnceInv, NEW c \in Call, NEW w \in Work, Quiet(c, w), [Next]_vars
    PROVE  OnceInv'
<1>1. minted \subseteq minted' /\ spent \subseteq spent' /\ ended \subseteq ended'
  BY Grows DEF HostedInv
<1>2. FlowInv'
  <2>1. \A h \in Handle : origin'[h] # None => KnownAs(origin'[h].request, origin'[h].flow)
    BY DEF Quiet, KnownAs
  <2>2. QED BY <2>1, FlowKept DEF Quiet, OnceInv
<1>3. QED BY <1>1, <1>2, QuietKeepsGrant, QuietKeepsLauncher, QuietKeepsAnswer DEF OnceInv

-----------------------------------------------------------------------------
(***************************************************************************)
(* The quiet steps.                                                         *)
(***************************************************************************)
LEMMA MovesQuietly ==
    ASSUME HostedInv, NEW c \in Call, NEW place \in Place, GoesTo(c, place),
           UNCHANGED <<lapsed, markers, origin>>, place \notin Pending \cup Replying,
           place # "challenge",
           place = "rules" => call[c].at = "otpVerify",
           place = "spend" => call[c].at = "rules"
    PROVE  \E w \in Work : Quiet(c, w)
<1> PICK u \in Work : u = call[c]
  BY DEF HostedInv, CallsHold
<1> PICK w : w = [u EXCEPT !.at = place]
  OBVIOUS
<1>2. w \in Work /\ w.at = place /\ w.seen = call[c].seen /\ w.mail = call[c].mail
      /\ w.by = call[c].by
  BY AtPlace
<1>3. call' = [call EXCEPT ![c] = w]  BY DEF GoesTo
<1>4. call[c].at # "otpVerify" => KeepsMail(c, w)
  BY <1>2 DEF KeepsMail, Accepted, Pending
<1>5. QED BY <1>2, <1>3, <1>4 DEF Quiet

LEMMA RepliesQuietly ==
    ASSUME HostedInv, NEW c \in Call, GoesTo(c, "reply"), call[c].at \in Replying,
           UNCHANGED <<lapsed, markers, origin>>
    PROVE  \E w \in Work : Quiet(c, w)
<1> PICK u \in Work : u = call[c]
  BY DEF HostedInv, CallsHold
<1> PICK w : w = [u EXCEPT !.at = "reply"]
  OBVIOUS
<1>1. u \in Work /\ "reply" \in Place  BY DEF HostedInv, CallsHold, Place
<1>2. w \in Work /\ w.at = "reply" /\ w.seen = call[c].seen /\ w.mail = call[c].mail
      /\ w.cookie = call[c].cookie
  BY <1>1, AtPlace
<1>3. call' = [call EXCEPT ![c] = w]  BY DEF GoesTo
<1>4. KeepsMail(c, w)  BY <1>2 DEF KeepsMail, Accepted
<1>5. QED BY <1>2, <1>3, <1>4 DEF Quiet, Pending, Replying

LEMMA EndsQuietly ==
    ASSUME HostedInv, NEW c \in Call, Ends(c), UNCHANGED <<lapsed, markers, origin>>
    PROVE  \E w \in Work : Quiet(c, w)
<1>1. Idle \in Work /\ Idle.at = "idle" /\ Idle.seen = None /\ Idle.mail = None
  BY IdleHas DEF Idle
<1>2. Quiet(c, Idle)  BY <1>1 DEF Ends, Quiet, KeepsMail, Accepted, Pending, Replying
<1>3. QED BY <1>1, <1>2

\* What a request knows when it arrives.
LEMMA ArrivingAs ==
    ASSUME HostedInv, NEW c \in Call, Arrival(c)
    PROVE  \E w \in Work : /\ call' = [call EXCEPT ![c] = w] /\ w.seen = None
                           /\ w.at \in {"create", "session", "bind", "verifyRead", "otpRead",
                                       "redeem", "signout"}
                           /\ IF w.at \in {"verifyRead", "otpRead"} THEN w.mail \in mails
                              ELSE w.mail = None
<1>1. CASE \E b \in Browser, a \in App, login \in BOOLEAN : Authorize(c, b, a, login)
  <2>1. PICK b \in Browser, a \in App, login \in BOOLEAN : Authorize(c, b, a, login)
    BY <1>1
  <2> PICK k : k = cookie[b]
    OBVIOUS
  <2> PICK w : w = [Idle EXCEPT !.browser = b, !.cookie = k, !.app = a,
           !.at = IF k = None \/ login \/ a = Launcher THEN "create" ELSE "session"]
    OBVIOUS
  <2>2. k \in Handle \cup {None}  BY DEF HostedInv, StateHolds
  <2>3. w \in Work /\ w.at \in {"create", "session"} /\ w.seen = None /\ w.mail = None
    BY <2>2 DEF Idle, Work, Place
  <2>4. QED BY <2>1, <2>3 DEF Authorize, Arrives
<1>2. CASE \E b \in Browser, id \in Known(RequestId), e \in Email : SignIn(c, b, id, e)
  <2>1. PICK b \in Browser, id \in Known(RequestId), e \in Email : SignIn(c, b, id, e)
    BY <1>2
  <2> PICK w : w = [Idle EXCEPT !.at = "bind", !.browser = b, !.request = id, !.email = e]
    OBVIOUS
  <2>2. w \in Work /\ w.at = "bind" /\ w.seen = None /\ w.mail = None
    BY DEF Idle, Work, Place, Known
  <2>3. QED BY <2>1, <2>2 DEF SignIn, Arrives
<1>3. CASE \E b \in Browser, m \in mails, by \in Proof : Confirm(c, b, m, by)
  <2>1. PICK b \in Browser, m \in mails, by \in Proof : Confirm(c, b, m, by)
    BY <1>3
  <2> PICK place : place = IF by = "link" THEN "verifyRead" ELSE "otpRead"
    OBVIOUS
  <2> PICK k : k = cookie[b]
    OBVIOUS
  <2> PICK w : w = [Idle EXCEPT !.at = place, !.browser = b, !.cookie = k, !.mail = m,
                             !.by = by, !.email = m.email, !.request = m.request]
    OBVIOUS
  <2>2. k \in Handle \cup {None} /\ m \in Mail /\ m.email \in Email /\ m.request \in RequestId
    BY DEF HostedInv, StateHolds, Mail
  <2>3. w \in Work /\ w.at \in {"verifyRead", "otpRead"} /\ w.seen = None /\ w.mail \in mails
    BY <2>2 DEF Idle, Work, Place
  <2>4. QED BY <2>1, <2>3 DEF Confirm, Arrives
<1>4. CASE \E d \in delivered : Exchange(c, d.code)
  <2>1. PICK k, a, e : /\ k \in Code /\ <<e, a>> \in rules
                       /\ Arrives(c, [Idle EXCEPT !.at = "redeem", !.code = k, !.app = a,
                                                  !.email = e])
                       /\ Reading
    BY <1>4 DEF Exchange, HostedInv, StateHolds
  <2> PICK w : w = [Idle EXCEPT !.at = "redeem", !.code = k, !.app = a, !.email = e]
    OBVIOUS
  <2>2. e \in Email /\ a \in App  BY <2>1 DEF HostedInv, StateHolds, Site
  <2>3. w \in Work /\ w.at = "redeem" /\ w.seen = None /\ w.mail = None
    BY <2>1, <2>2 DEF Idle, Work, Place
  <2>4. QED BY <2>1, <2>3 DEF Arrives
<1>5. CASE \E b \in Browser : SignOut(c, b)
  <2>1. PICK b \in Browser : SignOut(c, b)
    BY <1>5
  <2> PICK h : h = cookie[b]
    OBVIOUS
  <2> PICK w : w = [Idle EXCEPT !.at = "signout", !.browser = b, !.cookie = h]
    OBVIOUS
  <2>2. h \in Handle \cup {None}  BY DEF HostedInv, StateHolds
  <2>3. w \in Work /\ w.at = "signout" /\ w.seen = None /\ w.mail = None
    BY <2>2 DEF Idle, Work, Place
  <2>4. QED BY <2>1, <2>3 DEF SignOut, Arrives
<1>6. QED BY <1>1, <1>2, <1>3, <1>4, <1>5 DEF Arrival

LEMMA ArrivalQuiet ==
    ASSUME HostedInv, NEW c \in Call, Arrival(c)
    PROVE  \E w \in Work : Quiet(c, w)
<1>1. UNCHANGED <<lapsed, markers, origin>>
  BY DEF Arrival, Authorize, SignIn, Confirm, Exchange, SignOut, Reading, Thinking, StoreOnly,
         hostedButCall, traces
<1>2. PICK w \in Work : /\ call' = [call EXCEPT ![c] = w] /\ w.seen = None
                        /\ w.at \in {"create", "session", "bind", "verifyRead", "otpRead",
                                    "redeem", "signout"}
                        /\ w.mail = None \/ w.mail \in mails
  BY ArrivingAs
<1>3. KeepsMail(c, w)  BY <1>2 DEF KeepsMail, Accepted
<1>4. QED BY <1>1, <1>2, <1>3 DEF Quiet, Pending, Replying

LEMMA SignInQuiet ==
    ASSUME HostedInv, NEW c \in Call, SignInStep(c)
    PROVE  \E w \in Work : Quiet(c, w)
<1>1. call[c] \in Work /\ Has(call[c].at, call[c])  BY DEF HostedInv, CallsHold
<1>2. UNCHANGED <<lapsed, markers, origin>>
  BY DEF SignInStep, ReadSession, SessionAllowed, Create, Bind, Challenge, Send, Reading,
         Thinking, StoreOnly, hostedButCall, traces
<1>3. /\ "create" \in Place \ (Pending \cup Replying)
      /\ "send" \in Place \ (Pending \cup Replying)
  BY DEF Place, Pending, Replying
<1> PICK u \in Work : u = call[c]
  BY DEF HostedInv, CallsHold
<1>4. CASE ReadSession(c)
  <2>1. CASE GoesTo(c, "create")  BY <1>2, <1>3, <2>1, MovesQuietly
  <2>2. ASSUME NEW s \in ActiveSessions(call[c].cookie, clock),
               Goes(c, [call[c] EXCEPT !.at = "sessionRules", !.handle = s.id,
                                       !.email = s.email])
        PROVE  \E w \in Work : Quiet(c, w)
    <3>1. s \in Session
      BY DEF ActiveSessions, Named, Alive, HostedInv, Inv, TypeOK
    <3>2. s.id \in Handle /\ s.email \in Email /\ "sessionRules" \in Place
      BY <3>1 DEF Session, Place
    <3> PICK w : w = [u EXCEPT !.at = "sessionRules", !.handle = s.id, !.email = s.email]
      OBVIOUS
    <3>3. w \in Work /\ w.at = "sessionRules" /\ w.seen = call[c].seen
          /\ w.mail = call[c].mail
      BY <3>2 DEF Work
    <3>4. call' = [call EXCEPT ![c] = w]  BY <2>2 DEF Goes
    <3>5. QED BY <1>2, <3>3, <3>4 DEF Quiet, KeepsMail, Accepted, Pending, Replying
  <2>3. QED BY <1>4, <2>1, <2>2 DEF ReadSession
<1>5. CASE SessionAllowed(c)
  BY <1>2, <1>3, <1>5, MovesQuietly, EndsQuietly DEF SessionAllowed
<1>6. CASE Create(c)
  <2>1. CASE Ends(c)  BY <1>2, <2>1, EndsQuietly
  <2>2. ASSUME NEW id \in RequestId, Goes(c, [call[c] EXCEPT !.at = "issue", !.request = id])
        PROVE  \E w \in Work : Quiet(c, w)
    <3>1. u.mail = None  BY <1>1, <1>6 DEF Create, At, Has
    <3>2. "issue" \in Place  BY DEF Place
    <3> PICK w : w = [u EXCEPT !.at = "issue", !.request = id]
      OBVIOUS
    <3>3. w \in Work /\ w.at = "issue" /\ w.mail = u.mail /\ w.seen = u.seen
      BY <3>2 DEF Work
    <3>4. call' = [call EXCEPT ![c] = w]  BY <2>2 DEF Goes
    <3>5. QED BY <1>2, <3>1, <3>3, <3>4 DEF Quiet, KeepsMail, Accepted, Pending, Replying
  <2>3. QED BY <1>6, <2>1, <2>2 DEF Create
<1>7. CASE Bind(c)
  <2>1. CASE Ends(c)  BY <1>2, <2>1, EndsQuietly
  <2>2. ASSUME NEW g \in Grant,
               Goes(c, [call[c] EXCEPT !.at = "challenge",
                   !.mail = [grant |-> g, request |-> call[c].request,
                             email |-> call[c].email]])
        PROVE  \E w \in Work : Quiet(c, w)
    <3>1. call[c].request \in RequestId /\ call[c].email \in Email /\ "challenge" \in Place
      BY <1>1, <1>7 DEF Bind, At, Has, Place
    <3> PICK m : m = [grant |-> g, request |-> call[c].request, email |-> call[c].email]
      OBVIOUS
    <3> PICK w : w = [u EXCEPT !.at = "challenge", !.mail = m]
      OBVIOUS
    <3>2. m \in Mail  BY <3>1 DEF Mail
    <3>3. w \in Work /\ w.at = "challenge" /\ w.seen = call[c].seen
      BY <3>1, <3>2 DEF Work
    <3>4. call' = [call EXCEPT ![c] = w] /\ call[c].at = "bind"
      BY <1>7, <2>2 DEF Goes, Bind, At
    <3>5. QED BY <1>2, <3>3, <3>4 DEF Quiet, Pending, Replying
  <2>3. QED BY <1>7, <2>1, <2>2 DEF Bind
<1>8. CASE Challenge(c)  BY <1>2, <1>3, <1>8, MovesQuietly DEF Challenge
<1>9. CASE Send(c)  BY <1>2, <1>9, EndsQuietly DEF Send
<1>10. QED BY <1>4, <1>5, <1>6, <1>7, <1>8, <1>9 DEF SignInStep

\* A confirmation, until it spends the grant.
LEMMA BeforeSpendQuiet ==
    ASSUME HostedInv, NEW c \in Call,
           ReadProof(c) \/ ReadBound(c) \/ VerifyCode(c) \/ ConfirmAllowed(c)
    PROVE  \E w \in Work : Quiet(c, w)
<1>1. call[c] \in Work  BY DEF HostedInv, CallsHold
<1>2. UNCHANGED <<lapsed, markers, origin>>
  BY DEF ReadProof, ReadBound, VerifyCode, ConfirmAllowed, Reading, Thinking, StoreOnly,
         hostedButCall, traces
<1>3. /\ "rules" \in Place \ (Pending \cup Replying)
      /\ "spend" \in Place \ (Pending \cup Replying)
      /\ "otpVerify" \in Place \ (Pending \cup Replying)
  BY DEF Place, Pending, Replying
<1>4. ASSUME NEW place \in {"rules", "otpVerify"}, NEW r \in requests,
             place = "rules" => call[c].by = "link",
             Goes(c, [call[c] EXCEPT !.at = place, !.seen = r])
      PROVE  \E w \in Work : Quiet(c, w)
  <2> PICK u \in Work : u = call[c]
    BY DEF HostedInv, CallsHold
  <2> PICK w : w = [u EXCEPT !.at = place, !.seen = r]
    OBVIOUS
  <2>1. r \in Request /\ place \in Place \ (Pending \cup Replying)
    BY <1>3 DEF HostedInv, Inv, TypeOK
  <2>2. w \in Work /\ w.at = place /\ w.seen = r /\ w.mail = call[c].mail
        /\ w.by = call[c].by
    BY <2>1 DEF Work
  <2>3. call' = [call EXCEPT ![c] = w]  BY <1>4 DEF Goes
  <2>4. KeepsMail(c, w)  BY <1>4, <2>2 DEF KeepsMail, Accepted
  <2>5. QED BY <1>2, <2>1, <2>2, <2>3, <2>4 DEF Quiet
<1>5. CASE ReadProof(c)
  <2>1. call[c].by = "link"  BY <1>5 DEF ReadProof, At, HostedInv, CallsHold, Has
  <2>2. QED BY <1>2, <1>4, <1>5, <2>1, EndsQuietly DEF ReadProof, Named, Alive
<1>6. CASE ReadBound(c)
  BY <1>2, <1>4, <1>6, EndsQuietly DEF ReadBound, Bound, Named, Alive
<1>7. CASE VerifyCode(c)
  BY <1>2, <1>3, <1>7, MovesQuietly, EndsQuietly DEF VerifyCode, At
<1>8. CASE ConfirmAllowed(c)
  BY <1>2, <1>3, <1>8, MovesQuietly, EndsQuietly DEF ConfirmAllowed, At
<1>9. QED BY <1>5, <1>6, <1>7, <1>8

LEMMA CodeOrTokenQuiet ==
    ASSUME HostedInv, NEW c \in Call, CodeOrTokenStep(c)
    PROVE  \E w \in Work : Quiet(c, w)
<1>1. call[c] \in Work  BY DEF HostedInv, CallsHold
<1>2. UNCHANGED <<lapsed, markers, origin>>
  BY DEF CodeOrTokenStep, Issue, ReadIssued, Release, Redeem, RedeemedAllowed, ReleaseToken,
         Reading, Thinking, StoreOnly, hostedButCall, traces
<1>3. /\ "redeemed" \in Place \ (Pending \cup Replying)
      /\ "signed" \in Place \ (Pending \cup Replying)
      /\ "issued" \in Place /\ "release" \in Place
  BY DEF Place, Pending, Replying
<1> PICK u \in Work : u = call[c]
  BY DEF HostedInv, CallsHold
<1>4. CASE Issue(c)
  <2>1. call[c].at \in Replying  BY <1>4 DEF Issue, At, Replying
  <2>2. CASE GoesTo(c, "reply")  BY <1>2, <2>1, <2>2, RepliesQuietly
  <2>3. ASSUME NEW k \in Code, Goes(c, [call[c] EXCEPT !.at = "issued", !.code = k])
        PROVE  \E w \in Work : Quiet(c, w)
    <3> PICK w : w = [u EXCEPT !.at = "issued", !.code = k]
      OBVIOUS
    <3>1. w \in Work /\ w.at = "issued" /\ w.seen = call[c].seen /\ w.mail = call[c].mail
          /\ w.cookie = call[c].cookie
      BY <1>3 DEF Work
    <3>2. call' = [call EXCEPT ![c] = w]  BY <2>3 DEF Goes
    <3>3. QED BY <1>2, <2>1, <3>1, <3>2 DEF Quiet, KeepsMail, Accepted, Pending, Replying
  <2>4. QED BY <1>4, <2>2, <2>3 DEF Issue
<1>5. CASE ReadIssued(c)
  <2>1. call[c].at \in Replying  BY <1>5 DEF ReadIssued, At, Replying
  <2>2. CASE GoesTo(c, "reply")  BY <1>2, <2>1, <2>2, RepliesQuietly
  <2>3. ASSUME NEW s \in ActiveSessions(call[c].handle, clock),
               Goes(c, [call[c] EXCEPT !.at = "release", !.email = s.email])
        PROVE  \E w \in Work : Quiet(c, w)
    <3>1. s.email \in Email
      BY DEF ActiveSessions, Named, Alive, HostedInv, Inv, TypeOK, Session
    <3> PICK w : w = [u EXCEPT !.at = "release", !.email = s.email]
      OBVIOUS
    <3>2. w \in Work /\ w.at = "release" /\ w.seen = call[c].seen /\ w.mail = call[c].mail
          /\ w.cookie = call[c].cookie
      BY <1>3, <3>1 DEF Work
    <3>3. call' = [call EXCEPT ![c] = w]  BY <2>3 DEF Goes
    <3>4. QED BY <1>2, <2>1, <3>2, <3>3 DEF Quiet, KeepsMail, Accepted, Pending, Replying
  <2>4. QED BY <1>5, <2>2, <2>3 DEF ReadIssued
<1>6. CASE Release(c)  BY <1>2, <1>6, EndsQuietly DEF Release
<1>7. CASE Redeem(c)  BY <1>2, <1>3, <1>7, MovesQuietly, EndsQuietly DEF Redeem
<1>8. CASE RedeemedAllowed(c)
  BY <1>2, <1>3, <1>8, MovesQuietly, EndsQuietly DEF RedeemedAllowed
<1>9. CASE ReleaseToken(c)  BY <1>2, <1>9, EndsQuietly DEF ReleaseToken
<1>10. QED BY <1>4, <1>5, <1>6, <1>7, <1>8, <1>9 DEF CodeOrTokenStep

LEMMA EndingQuiet ==
    ASSUME HostedInv, NEW c \in Call, Undo(c) \/ Reply(c) \/ SignOutStep(c) \/ Vanish(c)
    PROVE  \E w \in Work : Quiet(c, w)
<1>1. UNCHANGED <<lapsed, markers, origin>>
  BY DEF Undo, Reply, SignOutStep, EndSession, SignedOut, Vanish, StoreOnly,
         hostedButCall, traces
<1>2. "signedOut" \in Place \ (Pending \cup Replying)  BY DEF Place, Pending, Replying
<1>3. Ends(c) \/ GoesTo(c, "signedOut")
  BY DEF Undo, Reply, SignOutStep, EndSession, SignedOut, Vanish
<1>4. QED BY <1>1, <1>2, <1>3, MovesQuietly, EndsQuietly

-----------------------------------------------------------------------------
(***************************************************************************)
(* The steps between the mark and the answer.                               *)
(***************************************************************************)
LEMMA SpendKeeps ==
    ASSUME HostedInv, Inv', OnceInv, CodeInv, NEW c \in Call, Spend(c), [Next]_vars
    PROVE  OnceInv'
<1> PICK u \in Work : u = call[c]
  BY DEF HostedInv, CallsHold
<1>1. u \in Work /\ "consume" \in Place /\ "start" \in Place /\ u.at = "spend"
  BY DEF Spend, At, HostedInv, CallsHold, Place
<1>2. UNCHANGED <<lapsed, origin, spent, ended, minted>>
  BY DEF Spend, traces, vars, history
<1>3. CASE Ends(c) /\ UNCHANGED markers
  <2>1. UNCHANGED <<lapsed, markers, origin>>  BY <1>2, <1>3
  <2>2. QED BY <1>3, <2>1, EndsQuietly, QuietKeeps
<1>4. ASSUME Spendable(u.mail.grant), NEW place \in {"consume", "start"},
             markers' = (markers \ Marks(u.mail.grant)) \cup
                           {[grant |-> u.mail.grant, of |-> u.by]},
             GoesTo(c, place), place = "start" => u.seen.flow # "launcher"
      PROVE  OnceInv'
  <2> DEFINE g == u.mail.grant
  <2>1. g \in Grant /\ u.by \in Proof
    BY <1>1 DEF Spend, At, HostedInv, CallsHold, Has, Confirming, Mail
  <2> PICK v : v = [u EXCEPT !.at = place]
    OBVIOUS
  <2>2. v \in Work /\ v.at = place /\ v.seen = u.seen /\ v.mail = u.mail /\ v.by = u.by
    BY <1>1, AtPlace
  <2>3. call' = [call EXCEPT ![c] = v]  BY <1>4 DEF GoesTo
  <2>4. \A d \in Call : call'[d] = IF d = c THEN v ELSE call[d]
    BY <2>3 DEF HostedInv, CallsHold
  <2>5. GrantInv'
    <3>1. ASSUME NEW k, NEW by \in Proof, Noted(k, by) PROVE Noted(k, by)'
      BY <1>2, <1>4, <3>1 DEF Noted, Past, Marks, Spendable
    <3>2. Noted(g, u.by)'  BY <1>4 DEF Noted
    <3>3. ASSUME NEW by \in Proof, Noted(g, by), ~(by = "code" /\ u.by = "code")
          PROVE  Forgotten(g, by, u.by)
      <4>1. CASE by = "link" /\ u.by = "link"
        BY <1>4, <3>3, <4>1 DEF Noted, Marks, Spendable, Forgotten, Past
      <4>2. CASE by # u.by
        <5>1. PICK m \in markers : m.grant = g  BY <3>3 DEF Noted
        <5>2. m \in lapsed /\ m \in Deadline
          BY <1>4, <5>1 DEF Marks, Spendable, HostedInv, StateHolds
        <5>3. m = [grant |-> g, of |-> m.of] /\ m.of \in Proof
          BY <5>1, <5>2 DEF Deadline
        <5>4. Past(g, "code")
          BY <2>1, <5>2, <5>3 DEF Past, Proof, OnceInv, GrantInv, LapseOrder
        <5>5. QED BY <4>2, <5>4 DEF Forgotten
      <4>3. QED BY <2>1, <3>3, <4>1, <4>2 DEF Proof
    <3>4. u.by = "code" => Accepted(call[c])  BY <1>1 DEF Accepted
    <3>5. ASSUME NEW d \in Call, d # c, call[d].at \in Pending, call[d].mail.grant = g
          PROVE  Forgotten(g, call[d].by, u.by)
      <4>1. call[d].by \in Proof
        BY <3>5 DEF HostedInv, CallsHold, Has, Pending, Confirming
      <4>2. call[d].by = "code" => Accepted(call[d])  BY <3>5 DEF Accepted, Pending
      <4>3. ~(call[d].by = "code" /\ u.by = "code")
        BY <3>4, <3>5, <4>2 DEF CodeInv, CodeOnce
      <4>4. QED BY <3>3, <3>5, <4>1, <4>3 DEF OnceInv, GrantInv
    <3>6. ASSUME NEW h \in Handle, FromGrant(h, g)
          PROVE  Forgotten(g, origin[h].by, u.by)
      <4>1. origin[h].by \in Proof /\ Noted(g, origin[h].by)
        BY <3>6 DEF FromGrant, HostedInv, StateHolds, Origin, OnceInv, GrantInv
      <4>2. ~(origin[h].by = "code" /\ u.by = "code")
        BY <3>4, <3>6 DEF CodeInv, CodeOnce
      <4>3. QED BY <3>3, <4>1, <4>2
    <3>7. MailSignsInOnce' /\ LapseOrder'
      BY <1>2 DEF OnceInv, GrantInv, MailSignsInOnce, LapseOrder, Forgotten, Past
    <3>8. ASSUME NEW d \in Call, call'[d].at \in Pending
          PROVE  /\ Noted(call[d].mail.grant, call[d].by)'
                 /\ \A h \in Handle : FromGrant(h, call[d].mail.grant)' =>
                       Forgotten(call[d].mail.grant, origin[h].by, call[d].by)'
      <4>1. CASE d = c
        <5>1. call'[d].mail.grant = g /\ call'[d].by = u.by  BY <2>2, <2>4, <4>1
        <5>2. Noted(call[d].mail.grant, call[d].by)'  BY <3>2, <5>1 DEF Noted, Past
        <5>3. QED BY <1>2, <3>6, <5>1, <5>2 DEF FromGrant, Forgotten, Past
      <4>2. CASE d # c
        <5>1. call'[d] = call[d]  BY <2>4, <4>2
        <5>2. call[d].by \in Proof
          BY <3>8, <5>1 DEF HostedInv, CallsHold, Has, Pending, Confirming
        <5> PICK k, by : k = call[d].mail.grant /\ by = call[d].by
          OBVIOUS
        <5>3. Noted(k, by) /\ by \in Proof
          BY <3>8, <5>1, <5>2 DEF OnceInv, GrantInv
        <5>4. Noted(k, by)'  BY <3>1, <5>3
        <5>5. Noted(call[d].mail.grant, call[d].by)'  BY <5>1, <5>4 DEF Noted, Past
        <5>6. QED BY <1>2, <3>8, <5>1, <5>5 DEF OnceInv, GrantInv, FromGrant, Forgotten, Past
      <4>3. QED BY <4>1, <4>2
    <3>9. ASSUME NEW d \in Call, NEW e \in Call, d # e,
                 call'[d].at \in Pending, call'[e].at \in Pending,
                 call'[d].mail.grant = call'[e].mail.grant
          PROVE  Forgotten(call[d].mail.grant, call[d].by, call[e].by)'
      <4>1. CASE d # c /\ e # c
        <5>1. call'[d] = call[d] /\ call'[e] = call[e]  BY <2>4, <4>1
        <5>2. QED BY <1>2, <3>9, <5>1 DEF OnceInv, GrantInv, Forgotten, Past
      <4>2. CASE d = c
        <5>1. call'[d].mail.grant = g /\ call'[d].by = u.by /\ call'[e] = call[e]
          BY <2>2, <2>4, <3>9, <4>2
        <5>2. Forgotten(g, call[e].by, u.by)  BY <3>5, <3>9, <4>2, <5>1
        <5>3. QED BY <1>2, <5>1, <5>2 DEF Forgotten, Past
      <4>3. CASE e = c
        <5>1. call'[e].mail.grant = g /\ call'[e].by = u.by /\ call'[d] = call[d]
          BY <2>2, <2>4, <3>9, <4>3
        <5>2. Forgotten(g, call[d].by, u.by)  BY <3>5, <3>9, <4>3, <5>1
        <5>3. QED BY <1>2, <3>9, <5>1, <5>2 DEF Forgotten, Past
      <4>4. QED BY <4>1, <4>2, <4>3
    <3>10. ASSUME NEW h \in Handle, origin'[h] # None
           PROVE  Noted(origin[h].grant, origin[h].by)' /\ h \in minted'
      <4> PICK k, by : k = origin[h].grant /\ by = origin[h].by
        OBVIOUS
      <4>1. Noted(k, by) /\ by \in Proof /\ h \in minted
        BY <1>2, <3>10 DEF OnceInv, GrantInv, HostedInv, StateHolds, Origin
      <4>2. Noted(k, by)'  BY <3>1, <4>1
      <4>3. QED BY <1>2, <4>1, <4>2 DEF Noted, Past
    <3>11. QED BY <3>7, <3>8, <3>9, <3>10 DEF GrantInv
  <2>6. LauncherInv'
    <3>1. \A d \in Call : Launching(d)' => Launching(d) /\ call'[d] = call[d]
      BY <1>4, <2>2, <2>4 DEF Launching
    <3>2. QED BY <1>2, <3>1 DEF OnceInv, LauncherInv, FromLauncher
  <2>7. AnswerInv'
    <3>1. \A d \in Call : call'[d].at \in Replying => call'[d] = call[d]
      BY <2>2, <2>4 DEF Replying
    <3>2. "issue" \in Replying  BY DEF Replying
    <3>3. QED BY <1>2, <3>1, <3>2 DEF OnceInv, AnswerInv, FromGrant
  <2>8. FlowInv'
    <3>1. \A h \in Handle :
             origin'[h] # None => KnownAs(origin'[h].request, origin'[h].flow)
      BY <1>2 DEF KnownAs
    <3>2. QED BY <2>2, <2>3, <3>1, FlowKept DEF OnceInv
  <2>9. QED BY <2>5, <2>6, <2>7, <2>8 DEF OnceInv
<1>5. QED BY <1>3, <1>4 DEF Spend

LEMMA ConsumeKeeps ==
    ASSUME HostedInv, Inv', OnceInv, NEW c \in Call, Consume(c), [Next]_vars
    PROVE  OnceInv'
<1> PICK u \in Work : u = call[c]
  BY DEF HostedInv, CallsHold
<1>1. u \in Work /\ "start" \in Place /\ u.at = "consume"
  BY DEF Consume, At, HostedInv, CallsHold, Place
<1>2. UNCHANGED <<lapsed, markers, origin>>
  BY DEF Consume, StoreOnly, hostedButCall, traces
<1>3. CASE Ends(c)  BY <1>2, <1>3, EndsQuietly, QuietKeeps
<1>4. CASE ConsumeLauncherRequest(u.request, u.mail.grant, clock) /\ GoesTo(c, "start")
  <2>1. spent' = spent \cup {u.request} /\ minted' = minted /\ ended' = ended
    BY <1>4 DEF ConsumeLauncherRequest
  <2>2. u.request \notin spent
    BY <1>4 DEF ConsumeLauncherRequest, Named, Alive, HostedInv, Inv, IInv, SpentInv
  <2> PICK v : v = [u EXCEPT !.at = "start"]
    OBVIOUS
  <2>3. v \in Work /\ v.at = "start" /\ v.seen = u.seen /\ v.mail = u.mail
        /\ v.request = u.request /\ v.by = u.by
    BY <1>1, AtPlace
  <2>4. call' = [call EXCEPT ![c] = v]  BY <1>4 DEF GoesTo
  <2>5. \A d \in Call : call'[d] = IF d = c THEN v ELSE call[d]
    BY <2>4 DEF HostedInv, CallsHold
  <2>6. GrantInv'
    <3>1. MailSignsInOnce' /\ LapseOrder'
      BY <1>2 DEF OnceInv, GrantInv, MailSignsInOnce, LapseOrder, Forgotten, Past
    <3>2. \A d \in Call : call'[d].at \in Pending =>
             /\ call[d].at \in Pending
             /\ call'[d].mail = call[d].mail /\ call'[d].by = call[d].by
      BY <1>1, <2>3, <2>5 DEF Pending
    <3>3. QED BY <1>2, <2>1, <3>1, <3>2 DEF OnceInv, GrantInv, FromGrant, Noted, Forgotten, Past
  <2>7. LauncherInv'
    <3>1. u.request \in RequestId
      BY <1>1 DEF HostedInv, CallsHold, Has, Confirming
    <3>2. \A h \in Handle : ~FromLauncher(h, u.request)
      BY <2>2, <3>1 DEF OnceInv, LauncherInv
    <3>3. \A d \in Call : Launching(d) => call[d].request # u.request
      BY <2>2 DEF OnceInv, LauncherInv
    <3>4. \A d \in Call : Launching(d)' => d = c \/ (Launching(d) /\ call'[d] = call[d])
      BY <2>5 DEF Launching
    <3>5. call'[c].request = u.request  BY <2>3, <2>5
    <3>6. \A d \in Call : Launching(d)' =>
             /\ call'[d].request \in spent'
             /\ \A h \in Handle : ~(/\ origin'[h] # None /\ origin'[h].flow = "launcher"
                                    /\ origin'[h].request = call'[d].request)
      BY <1>2, <2>1, <3>2, <3>4, <3>5 DEF OnceInv, LauncherInv, FromLauncher
    <3>7. \A d, e \in Call :
             Launching(d)' /\ Launching(e)' /\ call'[d].request = call'[e].request => d = e
      BY <3>3, <3>4, <3>5 DEF OnceInv, LauncherInv
    <3>8. QED BY <1>2, <2>1, <3>6, <3>7 DEF OnceInv, LauncherInv, FromLauncher
  <2>8. AnswerInv'
    <3>1. \A d \in Call : call'[d].at \in Replying => call'[d] = call[d]
      BY <2>3, <2>5 DEF Replying
    <3>2. "issue" \in Replying  BY DEF Replying
    <3>3. QED BY <1>2, <2>1, <3>1, <3>2 DEF OnceInv, AnswerInv, FromGrant
  <2>9. FlowInv'
    <3>1. \A h \in Handle :
             origin'[h] # None => KnownAs(origin'[h].request, origin'[h].flow)
      BY <1>2 DEF KnownAs
    <3>2. QED BY <2>3, <2>4, <3>1, FlowKept DEF OnceInv
  <2>10. QED BY <2>6, <2>7, <2>8, <2>9 DEF OnceInv
<1>5. QED BY <1>3, <1>4 DEF Consume

LEMMA StartKeeps ==
    ASSUME HostedInv, Inv', OnceInv, NEW c \in Call, Start(c), [Next]_vars
    PROVE  OnceInv'
<1> PICK u \in Work : u = call[c]
  BY DEF HostedInv, CallsHold
<1>1. u \in Work /\ u.at = "start" /\ Has(u.at, u)
  BY DEF Start, At, HostedInv, CallsHold
<1>2. /\ u.request \in RequestId /\ u.mail \in Mail /\ u.by \in Proof /\ u.seen \in Request
      /\ u.seen.id = u.request /\ u.seen # None
  BY <1>1, HostedAssumption DEF Has, Confirming, Exchanging
<1> DEFINE place == IF u.seen.flow = "launcher" THEN "recheck"
                    ELSE IF u.seen.binding = u.browser THEN "issue" ELSE "reply"
           from == [grant |-> u.mail.grant, by |-> u.by, request |-> u.request,
                    flow |-> u.seen.flow]
<1>3. PICK h \in Handle :
          /\ CreateSession(h, u.email, Replaced(u), clock)
          /\ Goes(c, [u EXCEPT !.handle = h, !.at = place])
          /\ origin' = [origin EXCEPT ![h] = from]
  BY DEF Start
<1>4. /\ place \in {"recheck", "issue", "reply"} /\ place \in Place
      /\ u.seen.flow = "launcher" <=> place = "recheck"
  BY DEF Place
<1>5. from.grant = u.mail.grant /\ from.request = u.request /\ from.flow = u.seen.flow
      /\ from.by = u.by /\ from \in Origin /\ from # None
  BY <1>2, HostedAssumption DEF Origin, Mail, Request
<1> HIDE DEF place, from
<1>6. h \notin minted /\ minted' = minted \cup {h} /\ spent' = spent
      /\ ended' = ended \cup ({Replaced(u)} \ {None}) /\ markers' = markers
      /\ lapsed' = lapsed
  BY <1>3 DEF CreateSession, Start, hostedButCall
<1> PICK v : v = [u EXCEPT !.handle = h, !.at = place]
  OBVIOUS
<1>7. /\ v \in Work /\ v.at = place /\ v.seen = u.seen /\ v.mail = u.mail /\ v.handle = h
      /\ v.request = u.request /\ v.cookie = u.cookie
  BY <1>4 DEF Work
<1>8. call' = [call EXCEPT ![c] = v]  BY <1>3 DEF Goes
<1>9. \A d \in Call : call'[d] = IF d = c THEN v ELSE call[d]
  BY <1>8 DEF HostedInv, CallsHold
<1>10. \A k \in Handle : origin'[k] = IF k = h THEN from ELSE origin[k]
  BY <1>3 DEF HostedInv, StateHolds
<1>11. origin[h] = None
  BY <1>6 DEF OnceInv, GrantInv
<1>12. GrantInv'
  <2>1. c \in Call /\ call[c].at \in Pending  BY <1>1 DEF Pending
  <2>2. /\ Noted(u.mail.grant, u.by)
        /\ \A k \in Handle : FromGrant(k, u.mail.grant) =>
              Forgotten(u.mail.grant, origin[k].by, u.by)
    BY <2>1 DEF OnceInv, GrantInv
  <2>3. \A d \in Call : call[d].at \in Pending /\ d # c /\ call[d].mail.grant = u.mail.grant
           => Forgotten(u.mail.grant, u.by, call[d].by)
    BY <2>1 DEF OnceInv, GrantInv
  <2>4. \A d \in Call : call'[d].at \in Pending =>
             d # c /\ call[d].at \in Pending /\ call'[d] = call[d]
    BY <1>4, <1>7, <1>9 DEF Pending
  <2>5. MailSignsInOnce'
    <3> SUFFICES ASSUME NEW k \in Handle, NEW l \in Handle, k # l,
                        origin'[k] # None, origin'[l] # None,
                        origin'[k].grant = origin'[l].grant
                 PROVE  Forgotten(origin[k].grant, origin[k].by, origin[l].by)'
      BY DEF MailSignsInOnce
    <3>1. CASE k # h /\ l # h
      BY <1>6, <1>10, <3>1 DEF OnceInv, GrantInv, MailSignsInOnce, Forgotten, Past
    <3>2. CASE k = h
      BY <1>5, <1>6, <1>10, <2>2, <3>2 DEF FromGrant, Forgotten, Past
    <3>3. CASE l = h
      BY <1>5, <1>6, <1>10, <2>2, <3>3 DEF FromGrant, Forgotten, Past
    <3>4. QED BY <3>1, <3>2, <3>3
  <2>6. \A k \in Handle : origin'[k] # None =>
           Noted(origin[k].grant, origin[k].by)' /\ k \in minted'
    BY <1>5, <1>6, <1>10, <2>2 DEF OnceInv, GrantInv, Noted, Past
  <2>7. ASSUME NEW d \in Call, call'[d].at \in Pending
        PROVE  /\ Noted(call[d].mail.grant, call[d].by)'
               /\ \A k \in Handle : FromGrant(k, call[d].mail.grant)' =>
                     Forgotten(call[d].mail.grant, origin[k].by, call[d].by)'
    <3>1. d # c /\ call[d].at \in Pending /\ call'[d] = call[d]  BY <2>4, <2>7
    <3>2. Noted(call[d].mail.grant, call[d].by)'
      BY <1>6, <3>1 DEF OnceInv, GrantInv, Noted, Past
    <3>3. ASSUME NEW k \in Handle, FromGrant(k, call[d].mail.grant)'
          PROVE  Forgotten(call[d].mail.grant, origin[k].by, call[d].by)'
      <4>1. CASE k = h
        BY <1>5, <1>6, <1>10, <2>3, <3>1, <3>3, <4>1 DEF FromGrant, Forgotten, Past
      <4>2. CASE k # h
        BY <1>6, <1>10, <3>1, <3>3, <4>2 DEF OnceInv, GrantInv, FromGrant, Forgotten, Past
      <4>3. QED BY <4>1, <4>2
    <3>4. QED BY <3>2, <3>3
  <2>8. ASSUME NEW d \in Call, NEW e \in Call, d # e,
               call'[d].at \in Pending, call'[e].at \in Pending,
               call'[d].mail.grant = call'[e].mail.grant
        PROVE  Forgotten(call[d].mail.grant, call[d].by, call[e].by)'
    BY <1>6, <2>4, <2>8 DEF OnceInv, GrantInv, Forgotten, Past
  <2>9. LapseOrder'  BY <1>6 DEF OnceInv, GrantInv, LapseOrder, Past
  <2>10. QED BY <2>5, <2>6, <2>7, <2>8, <2>9 DEF GrantInv
<1>13. LauncherInv'
  <2>1. \A d \in Call : Launching(d)' => d # c /\ Launching(d) /\ call'[d] = call[d]
    BY <1>4, <1>7, <1>9 DEF Launching
  <2>2. \A k \in Handle, id \in RequestId : FromLauncher(k, id)' =>
             \/ FromLauncher(k, id)
             \/ k = h /\ id = u.request /\ Launching(c)
    BY <1>1, <1>5, <1>10 DEF FromLauncher, Launching
  <2>3. Launching(c) =>
             /\ u.request \in spent
             /\ \A k \in Handle : ~FromLauncher(k, u.request)
             /\ \A d \in Call : Launching(d) /\ d # c => call[d].request # u.request
    BY DEF OnceInv, LauncherInv
  <2>4. \A d \in Call : Launching(d) => call[d].request \in RequestId
    BY DEF Launching, HostedInv, CallsHold, Has, Confirming
  <2>5. \A k \in Handle, id \in RequestId : FromLauncher(k, id)' => id \in spent'
    BY <1>6, <2>2, <2>3 DEF OnceInv, LauncherInv
  <2>6. \A g, k \in Handle, id \in RequestId :
             FromLauncher(g, id)' /\ FromLauncher(k, id)' => g = k
    BY <2>2, <2>3 DEF OnceInv, LauncherInv
  <2>7. \A d \in Call : Launching(d)' =>
             /\ call'[d].request \in spent'
             /\ \A k \in Handle : ~(/\ origin'[k] # None /\ origin'[k].flow = "launcher"
                                    /\ origin'[k].request = call'[d].request)
    <3> SUFFICES ASSUME NEW d \in Call, Launching(d)'
                 PROVE  /\ call'[d].request \in spent'
                        /\ \A k \in Handle : ~(/\ origin'[k] # None
                                               /\ origin'[k].flow = "launcher"
                                               /\ origin'[k].request = call'[d].request)
      OBVIOUS
    <3>1. d # c /\ Launching(d) /\ call'[d] = call[d] /\ call[d].request \in RequestId
      BY <2>1, <2>4
    <3>2. call[d].request \in spent /\ \A k \in Handle : ~FromLauncher(k, call[d].request)
      BY <3>1 DEF OnceInv, LauncherInv
    <3>3. Launching(c) => call[d].request # u.request  BY <2>3, <3>1
    <3>4. \A k \in Handle : ~(/\ origin'[k] # None /\ origin'[k].flow = "launcher"
                             /\ origin'[k].request = call[d].request)
      BY <2>2, <3>1, <3>2, <3>3 DEF FromLauncher
    <3>5. QED BY <1>6, <3>1, <3>2, <3>4
  <2>8. \A d, e \in Call :
             Launching(d)' /\ Launching(e)' /\ call'[d].request = call'[e].request => d = e
    BY <2>1 DEF OnceInv, LauncherInv
  <2>9. QED BY <2>5, <2>6, <2>7, <2>8 DEF LauncherInv, FromLauncher
<1>14. AnswerInv'
  <2>1. ASSUME NEW d \in Call, d # c
        PROVE  /\ call'[d].at \in Replying /\ call'[d].mail # None /\ call'[d].cookie # None
                  => call'[d].cookie \in ended'
               /\ call'[d].at = "issue" /\ call'[d].mail # None =>
                     origin'[call'[d].handle] # None
                     /\ origin'[call'[d].handle].grant = call'[d].mail.grant
    <3>1. call'[d] = call[d]  BY <1>9, <2>1
    <3>2. call[d].at = "issue" => call[d].handle \in Handle
      BY DEF HostedInv, CallsHold, Has, Releasing
    <3>3. call[d].at = "issue" /\ call[d].mail # None => call[d].handle # h
      BY <1>11 DEF OnceInv, AnswerInv, FromGrant
    <3>4. QED BY <1>6, <1>10, <3>1, <3>2, <3>3 DEF OnceInv, AnswerInv, FromGrant
  <2>2. /\ v.at \in Replying /\ v.mail # None /\ v.cookie # None => v.cookie \in ended'
        /\ v.at = "issue" /\ v.mail # None =>
              origin'[v.handle] # None /\ origin'[v.handle].grant = v.mail.grant
    BY <1>4, <1>5, <1>6, <1>7, <1>10 DEF Replaced, Replying
  <2>3. QED BY <1>9, <2>1, <2>2 DEF AnswerInv, FromGrant
<1>15. FlowInv'
  <2>1. \A k \in Handle :
           origin'[k] # None => KnownAs(origin'[k].request, origin'[k].flow)
    BY <1>2, <1>5, <1>10 DEF KnownAs
  <2>2. QED BY <1>7, <1>8, <2>1, FlowKept DEF OnceInv
<1>16. QED BY <1>12, <1>13, <1>14, <1>15 DEF OnceInv

\* The launcher's answer waits until the previous session is ended.
LEMMA AnswerKeeps ==
    ASSUME HostedInv, Inv', OnceInv, NEW c \in Call, NEW v \in Work, [Next]_vars,
           call' = [call EXCEPT ![c] = v], UNCHANGED <<lapsed, markers, origin>>,
           v.at \notin Pending, v.at # "issue", v.seen = call[c].seen,
           v.at \in Replying /\ v.cookie # None => v.cookie \in ended'
    PROVE  OnceInv'
<1>1. minted \subseteq minted' /\ spent \subseteq spent' /\ ended \subseteq ended'
  BY Grows DEF HostedInv
<1>2. \A d \in Call : call'[d] = IF d = c THEN v ELSE call[d]
  BY DEF HostedInv, CallsHold
<1>3. GrantInv'
  <2>1. MailSignsInOnce' /\ LapseOrder'
    BY DEF OnceInv, GrantInv, MailSignsInOnce, LapseOrder, Forgotten, Past
  <2>2. QED BY <1>1, <1>2, <2>1 DEF OnceInv, GrantInv, FromGrant, Noted, Forgotten, Past
<1>4. LauncherInv'
  <2>1. v.at # "start"  BY DEF Pending
  <2>2. QED BY <1>1, <1>2, <2>1 DEF OnceInv, LauncherInv, FromLauncher, Launching
<1>5. AnswerInv'  BY <1>1, <1>2 DEF OnceInv, AnswerInv, FromGrant
<1>6. FlowInv'
  <2>1. \A h \in Handle : origin'[h] # None => KnownAs(origin'[h].request, origin'[h].flow)
    BY DEF KnownAs
  <2>2. QED BY <2>1, FlowKept DEF OnceInv
<1>7. QED BY <1>3, <1>4, <1>5, <1>6 DEF OnceInv

LEMMA FinalizeKeeps ==
    ASSUME HostedInv, Inv', OnceInv, NEW c \in Call, Recheck(c) \/ Replace(c), [Next]_vars
    PROVE  OnceInv'
<1> PICK u \in Work : u = call[c]
  BY DEF HostedInv, CallsHold
<1>1. u \in Work  BY DEF HostedInv, CallsHold
<1>2. UNCHANGED <<lapsed, markers, origin>>
  BY DEF Recheck, Replace, Thinking, StoreOnly, hostedButCall, traces
<1>3. PICK place \in {"undo", "reply", "replace"} :
         /\ GoesTo(c, place)
         /\ place = "reply" => u.cookie = None \/ u.cookie \in ended'
  BY DEF Recheck, Replace, RevokeSession
<1> PICK v : v = [u EXCEPT !.at = place]
  OBVIOUS
<1>4. place \in Place  BY DEF Place
<1>5. v \in Work /\ v.at = place /\ v.seen = u.seen /\ v.cookie = u.cookie
  BY <1>1, <1>4, AtPlace
<1>6. call' = [call EXCEPT ![c] = v]  BY <1>3 DEF GoesTo
<1>7. v.at \notin Pending /\ v.at # "issue"
      /\ (v.at \in Replying /\ v.cookie # None => v.cookie \in ended')
  BY <1>3, <1>5 DEF Pending, Replying
<1>8. QED BY <1>2, <1>5, <1>6, <1>7, AnswerKeeps

\* A step that changes no call, mark, origin or table; a deadline may pass.
LEMMA StillKeeps ==
    ASSUME OnceInv, UNCHANGED <<call, markers, origin, vars>>, lapsed \subseteq lapsed',
           LapseOrder'
    PROVE  OnceInv'
<1>1. UNCHANGED <<requests, minted, spent, ended>>  BY DEF vars, tables, history
<1>2. GrantInv'
  BY <1>1 DEF OnceInv, GrantInv, FromGrant, MailSignsInOnce, Noted, Forgotten, Past
<1>3. LauncherInv'  BY <1>1 DEF OnceInv, LauncherInv, FromLauncher, Launching
<1>4. AnswerInv'  BY <1>1 DEF OnceInv, AnswerInv, FromGrant
<1>5. FlowInv'  BY <1>1 DEF OnceInv, FlowInv, KnownAs
<1>6. QED BY <1>2, <1>3, <1>4, <1>5 DEF OnceInv

LEMMA OnceInit == HostedInit => OnceInv
<1> SUFFICES ASSUME HostedInit PROVE OnceInv
  OBVIOUS
<1>1. /\ \A c \in Call : call[c].at = "idle" /\ call[c].seen = None
      /\ \A h \in Handle : origin[h] = None
      /\ requests = {} /\ lapsed = {}
  BY DEF HostedInit, Idle, Init
<1>2. GrantInv
  BY <1>1 DEF GrantInv, FromGrant, MailSignsInOnce, LapseOrder, Past, Pending
<1>3. LauncherInv  BY <1>1 DEF LauncherInv, FromLauncher, Launching
<1>4. AnswerInv  BY <1>1 DEF AnswerInv, Replying
<1>5. FlowInv  BY <1>1 DEF FlowInv, KnownAs
<1>6. QED BY <1>2, <1>3, <1>4, <1>5 DEF OnceInv

LEMMA OnceNext == HostedInv /\ OnceInv /\ CodeInv /\ [HostedNext]_all => OnceInv'
<1> SUFFICES ASSUME HostedInv, OnceInv, CodeInv, [HostedNext]_all PROVE OnceInv'
  OBVIOUS
<1>1. Inv' /\ [Next]_vars  BY HostedNextInv DEF HostedInv
<1>2. CASE UNCHANGED all \/ \E r \in SUBSET (Email \X Site) : Reload(r)
  <2>1. UNCHANGED <<call, markers, origin, vars, lapsed>>
    BY <1>2 DEF all, hostedButCall, traces, Reload
  <2>2. LapseOrder'  BY <2>1 DEF OnceInv, GrantInv, LapseOrder, Past
  <2>3. QED BY <2>1, <2>2, StillKeeps
<1>3. CASE \E m \in mails, of \in Proof : Lapse(m.grant, of)
  <2>1. UNCHANGED <<call, markers, origin, vars>> /\ lapsed \subseteq lapsed'
    BY <1>3 DEF Lapse, traces
  <2>2. LapseOrder'  BY <1>3 DEF OnceInv, GrantInv, LapseOrder, Lapse, Past
  <2>3. QED BY <2>1, <2>2, StillKeeps
<1>4. ASSUME NEW c \in Call, \E w \in Work : Quiet(c, w)
      PROVE  OnceInv'
  BY <1>1, <1>4, QuietKeeps
<1>5. ASSUME NEW c \in Call, ConfirmStep(c)
      PROVE  OnceInv'
  <2>1. CASE ReadProof(c) \/ ReadBound(c) \/ VerifyCode(c) \/ ConfirmAllowed(c)
    BY <1>4, <2>1, BeforeSpendQuiet
  <2>2. CASE Undo(c) \/ Reply(c)  BY <1>4, <2>2, EndingQuiet
  <2>3. CASE Spend(c)  BY <1>1, <2>3, SpendKeeps
  <2>4. CASE Consume(c)  BY <1>1, <2>4, ConsumeKeeps
  <2>5. CASE Start(c)  BY <1>1, <2>5, StartKeeps
  <2>6. CASE Recheck(c) \/ Replace(c)  BY <1>1, <2>6, FinalizeKeeps
  <2>7. QED BY <1>5, <2>1, <2>2, <2>3, <2>4, <2>5, <2>6 DEF ConfirmStep
<1>6. CASE \E c \in Call : \/ Arrival(c) \/ SignInStep(c) \/ CodeOrTokenStep(c)
                           \/ SignOutStep(c) \/ Vanish(c)
  BY <1>4, <1>6, ArrivalQuiet, SignInQuiet, CodeOrTokenQuiet, EndingQuiet
<1>7. QED BY <1>2, <1>3, <1>5, <1>6 DEF HostedNext

-----------------------------------------------------------------------------
(***************************************************************************)
(* A code is accepted once: what a call makes of its mail, and of the       *)
(* challenge of that mail.                                                  *)
(***************************************************************************)
LEMMA KeptMailKeepsCode ==
    ASSUME HostedInv, CodeInv, NEW c \in Call, NEW w \in Work,
           call' = [call EXCEPT ![c] = w], KeepsMail(c, w), UNCHANGED origin,
           challenges' \subseteq challenges,
           \A m \in mails' : m \in mails \/ (m = call[c].mail /\ m # None)
    PROVE  CodeInv'
<1>1. \A d \in Call : call'[d] = IF d = c THEN w ELSE call[d]
  BY DEF HostedInv, CallsHold
<1>2. NewMail'
  <2> SUFFICES ASSUME NEW d \in Call, call'[d].at = "challenge"
               PROVE  /\ \A m \in mails' \cup challenges' : m.grant # call'[d].mail.grant
                      /\ \A e \in Call : e # d /\ call'[e].mail # None =>
                            call'[e].mail.grant # call'[d].mail.grant
                      /\ \A h \in Handle : ~FromGrant(h, call[d].mail.grant)'
    BY DEF NewMail
  <2>1. d # c /\ call'[d] = call[d]  BY <1>1 DEF KeepsMail
  <2>2. /\ \A m \in mails \cup challenges : m.grant # call[d].mail.grant
        /\ \A e \in Call : e # d /\ call[e].mail # None =>
              call[e].mail.grant # call[d].mail.grant
        /\ \A h \in Handle : ~FromGrant(h, call[d].mail.grant)
    BY <2>1 DEF CodeInv, NewMail
  <2>3. \A m \in mails' \cup challenges' : m.grant # call'[d].mail.grant
    BY <2>1, <2>2
  <2>4. ASSUME NEW e \in Call, e # d, call'[e].mail # None
        PROVE  call'[e].mail.grant # call'[d].mail.grant
    <3>1. CASE e = c  BY <1>1, <2>1, <2>2, <2>4, <3>1 DEF KeepsMail
    <3>2. CASE e # c  BY <1>1, <2>1, <2>2, <2>4, <3>2
    <3>3. QED BY <3>1, <3>2
  <2>5. QED BY <2>1, <2>2, <2>3, <2>4 DEF FromGrant
<1>3. CodeOnce'
  <2>1. \A d \in Call : Accepted(call'[d]) => Accepted(call[d]) /\ call'[d].mail = call[d].mail
    BY <1>1 DEF KeepsMail
  <2>2. QED BY <2>1 DEF CodeInv, CodeOnce, FromGrant, Accepted
<1>4. QED BY <1>2, <1>3 DEF CodeInv

LEMMA PlaceKeepsMail ==
    ASSUME HostedInv, NEW c \in Call, NEW place \in Place, GoesTo(c, place),
           place # "challenge", place \notin {"rules", "spend"},
           place \in Pending => call[c].at \in {"spend", "consume"}
    PROVE  \E w \in Work : call' = [call EXCEPT ![c] = w] /\ KeepsMail(c, w)
<1> PICK u \in Work : u = call[c]
  BY DEF HostedInv, CallsHold
<1> PICK w : w = [u EXCEPT !.at = place]
  OBVIOUS
<1>1. w \in Work /\ w.at = place /\ w.mail = call[c].mail /\ w.by = call[c].by  BY AtPlace
<1>2. call' = [call EXCEPT ![c] = w]  BY DEF GoesTo
<1>3. KeepsMail(c, w)  BY <1>1 DEF KeepsMail, Accepted, Pending
<1>4. QED BY <1>1, <1>2, <1>3

LEMMA EndKeepsMail ==
    ASSUME NEW c \in Call, Ends(c)
    PROVE  \E w \in Work : call' = [call EXCEPT ![c] = w] /\ KeepsMail(c, w)
<1>1. Idle \in Work /\ Idle.at = "idle" /\ Idle.mail = None  BY IdleHas DEF Idle
<1>2. KeepsMail(c, Idle)  BY <1>1 DEF KeepsMail, Accepted
<1>3. QED BY <1>1, <1>2 DEF Ends

\* The grant of a new mail is new.
LEMMA BindKeepsCode ==
    ASSUME HostedInv, OnceInv, CodeInv, NEW c \in Call, Bind(c)
    PROVE  CodeInv'
<1>1. UNCHANGED <<mails, challenges, origin>>
  BY DEF Bind, StoreOnly, hostedButCall, traces
<1>2. CASE Ends(c)  BY <1>1, <1>2, EndKeepsMail, KeptMailKeepsCode
<1>3. ASSUME NEW g \in Grant, Unused(g),
             Goes(c, [call[c] EXCEPT !.at = "challenge",
                   !.mail = [grant |-> g, request |-> call[c].request,
                             email |-> call[c].email]])
      PROVE  CodeInv'
  <2> PICK u \in Work : u = call[c]
    BY DEF HostedInv, CallsHold
  <2> PICK n : n = [grant |-> g, request |-> u.request, email |-> u.email]
    OBVIOUS
  <2> PICK w : w = [u EXCEPT !.at = "challenge", !.mail = n]
    OBVIOUS
  <2>1. n.grant = g /\ w.at = "challenge" /\ w.mail = n  BY DEF Work
  <2>2. call' = [call EXCEPT ![c] = w]  BY <1>3 DEF Goes
  <2>3. \A d \in Call : call'[d] = IF d = c THEN w ELSE call[d]
    BY <2>2 DEF HostedInv, CallsHold
  <2>4. \A h \in Handle : ~FromGrant(h, g)
    BY <1>3 DEF OnceInv, GrantInv, FromGrant, Noted, Unused
  <2>5. \A d \in Call : call[d].mail # None => call[d].mail.grant # g
    BY <1>3 DEF Unused
  <2>6. \A m \in mails \cup challenges : m.grant # g  BY <1>3 DEF Unused
  <2>7. NewMail'
    <3> SUFFICES ASSUME NEW d \in Call, call'[d].at = "challenge"
                 PROVE  /\ \A m \in mails' \cup challenges' : m.grant # call'[d].mail.grant
                        /\ \A e \in Call : e # d /\ call'[e].mail # None =>
                              call'[e].mail.grant # call'[d].mail.grant
                        /\ \A h \in Handle : ~FromGrant(h, call[d].mail.grant)'
      BY DEF NewMail
    <3>1. CASE d = c
      <4>1. call'[d].mail.grant = g  BY <2>1, <2>3, <3>1
      <4>2. \A e \in Call : e # d => call'[e] = call[e]  BY <2>3, <3>1
      <4>3. \A h \in Handle : ~FromGrant(h, call[d].mail.grant)'
        BY <1>1, <2>4, <4>1 DEF FromGrant
      <4>4. QED BY <1>1, <2>5, <2>6, <4>1, <4>2, <4>3
    <3>2. CASE d # c
      <4>1. call'[d] = call[d]  BY <2>3, <3>2
      <4>2. call[d].mail \in Mail /\ call[d].at = "challenge"
        BY <4>1 DEF HostedInv, CallsHold, Has, Writing
      <4>3. call[d].mail.grant # g  BY <2>5, <4>2, HostedAssumption
      <4>4. /\ \A m \in mails \cup challenges : m.grant # call[d].mail.grant
            /\ \A e \in Call : e # d /\ call[e].mail # None =>
                  call[e].mail.grant # call[d].mail.grant
            /\ \A h \in Handle : ~FromGrant(h, call[d].mail.grant)
        BY <4>2 DEF CodeInv, NewMail
      <4>5. \A e \in Call : e # d /\ call'[e].mail # None =>
               call'[e].mail.grant # call[d].mail.grant
        <5> SUFFICES ASSUME NEW e \in Call, e # d, call'[e].mail # None
                     PROVE  call'[e].mail.grant # call[d].mail.grant
          OBVIOUS
        <5>1. CASE e = c
          <6>1. call'[e].mail.grant = g  BY <2>1, <2>3, <5>1
          <6>2. QED BY <4>3, <6>1
        <5>2. CASE e # c
          <6>1. call'[e] = call[e]  BY <2>3, <5>2
          <6>2. QED BY <4>4, <6>1
        <5>3. QED BY <5>1, <5>2
      <4>6. \A h \in Handle : ~FromGrant(h, call[d].mail.grant)'
        BY <1>1, <4>1, <4>4 DEF FromGrant
      <4>7. QED BY <1>1, <4>1, <4>4, <4>5, <4>6
    <3>3. QED BY <3>1, <3>2
  <2>8. CodeOnce'
    <3>1. \A d \in Call : Accepted(call'[d]) => Accepted(call[d]) /\ call'[d] = call[d]
      BY <2>1, <2>3 DEF Accepted
    <3>2. QED BY <1>1, <3>1 DEF CodeInv, CodeOnce, FromGrant, Accepted
  <2>9. QED BY <2>7, <2>8 DEF CodeInv
<1>4. QED BY <1>2, <1>3 DEF Bind

\* So it has no other challenge, no call was accepted with it and no session has it.
LEMMA ChallengeKeepsCode ==
    ASSUME HostedInv, CodeInv, NEW c \in Call, Challenge(c)
    PROVE  CodeInv'
<1> PICK u \in Work : u = call[c]
  BY DEF HostedInv, CallsHold
<1> PICK w : w = [u EXCEPT !.at = "send"]
  OBVIOUS
<1>1. w.at = "send" /\ w.mail = u.mail /\ u.at = "challenge" /\ u.mail # None
  BY HostedAssumption DEF Challenge, At, HostedInv, CallsHold, Has, Writing, Work
<1>2. call' = [call EXCEPT ![c] = w] /\ UNCHANGED <<mails, origin>>
      /\ challenges' \subseteq challenges \cup {u.mail}
  BY DEF Challenge, GoesTo, traces
<1>3. \A d \in Call : call'[d] = IF d = c THEN w ELSE call[d]
  BY <1>2 DEF HostedInv, CallsHold
<1>4. /\ \A m \in challenges : m.grant # u.mail.grant
      /\ \A d \in Call : d # c /\ call[d].mail # None => call[d].mail.grant # u.mail.grant
      /\ \A h \in Handle : ~FromGrant(h, u.mail.grant)
  BY <1>1 DEF CodeInv, NewMail
<1>5. NewMail'
  <2> SUFFICES ASSUME NEW d \in Call, call'[d].at = "challenge"
               PROVE  /\ \A m \in mails' \cup challenges' : m.grant # call'[d].mail.grant
                      /\ \A e \in Call : e # d /\ call'[e].mail # None =>
                            call'[e].mail.grant # call'[d].mail.grant
                      /\ \A h \in Handle : ~FromGrant(h, call[d].mail.grant)'
    BY DEF NewMail
  <2>1. d # c /\ call'[d] = call[d]  BY <1>1, <1>3
  <2>2. /\ \A m \in mails \cup challenges : m.grant # call[d].mail.grant
        /\ \A e \in Call : e # d /\ call[e].mail # None =>
              call[e].mail.grant # call[d].mail.grant
        /\ \A h \in Handle : ~FromGrant(h, call[d].mail.grant)
    BY <2>1 DEF CodeInv, NewMail
  <2>3. QED BY <1>1, <1>2, <1>3, <2>1, <2>2 DEF FromGrant
<1>6. CodeOnce'
  <2>1. \A d \in Call : Accepted(call'[d]) =>
           d # c /\ Accepted(call[d]) /\ call'[d] = call[d] /\ call[d].mail # None
    BY <1>1, <1>3, HostedAssumption DEF Accepted, HostedInv, CallsHold, Has, Confirming
  <2>2. \A m, n \in challenges' : m.grant = n.grant => m = n
    BY <1>2, <1>4 DEF CodeInv, CodeOnce
  <2>3. \A h \in Handle, m \in challenges' : FromGrant(h, m.grant) => origin[h].by # "code"
    BY <1>2, <1>4 DEF CodeInv, CodeOnce
  <2>4. \A d \in Call : Accepted(call[d]) /\ d # c /\ call[d].mail # None =>
           \A m \in challenges' : m.grant # call[d].mail.grant
    BY <1>2, <1>4 DEF CodeInv, CodeOnce
  <2>5. QED BY <1>2, <2>1, <2>2, <2>3, <2>4 DEF CodeInv, CodeOnce, FromGrant, Accepted
<1>7. QED BY <1>5, <1>6 DEF CodeInv

LEMMA VerifyKeepsCode ==
    ASSUME HostedInv, CodeInv, NEW c \in Call, VerifyCode(c)
    PROVE  CodeInv'
<1> PICK u \in Work : u = call[c]
  BY DEF HostedInv, CallsHold
<1>1. UNCHANGED <<mails, origin>> /\ challenges' = challenges \ {u.mail}
  BY DEF VerifyCode, traces
<1>2. CASE Ends(c)  BY <1>1, <1>2, EndKeepsMail, KeptMailKeepsCode
<1>3. CASE u.mail \in challenges /\ GoesTo(c, "rules")
  <2> PICK w : w = [u EXCEPT !.at = "rules"]
    OBVIOUS
  <2>1. w.at = "rules" /\ w.mail = u.mail  BY DEF Work
  <2>2. call' = [call EXCEPT ![c] = w]  BY <1>3 DEF GoesTo
  <2>3. \A d \in Call : call'[d] = IF d = c THEN w ELSE call[d]
    BY <2>2 DEF HostedInv, CallsHold
  <2>4. \A d \in Call : call'[d].mail = call[d].mail  BY <2>1, <2>3
  <2>5. NewMail'
    <3>1. \A d \in Call : call'[d].at = "challenge" => call[d].at = "challenge"
      BY <2>1, <2>3
    <3>2. QED BY <1>1, <2>4, <3>1 DEF CodeInv, NewMail, FromGrant
  <2>6. CodeOnce'
    <3>1. \A d \in Call : Accepted(call'[d]) => d = c \/ Accepted(call[d])
      BY <2>3
    <3>2. /\ \A m \in challenges' : m.grant # u.mail.grant
          /\ \A h \in Handle : FromGrant(h, u.mail.grant) => origin[h].by # "code"
          /\ \A d \in Call : Accepted(call[d]) => call[d].mail.grant # u.mail.grant
      BY <1>1, <1>3 DEF CodeInv, CodeOnce
    <3>3. ASSUME NEW d \in Call, Accepted(call'[d])
          PROVE  /\ \A m \in challenges' : m.grant # call[d].mail.grant
                 /\ \A h \in Handle : FromGrant(h, call[d].mail.grant) => origin[h].by # "code"
                 /\ \A e \in Call : e # d /\ Accepted(call'[e]) =>
                       call[e].mail.grant # call[d].mail.grant
      <4>1. CASE d = c  BY <3>1, <3>2, <4>1
      <4>2. CASE d # c
        <5>1. Accepted(call[d])  BY <3>1, <3>3, <4>2
        <5>2. QED BY <1>1, <3>1, <3>2, <5>1 DEF CodeInv, CodeOnce
      <4>3. QED BY <4>1, <4>2
    <3>4. /\ \A m, n \in challenges' : m.grant = n.grant => m = n
          /\ \A h \in Handle, m \in challenges' : FromGrant(h, m.grant) => origin[h].by # "code"
      BY <1>1 DEF CodeInv, CodeOnce
    <3>5. QED BY <1>1, <2>4, <3>3, <3>4 DEF CodeOnce, FromGrant, Accepted
  <2>7. QED BY <2>5, <2>6 DEF CodeInv
<1>4. QED BY <1>2, <1>3 DEF VerifyCode

LEMMA StartKeepsCode ==
    ASSUME HostedInv, OnceInv, CodeInv, NEW c \in Call, Start(c)
    PROVE  CodeInv'
<1> PICK u \in Work : u = call[c]
  BY DEF HostedInv, CallsHold
<1>1. u.at = "start" /\ u.mail # None
  BY HostedAssumption DEF Start, At, HostedInv, CallsHold, Has, Confirming
<1> DEFINE from == [grant |-> u.mail.grant, by |-> u.by, request |-> u.request,
                    flow |-> u.seen.flow]
<1>2. PICK h \in Handle, place \in {"recheck", "issue", "reply"} :
          /\ Goes(c, [u EXCEPT !.handle = h, !.at = place])
          /\ origin' = [origin EXCEPT ![h] = from]
  BY DEF Start
<1> PICK w : w = [u EXCEPT !.handle = h, !.at = place]
  OBVIOUS
<1>3. w.at = place /\ w.mail = u.mail  BY DEF Work
<1>4. call' = [call EXCEPT ![c] = w]  BY <1>2 DEF Goes
<1>5. \A d \in Call : call'[d] = IF d = c THEN w ELSE call[d]
  BY <1>4 DEF HostedInv, CallsHold
<1>6. from.grant = u.mail.grant /\ from.by = u.by
  OBVIOUS
<1> HIDE DEF from
<1>7. \A k \in Handle : origin'[k] = IF k = h THEN from ELSE origin[k]
  BY <1>2 DEF HostedInv, StateHolds
<1>8. UNCHANGED <<mails, challenges>>  BY DEF Start, hostedButCall
<1>9. \A g : \A k \in Handle : FromGrant(k, g)' =>
         (k = h /\ g = u.mail.grant /\ origin'[k].by = u.by)
         \/ (FromGrant(k, g) /\ origin'[k] = origin[k])
  BY <1>6, <1>7 DEF FromGrant
<1>10. \A d \in Call : call'[d].mail = call[d].mail  BY <1>3, <1>5
<1>11. NewMail'
  <2>1. \A d \in Call : call'[d].at = "challenge" => d # c /\ call[d].at = "challenge"
    BY <1>3, <1>5
  <2>2. \A d \in Call : call[d].at = "challenge" /\ d # c =>
           call[d].mail.grant # u.mail.grant
    BY <1>1 DEF CodeInv, NewMail
  <2> SUFFICES ASSUME NEW d \in Call, call'[d].at = "challenge"
               PROVE  /\ \A m \in mails' \cup challenges' : m.grant # call'[d].mail.grant
                      /\ \A e \in Call : e # d /\ call'[e].mail # None =>
                            call'[e].mail.grant # call'[d].mail.grant
                      /\ \A k \in Handle : ~FromGrant(k, call[d].mail.grant)'
    BY DEF NewMail
  <2>3. call[d].at = "challenge" /\ call[d].mail.grant # u.mail.grant  BY <2>1, <2>2
  <2>4. \A k \in Handle : ~FromGrant(k, call[d].mail.grant)'
    <3> PICK g : g = call[d].mail.grant
      OBVIOUS
    <3>1. \A k \in Handle : ~FromGrant(k, g)'
      BY <1>9, <2>3 DEF CodeInv, NewMail
    <3>2. QED BY <1>10, <3>1 DEF FromGrant
  <2>5. QED BY <1>8, <1>10, <2>3, <2>4 DEF CodeInv, NewMail
<1>12. CodeOnce'
  <2>1. \A d \in Call : Accepted(call'[d]) => d # c /\ Accepted(call[d])
    BY <1>3, <1>5 DEF Accepted
  <2>2. u.by = "code" => Accepted(call[c])  BY <1>1 DEF Accepted
  <2>3. ASSUME NEW d \in Call, Accepted(call'[d]), NEW k \in Handle,
               FromGrant(k, call[d].mail.grant)'
        PROVE  origin'[k].by # "code"
    <3> PICK g : g = call[d].mail.grant
      OBVIOUS
    <3>1. FromGrant(k, g)'  BY <1>10, <2>3 DEF FromGrant
    <3>2. QED BY <1>9, <2>1, <2>2, <2>3, <3>1 DEF CodeInv, CodeOnce
  <2>4. ASSUME NEW k \in Handle, NEW m \in challenges, FromGrant(k, m.grant)'
        PROVE  origin'[k].by # "code"
    <3> PICK g : g = m.grant
      OBVIOUS
    <3>1. FromGrant(k, g)'  BY <2>4 DEF FromGrant
    <3>2. QED BY <1>9, <2>2, <3>1 DEF CodeInv, CodeOnce
  <2>5. QED BY <1>8, <1>10, <2>1, <2>3, <2>4 DEF CodeInv, CodeOnce, FromGrant, Accepted
<1>13. QED BY <1>11, <1>12 DEF CodeInv

LEMMA CodeInit == HostedInit => CodeInv
<1> SUFFICES ASSUME HostedInit PROVE CodeInv
  OBVIOUS
<1>1. /\ \A c \in Call : call[c].at = "idle"
      /\ \A h \in Handle : origin[h] = None
      /\ challenges = {}
  BY DEF HostedInit, Idle
<1>2. QED BY <1>1 DEF CodeInv, NewMail, CodeOnce, Accepted, FromGrant

LEMMA CodeNext == HostedInv /\ OnceInv /\ CodeInv /\ [HostedNext]_all => CodeInv'
<1> SUFFICES ASSUME HostedInv, OnceInv, CodeInv, [HostedNext]_all PROVE CodeInv'
  OBVIOUS
<1>1. CASE \/ UNCHANGED all \/ \E r \in SUBSET (Email \X Site) : Reload(r)
           \/ \E m \in mails, of \in Proof : Lapse(m.grant, of)
  <2>1. UNCHANGED <<call, mails, challenges, origin>>
    BY <1>1 DEF all, hostedButCall, traces, Reload, Lapse
  <2>2. QED BY <2>1 DEF CodeInv, NewMail, CodeOnce, FromGrant, Accepted
<1>2. ASSUME NEW c \in Call, NEW w \in Work, Quiet(c, w),
             call[c].at \notin {"bind", "otpVerify"}, challenges' \subseteq challenges,
             \A m \in mails' : m \in mails \/ (m = call[c].mail /\ m # None)
      PROVE  CodeInv'
  BY <1>2, KeptMailKeepsCode DEF Quiet
<1>3. ASSUME NEW c \in Call, Arrival(c) PROVE CodeInv'
  <2>1. UNCHANGED <<mails, challenges>> /\ call[c] = Idle
    BY <1>3 DEF Arrival, Authorize, SignIn, Confirm, Exchange, SignOut, Reading, Thinking,
                StoreOnly, hostedButCall, Arrives
  <2>2. call[c].at \notin {"bind", "otpVerify"}  BY <2>1 DEF Idle
  <2>3. QED BY <1>2, <1>3, <2>1, <2>2, ArrivalQuiet
<1>4. ASSUME NEW c \in Call, SignInStep(c) PROVE CodeInv'
  <2>1. CASE Bind(c)  BY <2>1, BindKeepsCode
  <2>2. CASE Challenge(c)  BY <2>2, ChallengeKeepsCode
  <2>3. CASE ReadSession(c) \/ SessionAllowed(c) \/ Create(c)
    <3>1. UNCHANGED <<mails, challenges>> /\ call[c].at \notin {"bind", "otpVerify"}
      BY <2>3 DEF ReadSession, SessionAllowed, Create, Reading, Thinking, StoreOnly,
                  hostedButCall, At
    <3>2. QED BY <1>2, <1>4, <3>1, SignInQuiet
  <2>4. CASE Send(c)
    <3>1. /\ mails' = mails \cup {call[c].mail} /\ UNCHANGED challenges
          /\ call[c].at \notin {"bind", "otpVerify"} /\ call[c].mail # None
      BY <2>4, HostedAssumption DEF Send, At, HostedInv, CallsHold, Has, Writing
    <3>2. QED BY <1>2, <1>4, <3>1, SignInQuiet
  <2>5. QED BY <1>4, <2>1, <2>2, <2>3, <2>4 DEF SignInStep
<1>5. ASSUME NEW c \in Call, ConfirmStep(c) PROVE CodeInv'
  <2>1. CASE VerifyCode(c)  BY <2>1, VerifyKeepsCode
  <2>2. CASE Start(c)  BY <2>2, StartKeepsCode
  <2>3. CASE ReadProof(c) \/ ReadBound(c) \/ ConfirmAllowed(c)
    <3>1. UNCHANGED <<mails, challenges>> /\ call[c].at \notin {"bind", "otpVerify"}
      BY <2>3 DEF ReadProof, ReadBound, ConfirmAllowed, Reading, Thinking, StoreOnly,
                  hostedButCall, At
    <3>2. QED BY <1>2, <2>3, <3>1, BeforeSpendQuiet
  <2>4. CASE Undo(c) \/ Reply(c)
    <3>1. UNCHANGED <<mails, challenges>> /\ call[c].at \notin {"bind", "otpVerify"}
      BY <2>4 DEF Undo, Reply, StoreOnly, hostedButCall, At
    <3>2. QED BY <1>2, <2>4, <3>1, EndingQuiet
  <2>5. CASE Spend(c) \/ Consume(c) \/ Recheck(c) \/ Replace(c)
    <3>1. UNCHANGED <<mails, challenges, origin>>
      BY <2>5 DEF Spend, Consume, Recheck, Replace, Thinking, StoreOnly, hostedButCall, traces
    <3>2. Ends(c) \/ \E place \in Place :
             /\ GoesTo(c, place)
             /\ place # "challenge" /\ place \notin {"rules", "spend"}
             /\ place \in Pending => call[c].at \in {"spend", "consume"}
      <4>1. {"consume", "start", "undo", "reply", "replace"} \subseteq Place  BY DEF Place
      <4>2. CASE Spend(c) \/ Consume(c)  BY <4>1, <4>2 DEF Spend, Consume, At
      <4>3. CASE Recheck(c) \/ Replace(c)  BY <4>1, <4>3 DEF Recheck, Replace, Pending
      <4>4. QED BY <2>5, <4>2, <4>3
    <3>3. \E w \in Work : call' = [call EXCEPT ![c] = w] /\ KeepsMail(c, w)
      BY <3>2, PlaceKeepsMail, EndKeepsMail
    <3>4. QED BY <3>1, <3>3, KeptMailKeepsCode
  <2>6. QED BY <1>5, <2>1, <2>2, <2>3, <2>4, <2>5 DEF ConfirmStep
<1>6. ASSUME NEW c \in Call, CodeOrTokenStep(c) PROVE CodeInv'
  <2>1. UNCHANGED <<mails, challenges>> /\ call[c].at \notin {"bind", "otpVerify"}
    BY <1>6 DEF CodeOrTokenStep, Issue, ReadIssued, Release, Redeem, RedeemedAllowed,
                ReleaseToken, Reading, Thinking, StoreOnly, hostedButCall, At
  <2>2. QED BY <1>2, <1>6, <2>1, CodeOrTokenQuiet
<1>7. ASSUME NEW c \in Call, SignOutStep(c) PROVE CodeInv'
  <2>1. UNCHANGED <<mails, challenges>> /\ call[c].at \notin {"bind", "otpVerify"}
    BY <1>7 DEF SignOutStep, EndSession, SignedOut, StoreOnly, hostedButCall, At
  <2>2. QED BY <1>2, <1>7, <2>1, EndingQuiet
<1>8. ASSUME NEW c \in Call, Vanish(c) PROVE CodeInv'
  <2>1. UNCHANGED <<mails, challenges, origin>>  BY <1>8 DEF Vanish, traces
  <2>2. QED BY <1>8, <2>1, EndKeepsMail, KeptMailKeepsCode DEF Vanish
<1>9. QED BY <1>1, <1>3, <1>4, <1>5, <1>6, <1>7, <1>8 DEF HostedNext

LEMMA OnceHolds == HostedSpec => [](HostedInv /\ OnceInv /\ CodeInv)
<1>1. QED BY HostedInitInv, HostedNextInv, OnceInit, CodeInit, OnceNext, CodeNext, PTL
          DEF HostedSpec

-----------------------------------------------------------------------------
(***************************************************************************)
(* The promises.                                                            *)
(***************************************************************************)
\* One mail signs in once, wherever the calls stand that use its link and its
\* code: never twice by the code, never by both before the code has expired, never
\* twice by the link before that has.  (finishVerification)
THEOREM OneMailOneSession == HostedSpec => []MailSignsInOnce
<1>1. OnceInv => MailSignsInOnce  BY DEF OnceInv, GrantInv
<1>2. QED BY <1>1, OnceHolds, PTL

\* A request of the launcher starts one session, however many mails were written
\* for it.  (finishVerification, consumeLauncherRequest)
THEOREM OneLaunchOneSession == HostedSpec => []LauncherRequestSignsInOnce
<1>1. ASSUME HostedInv, OnceInv PROVE LauncherRequestSignsInOnce
  <2> SUFFICES ASSUME NEW g \in Handle, NEW h \in Handle, origin[g] # None, origin[h] # None,
                      origin[g].flow = "launcher", origin[g].request = origin[h].request
               PROVE  g = h
    BY DEF LauncherRequestSignsInOnce
  <2>1. origin[g].request \in RequestId
    <3>1. origin[g] \in Origin  BY <1>1 DEF HostedInv, StateHolds
    <3>2. QED BY <3>1 DEF Origin
  <2>2. origin[h].flow = "launcher"
    BY <1>1 DEF OnceInv, FlowInv, KnownAs
  <2>3. QED BY <1>1, <2>1, <2>2 DEF OnceInv, LauncherInv, FromLauncher
<1>2. QED BY <1>1, OnceHolds, PTL

\* When the answer to a confirmation is under way, the session the browser came
\* with is over.  (finishVerification, finalizeLauncherSession)
THEOREM NobodyLeftBehind == HostedSpec => []NoIdentityLeftBehind
<1>1. ASSUME HostedInv, OnceInv, EndedStaysEnded PROVE NoIdentityLeftBehind
  <2>1. clock \in Sampled  BY <1>1, Now DEF HostedInv
  <2>2. \A c \in Call : call[c].at \in Replying /\ call[c].mail # None
                        /\ call[c].cookie # None => call[c].cookie \in ended
    BY <1>1 DEF OnceInv, AnswerInv
  <2>3. QED BY <1>1, <2>1, <2>2 DEF NoIdentityLeftBehind, EndedStaysEnded, IsActive, Replying
<1>2. QED BY <1>1, OnceHolds, RoutesUseTheStore, EndedForEver, PTL

-----------------------------------------------------------------------------
\* Codes come from issue only.
LEMMA OnlyIssueCreatesCodes ==
    ASSUME [HostedNext]_all, ~(\E c \in Call : Issue(c))
    PROVE  codes' \subseteq codes
<1>1. ASSUME NEW now, Prune(now) PROVE codes' \subseteq codes
  BY <1>1 DEF Prune, Alive
<1>2. CASE UNCHANGED vars  BY <1>2 DEF vars, tables
<1>3. CASE Prune(clock)  BY <1>1, <1>3
<1>4. ASSUME NEW id, NEW flow, NEW b, NEW a, CreateRequest(id, flow, b, a, clock)
      PROVE  codes' \subseteq codes
  BY <1>4 DEF CreateRequest, Alive
<1>5. ASSUME NEW id, NEW b, NEW g, BindGrant(id, b, g, clock)
      PROVE  codes' \subseteq codes
  BY <1>5 DEF BindGrant, Rebind, Alive
<1>6. ASSUME NEW id, NEW g, ConsumeLauncherRequest(id, g, clock)
      PROVE  codes' \subseteq codes
  BY <1>6 DEF ConsumeLauncherRequest, Alive
<1>7. ASSUME NEW h, NEW e, NEW p, CreateSession(h, e, p, clock)
      PROVE  codes' \subseteq codes
  BY <1>7 DEF CreateSession, Alive
<1>8. ASSUME NEW h, RevokeSession(h, clock)
      PROVE  codes' \subseteq codes
  BY <1>8 DEF RevokeSession, Alive
<1>9. ASSUME NEW k, NEW a, NEW e, RedeemCode(k, a, e, clock)
      PROVE  codes' \subseteq codes
  BY <1>9 DEF RedeemCode, Consumed, Alive
<1>10. ASSUME NEW h, NEW b, EndBrowserSession(h, b, clock)
       PROVE  codes' \subseteq codes
  BY <1>10 DEF EndBrowserSession, Alive
<1>11. ASSUME NEW c \in Call, Arrival(c) PROVE codes' \subseteq codes
  BY <1>2, <1>3, <1>11
     DEF Arrival, Authorize, SignIn, Confirm, Exchange, SignOut, Reading, Thinking
<1>12. ASSUME NEW c \in Call, SignInStep(c) PROVE codes' \subseteq codes
  BY <1>2, <1>3, <1>4, <1>5, <1>12
     DEF SignInStep, ReadSession, SessionAllowed, Create, Bind, Challenge, Send, Reading,
         Thinking
<1>13. ASSUME NEW c \in Call, ConfirmStep(c) PROVE codes' \subseteq codes
  BY <1>2, <1>3, <1>6, <1>7, <1>8, <1>13
     DEF ConfirmStep, ReadProof, ReadBound, VerifyCode, ConfirmAllowed, Spend, Consume,
         Start, Recheck, Undo, Replace, Reply, Reading, Thinking
<1>14. ASSUME NEW c \in Call, CodeOrTokenStep(c) PROVE codes' \subseteq codes
  BY <1>2, <1>3, <1>9, <1>14
     DEF CodeOrTokenStep, ReadIssued, Release, Redeem, RedeemedAllowed, ReleaseToken,
         Reading, Thinking
<1>15. ASSUME NEW c \in Call, SignOutStep(c) \/ Vanish(c) PROVE codes' \subseteq codes
  BY <1>2, <1>10, <1>15 DEF SignOutStep, EndSession, SignedOut, Vanish
<1>16. ASSUME NEW r, Reload(r) PROVE codes' \subseteq codes
  BY <1>2, <1>16 DEF Reload
<1>17. ASSUME NEW g, NEW of, Lapse(g, of) PROVE codes' \subseteq codes
  BY <1>2, <1>17 DEF Lapse
<1>18. CASE UNCHANGED all  BY <1>2, <1>18 DEF all
<1>19. QED BY <1>11, <1>12, <1>13, <1>14, <1>15, <1>16, <1>17, <1>18 DEF HostedNext

\* Once a mail was written for a request, only the session of its confirmation
\* completes it.  (finishVerification, issue, bindGrant)
THEOREM LatestMailCompletes == HostedSpec => CompletedByLatestMail
<1> DEFINE Step == \A x \in codes' \ codes, r \in requests :
                      r.id \in spent' \ spent /\ r.grant # None =>
                          origin[x.session] # None /\ origin[x.session].grant = r.grant
<1>1. ASSUME HostedInv, OnceInv, [HostedNext]_all PROVE Step
  <2> SUFFICES ASSUME NEW x \in codes' \ codes, NEW r \in requests,
                      r.id \in spent' \ spent, r.grant # None
               PROVE  origin[x.session] # None /\ origin[x.session].grant = r.grant
    OBVIOUS
  <2>1. PICK c \in Call : Issue(c)  BY <1>1, OnlyIssueCreatesCodes
  <2>2. PICK k \in Code :
           IssueCode(k, call[c].request, call[c].browser, call[c].handle, GrantOf(c), clock)
    BY <2>1 DEF Issue, Prune, history
  <2>3. PICK q \in Named(requests, call[c].request, clock) :
           /\ q.grant = GrantOf(c)
           /\ spent' = spent \cup {call[c].request}
           /\ \A y \in codes' : y \in codes \/ y.session = call[c].handle
    BY <2>2 DEF IssueCode, Issuable, Alive
  <2>4. q = r
    BY <1>1, <2>3 DEF Named, Alive, HostedInv, Inv, IInv, IdInv, UniqueIds
  <2>5. call[c].at = "issue" /\ call[c].mail # None /\ call[c].mail.grant = r.grant
    BY <2>1, <2>3, <2>4 DEF Issue, At, GrantOf
  <2>6. x.session = call[c].handle  BY <2>3
  <2>7. QED BY <1>1, <2>5, <2>6 DEF OnceInv, AnswerInv, FromGrant
<1>2. HostedInv /\ OnceInv /\ [HostedNext]_all => [Step]_all  BY <1>1
<1>3. QED BY <1>2, OnceHolds, PTL DEF CompletedByLatestMail, HostedSpec

-----------------------------------------------------------------------------
(***************************************************************************)
(* What is released is allowed by the rules of that moment.  The handler    *)
(* asks the rules about what it remembers, and releases what the store      *)
(* holds: for every call under way the two have to agree, whatever other    *)
(* calls do to the store between its waits.                                 *)
(***************************************************************************)
RequestFits(w) ==
    w.seen # None \/ w.at = "issue" =>
        /\ w.request \in minted
        /\ \A r \in requests : r.id = w.request => r.app = AppOf(w)

CodeFits(w) ==
    w.at \in {"issued", "release"} =>
        /\ w.code \in minted
        /\ \A x \in codes : x.id = w.code => x.app = AppOf(w) /\ x.session = w.handle

SessionFits(w) ==
    w.at = "release" =>
        /\ w.handle \in minted
        /\ \A s \in sessions : s.id = w.handle => s.email = w.email

Asking == {"session", "sessionRules", "create"}

WorkFits(w) ==
    /\ w.at \in Asking => w.seen = None
    /\ RequestFits(w) /\ CodeFits(w) /\ SessionFits(w)

ReleaseInv == \A c \in Call : WorkFits(call[c])

\* What the store says of an identifier it has created, it says for ever.
Said ==
    /\ minted \subseteq minted'
    /\ \A r \in requests' :
          r.id \notin minted \/ \E q \in requests : q.id = r.id /\ q.app = r.app
    /\ \A x \in codes' : x.id \notin minted \/ x \in codes
    /\ \A s \in sessions' : s.id \notin minted \/ s \in sessions

LEMMA SaidForEver == Inv /\ [Next]_vars => Said
<1> SUFFICES ASSUME Inv, [Next]_vars PROVE Said
  OBVIOUS
<1>1. CASE UNCHANGED vars  BY <1>1 DEF vars, tables, history, Said
<1>2. CASE Tick  BY <1>2 DEF Tick, tables, history, Said
<1>3. ASSUME NEW now \in Sampled, SessionStep(now) PROVE Said
  BY <1>3 DEF SessionStep, CreateSession, RevokeSession, EndBrowserSession, Alive, Said
<1>4. ASSUME NEW now \in Sampled, RequestStep(now) PROVE Said
  <2>1. ASSUME NEW id \in RequestId, NEW flow \in Flow, NEW b \in Browser, NEW a \in App,
               CreateRequest(id, flow, b, a, now)
        PROVE  Said
    BY <2>1 DEF CreateRequest, Alive, Said
  <2>2. ASSUME NEW r \in Alive(requests, now), NEW g \in Grant, Rebind(r, g, now)
        PROVE  Said
    <3>1. r \in Request /\ r \in requests  BY DEF Alive, Inv, TypeOK
    <3>2. WithGrant(r, g).id = r.id /\ WithGrant(r, g).app = r.app
      BY <3>1 DEF WithGrant, Request
    <3>3. QED BY <2>2, <3>1, <3>2 DEF Rebind, Alive, history, Said
  <2>3. ASSUME NEW id \in RequestId, NEW g \in Grant, ConsumeLauncherRequest(id, g, now)
        PROVE  Said
    BY <2>3 DEF ConsumeLauncherRequest, Consumed, Alive, Said
  <2>4. QED BY <1>4, <2>1, <2>2, <2>3 DEF RequestStep, BindGrant, BindBootstrapGrant, Named
<1>5. ASSUME NEW now \in Sampled, CodeStep(now) PROVE Said
  BY <1>5 DEF CodeStep, IssueCode, RedeemCode, Consumed, Alive, Said
<1>6. ASSUME NEW now \in Sampled, BootstrapStep(now) PROVE Said
  <2>1. ASSUME NEW t, NEW id, NEW a, NEW g, NEW e, IssueBootstrapTicket(t, id, a, g, e, now)
        PROVE  Said
    BY <2>1 DEF IssueBootstrapTicket, Consumed, Alive, Said
  <2>2. ASSUME NEW t, NEW a, NEW b, NEW prev, NEW confirmed, NEW h,
               RedeemBootstrapTicket(t, a, b, prev, confirmed, h, now)
        PROVE  Said
    BY <2>2 DEF RedeemBootstrapTicket, Alive, Said
  <2>3. QED BY <1>6, <2>1, <2>2 DEF BootstrapStep
<1>7. ASSUME NEW now \in Sampled, Prune(now) PROVE Said
  BY <1>7 DEF Prune, Alive, history, Said
<1>8. CASE Next
  BY <1>2, <1>3, <1>4, <1>5, <1>6, <1>7, <1>8 DEF Next
<1>9. QED BY <1>1, <1>8

\* So what fitted goes on fitting while other calls are served.
LEMMA FitsOn ==
    ASSUME NEW w \in Work, WorkFits(w), Said
    PROVE  WorkFits(w)'
<1>1. RequestFits(w)'  BY DEF WorkFits, RequestFits, AppOf, Said
<1>2. CodeFits(w)'  BY DEF WorkFits, CodeFits, AppOf, Said
<1>3. SessionFits(w)'  BY DEF WorkFits, SessionFits, Said
<1>4. QED BY <1>1, <1>2, <1>3 DEF WorkFits

LEMMA OneCallFits ==
    ASSUME HostedInv, ReleaseInv, Said, NEW c \in Call, NEW w \in Work,
           call' = [call EXCEPT ![c] = w], WorkFits(w)'
    PROVE  ReleaseInv'
<1> SUFFICES ASSUME NEW d \in Call PROVE WorkFits(call[d])'
  BY DEF ReleaseInv
<1>1. CASE d = c
  <2>1. call'[d] = w  BY <1>1 DEF HostedInv, CallsHold
  <2>2. QED BY <2>1 DEF WorkFits, RequestFits, CodeFits, SessionFits, AppOf
<1>2. CASE d # c
  <2> PICK u \in Work : u = call[d]
    BY DEF HostedInv, CallsHold
  <2>1. WorkFits(u)  BY DEF ReleaseInv
  <2>2. WorkFits(u)'  BY <2>1, FitsOn
  <2>3. call'[d] = u  BY <1>2 DEF HostedInv, CallsHold
  <2>4. QED BY <2>2, <2>3 DEF WorkFits, RequestFits, CodeFits, SessionFits, AppOf
<1>3. QED BY <1>1, <1>2

\* A call that is neither about to make out a code nor about to release one.
Plain == Place \ (Asking \cup Releasing)

LEMMA PlainFits ==
    ASSUME HostedInv, ReleaseInv, Said, NEW c \in Call, NEW w \in Work,
           call' = [call EXCEPT ![c] = w], w.at \in Plain,
           w.seen = None \/ (w.seen = call[c].seen /\ w.request = call[c].request)
    PROVE  ReleaseInv'
<1>1. WorkFits(w)'
  <2>1. w.at \notin Asking \cup {"issue", "issued", "release"}  BY DEF Plain, Releasing
  <2>2. RequestFits(call[c])  BY DEF ReleaseInv, WorkFits
  <2>3. RequestFits(w)'
    BY <2>1, <2>2 DEF RequestFits, AppOf, Said
  <2>4. QED BY <2>1, <2>3 DEF WorkFits, CodeFits, SessionFits
<1>2. QED BY <1>1, OneCallFits

LEMMA MoveFits ==
    ASSUME HostedInv, ReleaseInv, Said, NEW c \in Call, NEW place \in Plain, GoesTo(c, place)
    PROVE  ReleaseInv'
<1> PICK u \in Work : u = call[c]
  BY DEF HostedInv, CallsHold
<1> PICK w : w = [u EXCEPT !.at = place]
  OBVIOUS
<1>1. w \in Work /\ w.at = place /\ w.seen = call[c].seen /\ w.request = call[c].request
  BY AtPlace DEF Plain
<1>2. call' = [call EXCEPT ![c] = w]  BY DEF GoesTo
<1>3. QED BY <1>1, <1>2, PlainFits

LEMMA EndFits ==
    ASSUME HostedInv, ReleaseInv, Said, NEW c \in Call, Ends(c)
    PROVE  ReleaseInv'
<1>1. Idle \in Work /\ Idle.seen = None /\ Idle.at \in Plain
  BY IdleHas DEF Idle, Plain, Place, Asking, Releasing
<1>2. QED BY <1>1, PlainFits DEF Ends

LEMMA PlainPlaces ==
    {"challenge", "send", "rules", "spend", "consume", "start", "recheck", "replace", "undo",
     "reply", "otpVerify", "redeemed", "signed", "signedOut", "bind", "redeem", "signout",
     "verifyRead", "otpRead"} \subseteq Plain
BY DEF Plain, Place, Asking, Releasing

\* A request that was just read stands for every record of its name.
LEMMA ReadFits ==
    ASSUME HostedInv, HostedInv', ReleaseInv, Said, NEW c \in Call,
           NEW place \in {"rules", "otpVerify"}, Reading,
           NEW r \in Named(requests, call[c].request, clock),
           Goes(c, [call[c] EXCEPT !.at = place, !.seen = r])
    PROVE  ReleaseInv'
<1> PICK u \in Work : u = call[c]
  BY DEF HostedInv, CallsHold
<1> PICK w : w = [u EXCEPT !.at = place, !.seen = r]
  OBVIOUS
<1>1. r \in requests /\ r \in Request /\ r.id = u.request
  BY DEF Named, Alive, HostedInv, Inv, TypeOK
<1>2. place \in Place /\ place \in Plain  BY PlainPlaces DEF Plain
<1>3. w \in Work /\ w.at = place /\ w.seen = r /\ w.request = u.request
  BY <1>1, <1>2 DEF Work
<1>4. requests' \subseteq requests  BY DEF Reading, Prune, Alive
<1>5. w.request \in minted'
  BY <1>1, <1>3 DEF HostedInv, Inv, IInv, MintedInv, Said
<1>6. RequestFits(w)'
  <2>1. r # None  BY <1>1, HostedAssumption
  <2>2. AppOf(w) = r.app  BY <1>3, <2>1 DEF AppOf
  <2>3. ASSUME NEW q \in requests', q.id = w.request PROVE q = r
    BY <1>1, <1>3, <1>4, <2>3 DEF HostedInv, Inv, IInv, IdInv, UniqueIds
  <2>4. QED BY <1>5, <2>2, <2>3 DEF RequestFits, AppOf
<1>7. WorkFits(w)'
  BY <1>2, <1>3, <1>6 DEF WorkFits, CodeFits, SessionFits, Plain, Releasing
<1>8. call' = [call EXCEPT ![c] = w]  BY DEF Goes
<1>9. QED BY <1>3, <1>7, <1>8, OneCallFits

LEMMA ArrivalFits ==
    ASSUME HostedInv, ReleaseInv, Said, NEW c \in Call, Arrival(c)
    PROVE  ReleaseInv'
<1>1. ASSUME NEW w \in Work, call' = [call EXCEPT ![c] = w], w.seen = None,
             w.at \in Plain \cup Asking
      PROVE  ReleaseInv'
  <2>1. w.at \notin {"issue", "issued", "release"}
    BY <1>1 DEF Plain, Asking, Releasing
  <2>2. WorkFits(w)'  BY <1>1, <2>1 DEF WorkFits, RequestFits, CodeFits, SessionFits
  <2>3. QED BY <1>1, <2>2, OneCallFits
<1>2. PICK w \in Work : /\ call' = [call EXCEPT ![c] = w] /\ w.seen = None
                        /\ w.at \in Plain \cup Asking
  BY ArrivingAs, PlainPlaces DEF Asking
<1>3. QED BY <1>1, <1>2

LEMMA SignInFits ==
    ASSUME HostedInv, HostedInv', ReleaseInv, Said, NEW c \in Call, SignInStep(c)
    PROVE  ReleaseInv'
<1> PICK u \in Work : u = call[c]
  BY DEF HostedInv, CallsHold
<1>1. WorkFits(u)  BY DEF ReleaseInv
<1>2. ASSUME NEW w \in Work, call' = [call EXCEPT ![c] = w], w.at \in Asking, w.seen = None
      PROVE  ReleaseInv'
  <2>1. WorkFits(w)'  BY <1>2 DEF WorkFits, RequestFits, CodeFits, SessionFits, Asking
  <2>2. QED BY <1>2, <2>1, OneCallFits
<1>3. ASSUME GoesTo(c, "create"), u.at \in Asking PROVE ReleaseInv'
  <2> PICK w : w = [u EXCEPT !.at = "create"]
    OBVIOUS
  <2>1. "create" \in Place /\ u.seen = None  BY <1>1, <1>3 DEF Place, WorkFits
  <2>2. w \in Work /\ w.at = "create" /\ w.seen = None  BY <2>1, AtPlace
  <2>3. call' = [call EXCEPT ![c] = w]  BY <1>3 DEF GoesTo
  <2>4. QED BY <1>2, <2>2, <2>3 DEF Asking
<1>4. CASE ReadSession(c)
  <2>1. ASSUME NEW s \in ActiveSessions(call[c].cookie, clock),
               Goes(c, [call[c] EXCEPT !.at = "sessionRules", !.handle = s.id,
                                       !.email = s.email])
        PROVE  ReleaseInv'
    <3>1. s \in Session
      BY DEF ActiveSessions, Named, Alive, HostedInv, Inv, TypeOK
    <3>2. s.id \in Handle /\ s.email \in Email /\ "sessionRules" \in Place
      BY <3>1 DEF Session, Place
    <3> PICK w : w = [u EXCEPT !.at = "sessionRules", !.handle = s.id, !.email = s.email]
      OBVIOUS
    <3>3. w \in Work /\ w.at = "sessionRules" /\ w.seen = u.seen
      BY <3>2 DEF Work
    <3>4. u.seen = None  BY <1>1, <1>4 DEF ReadSession, At, WorkFits, Asking
    <3>5. call' = [call EXCEPT ![c] = w]  BY <2>1 DEF Goes
    <3>6. QED BY <1>2, <3>3, <3>4, <3>5 DEF Asking
  <2>2. QED BY <1>3, <1>4, <2>1 DEF ReadSession, At, Asking
<1>5. CASE SessionAllowed(c)
  BY <1>3, <1>5, EndFits DEF SessionAllowed, At, Asking
<1>6. CASE Create(c)
  <2>1. ASSUME NEW id \in RequestId, NEW flow,
               CreateRequest(id, flow, u.browser, u.app, clock),
               Goes(c, [call[c] EXCEPT !.at = "issue", !.request = id])
        PROVE  ReleaseInv'
    <3>1. u.seen = None  BY <1>1, <1>6 DEF Create, At, WorkFits, Asking
    <3> "issue" \in Place  BY DEF Place
    <3> PICK w : w = [u EXCEPT !.at = "issue", !.request = id]
      OBVIOUS
    <3>2. w \in Work /\ w.at = "issue" /\ w.request = id /\ w.seen = u.seen /\ w.app = u.app
      BY DEF Work
    <3>3. id \in minted' /\ id \notin minted
          /\ \A r \in requests' : r \in requests \/ r.app = u.app
      BY <2>1 DEF CreateRequest, Alive
    <3>4. \A r \in requests : r.id # id
      BY <3>3 DEF HostedInv, Inv, IInv, MintedInv
    <3>5. WorkFits(w)'
      BY <3>1, <3>2, <3>3, <3>4
         DEF WorkFits, RequestFits, CodeFits, SessionFits, AppOf, Asking
    <3>6. call' = [call EXCEPT ![c] = w]  BY <2>1 DEF Goes
    <3>7. QED BY <3>2, <3>5, <3>6, OneCallFits
  <2>2. QED BY <1>6, <2>1, EndFits DEF Create
<1>7. CASE Bind(c)
  <2>1. ASSUME NEW g \in Grant,
               Goes(c, [call[c] EXCEPT !.at = "challenge",
                   !.mail = [grant |-> g, request |-> call[c].request,
                             email |-> call[c].email]])
        PROVE  ReleaseInv'
    <3>1. u.request \in RequestId /\ u.email \in Email /\ "challenge" \in Place
      BY <1>7 DEF Bind, At, HostedInv, CallsHold, Has, Place
    <3> PICK m : m = [grant |-> g, request |-> u.request, email |-> u.email]
      OBVIOUS
    <3> PICK w : w = [u EXCEPT !.at = "challenge", !.mail = m]
      OBVIOUS
    <3>2. m \in Mail  BY <3>1 DEF Mail
    <3>3. w \in Work /\ w.at = "challenge" /\ w.seen = u.seen /\ w.request = u.request
      BY <3>1, <3>2 DEF Work
    <3>4. call' = [call EXCEPT ![c] = w]  BY <2>1 DEF Goes
    <3>5. QED BY <3>3, <3>4, PlainFits, PlainPlaces
  <2>2. QED BY <1>7, <2>1, EndFits DEF Bind
<1>8. CASE Challenge(c)  BY <1>8, MoveFits, PlainPlaces DEF Challenge
<1>9. CASE Send(c)  BY <1>9, EndFits DEF Send
<1>10. QED BY <1>4, <1>5, <1>6, <1>7, <1>8, <1>9 DEF SignInStep

LEMMA ConfirmFits ==
    ASSUME HostedInv, HostedInv', ReleaseInv, Said, NEW c \in Call, ConfirmStep(c)
    PROVE  ReleaseInv'
<1>1. CASE ReadProof(c)
  BY <1>1, ReadFits, EndFits DEF ReadProof
<1>2. CASE ReadBound(c)
  <2>1. \A r \in Bound(call[c].request, call[c].browser) :
            r \in Named(requests, call[c].request, clock)
    BY DEF Bound
  <2>2. QED BY <1>2, <2>1, ReadFits, EndFits DEF ReadBound
<1>3. CASE VerifyCode(c)  BY <1>3, MoveFits, EndFits, PlainPlaces DEF VerifyCode
<1>4. CASE ConfirmAllowed(c)  BY <1>4, MoveFits, EndFits, PlainPlaces DEF ConfirmAllowed
<1>5. CASE Spend(c)
  <2>1. GoesTo(c, "consume") \/ GoesTo(c, "start") \/ Ends(c)  BY <1>5 DEF Spend
  <2>2. QED BY <2>1, MoveFits, EndFits, PlainPlaces
<1>6. CASE Consume(c)  BY <1>6, MoveFits, EndFits, PlainPlaces DEF Consume
<1>7. CASE Start(c)
  <2> PICK u \in Work : u = call[c]
    BY DEF HostedInv, CallsHold
  <2>1. PICK h \in Handle, place \in {"recheck", "issue", "reply"} :
             Goes(c, [call[c] EXCEPT !.handle = h, !.at = place])
    BY <1>7 DEF Start
  <2> PICK w : w = [u EXCEPT !.handle = h, !.at = place]
    OBVIOUS
  <2>2. place \in Place  BY DEF Place
  <2>3. w \in Work /\ w.at = place /\ w.seen = u.seen /\ w.request = u.request
    BY <2>2 DEF Work
  <2>4. u.seen # None
    BY <1>7, HostedAssumption DEF Start, At, HostedInv, CallsHold, Has, Confirming
  <2>5. WorkFits(w)'
    <3>1. RequestFits(u)  BY DEF ReleaseInv, WorkFits
    <3>2. RequestFits(w)'  BY <2>3, <2>4, <3>1 DEF RequestFits, AppOf, Said
    <3>3. QED BY <2>3, <3>2 DEF WorkFits, CodeFits, SessionFits, Asking
  <2>6. call' = [call EXCEPT ![c] = w]  BY <2>1 DEF Goes
  <2>7. QED BY <2>3, <2>5, <2>6, OneCallFits
<1>8. CASE Recheck(c)
  <2>1. GoesTo(c, "undo") \/ GoesTo(c, "reply") \/ GoesTo(c, "replace")  BY <1>8 DEF Recheck
  <2>2. QED BY <2>1, MoveFits, PlainPlaces
<1>9. CASE Replace(c)  BY <1>9, MoveFits, PlainPlaces DEF Replace
<1>10. CASE Undo(c) \/ Reply(c)  BY <1>10, EndFits DEF Undo, Reply
<1>11. QED BY <1>1, <1>2, <1>3, <1>4, <1>5, <1>6, <1>7, <1>8, <1>9, <1>10 DEF ConfirmStep

LEMMA CodeOrTokenFits ==
    ASSUME HostedInv, HostedInv', ReleaseInv, Said, NEW c \in Call, CodeOrTokenStep(c)
    PROVE  ReleaseInv'
<1> PICK u \in Work : u = call[c]
  BY DEF HostedInv, CallsHold
<1>1. WorkFits(u)  BY DEF ReleaseInv
<1>2. CASE Issue(c)
  <2>1. ASSUME NEW k \in Code,
               IssueCode(k, u.request, u.browser, u.handle, GrantOf(c), clock),
               Goes(c, [call[c] EXCEPT !.at = "issued", !.code = k])
        PROVE  ReleaseInv'
    <3>1. PICK r \in requests, s \in sessions :
              /\ r.id = u.request /\ k \notin minted /\ k \in minted'
              /\ codes' = Alive(codes, clock) \cup
                     {[id |-> k, session |-> u.handle, app |-> r.app,
                       expiresAt |-> CodeDeadline(s, clock)]}
      BY <2>1 DEF IssueCode, ActiveSessions, Named, Alive
    <3>2. RequestFits(u) /\ u.at = "issue"  BY <1>1, <1>2 DEF WorkFits, Issue, At
    <3>3. r.app = AppOf(u)  BY <3>1, <3>2 DEF RequestFits
    <3>4. \A x \in codes : x.id # k
      BY <3>1 DEF HostedInv, Inv, IInv, MintedInv
    <3>5. \A x \in codes' : x.id = k => x.app = AppOf(u) /\ x.session = u.handle
      BY <3>1, <3>3, <3>4 DEF Alive
    <3> PICK w : w = [u EXCEPT !.at = "issued", !.code = k]
      OBVIOUS
    <3>6. "issued" \in Place  BY DEF Place
    <3>7. /\ w \in Work /\ w.at = "issued" /\ w.code = k /\ w.seen = u.seen /\ w.app = u.app
          /\ w.request = u.request /\ w.handle = u.handle
      BY <3>6 DEF Work
    <3>8. RequestFits(w)'  BY <3>2, <3>7 DEF RequestFits, AppOf, Said
    <3>9. CodeFits(w)'  BY <3>1, <3>5, <3>7 DEF CodeFits, AppOf
    <3>10. WorkFits(w)'  BY <3>7, <3>8, <3>9 DEF WorkFits, SessionFits, Asking
    <3>11. call' = [call EXCEPT ![c] = w]  BY <2>1 DEF Goes
    <3>12. QED BY <3>7, <3>10, <3>11, OneCallFits
  <2>2. QED BY <1>2, <2>1, MoveFits, PlainPlaces DEF Issue
<1>3. CASE ReadIssued(c)
  <2>1. ASSUME NEW s \in ActiveSessions(u.handle, clock),
               Goes(c, [call[c] EXCEPT !.at = "release", !.email = s.email])
        PROVE  ReleaseInv'
    <3>1. s \in sessions /\ s \in Session /\ s.id = u.handle /\ s.email \in Email
      BY DEF ActiveSessions, Named, Alive, HostedInv, Inv, TypeOK, Session
    <3>2. sessions' \subseteq sessions  BY <1>3 DEF ReadIssued, Reading, Prune, Alive
    <3>3. \A t \in sessions' : t.id = u.handle => t.email = s.email
      BY <3>1, <3>2 DEF HostedInv, Inv, IInv, IdInv, UniqueIds
    <3>4. u.handle \in minted'  BY <3>1 DEF HostedInv, Inv, IInv, MintedInv, Said
    <3> PICK w : w = [u EXCEPT !.at = "release", !.email = s.email]
      OBVIOUS
    <3>5. "release" \in Place  BY DEF Place
    <3>6. /\ w \in Work /\ w.at = "release" /\ w.email = s.email /\ w.code = u.code
          /\ w.seen = u.seen /\ w.app = u.app /\ w.request = u.request /\ w.handle = u.handle
      BY <3>1, <3>5 DEF Work
    <3>7. u.at = "issued" /\ RequestFits(u) /\ CodeFits(u)
      BY <1>1, <1>3 DEF ReadIssued, At, WorkFits
    <3>8. RequestFits(w)'  BY <3>6, <3>7 DEF RequestFits, AppOf, Said
    <3>9. CodeFits(w)'  BY <3>6, <3>7 DEF CodeFits, AppOf, Said
    <3>10. SessionFits(w)'  BY <3>3, <3>4, <3>6 DEF SessionFits
    <3>11. WorkFits(w)'  BY <3>6, <3>8, <3>9, <3>10 DEF WorkFits, Asking
    <3>12. call' = [call EXCEPT ![c] = w]  BY <2>1 DEF Goes
    <3>13. QED BY <3>6, <3>11, <3>12, OneCallFits
  <2>2. QED BY <1>3, <2>1, MoveFits, PlainPlaces DEF ReadIssued
<1>4. CASE Release(c) \/ ReleaseToken(c)  BY <1>4, EndFits DEF Release, ReleaseToken
<1>5. CASE Redeem(c) \/ RedeemedAllowed(c)
  BY <1>5, MoveFits, EndFits, PlainPlaces DEF Redeem, RedeemedAllowed
<1>6. QED BY <1>2, <1>3, <1>4, <1>5 DEF CodeOrTokenStep

LEMMA ReleaseInit == HostedInit => ReleaseInv
<1>1. Idle.seen = None /\ Idle.at = "idle"  BY DEF Idle
<1>2. QED BY <1>1 DEF HostedInit, ReleaseInv, WorkFits, RequestFits, CodeFits, SessionFits, Asking

LEMMA ReleaseNext == HostedInv /\ ReleaseInv /\ [HostedNext]_all => ReleaseInv'
<1> SUFFICES ASSUME HostedInv, ReleaseInv, [HostedNext]_all PROVE ReleaseInv'
  OBVIOUS
<1>1. HostedInv' /\ Said  BY HostedNextInv, SaidForEver DEF HostedInv
<1>2. ASSUME UNCHANGED <<call, vars>> PROVE ReleaseInv'
  BY <1>2 DEF vars, tables, history, ReleaseInv, WorkFits, RequestFits, CodeFits, SessionFits,
              AppOf
<1>3. CASE UNCHANGED all  BY <1>2, <1>3 DEF all
<1>4. CASE \/ \E r \in SUBSET (Email \X Site) : Reload(r)
           \/ \E m \in mails, of \in Proof : Lapse(m.grant, of)
  BY <1>2, <1>4 DEF Reload, Lapse
<1>5. ASSUME NEW c \in Call, SignOutStep(c) \/ Vanish(c) PROVE ReleaseInv'
  BY <1>1, <1>5, MoveFits, EndFits, PlainPlaces DEF SignOutStep, EndSession, SignedOut, Vanish
<1>6. CASE \E c \in Call : \/ Arrival(c) \/ SignInStep(c) \/ ConfirmStep(c)
                           \/ CodeOrTokenStep(c)
  BY <1>1, <1>6, ArrivalFits, SignInFits, ConfirmFits, CodeOrTokenFits
<1>7. QED BY <1>3, <1>4, <1>5, <1>6 DEF HostedNext

LEMMA ReleaseHolds == HostedSpec => [](HostedInv /\ ReleaseInv)
<1>1. QED BY HostedInitInv, HostedNextInv, ReleaseInit, ReleaseNext, PTL DEF HostedSpec

\* Nothing else hands out a code or a token.
LEMMA OnlyReleaseDelivers ==
    ASSUME [HostedNext]_all, ~(\E c \in Call : Release(c) \/ ReleaseToken(c))
    PROVE  UNCHANGED <<delivered, tokens>>
<1>1. ASSUME NEW c \in Call, Arrival(c) PROVE UNCHANGED <<delivered, tokens>>
  BY <1>1 DEF Arrival, Authorize, SignIn, Confirm, Exchange, SignOut, Reading, Thinking,
              StoreOnly, traces
<1>2. ASSUME NEW c \in Call, SignInStep(c) PROVE UNCHANGED <<delivered, tokens>>
  BY <1>2 DEF SignInStep, ReadSession, SessionAllowed, Create, Bind, Challenge, Send, Reading,
              Thinking, StoreOnly, traces
<1>3. ASSUME NEW c \in Call, ConfirmStep(c) PROVE UNCHANGED <<delivered, tokens>>
  BY <1>3 DEF ConfirmStep, ReadProof, ReadBound, VerifyCode, ConfirmAllowed, Spend, Consume,
              Start, Recheck, Undo, Replace, Reply, Reading, Thinking, StoreOnly, traces
<1>4. ASSUME NEW c \in Call, CodeOrTokenStep(c) PROVE UNCHANGED <<delivered, tokens>>
  BY <1>4 DEF CodeOrTokenStep, Issue, ReadIssued, Redeem, RedeemedAllowed, Reading, Thinking,
              StoreOnly, traces
<1>5. ASSUME NEW c \in Call, SignOutStep(c) \/ Vanish(c)
      PROVE  UNCHANGED <<delivered, tokens>>
  BY <1>5 DEF SignOutStep, EndSession, SignedOut, Vanish, StoreOnly, traces
<1>6. ASSUME NEW r, Reload(r) PROVE UNCHANGED <<delivered, tokens>>
  BY <1>6 DEF Reload, traces
<1>7. ASSUME NEW g, NEW of, Lapse(g, of) PROVE UNCHANGED <<delivered, tokens>>
  BY <1>7 DEF Lapse, traces
<1>8. CASE UNCHANGED all  BY <1>8 DEF all, traces
<1>9. QED BY <1>1, <1>2, <1>3, <1>4, <1>5, <1>6, <1>7, <1>8 DEF HostedNext

\* Whatever happens to the store and to the rules while the handlers wait, a code
\* reaches a browser, and a token an application, only when the rules of that
\* moment allow the person of its session into the application it was made out
\* for.  (issue, POST /sso/exchange)
THEOREM ReleasedByTheRules == HostedSpec => NothingReleasedAgainstTheRules
<1> DEFINE Step ==
        /\ \A t \in tokens' \ tokens : <<t.email, t.app>> \in rules
        /\ \A d \in delivered' \ delivered, x \in codes, s \in sessions :
              x.id = d.code /\ s.id = x.session => <<s.email, x.app>> \in rules
<1>1. ASSUME HostedInv, ReleaseInv, [HostedNext]_all PROVE Step
  <2>1. ASSUME NEW t \in tokens' \ tokens PROVE <<t.email, t.app>> \in rules
    <3>1. PICK c \in Call : Release(c) \/ ReleaseToken(c)  BY <1>1, <2>1, OnlyReleaseDelivers
    <3>2. ReleaseToken(c)  BY <2>1, <3>1 DEF Release
    <3>3. QED BY <2>1, <3>2 DEF ReleaseToken, StillAllowed
  <2>2. ASSUME NEW d \in delivered' \ delivered, NEW x \in codes, NEW s \in sessions,
               x.id = d.code, s.id = x.session
        PROVE  <<s.email, x.app>> \in rules
    <3>1. PICK c \in Call : Release(c) \/ ReleaseToken(c)  BY <1>1, <2>2, OnlyReleaseDelivers
    <3>2. Release(c)  BY <2>2, <3>1 DEF ReleaseToken
    <3>3. /\ <<call[c].email, AppOf(call[c])>> \in rules
          /\ d.code = call[c].code /\ call[c].at = "release"
      BY <2>2, <3>2 DEF Release, StillAllowed, At
    <3>4. WorkFits(call[c])  BY <1>1 DEF ReleaseInv
    <3>5. x.app = AppOf(call[c]) /\ x.session = call[c].handle
      BY <2>2, <3>3, <3>4 DEF WorkFits, CodeFits
    <3>6. s.email = call[c].email
      BY <2>2, <3>3, <3>4, <3>5 DEF WorkFits, SessionFits
    <3>7. QED BY <3>3, <3>5, <3>6
  <2>3. QED BY <2>1, <2>2
<1>2. HostedInv /\ ReleaseInv /\ [HostedNext]_all => [Step]_all  BY <1>1
<1>3. QED BY <1>2, ReleaseHolds, PTL DEF NothingReleasedAgainstTheRules, HostedSpec

=============================================================================

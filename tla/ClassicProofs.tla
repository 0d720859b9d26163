------------------------------ MODULE ClassicProofs ------------------------------
(* The classic e-mail sign-in.  At the server (EmailGrant): for any number of sign-in
   requests, contexts and calls in flight, any lifetimes and any number of attempts.
   At the applications (ClassicClient): for any number of browsers, tabs, mails and
   addresses, any limits, and every integration. *)
EXTENDS EmailGrant, ClassicClient, TLAPS


\* Challenges exist only for tokens that were signed, ...
Signed == \A c \in challenges : \E t \in tokens : t.jti = c.jti

\* ... and nothing has been tried with the code of a token that was not.
Untried == \A j \in Jti : Fresh(j) => accepted[j] = 0 /\ wrong[j] = 0

\* A stored challenge was never accepted, and its attempts are what wrong codes left.
Budget == \A c \in challenges :
              accepted[c.jti] = 0 /\ wrong[c.jti] + c.attempts <= Attempts

\* The replay store keeps what it promised to keep.
Keeps == \A j \in Jti : spends[j] > 0 /\ clock < kept[j] =>
             \E m \in markers : m.jti = j /\ m.expiresAt = kept[j]

\* Typing, part by part; a name for each that steps can cite.
TokenType == tokens \subseteq Token /\ challenges \subseteq ChallengeRecord
                 /\ checked \subseteq Checked /\ markers \subseteq Marker
HistoryType == /\ clock \in Nat
               /\ spends \in [Jti -> Nat] /\ kept \in [Jti -> Nat]
               /\ accepted \in [Jti -> Nat] /\ wrong \in [Jti -> Nat]
OnePerJti == \A a, b \in challenges : a.jti = b.jti => a = b

CodeInv == Signed /\ Untried /\ Budget /\ OnePerJti /\ CodeAcceptedOnce /\ GuessesBounded
IInv == TokenType /\ HistoryType /\ CodeInv /\ Keeps

-----------------------------------------------------------------------------
\* The least of two numbers is one of them.
LEMMA MinOfTwo == ASSUME NEW a \in Nat, NEW b \in Nat
                  PROVE  Min({a, b}) \in Nat
<1>1. \E x \in {a, b} : \A y \in {a, b} : x <= y
  <2>1. CASE a <= b
    BY <2>1
  <2>2. CASE ~(a <= b)
    BY <2>2
  <2> QED BY <2>1, <2>2
<1>2. Min({a, b}) \in {a, b}
  BY <1>1 DEF Min
<1> QED BY <1>2

LEMMA NewChallengeType ==
    ASSUME NEW x \in Context, NEW j \in Jti, clock \in Nat
    PROVE  NewChallenge(x, j) \in ChallengeRecord
<1>1. clock + Min({OtpLife, LinkLife}) \in Nat
  BY MinOfTwo, GrantAssumption
<1> QED BY <1>1, GrantAssumption DEF NewChallenge, ChallengeRecord

LEMMA LinkType == ASSUME NEW j \in Jti, NEW r \in Jti, clock \in Nat
                  PROVE  LinkTo(j, r) \in Token
BY GrantAssumption DEF LinkTo, Token

\* A step that signs a token for j and adds its challenge to some of the stored ones.
LEMMA CreationKeeps ==
    ASSUME IInv, NEW x \in Context, NEW j \in Jti, Fresh(j),
           tokens' = tokens \cup {LinkTo(j, j)},
           challenges' \subseteq challenges \cup {NewChallenge(x, j)},
           UNCHANGED <<accepted, wrong>>
    PROVE  CodeInv' /\ tokens' \subseteq Token /\ challenges' \subseteq ChallengeRecord
<1> USE GrantAssumption
<1>1. /\ TokenType /\ HistoryType /\ Signed /\ Untried /\ Budget /\ OnePerJti
      /\ CodeAcceptedOnce /\ GuessesBounded
  BY DEF IInv, CodeInv
<1>2. NewChallenge(x, j) \in ChallengeRecord /\ LinkTo(j, j) \in Token
  BY <1>1, NewChallengeType, LinkType DEF HistoryType
<1>3. /\ NewChallenge(x, j).jti = j /\ NewChallenge(x, j).attempts = Attempts
      /\ LinkTo(j, j).jti = j
  BY DEF NewChallenge, LinkTo
<1>4. accepted[j] = 0 /\ wrong[j] = 0 /\ \A c \in challenges : c.jti # j
  BY <1>1 DEF Untried, Signed, Fresh
<1>5. Signed'
  BY <1>1, <1>3 DEF Signed
<1>6. Untried'
  BY <1>1 DEF Untried, Fresh
<1>7. Budget' /\ OnePerJti'
  BY <1>1, <1>3, <1>4 DEF Budget, OnePerJti
<1>8. CodeAcceptedOnce' /\ GuessesBounded'
  BY <1>1 DEF CodeAcceptedOnce, GuessesBounded
<1>9. tokens' \subseteq Token /\ challenges' \subseteq ChallengeRecord
  BY <1>1, <1>2 DEF TokenType
<1> QED BY <1>5, <1>6, <1>7, <1>8, <1>9 DEF CodeInv

\* A step that only removes challenges or adds tokens leaves the codes in order.
LEMMA RemovalKeeps ==
    ASSUME CodeInv, tokens \subseteq tokens', challenges' \subseteq challenges,
           UNCHANGED <<accepted, wrong>>
    PROVE  CodeInv'
<1>1. Signed' /\ Untried'
  BY DEF CodeInv, Signed, Untried, Fresh
<1>2. Budget' /\ OnePerJti' /\ CodeAcceptedOnce' /\ GuessesBounded'
  BY DEF CodeInv, Budget, OnePerJti, CodeAcceptedOnce, GuessesBounded
<1> QED BY <1>1, <1>2 DEF CodeInv

\* Dropping expired markers, or none, keeps what was promised.
LEMMA SweepKeeps ==
    ASSUME Keeps, NEW due \in BOOLEAN, UNCHANGED <<clock, spends, kept>>,
           markers' = IF due THEN Alive(markers) ELSE markers
    PROVE  Keeps'
BY DEF Keeps, Alive

\* A jti that is still kept is remembered, so consume refuses it; what consume
\* accepts is kept from then on.
LEMMA ConsumeKeeps ==
    ASSUME IInv, NEW x, NEW due \in BOOLEAN, Consumed(x, due)
    PROVE  /\ x \in Checked
           /\ spends[x.jti] = 0 \/ clock >= kept[x.jti]
           /\ (UNCHANGED clock => Keeps')
           /\ markers' \subseteq Marker /\ checked' \subseteq Checked
           /\ spends' \in [Jti -> Nat] /\ kept' \in [Jti -> Nat]
<1>1. TokenType /\ HistoryType /\ Keeps
  BY DEF IInv
<1>2. x \in Checked /\ x.jti \in Jti /\ x.until \in Nat
  BY <1>1 DEF TokenType, Consumed, Checked
<1>3. spends[x.jti] = 0 \/ clock >= kept[x.jti]
  <2> SUFFICES ASSUME spends[x.jti] > 0, clock < kept[x.jti] PROVE FALSE
    BY <1>1, <1>2 DEF HistoryType
  <2>1. PICK m \in markers : m.jti = x.jti /\ m.expiresAt = kept[x.jti]
    BY <1>1, <1>2 DEF Keeps
  <2>2. m \in Remembered(x.jti, due)
    BY <1>1, <1>2, <2>1 DEF Remembered, Alive, HistoryType
  <2> QED BY <2>2 DEF Consumed
<1>4. /\ markers' = (IF due THEN Alive(markers) ELSE markers)
                        \cup {[jti |-> x.jti, expiresAt |-> x.until]}
      /\ spends' = [spends EXCEPT ![x.jti] = @ + 1]
      /\ kept' = [kept EXCEPT ![x.jti] = x.until]
      /\ checked' = checked \ {x}
  BY DEF Consumed
<1>5. markers' \subseteq Marker /\ checked' \subseteq Checked
  BY <1>1, <1>2, <1>4 DEF TokenType, Marker, Alive
<1>6. spends' \in [Jti -> Nat] /\ kept' \in [Jti -> Nat]
  BY <1>1, <1>2, <1>4 DEF HistoryType
<1>7. ASSUME UNCHANGED clock, NEW j \in Jti, spends'[j] > 0, clock < kept'[j]
      PROVE  \E m \in markers' : m.jti = j /\ m.expiresAt = kept'[j]
  <2>1. CASE j = x.jti
    <3>1. kept'[j] = x.until
      BY <1>1, <1>2, <1>4, <2>1 DEF HistoryType
    <3>2. [jti |-> x.jti, expiresAt |-> x.until] \in markers'
      BY <1>4
    <3> QED BY <2>1, <3>1, <3>2
  <2>2. CASE j # x.jti
    <3>1. PICK m \in markers : m.jti = j /\ m.expiresAt = kept[j]
      BY <1>1, <1>4, <1>7, <2>2 DEF Keeps, HistoryType
    <3>2. kept'[j] = kept[j] /\ m \in Alive(markers)
      BY <1>1, <1>2, <1>4, <1>7, <2>2, <3>1 DEF HistoryType, Alive
    <3> QED BY <1>4, <3>1, <3>2 DEF Alive
  <2> QED BY <2>1, <2>2
<1> QED BY <1>2, <1>3, <1>5, <1>6, <1>7 DEF Keeps

-----------------------------------------------------------------------------
LEMMA InitInv == Init => IInv
BY GrantAssumption
   DEF Init, IInv, TokenType, HistoryType, CodeInv, Signed, Untried, Budget, OnePerJti,
       CodeAcceptedOnce, GuessesBounded, Keeps

LEMMA NextInv == IInv /\ [Next]_vars => IInv'
<1> SUFFICES ASSUME IInv, [Next]_vars PROVE IInv'
  OBVIOUS
<1> USE GrantAssumption
<1>0. TokenType /\ HistoryType /\ CodeInv /\ Keeps
  BY DEF IInv
<1>1. ASSUME NEW x \in Context, NEW j \in Jti, NEW due \in BOOLEAN, SignIn(x, j, due)
      PROVE  IInv'
  <2>1. /\ Fresh(j) /\ tokens' = tokens \cup {LinkTo(j, j)}
        /\ challenges' \subseteq challenges \cup {NewChallenge(x, j)}
        /\ UNCHANGED <<clock, checked, markers, replayHistory, codeHistory>>
    BY <1>1 DEF SignIn, Rotated
  <2>2. CodeInv' /\ tokens' \subseteq Token /\ challenges' \subseteq ChallengeRecord
    BY <2>1, CreationKeeps DEF codeHistory
  <2> QED BY <1>0, <2>1, <2>2
          DEF IInv, TokenType, HistoryType, Keeps, replayHistory, codeHistory
<1>2. ASSUME NEW x \in Context, NEW j \in Jti, NEW r \in BOOLEAN, SignInCut(x, j, r)
      PROVE  IInv'
  <2>1. /\ Fresh(j) /\ tokens' = tokens \cup {LinkTo(j, j)}
        /\ challenges' \subseteq challenges \cup {NewChallenge(x, j)}
        /\ checked' = {}
        /\ UNCHANGED <<clock, markers, replayHistory, codeHistory>>
    BY <1>2 DEF SignInCut
  <2>2. CodeInv' /\ tokens' \subseteq Token /\ challenges' \subseteq ChallengeRecord
    BY <2>1, CreationKeeps DEF codeHistory
  <2> QED BY <1>0, <2>1, <2>2
          DEF IInv, TokenType, HistoryType, Keeps, replayHistory, codeHistory
<1>3. ASSUME NEW c \in Call, NEW t \in tokens, VerifyLink(c, t) PROVE IInv'
  <2>1. CodeInv'
    BY <1>0, <1>3, RemovalKeeps DEF VerifyLink, codeHistory
  <2>2. [call |-> c, jti |-> t.jti, root |-> t.root, until |-> t.expiresAt,
         callback |-> FALSE, at |-> clock] \in Checked
    BY <1>0 DEF TokenType, HistoryType, Token, Checked
  <2>3. TokenType'
    BY <1>0, <1>3, <2>2 DEF VerifyLink, TokenType
  <2>4. HistoryType' /\ Keeps'
    BY <1>0, <1>3 DEF VerifyLink, HistoryType, Keeps, replayHistory, codeHistory
  <2> QED BY <2>1, <2>3, <2>4 DEF IInv
<1>4. ASSUME NEW ch \in challenges, RefuseCode(ch) PROVE IInv'
  <2>1. /\ challenges' \subseteq challenges
        /\ UNCHANGED <<clock, tokens, checked, markers, replayHistory, codeHistory>>
    BY <1>4 DEF RefuseCode, Removed
  <2>2. CodeInv'
    BY <1>0, <2>1, RemovalKeeps DEF codeHistory
  <2> QED BY <1>0, <2>1, <2>2 DEF IInv, TokenType, HistoryType, Keeps, replayHistory, codeHistory
<1>5. ASSUME NEW ch \in challenges, WrongCode(ch) PROVE IInv'
  <2>1. /\ ch.jti \in Jti /\ ch \in ChallengeRecord /\ ch.attempts \in 1..Attempts
        /\ wrong' = [wrong EXCEPT ![ch.jti] = @ + 1]
        /\ UNCHANGED <<clock, tokens, checked, markers, replayHistory, accepted>>
    BY <1>0, <1>5 DEF WrongCode, TokenType, ChallengeRecord
  <2>2. accepted[ch.jti] = 0 /\ wrong[ch.jti] \in Nat /\ wrong[ch.jti] + ch.attempts <= Attempts
    BY <1>0, <2>1 DEF CodeInv, Budget, HistoryType
  <2>3. \A c \in challenges' :
          \/ c \in challenges /\ c.jti # ch.jti
          \/ /\ c \in ChallengeRecord /\ c.jti = ch.jti
             /\ c.attempts = ch.attempts - 1
             /\ c = [ch EXCEPT !.attempts = @ - 1]
    <3>1. \A c \in challenges \ {ch} : c.jti # ch.jti
      BY <1>0 DEF CodeInv, OnePerJti
    <3>2. CASE ch.attempts = 1
      BY <1>5, <3>1, <3>2 DEF WrongCode, Removed
    <3>3. CASE ch.attempts # 1
      <4> DEFINE less == [ch EXCEPT !.attempts = @ - 1]
      <4>1. less \in ChallengeRecord /\ less.jti = ch.jti /\ less.attempts = ch.attempts - 1
        BY <2>1, <3>3 DEF ChallengeRecord
      <4>2. challenges' = (challenges \ {ch}) \cup {less}
        BY <1>5, <3>3 DEF WrongCode
      <4> QED BY <3>1, <4>1, <4>2
    <3> QED BY <3>2, <3>3
  <2>4. \A j \in Jti : wrong'[j] = IF j = ch.jti THEN wrong[j] + 1 ELSE wrong[j]
    BY <1>0, <2>1 DEF HistoryType
  <2>5. Signed' /\ Untried'
    <3>1. Signed'
      BY <1>0, <2>1, <2>3 DEF CodeInv, Signed
    <3>2. ~Fresh(ch.jti)
      BY <1>0 DEF CodeInv, Signed, Fresh
    <3>3. Untried'
      BY <1>0, <2>1, <2>4, <3>2 DEF CodeInv, Untried, Fresh
    <3> QED BY <3>1, <3>3
  <2>6. Budget'
    <3> SUFFICES ASSUME NEW c \in challenges'
                 PROVE  accepted'[c.jti] = 0 /\ wrong'[c.jti] + c.attempts <= Attempts
      BY DEF Budget
    <3>1. CASE c \in challenges /\ c.jti # ch.jti
      <4>1. c.jti \in Jti
        BY <1>0, <3>1 DEF TokenType, ChallengeRecord
      <4> QED BY <1>0, <2>1, <2>4, <3>1, <4>1 DEF CodeInv, Budget
    <3>2. CASE c.jti = ch.jti /\ c.attempts = ch.attempts - 1
      BY <2>1, <2>2, <2>4, <3>2
    <3> QED BY <2>3, <3>1, <3>2
  <2>7. OnePerJti'
    BY <1>0, <2>3 DEF CodeInv, OnePerJti
  <2>8. CodeAcceptedOnce' /\ GuessesBounded'
    BY <1>0, <2>1, <2>2, <2>4 DEF CodeInv, CodeAcceptedOnce, GuessesBounded
  <2>9. TokenType' /\ HistoryType' /\ Keeps'
    <3>1. TokenType'
      BY <1>0, <2>1, <2>3 DEF TokenType
    <3>2. HistoryType' /\ Keeps'
      BY <1>0, <2>1 DEF HistoryType, Keeps, replayHistory
    <3> QED BY <3>1, <3>2
  <2> QED BY <2>5, <2>6, <2>7, <2>8, <2>9 DEF IInv, CodeInv
<1>6. ASSUME NEW c \in Call, NEW ch \in challenges, NEW isJson \in BOOLEAN,
             RightCode(c, ch, isJson)
      PROVE  IInv'
  <2>1. /\ ch.jti \in Jti /\ ch.expiresAt \in Nat
        /\ challenges' = challenges \ {ch}
        /\ accepted' = [accepted EXCEPT ![ch.jti] = @ + 1]
        /\ UNCHANGED <<clock, tokens, markers, replayHistory, wrong>>
    BY <1>0, <1>6 DEF RightCode, Removed, TokenType, ChallengeRecord
  <2>2. accepted[ch.jti] = 0 /\ ~Fresh(ch.jti) /\ \A d \in challenges' : d.jti # ch.jti
    BY <1>0, <2>1 DEF CodeInv, Budget, OnePerJti, Signed, Fresh
  <2>3. \A j \in Jti : accepted'[j] = IF j = ch.jti THEN 1 ELSE accepted[j]
    BY <1>0, <2>1, <2>2 DEF HistoryType
  <2>4. Signed' /\ Untried' /\ OnePerJti'
    BY <1>0, <2>1, <2>2, <2>3 DEF CodeInv, Signed, Untried, OnePerJti, Fresh
  <2>5. Budget'
    <3>1. \A d \in challenges' : d.jti \in Jti /\ accepted'[d.jti] = accepted[d.jti]
      BY <1>0, <2>1, <2>2, <2>3 DEF TokenType, ChallengeRecord
    <3> QED BY <1>0, <2>1, <3>1 DEF CodeInv, Budget
  <2>6. CodeAcceptedOnce' /\ GuessesBounded'
    BY <1>0, <2>1, <2>3 DEF CodeInv, CodeAcceptedOnce, GuessesBounded
  <2>7. checked' \subseteq Checked
    <3>1. [call |-> c, jti |-> ch.jti, root |-> ch.jti, until |-> ch.expiresAt,
           callback |-> ch.context \in Callback /\ ~isJson, at |-> clock] \in Checked
      BY <1>0, <2>1 DEF HistoryType, Checked
    <3> QED BY <1>0, <1>6, <3>1 DEF RightCode, TokenType
  <2>8. TokenType' /\ HistoryType' /\ Keeps'
    BY <1>0, <2>1, <2>7 DEF TokenType, HistoryType, Keeps, replayHistory
  <2> QED BY <2>4, <2>5, <2>6, <2>8 DEF IInv, CodeInv
<1>7. ASSUME NEW x \in checked, NEW due \in BOOLEAN, SpendAgain(x, due) PROVE IInv'
  <2>1. CodeInv'
    BY <1>0, <1>7, RemovalKeeps DEF SpendAgain, codeHistory
  <2>2. Keeps'
    BY <1>0, <1>7, SweepKeeps DEF SpendAgain, replayHistory
  <2>3. TokenType' /\ HistoryType'
    BY <1>0, <1>7 DEF SpendAgain, TokenType, HistoryType, Alive, replayHistory, codeHistory
  <2> QED BY <2>1, <2>2, <2>3 DEF IInv
<1>8. ASSUME NEW x \in checked, NEW due \in BOOLEAN,
             SpendAndSignIn(x, due) \/ SpendForNothing(x, due)
                 \/ \E j \in Jti : SpendAndCallBack(x, due, j)
      PROVE  IInv'
  <2>1. Consumed(x, due) /\ UNCHANGED <<clock, challenges, codeHistory>>
    BY <1>8 DEF SpendAndSignIn, SpendForNothing, SpendAndCallBack
  <2>2. /\ x \in Checked /\ Keeps' /\ markers' \subseteq Marker /\ checked' \subseteq Checked
        /\ spends' \in [Jti -> Nat] /\ kept' \in [Jti -> Nat]
    BY <2>1, ConsumeKeeps
  <2>3. tokens \subseteq tokens' /\ tokens' \subseteq Token
    <3>1. \A j \in Jti : LinkTo(j, x.root) \in Token
      BY <1>0, <2>2, LinkType DEF HistoryType, Checked
    <3> QED BY <1>0, <1>8, <3>1
            DEF SpendAndSignIn, SpendForNothing, SpendAndCallBack, TokenType
  <2>4. CodeInv'
    BY <1>0, <2>1, <2>3, RemovalKeeps DEF codeHistory
  <2>5. TokenType' /\ HistoryType'
    BY <1>0, <2>1, <2>2, <2>3 DEF TokenType, HistoryType, codeHistory
  <2> QED BY <2>2, <2>4, <2>5 DEF IInv
<1>9. ASSUME NEW x \in checked, Abandon(x) PROVE IInv'
  <2>1. CodeInv'
    BY <1>0, <1>9, RemovalKeeps DEF Abandon, codeHistory
  <2> QED BY <1>0, <1>9, <2>1
          DEF Abandon, IInv, TokenType, HistoryType, Keeps, replayHistory, codeHistory
<1>10. CASE Tick
  <2>1. CodeInv'
    BY <1>0, <1>10, RemovalKeeps DEF Tick, codeHistory
  <2> QED BY <1>0, <1>10, <2>1
          DEF Tick, IInv, TokenType, HistoryType, Keeps, replayHistory, codeHistory
<1>11. CASE UNCHANGED vars
  <2>1. CodeInv'
    BY <1>0, <1>11, RemovalKeeps DEF vars
  <2> QED BY <1>0, <1>11, <2>1 DEF vars, IInv, TokenType, HistoryType, Keeps
<1> QED BY <1>1, <1>2, <1>3, <1>4, <1>5, <1>6, <1>7, <1>8, <1>9, <1>10, <1>11 DEF Next

THEOREM InvariantHolds == Spec => []IInv
BY InitInv, NextInv, PTL DEF Spec

\* The code of a challenge is accepted at most once, whatever is resent, swept or
\* cut short by a crash (verify removes the challenge it accepts).
THEOREM AcceptedOnce == Spec => []CodeAcceptedOnce
<1>1. IInv => CodeAcceptedOnce
  BY DEF IInv, CodeInv
<1> QED BY <1>1, InvariantHolds, PTL

\* Wrong codes stay within the configured attempts of their challenge.
THEOREM GuessBound == Spec => []GuessesBounded
<1>1. IInv => GuessesBounded
  BY DEF IInv, CodeInv
<1> QED BY <1>1, InvariantHolds, PTL

\* The replay store lets a jti be spent once until its marker's deadline, for any
\* number of calls between their check and consume.
THEOREM ReplayGuard == Spec => SpentOnceWhileKept
<1> DEFINE Once == \A j \in Jti : spends'[j] > spends[j] =>
                       spends'[j] = spends[j] + 1 /\ (spends[j] = 0 \/ clock >= kept[j])
<1>1. IInv /\ [Next]_vars => [Once]_vars
  <2> SUFFICES ASSUME IInv, [Next]_vars PROVE Once
    OBVIOUS
  <2>0. HistoryType
    BY DEF IInv
  <2>1. ASSUME NEW x, NEW due \in BOOLEAN, Consumed(x, due) PROVE Once
    <3>1. x \in Checked /\ (spends[x.jti] = 0 \/ clock >= kept[x.jti])
      BY <2>1, ConsumeKeeps
    <3>2. spends' = [spends EXCEPT ![x.jti] = @ + 1]
      BY <2>1 DEF Consumed
    <3> QED BY <2>0, <3>1, <3>2 DEF HistoryType, Checked
  <2>2. CASE UNCHANGED spends
    BY <2>0, <2>2 DEF HistoryType
  <2> QED BY <2>1, <2>2 DEF Next, vars, replayHistory, SignIn, Rotated, SignInCut, VerifyLink,
        RefuseCode, WrongCode, RightCode, SpendAgain, SpendAndSignIn, SpendAndCallBack,
        SpendForNothing, Abandon, Tick
<1> QED BY <1>1, InvariantHolds, PTL DEF Spec, SpentOnceWhileKept

--------------------------------------------------------------------------------
\* What an application and its visitor know of the mails.
World == [app |-> app, asked |-> asked, confirmed |-> confirmed, csrfs |-> csrfs,
          sent |-> {m \in Mail : mail[m] # "unsent"},
          started |-> {m \in Mail : session[m] # "none"}]

Address == Url \union {Nil}
Mails == Mail \union {Nil}
Pages == [kind : {"login", "confirm", "landed", "error", "redirect"}, url : Address,
          mail : Mails, csrf : Nat, token : Mails]
Challenges == [mail : Mail, url : Address]

\* Everything that is in a tab, in the jar or under way agrees with the mails it is
\* about.  Each CSRF value f goes with one mail, f[n], or with none.
PageFits(w, f, p) ==
    /\ p \in Pages /\ p.csrf \in 0..w.csrfs
    /\ p.mail # Nil => /\ p.mail \in w.sent
                       /\ p.kind = "confirm" \/ w.app # "fastify" => p.url = w.asked[p.mail]
    /\ p.kind = "confirm" => /\ p.mail # Nil /\ p.token \in {Nil, p.mail}
                             /\ p.token = Nil /\ p.csrf # 0 => f[p.csrf] = p.mail
                             /\ w.app # IF p.token = Nil THEN "django" ELSE "server"
ChallengeFits(w, otp) ==
    /\ otp \in Challenges /\ otp.mail \in w.sent
    /\ w.app # "fastify" => otp.url = w.asked[otp.mail]
JarFits(w, f, c) ==
    /\ c = Cookies(c.auth, c.csrf, c.token, c.otp)
    /\ c.auth \in w.started \union {Nil} /\ c.csrf \in 0..w.csrfs /\ c.token \in Mails
    /\ c.csrf # 0 => c.token = Nil \/ f[c.csrf] = Nil \/ c.token = f[c.csrf]
    /\ c.otp # Nil => ChallengeFits(w, c.otp)
SetFits(w, f, s) ==
    /\ s = Cookies(s.auth, s.csrf, s.token, s.otp)
    /\ s.auth \in w.started \union {Nil, Kept} /\ s.csrf \in 0..w.csrfs \union {Kept}
    /\ s.token \in Mails \union {Kept}
    /\ s.csrf = Kept => s.token \in {Nil, Kept}
    /\ s.csrf \notin {0, Kept} => f[s.csrf] = Nil \/ (s.token = f[s.csrf] /\ s.token \in Mail)
    /\ s.otp \notin {Nil, Kept} => ChallengeFits(w, s.otp)
EndsWell(w, c) ==
    c.stage = "answered" /\ c.set.auth \in Mail =>
        \/ w.app = "fastify" /\ c.op = "code"
        \/ c.next = Landed(w.asked[c.set.auth])
InputFits(w, op, p, input) ==
    /\ op \in {"visit", "login", "reset"} => input \in Address
    /\ op \in {"signin", "preview", "code"} => input \in Mail
    /\ op \in {"preview", "code"} => input \in w.sent
    /\ op = "code" => input \in w.confirmed /\ p.mail # Nil
    /\ op \in {"signin", "code"} => p.kind = "login"
    /\ op = "confirm" => p.kind = "confirm" /\ p.mail \in w.confirmed
CallFits(w, f, c) ==
    \/ c = Waiting
    \/ /\ c = [stage |-> c.stage, op |-> c.op, page |-> c.page, input |-> c.input,
               cookies |-> c.cookies, named |-> c.named, set |-> c.set, next |-> c.next]
       /\ c.stage \in {"sent", "forward", "answered"}
       /\ PageFits(w, f, c.page) /\ JarFits(w, f, c.cookies)
       /\ SetFits(w, f, c.set) /\ PageFits(w, f, c.next)
       /\ InputFits(w, c.op, c.page, c.input) /\ EndsWell(w, c)

ServerTyped ==
    /\ mail \in [Mail -> {"unsent", "live", "spent", "lapsed"}]
    /\ asked \in [Mail -> Address]
    /\ session \in [Mail -> {"none", "valid", "revoked", "lapsed"}]
    /\ \A m \in Mail : session[m] # "none" => mail[m] # "unsent"
    /\ lost \in SUBSET Mail
ClientTyped ==
    /\ app \in App /\ DOMAIN page = Tab /\ DOMAIN call = Tab
    /\ csrfs \in Nat /\ confirmed \in SUBSET Mail /\ delivered \in SUBSET Mail
AllFits(w, f) ==
    /\ JarFits(w, f, jar)
    /\ \A t \in Tab : PageFits(w, f, page[t]) /\ CallFits(w, f, call[t])
EverythingFits == \E f \in [1..csrfs -> Mails] : AllFits(World, f)
ClientInv == ServerTyped /\ ClientTyped /\ EverythingFits
                 /\ ExchangedOnlyIfConfirmed /\ SpentForItsVisitor

--------------------------------------------------------------------------------
\* Mails are sent, confirmed and exchanged once and for all, and CSRF values handed out
\* once, so that what has fitted goes on fitting.
Grows(w, f, v, g) ==
    /\ v.app = w.app /\ w.csrfs \in Nat /\ v.csrfs \in Nat /\ w.csrfs <= v.csrfs
    /\ w.sent \subseteq v.sent /\ w.started \subseteq v.started /\ w.confirmed \subseteq v.confirmed
    /\ w.started \subseteq w.sent /\ w.sent \subseteq Mail
    /\ \A m \in w.sent : v.asked[m] = w.asked[m]
    /\ \A n \in 1..w.csrfs : g[n] = f[n]

LEMMA PageKeeps ==
    ASSUME NEW w, NEW f, NEW v, NEW g, Grows(w, f, v, g), NEW p, PageFits(w, f, p)
    PROVE  PageFits(v, g, p)
<1>1. p.csrf \in 0..v.csrfs /\ (p.csrf # 0 => g[p.csrf] = f[p.csrf])
    BY DEF Grows, PageFits, Pages
<1>2. p.mail \in w.sent => p.mail \in v.sent /\ v.asked[p.mail] = w.asked[p.mail]
    BY DEF Grows
<1> QED BY <1>1, <1>2 DEF Grows, PageFits

LEMMA ChallengeKeeps ==
    ASSUME NEW w, NEW f, NEW v, NEW g, Grows(w, f, v, g), NEW otp, ChallengeFits(w, otp)
    PROVE  ChallengeFits(v, otp)
BY DEF Grows, ChallengeFits

LEMMA JarKeeps ==
    ASSUME NEW w, NEW f, NEW v, NEW g, Grows(w, f, v, g), NEW c, JarFits(w, f, c)
    PROVE  JarFits(v, g, c)
<1>1. c.csrf \in 0..v.csrfs /\ (c.csrf # 0 => g[c.csrf] = f[c.csrf])
    BY DEF Grows, JarFits
<1>2. c.otp # Nil => ChallengeFits(v, c.otp)
    BY ChallengeKeeps DEF JarFits
<1>3. c.auth \in v.started \union {Nil}
    BY DEF Grows, JarFits
<1> QED BY <1>1, <1>2, <1>3 DEF JarFits

LEMMA SetKeeps ==
    ASSUME NEW w, NEW f, NEW v, NEW g, Grows(w, f, v, g), NEW s, SetFits(w, f, s)
    PROVE  SetFits(v, g, s)
<1>1. s.csrf \in 0..v.csrfs \union {Kept} /\ (s.csrf \notin {0, Kept} => g[s.csrf] = f[s.csrf])
    BY DEF Grows, SetFits
<1>2. s.otp \notin {Nil, Kept} => ChallengeFits(v, s.otp)
    BY ChallengeKeeps DEF SetFits
<1>3. s.auth \in v.started \union {Nil, Kept}
    BY DEF Grows, SetFits
<1> QED BY <1>1, <1>2, <1>3 DEF SetFits

LEMMA CallKeeps ==
    ASSUME NEW w, NEW f, NEW v, NEW g, Grows(w, f, v, g), NEW c, CallFits(w, f, c)
    PROVE  CallFits(v, g, c)
<1>1. CASE c = Waiting
    BY <1>1 DEF CallFits
<1>2. CASE c # Waiting
    <2>1. /\ PageFits(v, g, c.page) /\ JarFits(v, g, c.cookies)
          /\ SetFits(v, g, c.set) /\ PageFits(v, g, c.next)
        BY <1>2, PageKeeps, JarKeeps, SetKeeps DEF CallFits
    <2>2. InputFits(v, c.op, c.page, c.input)
        BY <1>2 DEF CallFits, InputFits, Grows
    <2>3. EndsWell(v, c)
        <3>1. c.set.auth \in Mail => c.set.auth \in w.started
            BY <1>2, ClassicClientAssumption DEF CallFits, SetFits
        <3> QED BY <1>2, <3>1 DEF CallFits, EndsWell, Grows
    <2> QED BY <1>2, <2>1, <2>2, <2>3 DEF CallFits
<1> QED BY <1>1, <1>2

\* A reply that arrives.
LEMMA JarAfterReply ==
    ASSUME NEW w, NEW f, NEW s, NEW c, SetFits(w, f, s), JarFits(w, f, c)
    PROVE  JarFits(w, f, Over(s, c))
<1> DEFINE o == Over(s, c)
<1>1. o = Cookies(o.auth, o.csrf, o.token, o.otp)
    BY DEF Over, Cookies
<1>2. o.auth \in w.started \union {Nil} /\ o.csrf \in 0..w.csrfs /\ o.token \in Mails
    BY DEF Over, Cookies, Or, SetFits, JarFits
<1>3. o.csrf # 0 => o.token = Nil \/ f[o.csrf] = Nil \/ o.token = f[o.csrf]
    BY ClassicClientAssumption DEF Over, Cookies, Or, SetFits, JarFits, Mails
<1>4. o.otp # Nil => ChallengeFits(w, o.otp)
    BY DEF Over, Cookies, Or, SetFits, JarFits
<1> QED BY <1>1, <1>2, <1>3, <1>4 DEF JarFits

--------------------------------------------------------------------------------
\* The server's part of an answer: given is the mail it exchanges, or Nil.
Serves(given) ==
    /\ ServerTyped'
    /\ \A m \in Mail : mail[m] # "unsent" => mail'[m] # "unsent" /\ asked'[m] = asked[m]
    /\ \A m \in Mail : session[m] # "none" => session'[m] # "none"
    /\ \A m \in Mail : session'[m] # "none" => session[m] # "none" \/ m \in confirmed
    /\ lost \subseteq lost'
    /\ \A m \in Mail : mail'[m] = "spent" => mail[m] = "spent" \/ m \in lost' \/ m = given
    /\ given # Nil => given \in Mail /\ session'[given] # "none"

LEMMA AsideServes ==
    ASSUME ServerTyped, UNCHANGED <<mail, asked, session, lost>>
    PROVE  Serves(Nil)
BY DEF ServerTyped, Serves

LEMMA MailsServes ==
    ASSUME ServerTyped, NEW m \in Mail, NEW u \in Address, NEW ok, ServerMails(m, u, ok)
    PROVE  Serves(Nil) /\ (ok => mail'[m] # "unsent" /\ asked'[m] = u)
BY DEF ServerTyped, Serves, ServerMails, Address

LEMMA ExchangeServes ==
    ASSUME ServerTyped, confirmed \in SUBSET Mail, NEW m \in confirmed, NEW ok \in BOOLEAN,
           ServerExchanges(m, ok)
    PROVE  asked' = asked /\ IF ok THEN Serves(m) ELSE Serves(Nil)
BY ClassicClientAssumption DEF ServerTyped, Serves, ServerExchanges

LEMMA CodeServes ==
    ASSUME ServerTyped, confirmed \in SUBSET Mail, NEW code \in confirmed, NEW m \in Mail,
           NEW ok \in BOOLEAN, ServerTakesCode(m, code, ok)
    PROVE  asked' = asked /\ IF ok THEN Serves(m) ELSE Serves(Nil)
BY ExchangeServes, AsideServes DEF ServerTakesCode

LEMMA RevokeServes ==
    ASSUME ServerTyped, NEW s, s # Nil => s \in Mail /\ session[s] # "none",
           ServerRevokes(s), UNCHANGED <<mail, asked, lost>>
    PROVE  Serves(Nil)
BY DEF ServerTyped, Serves, ServerRevokes, Known

LEMMA ServesGrows ==
    ASSUME ServerTyped, ClientTyped, NEW given, Serves(given), UNCHANGED app,
           confirmed \subseteq confirmed', csrfs' \in Nat, csrfs <= csrfs',
           NEW f, NEW g, \A n \in 1..csrfs : g[n] = f[n]
    PROVE  Grows(World, f, World', g)
BY DEF ServerTyped, ClientTyped, Serves, Grows, World

\* An answer that fits leaves everything as it should be.
LEMMA AnswerKeeps ==
    ASSUME ClientInv, NEW t \in Tab, call[t].stage \in {"sent", "forward"},
           NEW f \in [1..csrfs -> Mails], AllFits(World, f),
           NEW given, Serves(given), NEW set, NEW next, Answer(t, set, next),
           csrfs' \in Nat, csrfs <= csrfs',
           NEW g \in [1..csrfs' -> Mails], \A n \in 1..csrfs : g[n] = f[n],
           SetFits(World', g, set), PageFits(World', g, next),
           EndsWell(World', At("answered", call[t], set, next)),
           given # Nil => set.auth = given
    PROVE  ClientInv'
<1>1. ServerTyped' /\ ClientTyped'
    BY DEF ClientInv, ClientTyped, Serves, Answer
<1>2. Grows(World, f, World', g)
    BY ServesGrows DEF ClientInv, Answer, ClientTyped
<1>3. CallFits(World, f, call[t]) /\ call[t] # Waiting
    BY DEF AllFits, Waiting
<1>4. CallFits(World', g, At("answered", call[t], set, next))
    <2> DEFINE c == At("answered", call[t], set, next)
    <2>1. PageFits(World', g, call[t].page) /\ JarFits(World', g, call[t].cookies)
        BY <1>2, <1>3, PageKeeps, JarKeeps DEF CallFits
    <2>2. InputFits(World', call[t].op, call[t].page, call[t].input)
        BY <1>2, <1>3, CallKeeps DEF CallFits
    <2> QED BY <2>1, <2>2 DEF CallFits, At
<1>5. AllFits(World, g)'
    <2>1. JarFits(World', g, jar')
        BY <1>2, JarKeeps DEF AllFits, Answer
    <2>2. ASSUME NEW x \in Tab PROVE PageFits(World', g, page'[x]) /\ CallFits(World', g, call'[x])
        <3>1. PageFits(World', g, page[x])
            BY <1>2, PageKeeps DEF AllFits
        <3>2. CallFits(World', g, call[x])
            BY <1>2, CallKeeps DEF AllFits
        <3>3. call'[x] = IF x = t THEN At("answered", call[t], set, next) ELSE call[x]
            BY DEF Answer, ClientInv, ClientTyped
        <3> QED BY <1>4, <3>1, <3>2, <3>3 DEF Answer
    <2> QED BY <2>1, <2>2 DEF AllFits
<1>6. EverythingFits'
    BY <1>5 DEF EverythingFits
<1>7. ExchangedOnlyIfConfirmed'
    BY DEF ClientInv, ExchangedOnlyIfConfirmed, Serves, Answer
<1>8. SpentForItsVisitor'
    <2> SUFFICES ASSUME NEW m \in Mail, mail'[m] = "spent", m \notin delivered' \union lost'
                 PROVE  \E x \in Tab : call'[x].stage = "answered" /\ call'[x].set.auth = m
        BY DEF SpentForItsVisitor
    <2>1. CASE m = given
        <3>1. call'[t] = At("answered", call[t], set, next)
            BY DEF Answer, ClientInv, ClientTyped
        <3>2. m # Nil
            BY ClassicClientAssumption
        <3> QED BY <2>1, <3>1, <3>2 DEF At
    <2>2. CASE m # given
        <3>1. mail[m] = "spent" /\ m \notin delivered \union lost
            BY <2>2 DEF Serves, Answer
        <3>2. PICK x \in Tab : call[x].stage = "answered" /\ call[x].set.auth = m
            BY <3>1 DEF ClientInv, SpentForItsVisitor
        <3>3. call'[x] = call[x]
            BY <3>2 DEF Answer, ClientInv, ClientTyped
        <3> QED BY <3>2, <3>3
    <2> QED BY <2>1, <2>2
<1> QED BY <1>1, <1>6, <1>7, <1>8 DEF ClientInv

\* Most replies hand out no CSRF value.
Clearing == {Unchanged, SignedOut, ClearCsrf, ClearConfirm, ClearToken, ClearOtp,
             ClearVerifyEmail}

LEMMA ClearingFits ==
    ASSUME ServerTyped, ClientTyped, NEW f, NEW set \in Clearing
    PROVE  SetFits(World, f, set) /\ set.auth \in {Nil, Kept}
BY ClassicClientAssumption
DEF Clearing, SetFits, World, Cookies, Unchanged, SignedOut, ClearCsrf, ClearConfirm, ClearToken,
    ClearOtp, ClearVerifyEmail, Csrf, Verification, Over, Or, ClientTyped, Mails

LEMMA PlainFits ==
    ASSUME ServerTyped, ClientTyped, NEW f, NEW u \in Address
    PROVE  /\ PageFits(World, f, Login(u, Nil)) /\ PageFits(World, f, Landed(u))
           /\ PageFits(World, f, Redirect(u)) /\ PageFits(World, f, ErrorPage)
BY DEF ClientTyped, PageFits, World, Pages, Login, Landed, Redirect, ErrorPage, Mails, Address

PlainPages == {Login(u, Nil) : u \in Address} \union {Landed(u) : u \in Address}
                  \union {Redirect(u) : u \in Address} \union {ErrorPage}

LEMMA ClearingReply ==
    ASSUME ClientInv, NEW t \in Tab, call[t].stage \in {"sent", "forward"}, Serves(Nil),
           NEW set \in Clearing, NEW next \in PlainPages \union {call[t].page, page[t]},
           Reply(t, set, next)
    PROVE  ClientInv'
<1>1. PICK f \in [1..csrfs -> Mails] : AllFits(World, f)
    BY DEF ClientInv, EverythingFits
<1>2. Grows(World, f, World', f) /\ Answer(t, set, next) /\ csrfs' = csrfs
    BY ServesGrows DEF ClientInv, ClientTyped, Reply, Answer
<1>3. SetFits(World', f, set) /\ set.auth \in {Nil, Kept}
    BY <1>2, ClearingFits, SetKeeps DEF ClientInv
<1>4. PageFits(World, f, next)
    <2>1. call[t] # Waiting
        BY DEF Waiting
    <2>2. PageFits(World, f, call[t].page) /\ PageFits(World, f, page[t])
        BY <2>1, <1>1 DEF AllFits, CallFits
    <2>3. ASSUME next \in PlainPages PROVE PageFits(World, f, next)
        <3>1. PICK u \in Address : next \in {Login(u, Nil), Landed(u), Redirect(u), ErrorPage}
            BY <2>3 DEF PlainPages, Address
        <3>2. /\ PageFits(World, f, Login(u, Nil)) /\ PageFits(World, f, Landed(u))
              /\ PageFits(World, f, Redirect(u)) /\ PageFits(World, f, ErrorPage)
            BY PlainFits DEF ClientInv
        <3> QED BY <3>1, <3>2
    <2> QED BY <2>2, <2>3
<1>5. PageFits(World', f, next)
    BY <1>2, <1>4, PageKeeps
<1>6. EndsWell(World', At("answered", call[t], set, next))
    BY <1>3, ClassicClientAssumption DEF EndsWell, At
<1> QED BY <1>1, <1>2, <1>3, <1>5, <1>6, AnswerKeeps DEF ClientInv, ClientTyped

\* A form for the code of a mail, or a cookie with its challenge.
LEMMA OfferReply ==
    ASSUME ClientInv, NEW t \in Tab, call[t].stage \in {"sent", "forward"}, Serves(Nil),
           NEW m \in Mail, mail'[m] # "unsent", NEW u \in Address, NEW v \in Address,
           asked'[m] = u \/ app = "fastify",
           \/ Reply(t, Unchanged, Login(u, m))
           \/ Reply(t, OtpChallengeCookie(m, u), Redirect(v))
    PROVE  ClientInv'
<1>1. PICK f \in [1..csrfs -> Mails] : AllFits(World, f)
    BY DEF ClientInv, EverythingFits
<1>2. csrfs' = csrfs /\ app' = app /\ csrfs \in Nat
    BY DEF ClientInv, ClientTyped, Reply, Answer
<1>3. m # Nil
    BY ClassicClientAssumption
<1>4. CASE Reply(t, Unchanged, Login(u, m))
    <2>1. SetFits(World', f, Unchanged) /\ Unchanged.auth = Kept
        BY <1>2, ClassicClientAssumption DEF SetFits, World, Unchanged, Cookies
    <2>2. PageFits(World', f, Login(u, m))
        BY <1>2, <1>3 DEF PageFits, World, Login, Pages, Mails
    <2>3. EndsWell(World', At("answered", call[t], Unchanged, Login(u, m)))
        BY <2>1, ClassicClientAssumption DEF EndsWell, At
    <2> QED BY <1>1, <1>2, <1>4, <2>1, <2>2, <2>3, AnswerKeeps DEF Reply
<1>5. CASE Reply(t, OtpChallengeCookie(m, u), Redirect(v))
    <2> DEFINE set == OtpChallengeCookie(m, u)
    <2>1. ChallengeFits(World', OtpChallenge(m, u))
        BY <1>2 DEF ChallengeFits, Challenges, OtpChallenge, World
    <2>2. SetFits(World', f, set) /\ set.auth = Kept
        BY <2>1, <1>2, ClassicClientAssumption DEF SetFits, World, OtpChallengeCookie, Cookies
    <2>3. PageFits(World', f, Redirect(v))
        BY <1>2, ClassicClientAssumption DEF PageFits, World, Redirect, Pages, Mails, Address
    <2>4. EndsWell(World', At("answered", call[t], set, Redirect(v)))
        BY <2>2, ClassicClientAssumption DEF EndsWell, At
    <2> HIDE DEF set
    <2>5. Answer(t, set, Redirect(v))
        BY <1>5 DEF Reply, set
    <2> QED BY <1>1, <1>2, <2>2, <2>3, <2>4, <2>5, AnswerKeeps
<1> QED BY <1>4, <1>5

\* A session, on the page its sign-in was asked from.
LEMMA SignInReply ==
    ASSUME ClientInv, NEW t \in Tab, call[t].stage \in {"sent", "forward"},
           NEW m \in Mail, Serves(m), NEW clears \in Clearing, NEW set,
           set \in {SignedIn(m), Over(SignedIn(m), clears)}, NEW u \in Address,
           u = asked'[m] \/ (app = "fastify" /\ call[t].op = "code"),
           Reply(t, set, Landed(u))
    PROVE  ClientInv'
<1>1. PICK f \in [1..csrfs -> Mails] : AllFits(World, f)
    BY DEF ClientInv, EverythingFits
<1>2. csrfs' = csrfs /\ app' = app /\ csrfs \in Nat /\ session'[m] # "none"
    BY ClassicClientAssumption DEF ClientInv, ClientTyped, Reply, Answer, Serves
<1>3. Grows(World, f, World', f)
    BY ServesGrows DEF ClientInv, ClientTyped, Reply, Answer
<1>4. SetFits(World', f, clears)
    BY <1>3, ClearingFits, SetKeeps DEF ClientInv
<1>5. SetFits(World', f, set) /\ set.auth = m
    <2>1. m # Kept /\ m # Nil /\ m \in World'.started
        BY <1>2, ClassicClientAssumption DEF World
    <2>2. CASE set = SignedIn(m)
        BY <2>1, <2>2, ClassicClientAssumption DEF SetFits, SignedIn, Cookies
    <2>3. CASE set = Over(SignedIn(m), clears)
        BY <2>1, <2>3, <1>4, ClassicClientAssumption DEF SetFits, SignedIn, Cookies, Over, Or
    <2> QED BY <2>2, <2>3
<1>6. PageFits(World', f, Landed(u))
    BY <1>2 DEF PageFits, World, Landed, Pages, Mails, Address
<1>7. EndsWell(World', At("answered", call[t], set, Landed(u)))
    BY <1>2, <1>5 DEF EndsWell, At, World
<1> QED BY <1>1, <1>2, <1>5, <1>6, <1>7, AnswerKeeps DEF Reply

\* A page with a new CSRF value: for a mail whose token the jar holds, or for none.
LEMMA FreshReply ==
    ASSUME ClientInv, NEW t \in Tab, call[t].stage \in {"sent", "forward"}, Serves(Nil),
           csrfs' = csrfs + 1, NEW k \in Mails, NEW set, NEW next, Answer(t, set, next),
           set \in {Csrf(csrfs + 1), Verification(csrfs + 1, k)},
           set = Csrf(csrfs + 1) => k = Nil,
           next \in Pages, next.csrf = csrfs + 1,
           next.mail # Nil => mail'[next.mail] # "unsent" /\ next.url = asked'[next.mail],
           next.kind = "confirm" => /\ next.mail # Nil /\ next.token \in {Nil, next.mail}
                                    /\ next.token = Nil => k = next.mail
                                    /\ app # IF next.token = Nil THEN "django" ELSE "server"
    PROVE  ClientInv'
<1>1. PICK f \in [1..csrfs -> Mails] : AllFits(World, f)
    BY DEF ClientInv, EverythingFits
<1>2. csrfs \in Nat /\ csrfs' \in Nat /\ csrfs <= csrfs'
    BY DEF ClientInv, ClientTyped
<1> DEFINE g == [n \in 1..csrfs + 1 |-> IF n = csrfs + 1 THEN k ELSE f[n]]
<1>3. g \in [1..csrfs' -> Mails] /\ (\A n \in 1..csrfs : g[n] = f[n]) /\ g[csrfs + 1] = k
    BY <1>2
<1> HIDE DEF g
<1>4. SetFits(World', g, set) /\ set.auth = Kept
    <2>1. csrfs + 1 \in 0..World'.csrfs /\ csrfs + 1 # 0 /\ csrfs + 1 # Kept /\ k # Kept
        BY <1>2, ClassicClientAssumption DEF World, Mails
    <2>2. CASE set = Csrf(csrfs + 1)
        BY <1>3, <2>1, <2>2 DEF SetFits, Csrf, Cookies
    <2>3. CASE set = Verification(csrfs + 1, k)
        BY <1>3, <2>1, <2>3 DEF SetFits, Verification, Cookies, Mails
    <2> QED BY <2>2, <2>3
<1>5. PageFits(World', g, next)
    BY <1>2, <1>3 DEF PageFits, World, Pages, Mails, Answer
<1>6. EndsWell(World', At("answered", call[t], set, next))
    BY <1>4, ClassicClientAssumption DEF EndsWell, At
<1> QED
    <2>1. PICK h \in [1..csrfs' -> Mails] : h = g
        BY <1>3
    <2> QED BY <1>1, <1>2, <1>3, <1>4, <1>5, <1>6, <2>1, AnswerKeeps

\* What a handler knows of the request it answers.
LEMMA RequestKeeps ==
    ASSUME ClientInv, NEW t \in Tab, call[t].stage \in {"sent", "forward"}
    PROVE  LET c == call[t]
           IN  /\ c.page \in Pages /\ c.cookies.auth \in Mails
               /\ c.cookies.auth # Nil => session[c.cookies.auth] # "none"
               /\ c.page.mail # Nil =>
                    /\ mail[c.page.mail] # "unsent"
                    /\ c.page.kind = "confirm" \/ app # "fastify" => c.page.url = asked[c.page.mail]
               /\ c.cookies.otp # Nil =>
                    /\ c.cookies.otp \in Challenges /\ mail[c.cookies.otp.mail] # "unsent"
                    /\ app # "fastify" => c.cookies.otp.url = asked[c.cookies.otp.mail]
               /\ c.op \in {"visit", "login", "reset"} => c.input \in Address
               /\ c.op \in {"signin", "preview", "code"} => c.input \in Mail
               /\ c.op \in {"preview", "code"} => mail[c.input] # "unsent"
               /\ c.op = "code" => c.input \in confirmed /\ c.page.mail \in Mail
               /\ c.op \in {"signin", "code"} => c.page.kind = "login"
               /\ c.op = "confirm" =>
                    /\ c.page.kind = "confirm" /\ c.page.mail \in confirmed
                    /\ c.page.token \in {Nil, c.page.mail} /\ app # IF c.page.token = Nil THEN "django" ELSE "server"
                    /\ SameCsrf(c) => SubmittedToken(c) \in {Nil, c.page.mail}
                                      /\ (c.page.token = Nil => c.cookies.token \in {Nil, c.page.mail})
<1> DEFINE c == call[t]
<1>1. PICK f \in [1..csrfs -> Mails] : AllFits(World, f)
    BY DEF ClientInv, EverythingFits
<1>2. /\ PageFits(World, f, c.page) /\ JarFits(World, f, c.cookies)
      /\ InputFits(World, c.op, c.page, c.input)
    <2>1. call[t] # Waiting
        BY DEF Waiting
    <2> QED BY <1>1, <2>1 DEF AllFits, CallFits
<1>3. c.op \in {"preview", "code"} => mail[c.input] # "unsent"
    BY <1>2 DEF InputFits, World
<1>4. c.page.mail # Nil =>
          /\ mail[c.page.mail] # "unsent"
          /\ c.page.kind = "confirm" \/ app # "fastify" => c.page.url = asked[c.page.mail]
    BY <1>2 DEF PageFits, World
<1>5. c.cookies.otp # Nil =>
          /\ c.cookies.otp \in Challenges /\ mail[c.cookies.otp.mail] # "unsent"
          /\ app # "fastify" => c.cookies.otp.url = asked[c.cookies.otp.mail]
    BY <1>2 DEF JarFits, ChallengeFits, World
<1>6. c.page \in Pages /\ c.cookies.auth \in Mails /\ (c.cookies.auth # Nil => session[c.cookies.auth] # "none")
    BY <1>2 DEF PageFits, JarFits, World, Mails
<1>7. /\ c.op \in {"visit", "login", "reset"} => c.input \in Address
      /\ c.op \in {"signin", "preview", "code"} => c.input \in Mail
      /\ c.op = "code" => c.input \in confirmed /\ c.page.mail # Nil
      /\ c.op \in {"signin", "code"} => c.page.kind = "login"
      /\ c.op = "confirm" => c.page.kind = "confirm" /\ c.page.mail \in confirmed
    BY <1>2 DEF InputFits, World
<1>8. c.page.mail # Nil => c.page.mail \in Mail
    BY <1>6 DEF Pages, Mails
<1>9. ASSUME c.op = "confirm"
      PROVE  /\ c.page.token \in {Nil, c.page.mail} /\ app # IF c.page.token = Nil THEN "django" ELSE "server"
             /\ SameCsrf(c) => SubmittedToken(c) \in {Nil, c.page.mail}
                               /\ (c.page.token = Nil => c.cookies.token \in {Nil, c.page.mail})
    <2>1. c.page.kind = "confirm" /\ c.page.token \in {Nil, c.page.mail} /\ c.page.mail # Nil
          /\ (c.page.token = Nil /\ c.page.csrf # 0 => f[c.page.csrf] = c.page.mail)
          /\ app # IF c.page.token = Nil THEN "django" ELSE "server"
        BY <1>2, <1>7, <1>9 DEF PageFits, World
    <2>2. c.cookies.csrf # 0 => c.cookies.token = Nil \/ f[c.cookies.csrf] = Nil
                                \/ c.cookies.token = f[c.cookies.csrf]
        BY <1>2 DEF JarFits
    <2>3. SameCsrf(c) /\ c.page.token = Nil => c.cookies.token \in {Nil, c.page.mail}
        BY <2>1, <2>2 DEF SameCsrf
    <2> QED BY <2>1, <2>3 DEF SubmittedToken
<1> QED BY <1>3, <1>4, <1>5, <1>6, <1>7, <1>8, <1>9

--------------------------------------------------------------------------------
\* The visitor.
LEMMA ServerAsideGrows ==
    ASSUME ClientInv, UNCHANGED <<app, mail, asked, session, lost, csrfs>>,
           confirmed \subseteq confirmed', NEW f
    PROVE  Serves(Nil) /\ Grows(World, f, World', f)
<1>1. Serves(Nil)
    BY AsideServes DEF ClientInv
<1> QED BY <1>1, ServesGrows DEF ClientInv, ClientTyped

LEMMA SendKeeps ==
    ASSUME ClientInv, NEW t \in Tab, NEW op, NEW input, Send(t, op, input),
           confirmed \subseteq confirmed', confirmed' \in SUBSET Mail,
           InputFits(World', op, page[t], input)
    PROVE  ClientInv'
<1>1. PICK f \in [1..csrfs -> Mails] : AllFits(World, f)
    BY DEF ClientInv, EverythingFits
<1>2. Serves(Nil) /\ Grows(World, f, World', f)
    BY ServerAsideGrows DEF Send
<1>3. PICK named \in BOOLEAN : call' = [call EXCEPT ![t] = Request(op, page[t], input, jar, named)]
    BY DEF Send
<1>4. call[t] = Waiting /\ UNCHANGED <<app, jar, page, mail, asked, session, csrfs, delivered, lost>>
    BY DEF Send
<1>5. ServerTyped' /\ ClientTyped'
    BY <1>2, <1>3, <1>4 DEF Serves, ClientInv, ClientTyped
<1>6. JarFits(World', f, jar) /\ \A x \in Tab : PageFits(World', f, page[x]) /\ CallFits(World', f, call[x])
    BY <1>1, <1>2, JarKeeps, PageKeeps, CallKeeps DEF AllFits
<1>7. CallFits(World', f, Request(op, page[t], input, jar, named))
    <2>1. SetFits(World', f, Unchanged) /\ Unchanged.auth = Kept
        BY <1>5, ClassicClientAssumption DEF SetFits, World, Unchanged, Cookies
    <2> QED BY <1>6, <2>1, ClassicClientAssumption DEF CallFits, Request, EndsWell
<1>8. AllFits(World, f)'
    BY <1>3, <1>4, <1>6, <1>7 DEF AllFits, ClientInv, ClientTyped
<1>9. EverythingFits'
    BY <1>4, <1>8 DEF EverythingFits
<1>10. ExchangedOnlyIfConfirmed'
    BY <1>4 DEF ClientInv, ExchangedOnlyIfConfirmed
<1>11. SpentForItsVisitor'
    <2> SUFFICES ASSUME NEW m \in Mail, mail'[m] = "spent", m \notin delivered' \union lost'
                 PROVE  \E x \in Tab : call'[x].stage = "answered" /\ call'[x].set.auth = m
        BY DEF SpentForItsVisitor
    <2>1. PICK x \in Tab : call[x].stage = "answered" /\ call[x].set.auth = m
        BY <1>4 DEF ClientInv, SpentForItsVisitor
    <2>2. call'[x] = call[x]
        BY <1>3, <1>4, <2>1 DEF Waiting, ClientInv, ClientTyped
    <2> QED BY <2>1, <2>2
<1> QED BY <1>5, <1>9, <1>10, <1>11 DEF ClientInv

LEMMA VisitorSends ==
    ASSUME ClientInv, NEW t \in Tab,
           \/ Browse(t) \/ OpenSocket(t) \/ OpenLogin(t) \/ UseAnotherAddress(t)
           \/ AskToSignIn(t) \/ FollowLink(t) \/ PressContinue(t) \/ TypeCode(t) \/ PressLogout(t)
    PROVE  ClientInv'
<1>1. page[t] \in Pages /\ (page[t].kind = "confirm" => page[t].mail \in Mail)
    BY DEF ClientInv, EverythingFits, AllFits, PageFits, Pages, Mails
<1>2. confirmed \in SUBSET Mail
    BY DEF ClientInv, ClientTyped
<1>3. CASE Browse(t)
    BY <1>2, <1>3, SendKeeps DEF Browse, InputFits, Address
<1>4. CASE OpenSocket(t)
    BY <1>2, <1>4, SendKeeps DEF OpenSocket, InputFits
<1>5. CASE OpenLogin(t)
    BY <1>2, <1>5, SendKeeps DEF OpenLogin, InputFits, Address
<1>6. CASE UseAnotherAddress(t)
    BY <1>1, <1>2, <1>6, SendKeeps DEF UseAnotherAddress, InputFits, Pages
<1>7. CASE AskToSignIn(t)
    BY <1>2, <1>7, SendKeeps DEF AskToSignIn, InputFits
<1>8. CASE FollowLink(t)
    <2>1. PICK m \in Mail : mail[m] # "unsent" /\ Send(t, "preview", m)
        BY <1>8 DEF FollowLink
    <2>2. m \in World'.sent
        BY <2>1 DEF World, Send
    <2>3. UNCHANGED confirmed
        BY <1>8 DEF FollowLink
    <2> QED BY <1>2, <2>1, <2>2, <2>3, SendKeeps DEF InputFits
<1>9. CASE PressContinue(t)
    <2>1. /\ page[t].kind = "confirm" /\ Send(t, "confirm", Nil)
          /\ confirmed' = confirmed \union {page[t].mail}
        BY <1>9 DEF PressContinue
    <2>2. InputFits(World', "confirm", page[t], Nil)
        BY <2>1 DEF InputFits, World
    <2> QED BY <1>1, <1>2, <2>1, <2>2, SendKeeps
<1>10. CASE TypeCode(t)
    <2>1. PICK m \in Mail : /\ mail[m] # "unsent" /\ Send(t, "code", m)
                            /\ confirmed' = confirmed \union {m}
        BY <1>10 DEF TypeCode
    <2>2. InputFits(World', "code", page[t], m)
        BY <1>10, <2>1 DEF InputFits, World, Send, TypeCode
    <2> QED BY <1>2, <2>1, <2>2, SendKeeps
<1>11. CASE PressLogout(t)
    BY <1>2, <1>11, SendKeeps DEF PressLogout, InputFits
<1> QED BY <1>3, <1>4, <1>5, <1>6, <1>7, <1>8, <1>9, <1>10, <1>11

LEMMA ArriveKeeps ==
    ASSUME ClientInv, NEW t \in Tab, Arrive(t)
    PROVE  ClientInv'
<1> DEFINE c == call[t]
<1>1. PICK f \in [1..csrfs -> Mails] : AllFits(World, f)
    BY DEF ClientInv, EverythingFits
<1>2. /\ c.stage = "answered" /\ jar' = Over(c.set, jar)
      /\ UNCHANGED <<app, mail, asked, session, csrfs, confirmed, lost>>
      /\ delivered' = delivered \union ({c.set.auth} \ {Nil, Kept})
      /\ \/ /\ c.next.kind = "redirect" /\ UNCHANGED page
            /\ call' = [call EXCEPT ![t] = Request("login", c.next, c.next.url, jar', TRUE)]
         \/ page' = [page EXCEPT ![t] = c.next] /\ call' = [call EXCEPT ![t] = Waiting]
    BY DEF Arrive
<1>3. Serves(Nil) /\ Grows(World, f, World', f)
    BY <1>2, ServerAsideGrows
<1>4. c # Waiting
    BY <1>2 DEF Waiting
<1>5. SetFits(World, f, c.set) /\ PageFits(World, f, c.next)
    BY <1>1, <1>4 DEF AllFits, CallFits
<1>6. ServerTyped' /\ ClientTyped'
    <2>1. c.set.auth \in Mail \union {Nil, Kept}
        BY <1>5 DEF SetFits, World
    <2> QED BY <1>2, <1>3, <2>1 DEF Serves, ClientInv, ClientTyped
<1>7. JarFits(World', f, jar') /\ PageFits(World', f, c.next)
    <2>1. JarFits(World, f, Over(c.set, jar))
        BY <1>1, <1>5, JarAfterReply DEF AllFits
    <2> QED BY <1>2, <1>3, <1>5, <2>1, JarKeeps, PageKeeps
<1>8. \A x \in Tab : PageFits(World', f, page[x]) /\ CallFits(World', f, call[x])
    BY <1>1, <1>3, PageKeeps, CallKeeps DEF AllFits
<1>9. CallFits(World', f, Waiting)
    BY DEF CallFits
<1>10. CallFits(World', f, Request("login", c.next, c.next.url, jar', TRUE))
    <2>1. SetFits(World', f, Unchanged) /\ Unchanged.auth = Kept
        BY <1>6, ClassicClientAssumption DEF SetFits, World, Unchanged, Cookies
    <2>2. InputFits(World', "login", c.next, c.next.url)
        BY <1>5 DEF InputFits, PageFits, Pages
    <2> QED BY <1>7, <2>1, <2>2, ClassicClientAssumption DEF CallFits, Request, EndsWell
<1>11. AllFits(World, f)'
    BY <1>2, <1>7, <1>8, <1>9, <1>10 DEF AllFits, ClientInv, ClientTyped
<1>12. EverythingFits'
    BY <1>2, <1>11 DEF EverythingFits
<1>13. ExchangedOnlyIfConfirmed'
    BY <1>2 DEF ClientInv, ExchangedOnlyIfConfirmed
<1>14. SpentForItsVisitor'
    <2> SUFFICES ASSUME NEW m \in Mail, mail'[m] = "spent", m \notin delivered' \union lost'
                 PROVE  \E x \in Tab : call'[x].stage = "answered" /\ call'[x].set.auth = m
        BY DEF SpentForItsVisitor
    <2>1. PICK x \in Tab : call[x].stage = "answered" /\ call[x].set.auth = m
        BY <1>2 DEF ClientInv, SpentForItsVisitor
    <2>2. x # t
        BY <1>2, <2>1, ClassicClientAssumption
    <2>3. call'[x] = call[x]
        BY <1>2, <2>1, <2>2 DEF ClientInv, ClientTyped
    <2> QED BY <2>1, <2>3
<1> QED BY <1>6, <1>12, <1>13, <1>14 DEF ClientInv

\* A step of one tab that answers nobody, or of nobody at all.
LEMMA QuietStep ==
    ASSUME ClientInv, NEW t, Serves(Nil), UNCHANGED <<app, jar, confirmed, delivered, csrfs>>,
           NEW f \in [1..csrfs -> Mails], AllFits(World, f),
           DOMAIN page' = Tab, DOMAIN call' = Tab,
           \A x \in Tab \ {t} : page'[x] = page[x] /\ call'[x] = call[x],
           t \in Tab => PageFits(World', f, page'[t]) /\ CallFits(World', f, call'[t])
                        /\ call[t].stage # "answered"
    PROVE  ClientInv'
<1>1. Grows(World, f, World', f)
    BY ServesGrows DEF ClientInv, ClientTyped
<1>2. ServerTyped' /\ ClientTyped'
    BY DEF Serves, ClientInv, ClientTyped
<1>3. JarFits(World', f, jar) /\ \A x \in Tab : PageFits(World', f, page[x]) /\ CallFits(World', f, call[x])
    BY <1>1, JarKeeps, PageKeeps, CallKeeps DEF AllFits
<1>4. AllFits(World, f)'
    BY <1>3 DEF AllFits
<1>5. EverythingFits'
    BY <1>4 DEF EverythingFits
<1>6. ExchangedOnlyIfConfirmed'
    BY DEF ClientInv, ExchangedOnlyIfConfirmed, Serves
<1>7. SpentForItsVisitor'
    <2> SUFFICES ASSUME NEW m \in Mail, mail'[m] = "spent", m \notin delivered' \union lost'
                 PROVE  \E x \in Tab : call'[x].stage = "answered" /\ call'[x].set.auth = m
        BY DEF SpentForItsVisitor
    <2>1. mail[m] = "spent" /\ m \notin delivered \union lost
        BY ClassicClientAssumption DEF Serves
    <2>2. PICK x \in Tab : call[x].stage = "answered" /\ call[x].set.auth = m
        BY <2>1 DEF ClientInv, SpentForItsVisitor
    <2> QED BY <2>2
<1> QED BY <1>2, <1>5, <1>6, <1>7 DEF ClientInv

LEMMA ForgetKeeps ==
    ASSUME ClientInv, NEW t \in Tab, ForgetChallenge(t)
    PROVE  ClientInv'
<1>1. PICK f \in [1..csrfs -> Mails] : AllFits(World, f)
    BY DEF ClientInv, EverythingFits
<1>2. /\ call[t] = Waiting /\ page' = [page EXCEPT ![t] = Login(page[t].url, Nil)]
      /\ UNCHANGED <<app, jar, call, mail, asked, session, csrfs, confirmed, delivered, lost>>
    BY DEF ForgetChallenge
<1>3. Serves(Nil) /\ World' = World
    BY <1>2, ServerAsideGrows DEF World
<1>4. page[t].url \in Address
    BY <1>1 DEF AllFits, PageFits, Pages
<1>5. PageFits(World', f, Login(page[t].url, Nil)) /\ CallFits(World', f, Waiting)
    BY <1>3, <1>4, PlainFits DEF CallFits, ClientInv
<1> QED BY <1>1, <1>2, <1>3, <1>5, QuietStep DEF ClientInv, ClientTyped, Waiting

LEMMA LapseKeeps ==
    ASSUME ClientInv, NEW m \in Mail, Lapse(m)
    PROVE  ClientInv'
<1>1. PICK f \in [1..csrfs -> Mails] : AllFits(World, f)
    BY DEF ClientInv, EverythingFits
<1>2. Serves(Nil)
    BY DEF Lapse, Serves, ServerTyped, ClientInv
<1>3. UNCHANGED <<app, jar, page, call, csrfs, confirmed, delivered>>
    BY DEF Lapse
<1>4. PICK t : t \notin Tab
    BY NoSetContainsEverything
<1> QED BY <1>1, <1>2, <1>3, <1>4, QuietStep DEF ClientInv, ClientTyped

LEMMA ForwardsKeeps ==
    ASSUME ClientInv, NEW t \in Tab, call[t].stage = "sent", Forwards(t), Serves(Nil)
    PROVE  ClientInv'
<1>1. PICK f \in [1..csrfs -> Mails] : AllFits(World, f)
    BY DEF ClientInv, EverythingFits
<1> DEFINE c == At("forward", call[t], Unchanged, call[t].next)
<1>2. call' = [call EXCEPT ![t] = c] /\ UNCHANGED <<app, jar, page, confirmed, delivered, csrfs>>
    BY DEF Forwards
<1>3. Grows(World, f, World', f)
    BY <1>2, ServesGrows DEF ClientInv, ClientTyped
<1>4. CallFits(World', f, c)
    <2>1. call[t] # Waiting
        BY DEF Waiting
    <2>2. CallFits(World', f, call[t]) /\ PageFits(World', f, page[t])
        BY <1>1, <1>3, CallKeeps, PageKeeps DEF AllFits
    <2>3. SetFits(World', f, Unchanged)
        BY <1>2, ClassicClientAssumption DEF SetFits, World, Unchanged, Cookies, ClientInv, ClientTyped
    <2> QED BY <2>1, <2>2, <2>3 DEF CallFits, At, EndsWell
<1>5. PageFits(World', f, page[t])
    BY <1>1, <1>3, PageKeeps DEF AllFits
<1> HIDE DEF c
<1> QED BY <1>1, <1>2, <1>4, <1>5, QuietStep DEF ClientInv, ClientTyped

--------------------------------------------------------------------------------
\* The gate.
LEMMA Sent ==
    ASSUME ClientInv, NEW t \in Tab, NEW a, NEW op, Handles(a, t, op)
    PROVE  call[t].stage \in {"sent", "forward"} /\ call[t].op = op /\ app = a
BY DEF Handles

LEMMA Asides ==
    ASSUME ClientInv, ServerAside
    PROVE  Serves(Nil)
BY AsideServes DEF ServerAside, ClientInv

LEMMA MailsSent ==
    ASSUME ClientInv, NEW m \in Mail, NEW u \in Address, ServerMails(m, u, TRUE)
    PROVE  Serves(Nil) /\ mail'[m] # "unsent" /\ asked'[m] = u
BY MailsServes DEF ClientInv

LEMMA MailsFail ==
    ASSUME ClientInv, NEW m \in Mail, NEW u \in Address, ServerMails(m, u, FALSE)
    PROVE  Serves(Nil)
BY MailsServes DEF ClientInv

LEMMA PagesArePlain ==
    ASSUME NEW u \in Address
    PROVE  {Login(u, Nil), Landed(u), Redirect(u), ErrorPage, Landed(Nil), Redirect(Nil)} \subseteq PlainPages
BY DEF PlainPages, Address

LEMMA Offered ==
    ASSUME ClientInv, NEW t \in Tab, call[t].stage \in {"sent", "forward"},
           NEW m \in Mail, NEW u \in Address, ServerMails(m, u, TRUE),
           \/ Reply(t, Unchanged, Login(u, m))
           \/ Reply(t, OtpChallengeCookie(m, u), Redirect(u))
    PROVE  ClientInv'
<1>1. Serves(Nil) /\ mail'[m] # "unsent" /\ asked'[m] = u
    BY MailsSent
<1>2. u \in Address
    OBVIOUS
<1> QED BY <1>1, <1>2, OfferReply

LEMMA MailedPlainly ==
    ASSUME ClientInv, NEW t \in Tab, call[t].stage \in {"sent", "forward"},
           NEW m \in Mail, NEW u \in Address, ServerMails(m, u, TRUE) \/ ServerMails(m, u, FALSE),
           NEW set \in Clearing, NEW next \in PlainPages \union {call[t].page}, Reply(t, set, next)
    PROVE  ClientInv'
<1>1. Serves(Nil)
    BY MailsSent, MailsFail
<1> QED BY <1>1, ClearingReply

LEMMA SignsIn ==
    ASSUME ClientInv, NEW t \in Tab, call[t].stage \in {"sent", "forward"},
           NEW m \in Mail, NEW code \in confirmed,
           (m = code /\ ServerExchanges(m, TRUE)) \/ ServerTakesCode(m, code, TRUE),
           NEW clears \in Clearing, NEW set, set \in {SignedIn(m), Over(SignedIn(m), clears)},
           NEW u \in Address, u = asked[m] \/ (app = "fastify" /\ call[t].op = "code"),
           Reply(t, set, Landed(u))
    PROVE  ClientInv'
<1>1. ServerTyped /\ confirmed \in SUBSET Mail
    BY DEF ClientInv, ClientTyped
<1>2. asked' = asked /\ Serves(m)
    BY <1>1, ExchangeServes, CodeServes
<1> QED BY <1>2, SignInReply

LEMMA SignInFails ==
    ASSUME ClientInv, NEW t \in Tab, call[t].stage \in {"sent", "forward"},
           NEW m \in Mail, NEW code \in confirmed,
           (m = code /\ ServerExchanges(m, FALSE)) \/ ServerTakesCode(m, code, FALSE),
           NEW set \in Clearing, NEW next \in PlainPages \union {call[t].page}, Reply(t, set, next)
    PROVE  ClientInv'
<1>1. ServerTyped /\ confirmed \in SUBSET Mail
    BY DEF ClientInv, ClientTyped
<1>2. Serves(Nil)
    BY <1>1, ExchangeServes, CodeServes
<1> QED BY <1>2, ClearingReply

LEMMA StaysAside ==
    ASSUME ClientInv, NEW t \in Tab, call[t].stage \in {"sent", "forward"}, ServerAside,
           NEW set \in Clearing, NEW next \in PlainPages \union {call[t].page, page[t]},
           Reply(t, set, next)
    PROVE  ClientInv'
BY Asides, ClearingReply

\* The page that asks to confirm a mail.
LEMMA Previewed ==
    ASSUME ClientInv, NEW t \in Tab, call[t].stage \in {"sent", "forward"},
           NEW m \in Mail, mail[m] # "unsent", ServerPreviews(m, TRUE), NEW u, u = asked[m],
           csrfs' = csrfs + 1,
           \/ app # "django" /\ Answer(t, Verification(csrfs + 1, m), Confirmation(m, u, csrfs + 1, Nil))
           \/ app # "server" /\ Answer(t, Csrf(csrfs + 1), Confirmation(m, u, csrfs + 1, m))
    PROVE  ClientInv'
<1>1. Serves(Nil) /\ asked' = asked /\ mail' = mail
    BY AsideServes DEF ServerPreviews, ClientInv
<1>2. u \in Address /\ csrfs \in Nat /\ m # Nil
    BY ClassicClientAssumption DEF ClientInv, ServerTyped, ClientTyped
<1>3. ASSUME NEW tok \in {m, Nil}
      PROVE  LET next == Confirmation(m, u, csrfs + 1, tok)
             IN  next \in Pages /\ next.csrf = csrfs + 1 /\ next.mail = m /\ next.url = u
                 /\ next.kind = "confirm" /\ next.token = tok
    BY <1>2 DEF Confirmation, Pages, Mails
<1>4. CASE app # "django" /\ Answer(t, Verification(csrfs + 1, m), Confirmation(m, u, csrfs + 1, Nil))
    <2> DEFINE next == Confirmation(m, u, csrfs + 1, Nil)
    <2>1. Verification(csrfs + 1, m) # Csrf(csrfs + 1)
        BY <1>2, ClassicClientAssumption DEF Verification, Csrf, Cookies
    <2>2. next \in Pages /\ next.csrf = csrfs + 1 /\ next.mail = m /\ next.url = u
          /\ next.kind = "confirm" /\ next.token = Nil
        BY <1>3
    <2>3. Answer(t, Verification(csrfs + 1, m), next)
        BY <1>4
    <2> HIDE DEF next
    <2> QED BY <1>1, <1>2, <1>4, <2>1, <2>2, <2>3, FreshReply DEF Mails
<1>5. CASE app # "server" /\ Answer(t, Csrf(csrfs + 1), Confirmation(m, u, csrfs + 1, m))
    <2> DEFINE next == Confirmation(m, u, csrfs + 1, m)
    <2>1. next \in Pages /\ next.csrf = csrfs + 1 /\ next.mail = m /\ next.url = u
          /\ next.kind = "confirm" /\ next.token = m
        BY <1>3
    <2>2. Answer(t, Csrf(csrfs + 1), next)
        BY <1>5
    <2> HIDE DEF next
    <2> QED BY <1>1, <1>2, <1>5, <2>1, <2>2, FreshReply DEF Mails
<1> QED BY <1>4, <1>5

\* One that carries the token and leaves the cookies alone.
LEMMA PlainlyPreviewed ==
    ASSUME ClientInv, NEW t \in Tab, call[t].stage \in {"sent", "forward"},
           NEW m \in Mail, mail[m] # "unsent", ServerPreviews(m, TRUE), NEW u, u = asked[m],
           app # "server", Reply(t, Unchanged, Confirmation(m, u, 0, m))
    PROVE  ClientInv'
<1>1. PICK f \in [1..csrfs -> Mails] : AllFits(World, f)
    BY DEF ClientInv, EverythingFits
<1>2. Serves(Nil) /\ asked' = asked /\ mail' = mail /\ csrfs' = csrfs /\ app' = app /\ csrfs \in Nat
    BY AsideServes DEF ServerPreviews, ClientInv, ClientTyped, Reply, Answer
<1>3. u \in Address /\ m # Nil /\ csrfs <= csrfs
    BY <1>2, ClassicClientAssumption DEF ClientInv, ServerTyped
<1>4. PageFits(World', f, Confirmation(m, u, 0, m))
    BY <1>2, <1>3 DEF PageFits, Confirmation, Pages, Mails, World
<1>5. SetFits(World', f, Unchanged) /\ Unchanged.auth = Kept
    BY <1>2, ClassicClientAssumption DEF SetFits, World, Unchanged, Cookies
<1>6. EndsWell(World', At("answered", call[t], Unchanged, Confirmation(m, u, 0, m)))
    BY <1>5, ClassicClientAssumption DEF EndsWell, At
<1> QED BY <1>1, <1>2, <1>3, <1>4, <1>5, <1>6, AnswerKeeps DEF Reply

LEMMA NotPreviewed ==
    ASSUME ClientInv, NEW t \in Tab, call[t].stage \in {"sent", "forward"},
           NEW m \in Mail, ServerPreviews(m, FALSE),
           NEW set \in Clearing, NEW next \in PlainPages \union {call[t].page}, Reply(t, set, next)
    PROVE  ClientInv'
<1>1. Serves(Nil)
    BY AsideServes DEF ServerPreviews, ClientInv
<1> QED BY <1>1, ClearingReply

\* What may be exchanged for a confirmation is the mail of its page.
LEMMA ConfirmedMail ==
    ASSUME ClientInv, NEW t \in Tab, call[t].stage \in {"sent", "forward"}, call[t].op = "confirm",
           SameCsrf(call[t])
    PROVE  SubmittedToken(call[t]) # Nil =>
               SubmittedToken(call[t]) \in confirmed /\ SubmittedToken(call[t]) \in Mail
               /\ call[t].page.url = asked[SubmittedToken(call[t])]
<1>1. /\ SubmittedToken(call[t]) \in {Nil, call[t].page.mail} /\ call[t].page.kind = "confirm"
      /\ call[t].page.mail \in confirmed
    BY RequestKeeps
<1>2. call[t].page.mail \in Mail
    BY <1>1 DEF ClientInv, ClientTyped
<1>3. call[t].page.url = asked[call[t].page.mail]
    BY <1>1, <1>2, RequestKeeps, ClassicClientAssumption
<1> QED BY <1>1, <1>2, <1>3

LEMMA ConfirmedToken ==
    ASSUME ClientInv, NEW t \in Tab, call[t].stage \in {"sent", "forward"}, call[t].op = "confirm"
    PROVE  call[t].page.token # Nil =>
               call[t].page.token \in confirmed /\ call[t].page.token \in Mail
               /\ call[t].page.url = asked[call[t].page.token]
<1>1. call[t].page.token \in {Nil, call[t].page.mail} /\ call[t].page.kind = "confirm"
      /\ call[t].page.mail \in confirmed
    BY RequestKeeps
<1>2. call[t].page.mail \in Mail
    BY <1>1 DEF ClientInv, ClientTyped
<1>3. call[t].page.url = asked[call[t].page.mail]
    BY <1>1, <1>2, RequestKeeps, ClassicClientAssumption
<1> QED BY <1>1, <1>2, <1>3

LEMMA GateFormKeeps ==
    ASSUME ClientInv, NEW t \in Tab, GateLogin(t) \/ GateReset(t) \/ GateSignIn(t)
    PROVE  ClientInv'
<1> DEFINE c == call[t]
<1>1. CASE GateLogin(t)
    <2>1. call[t].stage \in {"sent", "forward"} /\ c.op = "login" /\ app = "gate" /\ Serves(Nil)
          /\ asked' = asked /\ mail' = mail
        BY <1>1, Sent, Asides DEF GateLogin, ServerAside
    <2>2. c.input \in Address /\ (c.cookies.otp # Nil =>
                /\ c.cookies.otp \in Challenges /\ mail[c.cookies.otp.mail] # "unsent"
                /\ c.cookies.otp.url = asked[c.cookies.otp.mail])
        BY <2>1, RequestKeeps
    <2>3. CASE c.cookies.otp # Nil /\ c.cookies.otp.url = c.input
        <3>1. Reply(t, Unchanged, Login(c.input, c.cookies.otp.mail)) /\ c.cookies.otp.mail \in Mail
            BY <1>1, <2>2, <2>3 DEF GateLogin, Challenges
        <3> QED BY <2>1, <2>2, <2>3, <3>1, OfferReply
    <2>4. CASE ~(c.cookies.otp # Nil /\ c.cookies.otp.url = c.input)
        <3>1. Reply(t, Unchanged, Login(c.input, Nil))
            BY <1>1, <2>4 DEF GateLogin
        <3> QED BY <2>1, <2>2, <3>1, PagesArePlain, ClearingReply DEF Clearing
    <2> QED BY <2>3, <2>4
<1>2. CASE GateReset(t)
    <2>1. call[t].stage \in {"sent", "forward"} /\ c.op = "reset" /\ Serves(Nil)
        BY <1>2, Sent, Asides DEF GateReset
    <2>2. c.input \in Address
        BY <2>1, RequestKeeps
    <2> QED BY <1>2, <2>1, <2>2, PagesArePlain, ClearingReply DEF Clearing, GateReset
<1>3. CASE GateSignIn(t)
    <2> DEFINE m == c.input
               u == c.page.url
    <2>1. call[t].stage \in {"sent", "forward"} /\ c.op = "signin"
        BY <1>3, Sent DEF GateSignIn
    <2>2. m \in Mail /\ u \in Address
        BY <2>1, RequestKeeps DEF Pages
    <2>3. CASE ServerAside /\ Reply(t, Unchanged, Landed(Nil))
        BY <2>1, <2>2, <2>3, PagesArePlain, StaysAside DEF Clearing
    <2>4. CASE ServerMails(m, u, FALSE) /\ Reply(t, Unchanged, Redirect(u))
        BY <2>1, <2>2, <2>4, PagesArePlain, MailedPlainly DEF Clearing
    <2>5. CASE ServerMails(m, u, TRUE) /\ Reply(t, OtpChallengeCookie(m, u), Redirect(u))
        BY <2>1, <2>2, <2>5, Offered
    <2>6. CASE ServerMails(m, u, TRUE) /\ Reply(t, ClearOtp, Redirect(u))
        BY <2>1, <2>2, <2>6, PagesArePlain, MailedPlainly DEF Clearing
    <2> QED BY <1>3, <2>3, <2>4, <2>5, <2>6 DEF GateSignIn
<1> QED BY <1>1, <1>2, <1>3

LEMMA GatePreviewKeeps ==
    ASSUME ClientInv, NEW t \in Tab, GatePreview(t)
    PROVE  ClientInv'
<1> DEFINE m == call[t].input
<1>1. call[t].stage \in {"sent", "forward"} /\ call[t].op = "preview" /\ app = "gate"
    BY Sent DEF GatePreview
<1>2. m \in Mail /\ mail[m] # "unsent" /\ asked[m] \in Address
    BY <1>1, RequestKeeps DEF ClientInv, ServerTyped
<1>3. CASE ServerPreviews(m, TRUE) /\ csrfs' = csrfs + 1
           /\ Answer(t, Verification(csrfs + 1, m), Confirmation(m, asked[m], csrfs + 1, Nil))
    BY <1>1, <1>2, <1>3, Previewed
<1>4. CASE ServerPreviews(m, FALSE) /\ Reply(t, ClearVerifyEmail, Redirect(asked[m]))
    BY <1>1, <1>2, <1>4, PagesArePlain, NotPreviewed DEF Clearing
<1> QED BY <1>3, <1>4 DEF GatePreview

LEMMA GateConfirmKeeps ==
    ASSUME ClientInv, NEW t \in Tab, GateConfirm(t)
    PROVE  ClientInv'
<1> DEFINE c == call[t]
           m == GateTokenToExchange(c)
           u == c.page.url
<1>1. c.stage \in {"sent", "forward"} /\ c.op = "confirm"
    BY Sent DEF GateConfirm
<1>2. u \in Address
    BY <1>1, RequestKeeps DEF Pages
<1>3. m # Nil => m \in confirmed /\ m \in Mail /\ u = asked[m]
    BY <1>1, ConfirmedMail DEF GateTokenToExchange
<1>4. CASE ServerAside /\ Reply(t, Unchanged, Landed(Nil))
    BY <1>1, <1>2, <1>4, PagesArePlain, StaysAside DEF Clearing
<1>5. CASE ServerAside /\ Reply(t, ClearVerifyEmail, Redirect(u))
    BY <1>1, <1>2, <1>5, PagesArePlain, StaysAside DEF Clearing
<1>6. CASE /\ m # Nil /\ ServerExchanges(m, TRUE)
           /\ Reply(t, Over(SignedIn(m), ClearVerifyEmail), Landed(u))
    BY <1>1, <1>2, <1>3, <1>6, SignsIn DEF Clearing
<1>7. CASE m # Nil /\ ServerExchanges(m, FALSE) /\ Reply(t, ClearVerifyEmail, Redirect(u))
    BY <1>1, <1>2, <1>3, <1>7, PagesArePlain, SignInFails DEF Clearing
<1> HIDE DEF m, u
<1> QED BY <1>4, <1>5, <1>6, <1>7 DEF GateConfirm, m, u

LEMMA GateCodeKeeps ==
    ASSUME ClientInv, NEW t \in Tab, GateCode(t)
    PROVE  ClientInv'
<1> DEFINE c == call[t]
           otp == c.cookies.otp
<1>1. c.stage \in {"sent", "forward"} /\ c.op = "code" /\ app = "gate"
    BY Sent DEF GateCode
<1>2. c.input \in confirmed
    BY <1>1, RequestKeeps
<1>3. otp # Nil => otp.mail \in Mail /\ otp.url \in Address /\ otp.url = asked[otp.mail]
    BY <1>1, RequestKeeps DEF Challenges
<1>4. CASE ServerAside /\ Reply(t, Unchanged, Landed(Nil))
    BY <1>1, <1>4, PagesArePlain, StaysAside DEF Clearing, Address
<1>5. CASE ServerAside /\ Reply(t, ClearOtp, Redirect(Nil))
    BY <1>1, <1>5, PagesArePlain, StaysAside DEF Clearing, Address
<1>6. CASE /\ otp # Nil /\ ServerTakesCode(otp.mail, c.input, TRUE)
           /\ Reply(t, Over(SignedIn(otp.mail), ClearOtp), Landed(otp.url))
    BY <1>1, <1>2, <1>3, <1>6, SignsIn DEF Clearing
<1>7. CASE /\ otp # Nil /\ ServerTakesCode(otp.mail, c.input, FALSE)
           /\ Reply(t, Unchanged, Redirect(otp.url))
    BY <1>1, <1>2, <1>3, <1>7, PagesArePlain, SignInFails DEF Clearing
<1> QED BY <1>4, <1>5, <1>6, <1>7 DEF GateCode, CodeLeadsTo

LEMMA GateLogoutKeeps ==
    ASSUME ClientInv, NEW t \in Tab, GateLogout(t)
    PROVE  ClientInv'
<1>1. call[t].stage \in {"sent", "forward"}
    BY Sent DEF GateLogout
<1>2. CASE ServerAside /\ Reply(t, Unchanged, Landed(Nil))
    BY <1>1, <1>2, PagesArePlain, StaysAside DEF Clearing, Address
<1>3. CASE /\ Reply(t, SignedOut, Landed(Nil)) /\ UNCHANGED <<mail, asked, lost>>
           /\ ServerRevokes(call[t].cookies.auth) \/ UNCHANGED session
    <2>1. Serves(Nil)
        <3>1. ServerTyped
            BY DEF ClientInv
        <3>2. call[t].cookies.auth # Nil =>
                  call[t].cookies.auth \in Mail /\ session[call[t].cookies.auth] # "none"
            BY <1>1, RequestKeeps DEF Mails
        <3> QED BY <1>3, <3>1, <3>2, RevokeServes, AsideServes
    <2> QED BY <1>1, <1>3, <2>1, PagesArePlain, ClearingReply DEF Clearing, Address
<1> QED BY <1>2, <1>3 DEF GateLogout

LEMMA GateChecksKeeps ==
    ASSUME ClientInv, NEW t \in Tab,
           \/ GateChecksVisit(t) \/ GateChecksUpgrade(t)
           \/ GateForwardsVisit(t) \/ GateForwardsUpgrade(t)
    PROVE  ClientInv'
<1>1. ASSUME UNCHANGED <<mail, asked, session, lost>> PROVE Serves(Nil)
    BY <1>1, AsideServes DEF ClientInv
<1>2. CASE GateChecksVisit(t)
    <2>1. call[t].stage = "sent" /\ call[t].op = "visit" /\ Serves(Nil)
        BY <1>1, <1>2 DEF GateChecksVisit, Handles
    <2>2. call[t].input \in Address
        BY <2>1, RequestKeeps
    <2>3. CASE Forwards(t)
        BY <2>1, <2>3, ForwardsKeeps
    <2>4. CASE Reply(t, Unchanged, Redirect(call[t].input))
        BY <2>1, <2>2, <2>4, PagesArePlain, ClearingReply DEF Clearing
    <2> QED BY <1>2, <2>3, <2>4 DEF GateChecksVisit
<1>3. CASE GateChecksUpgrade(t)
    <2>1. call[t].stage = "sent" /\ Serves(Nil)
        BY <1>1, <1>3 DEF GateChecksUpgrade, Handles
    <2>2. CASE Forwards(t)
        BY <2>1, <2>2, ForwardsKeeps
    <2>3. CASE Reply(t, Unchanged, call[t].page)
        BY <2>1, <2>3, ClearingReply DEF Clearing
    <2> QED BY <1>3, <2>2, <2>3 DEF GateChecksUpgrade, Stays
<1>4. CASE GateForwardsVisit(t)
    <2>1. call[t].stage = "forward" /\ call[t].op = "visit" /\ ServerAside
          /\ Reply(t, Unchanged, Landed(call[t].input))
        BY <1>4 DEF GateForwardsVisit
    <2>2. call[t].input \in Address
        BY <2>1, RequestKeeps
    <2> QED BY <2>1, <2>2, PagesArePlain, StaysAside DEF Clearing
<1>5. CASE GateForwardsUpgrade(t)
    <2>1. /\ call[t].stage = "forward" /\ Serves(Nil)
          /\ call' = [call EXCEPT ![t] = At("answered", call[t], Unchanged, page[t])]
          /\ UNCHANGED <<app, jar, page, confirmed, delivered, csrfs>>
        BY <1>1, <1>5 DEF GateForwardsUpgrade, ServerAside
    <2>2. PICK f \in [1..csrfs -> Mails] : AllFits(World, f)
        BY DEF ClientInv, EverythingFits
    <2> DEFINE c == At("answered", call[t], Unchanged, page[t])
    <2>3. Grows(World, f, World', f)
        BY <2>1, ServesGrows DEF ClientInv, ClientTyped
    <2>4. PageFits(World', f, page[t])
        BY <2>2, <2>3, PageKeeps DEF AllFits
    <2>5. CallFits(World', f, c)
        <3>1. call[t] # Waiting
            BY <2>1 DEF Waiting
        <3>2. CallFits(World', f, call[t])
            BY <2>2, <2>3, CallKeeps DEF AllFits
        <3>3. SetFits(World', f, Unchanged) /\ Unchanged.auth = Kept
            BY <2>1, ClassicClientAssumption DEF SetFits, World, Unchanged, Cookies, ClientInv, ClientTyped
        <3> QED BY <2>4, <3>1, <3>2, <3>3, ClassicClientAssumption DEF CallFits, At, EndsWell
    <2> HIDE DEF c
    <2> QED BY <2>1, <2>2, <2>4, <2>5, QuietStep DEF ClientInv, ClientTyped, c
<1> QED BY <1>2, <1>3, <1>4, <1>5

LEMMA GateKeeps ==
    ASSUME ClientInv, NEW t \in Tab, GateHandles(t)
    PROVE  ClientInv'
BY GateFormKeeps, GatePreviewKeeps, GateConfirmKeeps, GateCodeKeeps, GateLogoutKeeps, GateChecksKeeps
   DEF GateHandles

--------------------------------------------------------------------------------
\* What several applications do alike.
LEMMA PlainLoginKeeps ==
    ASSUME ClientInv, NEW t \in Tab, call[t].stage \in {"sent", "forward"},
           call[t].op \in {"login", "reset"}, PlainLogin(t)
    PROVE  ClientInv'
<1>1. call[t].input \in Address
    BY RequestKeeps
<1> QED BY <1>1, PagesArePlain, StaysAside DEF Clearing, PlainLogin

LEMMA DropsCookieKeeps ==
    ASSUME ClientInv, NEW t \in Tab, call[t].stage \in {"sent", "forward"}, DropsCookie(t)
    PROVE  ClientInv'
BY PagesArePlain, StaysAside DEF Clearing, DropsCookie, Address

LEMMA ChecksLocallyKeeps ==
    ASSUME ClientInv, NEW t \in Tab, call[t].stage \in {"sent", "forward"}, call[t].op = "visit",
           NEW otherwise \in PlainPages, ChecksLocally(t, otherwise)
    PROVE  ClientInv'
<1>1. call[t].input \in Address
    BY RequestKeeps
<1>2. Landed(call[t].input) \in PlainPages
    BY <1>1, PagesArePlain
<1> QED BY <1>2, StaysAside DEF Clearing, ChecksLocally

LEMMA ScriptedSignInKeeps ==
    ASSUME ClientInv, NEW t \in Tab, call[t].stage \in {"sent", "forward"},
           call[t].op = "signin", ScriptedSignIn(t)
    PROVE  ClientInv'
<1> DEFINE m == call[t].input
           u == call[t].page.url
<1>1. m \in Mail /\ u \in Address
    BY RequestKeeps DEF Pages
<1>2. CASE ServerMails(m, u, FALSE) /\ Reply(t, Unchanged, call[t].page)
    BY <1>1, <1>2, MailedPlainly DEF Clearing
<1>3. CASE ServerMails(m, u, TRUE) /\ Reply(t, Unchanged, Login(u, m))
    BY <1>1, <1>3, Offered
<1>4. CASE ServerMails(m, u, TRUE) /\ Reply(t, Unchanged, Login(u, Nil))
    BY <1>1, <1>4, PagesArePlain, MailedPlainly DEF Clearing
<1> QED BY <1>2, <1>3, <1>4 DEF ScriptedSignIn, Stays

LEMMA PageOfCode ==
    ASSUME ClientInv, NEW t \in Tab, call[t].stage \in {"sent", "forward"}, call[t].op = "code"
    PROVE  /\ call[t].input \in confirmed /\ call[t].page.mail \in Mail
           /\ call[t].page.url \in Address
           /\ app # "fastify" => call[t].page.url = asked[call[t].page.mail]
BY RequestKeeps, ClassicClientAssumption DEF Pages

LEMMA ScriptedCodeKeeps ==
    ASSUME ClientInv, NEW t \in Tab, call[t].stage \in {"sent", "forward"},
           call[t].op = "code", app # "fastify", ScriptedCode(t)
    PROVE  ClientInv'
<1> DEFINE m == call[t].page.mail
           u == call[t].page.url
<1>1. call[t].input \in confirmed /\ m \in Mail /\ u \in Address /\ u = asked[m]
    BY PageOfCode
<1>2. CASE ServerTakesCode(m, call[t].input, FALSE) /\ Reply(t, Unchanged, call[t].page)
    BY <1>1, <1>2, SignInFails DEF Clearing
<1>3. CASE ServerTakesCode(m, call[t].input, TRUE) /\ Reply(t, SignedIn(m), Landed(u))
    BY <1>1, <1>3, SignsIn DEF Clearing
<1> QED BY <1>2, <1>3 DEF ScriptedCode, Stays

LEMMA ConfirmKeeps ==
    ASSUME ClientInv, NEW t \in Tab, call[t].stage \in {"sent", "forward"}, call[t].op = "confirm",
           NEW m \in confirmed, m \in Mail, call[t].page.url = asked[m],
           NEW clears \in Clearing, NEW set \in {SignedIn(m), Over(SignedIn(m), clears)},
           NEW next \in PlainPages,
           \/ ServerExchanges(m, FALSE) /\ Reply(t, clears, next)
           \/ ServerExchanges(m, TRUE) /\ Reply(t, set, Landed(call[t].page.url))
    PROVE  ClientInv'
<1>1. call[t].page.url \in Address
    BY RequestKeeps DEF Pages
<1>2. CASE ServerExchanges(m, FALSE) /\ Reply(t, clears, next)
    BY <1>2, SignInFails
<1>3. CASE ServerExchanges(m, TRUE) /\ Reply(t, set, Landed(call[t].page.url))
    BY <1>1, <1>3, SignsIn
<1> QED BY <1>2, <1>3

--------------------------------------------------------------------------------
\* Next.js
LEMMA NextKeeps ==
    ASSUME ClientInv, NEW t \in Tab, NextHandles(t)
    PROVE  ClientInv'
<1> DEFINE c == call[t]
           u == c.page.url
<1>0. \A op : Handles("nextjs", t, op) => c.stage \in {"sent", "forward"} /\ c.op = op /\ app = "nextjs"
    BY DEF Handles
<1>1. CASE NextLogin(t)
    BY <1>0, <1>1, PlainLoginKeeps DEF NextLogin
<1>2. CASE NextSignIn(t)
    BY <1>0, <1>2, ScriptedSignInKeeps DEF NextSignIn
<1>3. CASE NextCode(t)
    BY <1>0, <1>3, ScriptedCodeKeeps, StaysAside DEF NextCode, Stays, Clearing
<1>4. CASE NextPreview(t)
    <2> DEFINE m == c.input
    <2>1. c.stage \in {"sent", "forward"} /\ c.op = "preview" /\ app = "nextjs"
        BY <1>0, <1>4 DEF NextPreview
    <2>2. m \in Mail /\ mail[m] # "unsent" /\ asked[m] \in Address
        BY <2>1, RequestKeeps DEF ClientInv, ServerTyped
    <2>3. CASE ServerPreviews(m, TRUE) /\ csrfs' = csrfs + 1
               /\ Answer(t, Verification(csrfs + 1, m), Confirmation(m, asked[m], csrfs + 1, Nil))
        BY <2>1, <2>2, <2>3, Previewed
    <2>4. CASE ServerPreviews(m, FALSE) /\ Reply(t, Unchanged, Login(asked[m], Nil))
        BY <2>1, <2>2, <2>4, PagesArePlain, NotPreviewed DEF Clearing
    <2> QED BY <1>4, <2>3, <2>4 DEF NextPreview
<1>5. CASE NextConfirm(t)
    <2> DEFINE m == NextVerifiedToken(c)
    <2>1. c.stage \in {"sent", "forward"} /\ c.op = "confirm"
        BY <1>0, <1>5 DEF NextConfirm
    <2>2. u \in Address
        BY <2>1, RequestKeeps DEF Pages
    <2>3. m # Nil => m \in confirmed /\ m \in Mail /\ u = asked[m]
        BY <2>1, ConfirmedMail DEF NextVerifiedToken
    <2>4. Login(u, Nil) \in PlainPages /\ ClearConfirm \in Clearing
        BY <2>2, PagesArePlain DEF Clearing
    <2>5. \/ m = Nil /\ ServerAside /\ Reply(t, ClearConfirm, Login(u, Nil))
          \/ m # Nil /\ ServerExchanges(m, FALSE) /\ Reply(t, ClearConfirm, Login(u, Nil))
          \/ m # Nil /\ ServerExchanges(m, TRUE)
               /\ Reply(t, Over(SignedIn(m), ClearConfirm), Landed(u))
        BY <1>5 DEF NextConfirm, NextFails
    <2> HIDE DEF m
    <2> QED BY <2>1, <2>3, <2>4, <2>5, ConfirmKeeps, StaysAside
<1>6. CASE NextLogout(t)
    BY <1>0, <1>6, DropsCookieKeeps DEF NextLogout
<1>7. CASE NextVisit(t)
    <2>1. c.stage \in {"sent", "forward"} /\ c.op = "visit" /\ ServerAside
        BY <1>0, <1>7 DEF NextVisit
    <2>2. Login(c.input, Nil) \in PlainPages /\ Landed(c.input) \in PlainPages
        BY <2>1, RequestKeeps, PagesArePlain
    <2>3. \/ Reply(t, Unchanged, Login(c.input, Nil)) \/ Reply(t, Unchanged, Landed(c.input))
          \/ Reply(t, SignedOut, Login(c.input, Nil))
        BY <1>7 DEF NextVisit
    <2> QED BY <2>1, <2>2, <2>3, StaysAside DEF Clearing
<1> QED BY <1>1, <1>2, <1>3, <1>4, <1>5, <1>6, <1>7 DEF NextHandles

--------------------------------------------------------------------------------
\* Nuxt
LEMMA NuxtKeeps ==
    ASSUME ClientInv, NEW t \in Tab, NuxtHandles(t)
    PROVE  ClientInv'
<1> DEFINE c == call[t]
           u == c.page.url
<1>0. \A op : Handles("nuxt", t, op) => c.stage \in {"sent", "forward"} /\ c.op = op /\ app = "nuxt"
    BY DEF Handles
<1>1. CASE NuxtLogin(t)
    BY <1>0, <1>1, PlainLoginKeeps DEF NuxtLogin
<1>2. CASE NuxtSignIn(t)
    BY <1>0, <1>2, ScriptedSignInKeeps DEF NuxtSignIn
<1>3. CASE NuxtCode(t)
    BY <1>0, <1>3, ScriptedCodeKeeps, StaysAside DEF NuxtCode, Stays, Clearing
<1>4. CASE NuxtPreview(t)
    <2> DEFINE m == c.input
    <2>1. c.stage \in {"sent", "forward"} /\ c.op = "preview" /\ app = "nuxt"
        BY <1>0, <1>4 DEF NuxtPreview
    <2>2. m \in Mail /\ mail[m] # "unsent" /\ asked[m] \in Address
        BY <2>1, RequestKeeps DEF ClientInv, ServerTyped
    <2>3. CASE ServerPreviews(m, TRUE) /\ csrfs' = csrfs + 1
               /\ Answer(t, Csrf(csrfs + 1), Confirmation(m, asked[m], csrfs + 1, m))
        BY <2>1, <2>2, <2>3, Previewed
    <2>4. CASE ServerPreviews(m, FALSE) /\ Reply(t, Unchanged, Login(asked[m], Nil))
        BY <2>1, <2>2, <2>4, PagesArePlain, NotPreviewed DEF Clearing
    <2> QED BY <1>4, <2>3, <2>4 DEF NuxtPreview
<1>5. CASE NuxtConfirm(t)
    <2> DEFINE m == NuxtConfirmedToken(c)
    <2>1. c.stage \in {"sent", "forward"} /\ c.op = "confirm"
        BY <1>0, <1>5 DEF NuxtConfirm
    <2>2. u \in Address
        BY <2>1, RequestKeeps DEF Pages
    <2>3. m # Nil => m \in confirmed /\ m \in Mail /\ u = asked[m]
        BY <2>1, ConfirmedToken DEF NuxtConfirmedToken
    <2>4. Login(u, Nil) \in PlainPages /\ ClearCsrf \in Clearing
        BY <2>2, PagesArePlain DEF Clearing
    <2>5. \/ m = Nil /\ ServerAside /\ Reply(t, ClearCsrf, Login(u, Nil))
          \/ m # Nil /\ ServerExchanges(m, FALSE) /\ Reply(t, ClearCsrf, Login(u, Nil))
          \/ m # Nil /\ ServerExchanges(m, TRUE)
               /\ Reply(t, Over(SignedIn(m), ClearCsrf), Landed(u))
        BY <1>5 DEF NuxtConfirm
    <2> HIDE DEF m
    <2> QED BY <2>1, <2>3, <2>4, <2>5, ConfirmKeeps, StaysAside
<1>6. CASE NuxtLogout(t)
    BY <1>0, <1>6, DropsCookieKeeps DEF NuxtLogout
<1>7. CASE NuxtVisit(t)
    <2>1. Handles("nuxt", t, "visit") /\ ChecksLocally(t, Login(c.input, Nil))
        BY <1>7 DEF NuxtVisit
    <2>2. Login(c.input, Nil) \in PlainPages
        BY <1>0, <2>1, RequestKeeps, PagesArePlain
    <2> QED BY <1>0, <2>1, <2>2, ChecksLocallyKeeps
<1> QED BY <1>1, <1>2, <1>3, <1>4, <1>5, <1>6, <1>7 DEF NuxtHandles

--------------------------------------------------------------------------------
\* Angular
LEMMA AngularKeeps ==
    ASSUME ClientInv, NEW t \in Tab, AngularHandles(t)
    PROVE  ClientInv'
<1> DEFINE c == call[t]
           u == c.page.url
<1>0. \A op : Handles("angular", t, op) => c.stage \in {"sent", "forward"} /\ c.op = op /\ app = "angular"
    BY DEF Handles
<1>1. CASE AngularLogin(t)
    BY <1>0, <1>1, PlainLoginKeeps DEF AngularLogin
<1>2. CASE AngularSignIn(t)
    BY <1>0, <1>2, ScriptedSignInKeeps DEF AngularSignIn
<1>3. CASE AngularCode(t)
    BY <1>0, <1>3, ScriptedCodeKeeps, StaysAside DEF AngularCode, Stays, Clearing
<1>4. CASE AngularPreview(t)
    <2> DEFINE m == c.input
    <2>1. c.stage \in {"sent", "forward"} /\ c.op = "preview" /\ app = "angular"
        BY <1>0, <1>4 DEF AngularPreview
    <2>2. m \in Mail /\ mail[m] # "unsent" /\ asked[m] \in Address
        BY <2>1, RequestKeeps DEF ClientInv, ServerTyped
    <2>3. CASE ServerPreviews(m, TRUE) /\ csrfs' = csrfs + 1
               /\ Answer(t, Verification(csrfs + 1, m), Confirmation(m, asked[m], csrfs + 1, Nil))
        BY <2>1, <2>2, <2>3, Previewed
    <2>4. CASE ServerPreviews(m, FALSE) /\ Reply(t, Unchanged, Login(asked[m], Nil))
        BY <2>1, <2>2, <2>4, PagesArePlain, NotPreviewed DEF Clearing
    <2> QED BY <1>4, <2>3, <2>4 DEF AngularPreview
<1>5. CASE AngularConfirm(t)
    <2> DEFINE m == IF SameCsrf(c) THEN SubmittedToken(c) ELSE Nil
    <2>1. c.stage \in {"sent", "forward"} /\ c.op = "confirm"
        BY <1>0, <1>5 DEF AngularConfirm
    <2>2. u \in Address
        BY <2>1, RequestKeeps DEF Pages
    <2>3. m # Nil => m \in confirmed /\ m \in Mail /\ u = asked[m]
        BY <2>1, ConfirmedMail
    <2>4. Login(u, Nil) \in PlainPages /\ ClearConfirm \in Clearing
        BY <2>2, PagesArePlain DEF Clearing
    <2>5. \/ m = Nil /\ ServerAside /\ Reply(t, ClearConfirm, Login(u, Nil))
          \/ m # Nil /\ ServerExchanges(m, FALSE) /\ Reply(t, ClearConfirm, Login(u, Nil))
          \/ m # Nil /\ ServerExchanges(m, TRUE)
               /\ Reply(t, Over(SignedIn(m), ClearConfirm), Landed(u))
        BY <1>5 DEF AngularConfirm
    <2> HIDE DEF m
    <2> QED BY <2>1, <2>3, <2>4, <2>5, ConfirmKeeps, StaysAside
<1>6. CASE AngularLogout(t)
    BY <1>0, <1>6, DropsCookieKeeps DEF AngularLogout
<1>7. CASE AngularVisit(t)
    <2>1. Handles("angular", t, "visit") /\ ChecksLocally(t, Login(c.input, Nil))
        BY <1>7 DEF AngularVisit
    <2>2. Login(c.input, Nil) \in PlainPages
        BY <1>0, <2>1, RequestKeeps, PagesArePlain
    <2> QED BY <1>0, <2>1, <2>2, ChecksLocallyKeeps
<1> QED BY <1>1, <1>2, <1>3, <1>4, <1>5, <1>6, <1>7 DEF AngularHandles

--------------------------------------------------------------------------------
\* Django
LEMMA DjangoKeeps ==
    ASSUME ClientInv, NEW t \in Tab, DjangoHandles(t)
    PROVE  ClientInv'
<1> DEFINE c == call[t]
           u == c.page.url
<1>0. \A op : Handles("django", t, op) => c.stage \in {"sent", "forward"} /\ c.op = op /\ app = "django"
    BY DEF Handles
<1>1. CASE DjangoLogin(t)
    BY <1>0, <1>1, PlainLoginKeeps DEF DjangoLogin
<1>2. CASE DjangoSignIn(t)
    <2> DEFINE m == c.input
    <2>1. c.stage \in {"sent", "forward"} /\ c.op = "signin"
        BY <1>0, <1>2 DEF DjangoSignIn
    <2>2. m \in Mail /\ u \in Address
        BY <2>1, RequestKeeps DEF Pages
    <2>3. CASE ServerMails(m, u, TRUE) /\ Reply(t, Unchanged, Login(u, m))
        BY <2>1, <2>2, <2>3, Offered
    <2>4. CASE /\ ServerMails(m, u, TRUE) \/ ServerMails(m, u, FALSE)
               /\ Reply(t, Unchanged, Login(u, Nil))
        BY <2>1, <2>2, <2>4, PagesArePlain, MailedPlainly DEF Clearing
    <2> QED BY <1>2, <2>3, <2>4 DEF DjangoSignIn
<1>3. CASE DjangoPreview(t)
    <2> DEFINE m == c.input
    <2>1. c.stage \in {"sent", "forward"} /\ c.op = "preview" /\ app = "django"
        BY <1>0, <1>3 DEF DjangoPreview
    <2>2. m \in Mail /\ mail[m] # "unsent" /\ asked[m] \in Address
        BY <2>1, RequestKeeps DEF ClientInv, ServerTyped
    <2>3. CASE ServerPreviews(m, TRUE) /\ Reply(t, Unchanged, Confirmation(m, asked[m], 0, m))
        BY <2>1, <2>2, <2>3, PlainlyPreviewed
    <2>4. CASE ServerPreviews(m, FALSE) /\ Reply(t, Unchanged, Login(asked[m], Nil))
        BY <2>1, <2>2, <2>4, PagesArePlain, NotPreviewed DEF Clearing
    <2> QED BY <1>3, <2>3, <2>4 DEF DjangoPreview
<1>4. CASE DjangoConfirm(t)
    <2> DEFINE m == c.page.token
    <2>1. c.stage \in {"sent", "forward"} /\ c.op = "confirm" /\ app = "django"
        BY <1>0, <1>4 DEF DjangoConfirm
    <2>2. u \in Address
        BY <2>1, RequestKeeps DEF Pages
    <2>3. m \in confirmed /\ m \in Mail /\ u = asked[m]
        BY <2>1, RequestKeeps, ConfirmedToken
    <2>4. Login(u, Nil) \in PlainPages /\ Unchanged \in Clearing
        BY <2>2, PagesArePlain DEF Clearing
    <2>5. \/ ServerExchanges(m, FALSE) /\ Reply(t, Unchanged, Login(u, Nil))
          \/ ServerExchanges(m, TRUE) /\ Reply(t, SignedIn(m), Landed(u))
        BY <1>4 DEF DjangoConfirm
    <2> HIDE DEF m
    <2> QED BY <2>1, <2>3, <2>4, <2>5, ConfirmKeeps
<1>5. CASE DjangoCode(t)
    <2> DEFINE m == c.page.mail
    <2>1. c.stage \in {"sent", "forward"} /\ c.op = "code" /\ app # "fastify"
        BY <1>0, <1>5 DEF DjangoCode
    <2>2. c.input \in confirmed /\ m \in Mail /\ u \in Address /\ u = asked[m] /\ mail[m] # "unsent"
        BY <2>1, PageOfCode, RequestKeeps, ClassicClientAssumption
    <2>3. CASE ServerTakesCode(m, c.input, FALSE) /\ Reply(t, Unchanged, Login(u, m))
        <3>1. ServerTyped /\ confirmed \in SUBSET Mail
            BY DEF ClientInv, ClientTyped
        <3>2. Serves(Nil) /\ asked' = asked
            BY <2>2, <2>3, <3>1, CodeServes
        <3>3. mail'[m] # "unsent"
            BY <2>2, <3>2 DEF Serves
        <3> QED BY <2>1, <2>2, <2>3, <3>2, <3>3, OfferReply
    <2>4. CASE ServerTakesCode(m, c.input, TRUE) /\ Reply(t, SignedIn(m), Landed(u))
        BY <2>1, <2>2, <2>4, SignsIn DEF Clearing
    <2> QED BY <1>5, <2>3, <2>4 DEF DjangoCode
<1>6. CASE DjangoLogout(t)
    BY <1>0, <1>6, PagesArePlain, StaysAside DEF DjangoLogout, Clearing, Address
<1>7. CASE DjangoVisit(t)
    <2>1. Handles("django", t, "visit") /\ ChecksLocally(t, Login(c.input, Nil))
        BY <1>7 DEF DjangoVisit
    <2>2. Login(c.input, Nil) \in PlainPages
        BY <1>0, <2>1, RequestKeeps, PagesArePlain
    <2> QED BY <1>0, <2>1, <2>2, ChecksLocallyKeeps
<1> QED BY <1>1, <1>2, <1>3, <1>4, <1>5, <1>6, <1>7 DEF DjangoHandles

--------------------------------------------------------------------------------
\* Fastify
LEMMA FastifyFormKeeps ==
    ASSUME ClientInv, NEW t \in Tab, FastifyLogin(t) \/ FastifyReset(t) \/ FastifySignIn(t)
    PROVE  ClientInv'
<1> DEFINE c == call[t]
<1>0. \A op : Handles("fastify", t, op) => c.stage \in {"sent", "forward"} /\ c.op = op /\ app = "fastify"
    BY DEF Handles
<1>1. CASE FastifyLogin(t)
    <2>1. c.stage \in {"sent", "forward"} /\ c.op = "login" /\ app = "fastify" /\ ServerAside
        BY <1>0, <1>1 DEF FastifyLogin
    <2>2. Serves(Nil) /\ mail' = mail
        BY <2>1, Asides DEF ServerAside
    <2>3. c.input \in Address /\ (c.cookies.otp # Nil =>
                c.cookies.otp \in Challenges /\ mail[c.cookies.otp.mail] # "unsent")
        BY <2>1, RequestKeeps
    <2>4. CASE c.cookies.otp # Nil
        <3>1. Reply(t, Unchanged, Login(c.input, c.cookies.otp.mail)) /\ c.cookies.otp.mail \in Mail
            BY <1>1, <2>3, <2>4 DEF FastifyLogin, Challenges
        <3> QED BY <2>1, <2>2, <2>3, <2>4, <3>1, OfferReply
    <2>5. CASE c.cookies.otp = Nil
        <3>1. Reply(t, Unchanged, Login(c.input, Nil))
            BY <1>1, <2>5 DEF FastifyLogin
        <3> QED BY <2>1, <2>3, <3>1, PagesArePlain, StaysAside DEF Clearing
    <2> QED BY <2>4, <2>5
<1>2. CASE FastifyReset(t)
    <2>1. c.stage \in {"sent", "forward"} /\ c.op = "reset"
        BY <1>0, <1>2 DEF FastifyReset
    <2>2. c.input \in Address
        BY <2>1, RequestKeeps
    <2> QED BY <1>2, <2>1, <2>2, PagesArePlain, StaysAside DEF Clearing, FastifyReset
<1>3. CASE FastifySignIn(t)
    <2> DEFINE m == c.input
               u == c.page.url
    <2>1. c.stage \in {"sent", "forward"} /\ c.op = "signin" /\ app = "fastify"
        BY <1>0, <1>3 DEF FastifySignIn
    <2>2. m \in Mail /\ u \in Address
        BY <2>1, RequestKeeps DEF Pages
    <2>3. CASE ServerMails(m, u, FALSE) /\ Reply(t, Unchanged, Redirect(u))
        BY <2>1, <2>2, <2>3, PagesArePlain, MailedPlainly DEF Clearing
    <2>4. CASE ServerMails(m, u, TRUE) /\ Reply(t, StoreOtpChallenge(m), Redirect(u))
        <3>1. Serves(Nil) /\ mail'[m] # "unsent"
            BY <2>2, <2>4, MailsSent
        <3>2. Reply(t, OtpChallengeCookie(m, Nil), Redirect(u)) /\ Nil \in Address
            BY <2>4 DEF StoreOtpChallenge, Address
        <3> QED BY <2>1, <2>2, <3>1, <3>2, OfferReply
    <2>5. CASE ServerMails(m, u, TRUE) /\ Reply(t, ClearOtp, Redirect(u))
        BY <2>1, <2>2, <2>5, PagesArePlain, MailedPlainly DEF Clearing
    <2> QED BY <1>3, <2>3, <2>4, <2>5 DEF FastifySignIn
<1> QED BY <1>1, <1>2, <1>3

LEMMA FastifyCodeKeeps ==
    ASSUME ClientInv, NEW t \in Tab, FastifyCode(t)
    PROVE  ClientInv'
<1> DEFINE c == call[t]
           otp == c.cookies.otp
           u == c.page.url
<1>1. c.stage \in {"sent", "forward"} /\ c.op = "code" /\ app = "fastify"
    BY Sent DEF FastifyCode
<1>2. c.input \in confirmed /\ u \in Address
    BY <1>1, PageOfCode
<1>3. otp # Nil => otp.mail \in Mail
    BY <1>1, RequestKeeps DEF Challenges
<1>4. CASE ServerAside /\ Reply(t, Unchanged, Redirect(u))
    BY <1>1, <1>2, <1>4, PagesArePlain, StaysAside DEF Clearing
<1>5. CASE /\ otp # Nil /\ ServerTakesCode(otp.mail, c.input, TRUE)
           /\ Reply(t, Over(SignedIn(otp.mail), ClearOtp), Landed(u))
    BY <1>1, <1>2, <1>3, <1>5, SignsIn DEF Clearing
<1>6. CASE /\ otp # Nil /\ ServerTakesCode(otp.mail, c.input, FALSE)
           /\ Reply(t, Unchanged, Redirect(u))
    BY <1>1, <1>2, <1>3, <1>6, PagesArePlain, SignInFails DEF Clearing
<1> QED BY <1>4, <1>5, <1>6 DEF FastifyCode

LEMMA FastifyKeeps ==
    ASSUME ClientInv, NEW t \in Tab, FastifyHandles(t)
    PROVE  ClientInv'
<1> DEFINE c == call[t]
           u == c.page.url
<1>0. \A op : Handles("fastify", t, op) => c.stage \in {"sent", "forward"} /\ c.op = op /\ app = "fastify"
    BY DEF Handles
<1>1. CASE FastifyPreview(t)
    <2> DEFINE m == c.input
    <2>1. c.stage \in {"sent", "forward"} /\ c.op = "preview" /\ app = "fastify"
        BY <1>0, <1>1 DEF FastifyPreview
    <2>2. m \in Mail /\ mail[m] # "unsent" /\ asked[m] \in Address
        BY <2>1, RequestKeeps DEF ClientInv, ServerTyped
    <2>3. CASE ServerPreviews(m, TRUE) /\ csrfs' = csrfs + 1
               /\ Answer(t, Verification(csrfs + 1, m), Confirmation(m, asked[m], csrfs + 1, Nil))
        BY <2>1, <2>2, <2>3, Previewed
    <2>4. CASE ServerPreviews(m, FALSE) /\ Reply(t, ClearVerifyEmail, Redirect(asked[m]))
        BY <2>1, <2>2, <2>4, PagesArePlain, NotPreviewed DEF Clearing
    <2> QED BY <1>1, <2>3, <2>4 DEF FastifyPreview
<1>2. CASE FastifyConfirm(t)
    <2> DEFINE m == IF SameCsrf(c) THEN SubmittedToken(c) ELSE Nil
    <2>1. c.stage \in {"sent", "forward"} /\ c.op = "confirm"
        BY <1>0, <1>2 DEF FastifyConfirm
    <2>2. u \in Address
        BY <2>1, RequestKeeps DEF Pages
    <2>3. m # Nil => m \in confirmed /\ m \in Mail /\ u = asked[m]
        BY <2>1, ConfirmedMail
    <2>4. Redirect(u) \in PlainPages /\ ClearVerifyEmail \in Clearing
        BY <2>2, PagesArePlain DEF Clearing
    <2>5. \/ m = Nil /\ ServerAside /\ Reply(t, ClearVerifyEmail, Redirect(u))
          \/ m # Nil /\ ServerExchanges(m, FALSE) /\ Reply(t, ClearVerifyEmail, Redirect(u))
          \/ m # Nil /\ ServerExchanges(m, TRUE)
               /\ Reply(t, Over(SignedIn(m), ClearVerifyEmail), Landed(u))
        BY <1>2 DEF FastifyConfirm
    <2> HIDE DEF m
    <2> QED BY <2>1, <2>3, <2>4, <2>5, ConfirmKeeps, StaysAside
<1>3. CASE FastifyLogout(t)
    BY <1>0, <1>3, DropsCookieKeeps DEF FastifyLogout
<1>4. CASE FastifyVisit(t)
    <2>1. Handles("fastify", t, "visit") /\ ChecksLocally(t, Redirect(c.input))
        BY <1>4 DEF FastifyVisit
    <2>2. Redirect(c.input) \in PlainPages
        BY <1>0, <2>1, RequestKeeps, PagesArePlain
    <2> QED BY <1>0, <2>1, <2>2, ChecksLocallyKeeps
<1> QED BY <1>1, <1>2, <1>3, <1>4, FastifyFormKeeps, FastifyCodeKeeps DEF FastifyHandles

--------------------------------------------------------------------------------
\* The server's own pages
LEMMA FreshLoginKeeps ==
    ASSUME ClientInv, NEW t \in Tab, call[t].stage \in {"sent", "forward"}, Serves(Nil),
           NEW u \in Address, NEW m \in Mails, m # Nil => mail'[m] # "unsent" /\ u = asked'[m],
           FreshLogin(t, u, m)
    PROVE  ClientInv'
<1> DEFINE next == [kind |-> "login", url |-> u, mail |-> m, csrf |-> csrfs + 1, token |-> Nil]
<1>1. next \in Pages /\ next.csrf = csrfs + 1 /\ next.kind = "login" /\ next.url = u /\ next.mail = m
    BY DEF Pages, Mails, ClientInv, ClientTyped
<1>2. csrfs' = csrfs + 1 /\ Answer(t, Csrf(csrfs + 1), next) /\ Nil \in Mails
    BY DEF FreshLogin, Mails
<1> HIDE DEF next
<1> QED BY <1>1, <1>2, FreshReply

LEMMA DirectFormKeeps ==
    ASSUME ClientInv, NEW t \in Tab, DirectLogin(t) \/ DirectSignIn(t) \/ DirectPreview(t)
    PROVE  ClientInv'
<1> DEFINE c == call[t]
           m == c.input
<1>0. \A op : Handles("server", t, op) => c.stage \in {"sent", "forward"} /\ c.op = op /\ app = "server"
    BY DEF Handles
<1>1. Nil \in Mails /\ Nil \in Address
    BY DEF Mails, Address
<1>2. CASE DirectLogin(t)
    <2>1. c.stage \in {"sent", "forward"} /\ c.op \in {"login", "reset"} /\ Serves(Nil)
          /\ FreshLogin(t, c.input, Nil)
        BY <1>0, <1>2, Asides DEF DirectLogin
    <2>2. c.input \in Address
        BY <2>1, RequestKeeps
    <2> QED BY <1>1, <2>1, <2>2, FreshLoginKeeps
<1>3. CASE DirectSignIn(t)
    <2> DEFINE u == c.page.url
    <2>1. c.stage \in {"sent", "forward"} /\ c.op = "signin"
        BY <1>0, <1>3 DEF DirectSignIn
    <2>2. m \in Mail /\ u \in Address
        BY <2>1, RequestKeeps DEF Pages
    <2>3. CASE ServerAside /\ FreshLogin(t, Nil, Nil)
        BY <1>1, <2>1, <2>3, Asides, FreshLoginKeeps
    <2>4. CASE ServerMails(m, u, FALSE) /\ FreshLogin(t, u, Nil)
        BY <1>1, <2>1, <2>2, <2>4, MailsFail, FreshLoginKeeps
    <2>5. CASE ServerMails(m, u, TRUE) /\ (FreshLogin(t, u, m) \/ FreshLogin(t, u, Nil))
        <3>1. Serves(Nil) /\ mail'[m] # "unsent" /\ asked'[m] = u /\ m \in Mails
            BY <2>2, <2>5, MailsSent DEF Mails
        <3> QED BY <1>1, <2>1, <2>2, <2>5, <3>1, FreshLoginKeeps
    <2> QED BY <1>3, <2>3, <2>4, <2>5 DEF DirectSignIn
<1>4. CASE DirectPreview(t)
    <2>1. c.stage \in {"sent", "forward"} /\ c.op = "preview" /\ app = "server"
        BY <1>0, <1>4 DEF DirectPreview
    <2>2. m \in Mail /\ mail[m] # "unsent"
        BY <2>1, RequestKeeps
    <2>3. CASE ServerPreviews(m, TRUE) /\ csrfs' = csrfs + 1
               /\ Answer(t, Verification(csrfs + 1, m), Confirmation(m, asked[m], csrfs + 1, Nil))
        BY <2>1, <2>2, <2>3, Previewed
    <2>4. CASE ServerPreviews(m, FALSE) /\ Reply(t, ClearToken, ErrorPage)
        BY <1>1, <2>1, <2>2, <2>4, PagesArePlain, NotPreviewed DEF Clearing
    <2> QED BY <1>4, <2>3, <2>4 DEF DirectPreview
<1> QED BY <1>2, <1>3, <1>4

LEMMA DirectConfirmKeeps ==
    ASSUME ClientInv, NEW t \in Tab, DirectConfirm(t)
    PROVE  ClientInv'
<1> DEFINE c == call[t]
           m == IF SameCsrf(c) THEN c.cookies.token ELSE Nil
<1>1. c.stage \in {"sent", "forward"} /\ c.op = "confirm" /\ app = "server"
    BY Sent DEF DirectConfirm
<1>2. c.page.mail \in confirmed /\ confirmed \in SUBSET Mail
      /\ (SameCsrf(c) => c.cookies.token \in {Nil, c.page.mail})
    BY <1>1, RequestKeeps DEF ClientInv, ClientTyped
<1>3. m # Nil => m \in confirmed /\ m \in Mail /\ asked[m] \in Address
    BY <1>2 DEF ClientInv, ServerTyped
<1>4. \/ m # Nil /\ ServerExchanges(m, TRUE) /\ Reply(t, Over(SignedIn(m), ClearToken), Landed(asked[m]))
      \/ ServerAside /\ Reply(t, ClearToken, ErrorPage)
    BY DEF DirectConfirm
<1> HIDE DEF m
<1>5. CASE ServerAside /\ Reply(t, ClearToken, ErrorPage)
    BY <1>1, <1>5, PagesArePlain, StaysAside DEF Clearing, Address
<1>6. CASE m # Nil /\ ServerExchanges(m, TRUE)
           /\ Reply(t, Over(SignedIn(m), ClearToken), Landed(asked[m]))
    BY <1>1, <1>3, <1>6, SignsIn DEF Clearing
<1> QED BY <1>4, <1>5, <1>6

LEMMA DirectCodeKeeps ==
    ASSUME ClientInv, NEW t \in Tab, DirectCode(t)
    PROVE  ClientInv'
<1> DEFINE c == call[t]
           m == c.page.mail
<1>1. c.stage \in {"sent", "forward"} /\ c.op = "code" /\ app = "server"
    BY Sent DEF DirectCode
<1>2. c.input \in confirmed /\ m \in Mail /\ m \in Mails /\ c.page.url \in Address
      /\ c.page.url = asked[m] /\ asked[m] \in Address /\ mail[m] # "unsent"
    BY <1>1, PageOfCode, RequestKeeps, ClassicClientAssumption DEF ClientInv, ServerTyped, Mails
<1>3. CASE ServerTakesCode(m, c.input, TRUE) /\ Reply(t, SignedIn(m), Landed(asked[m]))
    BY <1>1, <1>2, <1>3, SignsIn DEF Clearing
<1>4. CASE ServerAside /\ FreshLogin(t, Nil, Nil)
    BY <1>1, <1>4, Asides, FreshLoginKeeps DEF Mails, Address
<1>5. CASE ServerAside /\ FreshLogin(t, c.page.url, m)
    BY <1>1, <1>2, <1>5, Asides, FreshLoginKeeps DEF ServerAside
<1> QED BY <1>3, <1>4, <1>5 DEF DirectCode

LEMMA DirectLogoutKeeps ==
    ASSUME ClientInv, NEW t \in Tab, DirectLogout(t)
    PROVE  ClientInv'
<1>1. call[t].stage \in {"sent", "forward"}
    BY Sent DEF DirectLogout
<1>2. CASE ServerAside /\ Reply(t, Unchanged, ErrorPage)
    BY <1>1, <1>2, PagesArePlain, StaysAside DEF Clearing, Address
<1>3. CASE /\ ServerRevokes(call[t].cookies.auth) /\ Reply(t, SignedOut, Landed(Nil))
           /\ UNCHANGED <<mail, asked, lost, faults>>
    <2>1. call[t].cookies.auth # Nil =>
              call[t].cookies.auth \in Mail /\ session[call[t].cookies.auth] # "none"
        BY <1>1, RequestKeeps DEF Mails
    <2>2. Serves(Nil)
        BY <1>3, <2>1, RevokeServes DEF ClientInv
    <2> QED BY <1>1, <1>3, <2>2, PagesArePlain, ClearingReply DEF Clearing, Address
<1> QED BY <1>2, <1>3 DEF DirectLogout

LEMMA DirectKeeps ==
    ASSUME ClientInv, NEW t \in Tab, DirectHandles(t)
    PROVE  ClientInv'
BY DirectFormKeeps, DirectConfirmKeeps, DirectCodeKeeps, DirectLogoutKeeps DEF DirectHandles

--------------------------------------------------------------------------------
LEMMA ClientInitFits == ClientInit => ClientInv
<1> SUFFICES ASSUME ClientInit PROVE ClientInv
    OBVIOUS
<1>1. ServerTyped /\ ClientTyped /\ ExchangedOnlyIfConfirmed /\ SpentForItsVisitor
    BY DEF ClientInit, ServerTyped, ClientTyped, ExchangedOnlyIfConfirmed, SpentForItsVisitor, Address
<1> DEFINE f == [n \in 1..csrfs |-> Nil]
<1>2. f \in [1..csrfs -> Mails]
    BY DEF Mails
<1> HIDE DEF f
<1>3. JarFits(World, f, jar)
    BY DEF ClientInit, JarFits, NoCookies, Cookies, World, Mails
<1>4. ASSUME NEW t \in Tab PROVE PageFits(World, f, page[t]) /\ CallFits(World, f, call[t])
    <2>1. csrfs = 0 /\ csrfs \in Nat /\ call[t] = Waiting
        BY DEF ClientInit
    <2>2. page[t] = Landed(Nil) \/ \E u \in Url : page[t] = Login(u, Nil)
        BY DEF ClientInit
    <2>3. PageFits(World, f, page[t])
        BY <1>1, <2>2, PlainFits DEF Address
    <2> QED BY <2>1, <2>3 DEF CallFits
<1>5. EverythingFits
    BY <1>2, <1>3, <1>4 DEF EverythingFits, AllFits
<1> QED BY <1>1, <1>5 DEF ClientInv

LEMMA ClientStep == ClientInv /\ [ClientNext]_clientVars => ClientInv'
<1> SUFFICES ASSUME ClientInv, [ClientNext]_clientVars PROVE ClientInv'
    OBVIOUS
<1>1. CASE UNCHANGED clientVars
    <2>1. Serves(Nil) /\ UNCHANGED <<app, jar, page, call, confirmed, delivered, csrfs>>
        BY <1>1, AsideServes DEF clientVars, ClientInv
    <2>2. PICK f \in [1..csrfs -> Mails] : AllFits(World, f)
        BY DEF ClientInv, EverythingFits
    <2>3. PICK t : t \notin Tab
        BY NoSetContainsEverything
    <2> QED BY <2>1, <2>2, <2>3, QuietStep DEF ClientInv, ClientTyped
<1>2. ASSUME NEW t \in Tab, Visitor(t) PROVE ClientInv'
    BY <1>2, VisitorSends, ForgetKeeps, ArriveKeeps DEF Visitor
<1>3. ASSUME NEW m \in Mail, Lapse(m) PROVE ClientInv'
    BY <1>3, LapseKeeps
<1> QED BY <1>1, <1>2, <1>3, DirectKeeps, GateKeeps, NextKeeps, NuxtKeeps, AngularKeeps,
           DjangoKeeps, FastifyKeeps DEF ClientNext

LEMMA ClientInvHolds == ClientSpec => []ClientInv
BY ClientInitFits, ClientStep, PTL DEF ClientSpec

LEMMA EndsFollows == ClientInv => EndsWhereItBegan
<1> SUFFICES ASSUME ClientInv, NEW t \in Tab, call[t].stage = "answered", call[t].set.auth \in Mail
             PROVE  \/ app = "fastify" /\ call[t].op = "code"
                    \/ call[t].next = Landed(asked[call[t].set.auth])
    BY DEF EndsWhereItBegan
<1>1. PICK f \in [1..csrfs -> Mails] : AllFits(World, f)
    BY DEF ClientInv, EverythingFits
<1>2. EndsWell(World, call[t])
    <2>1. call[t] # Waiting
        BY DEF Waiting
    <2> QED BY <1>1, <2>1 DEF AllFits, CallFits
<1> QED BY <1>2 DEF EndsWell, World

\* ExchangedOnlyIfConfirmed: for any mails, tabs, pages and faults, no application has a
\* mail exchanged that its visitor has not continued with.
THEOREM OnlyTheConfirmedAreExchanged == ClientSpec => []ExchangedOnlyIfConfirmed
<1>1. ClientInv => ExchangedOnlyIfConfirmed
    BY DEF ClientInv
<1> QED BY <1>1, ClientInvHolds, PTL

\* SpentForItsVisitor: a mail that was exchanged has its session in the jar, in a reply
\* on its way, or in a reply of the server that was lost.
THEOREM NoMailIsWasted == ClientSpec => []SpentForItsVisitor
<1>1. ClientInv => SpentForItsVisitor
    BY DEF ClientInv
<1> QED BY <1>1, ClientInvHolds, PTL

\* EndsWhereItBegan: a session is set on the page its sign-in was asked from.
THEOREM SignInsEndWhereTheyBegan == ClientSpec => []EndsWhereItBegan
BY ClientInvHolds, EndsFollows, PTL

--------------------------------------------------------------------------------
\* What the gate forwards.
NoNewForward == \A x \in Tab : call'[x].stage = "forward" => call[x].stage = "forward"

LEMMA AnswersForwardNothing ==
    ASSUME DOMAIN call = Tab, NEW t \in Tab, NEW set, NEW next,
           Answer(t, set, next) \/ Reply(t, set, next)
    PROVE  NoNewForward
<1>1. call' = [call EXCEPT ![t] = At("answered", call[t], set, next)]
    BY DEF Answer, Reply
<1> QED BY <1>1 DEF NoNewForward, At

LEMMA FreshForwardsNothing ==
    ASSUME DOMAIN call = Tab, NEW t \in Tab, NEW u, NEW m, FreshLogin(t, u, m)
    PROVE  NoNewForward
BY AnswersForwardNothing DEF FreshLogin

LEMMA SharedForwardNothing ==
    ASSUME DOMAIN call = Tab, NEW t \in Tab,
           \/ PlainLogin(t) \/ DropsCookie(t) \/ (\E other : ChecksLocally(t, other))
           \/ ScriptedSignIn(t) \/ ScriptedCode(t) \/ NextFails(t)
    PROVE  NoNewForward
BY AnswersForwardNothing
   DEF PlainLogin, DropsCookie, ChecksLocally, ScriptedSignIn, ScriptedCode, NextFails

LEMMA DirectForwardsNothing ==
    ASSUME DOMAIN call = Tab, NEW t \in Tab, DirectHandles(t)
    PROVE  NoNewForward
<1>1. CASE DirectLogin(t) \/ DirectSignIn(t)
    BY <1>1, FreshForwardsNothing DEF DirectLogin, DirectSignIn
<1>2. CASE DirectPreview(t)
    BY <1>2, AnswersForwardNothing DEF DirectPreview
<1>3. CASE DirectConfirm(t)
    BY <1>3, AnswersForwardNothing DEF DirectConfirm
<1>4. CASE DirectCode(t)
    BY <1>4, AnswersForwardNothing, FreshForwardsNothing DEF DirectCode
<1>5. CASE DirectLogout(t)
    BY <1>5, AnswersForwardNothing DEF DirectLogout
<1> QED BY <1>1, <1>2, <1>3, <1>4, <1>5 DEF DirectHandles

LEMMA GateForwardsOnlyVisits ==
    ASSUME DOMAIN call = Tab, NEW t \in Tab, GateHandles(t)
    PROVE  \/ NoNewForward
           \/ GateChecksVisit(t) /\ VerifyRequestAuth(call[t], TRUE) /\ Forwards(t)
           \/ GateChecksUpgrade(t) /\ VerifyRequestAuth(call[t], TRUE) /\ Forwards(t)
<1>1. CASE GateLogin(t) \/ GateReset(t) \/ GateSignIn(t)
    BY <1>1, AnswersForwardNothing DEF GateLogin, GateReset, GateSignIn
<1>2. CASE GatePreview(t) \/ GateConfirm(t)
    BY <1>2, AnswersForwardNothing DEF GatePreview, GateConfirm
<1>3. CASE GateCode(t) \/ GateLogout(t)
    BY <1>3, AnswersForwardNothing DEF GateCode, GateLogout
<1>4. CASE GateChecksVisit(t) \/ GateChecksUpgrade(t)
    BY <1>4, AnswersForwardNothing DEF GateChecksVisit, GateChecksUpgrade
<1>5. CASE GateForwardsVisit(t)
    BY <1>5, AnswersForwardNothing DEF GateForwardsVisit
<1>6. CASE GateForwardsUpgrade(t)
    <2>1. call' = [call EXCEPT ![t] = At("answered", call[t], Unchanged, page[t])]
        BY <1>6 DEF GateForwardsUpgrade
    <2> QED BY <2>1 DEF NoNewForward, At
<1> QED BY <1>1, <1>2, <1>3, <1>4, <1>5, <1>6 DEF GateHandles

LEMMA ScriptedForwardNothing ==
    ASSUME DOMAIN call = Tab, NEW t \in Tab, NextHandles(t) \/ NuxtHandles(t) \/ AngularHandles(t)
    PROVE  NoNewForward
<1>1. CASE \/ NextLogin(t) \/ NextSignIn(t) \/ NextCode(t) \/ NextLogout(t)
           \/ NuxtLogin(t) \/ NuxtSignIn(t) \/ NuxtCode(t) \/ NuxtLogout(t) \/ NuxtVisit(t)
           \/ AngularLogin(t) \/ AngularSignIn(t) \/ AngularCode(t) \/ AngularLogout(t)
           \/ AngularVisit(t)
    BY <1>1, SharedForwardNothing, AnswersForwardNothing
       DEF NextLogin, NextSignIn, NextCode, NextLogout, NuxtLogin, NuxtSignIn, NuxtCode, NuxtLogout,
           NuxtVisit, AngularLogin, AngularSignIn, AngularCode, AngularLogout, AngularVisit
<1>2. CASE NextVisit(t)
    BY <1>2, AnswersForwardNothing DEF NextVisit
<1>3. CASE NextPreview(t) \/ NuxtPreview(t) \/ AngularPreview(t)
    BY <1>3, AnswersForwardNothing DEF NextPreview, NuxtPreview, AngularPreview
<1>4. CASE NextConfirm(t)
    BY <1>4, AnswersForwardNothing, SharedForwardNothing DEF NextConfirm
<1>5. CASE NuxtConfirm(t) \/ AngularConfirm(t)
    BY <1>5, AnswersForwardNothing DEF NuxtConfirm, AngularConfirm
<1> QED BY <1>1, <1>2, <1>3, <1>4, <1>5 DEF NextHandles, NuxtHandles, AngularHandles

LEMMA RenderedForwardNothing ==
    ASSUME DOMAIN call = Tab, NEW t \in Tab, DjangoHandles(t) \/ FastifyHandles(t)
    PROVE  NoNewForward
<1>1. CASE \/ DjangoLogin(t) \/ DjangoVisit(t) \/ FastifyLogout(t) \/ FastifyVisit(t)
    BY <1>1, SharedForwardNothing DEF DjangoLogin, DjangoVisit, FastifyLogout, FastifyVisit
<1>2. CASE DjangoSignIn(t) \/ DjangoPreview(t) \/ DjangoConfirm(t) \/ DjangoCode(t) \/ DjangoLogout(t)
    BY <1>2, AnswersForwardNothing DEF DjangoSignIn, DjangoPreview, DjangoConfirm, DjangoCode, DjangoLogout
<1>3. CASE FastifyLogin(t) \/ FastifyReset(t) \/ FastifySignIn(t) \/ FastifyCode(t)
    BY <1>3, AnswersForwardNothing DEF FastifyLogin, FastifyReset, FastifySignIn, FastifyCode
<1>4. CASE FastifyPreview(t) \/ FastifyConfirm(t)
    BY <1>4, AnswersForwardNothing DEF FastifyPreview, FastifyConfirm
<1> QED BY <1>1, <1>2, <1>3, <1>4 DEF DjangoHandles, FastifyHandles

LEMMA VisitorsForwardNothing ==
    ASSUME DOMAIN call = Tab, NEW t \in Tab, Visitor(t)
    PROVE  NoNewForward
<1>1. ASSUME NEW op, NEW input, Send(t, op, input) PROVE NoNewForward
    <2>1. PICK named \in BOOLEAN : call' = [call EXCEPT ![t] = Request(op, page[t], input, jar, named)]
        BY <1>1 DEF Send
    <2> QED BY <2>1 DEF NoNewForward, Request
<1>2. CASE ForgetChallenge(t)
    BY <1>2 DEF ForgetChallenge, NoNewForward
<1>3. CASE Arrive(t)
    <2>1. \/ call' = [call EXCEPT ![t] = Request("login", call[t].next, call[t].next.url, jar', TRUE)]
          \/ call' = [call EXCEPT ![t] = Waiting]
        BY <1>3 DEF Arrive
    <2> QED BY <2>1 DEF NoNewForward, Request, Waiting
<1> QED BY <1>1, <1>2, <1>3
        DEF Visitor, Browse, OpenSocket, OpenLogin, UseAnotherAddress, AskToSignIn, FollowLink,
            PressContinue, TypeCode, PressLogout

LEMMA ForwardedIsLive ==
    ASSUME ClientInv, NEW t \in Tab, call[t].stage = "sent", VerifyRequestAuth(call[t], TRUE)
    PROVE  call[t].cookies.auth \in Mail /\ session[call[t].cookies.auth] = "valid"
<1> DEFINE s == call[t].cookies.auth
<1>1. s \in Mails /\ (s # Nil => session[s] # "none")
    BY RequestKeeps
<1>2. Known(s) /\ ~(session[s] = "revoked")
    BY DEF VerifyRequestAuth, IsSessionRevoked
<1> QED BY <1>1, <1>2 DEF Known, Mails, ClientInv, ServerTyped

LEMMA OnlyLiveStep ==
    ASSUME ClientInv, [ClientNext]_clientVars
    PROVE  \A t \in Tab : call[t].stage = "sent" /\ call'[t].stage = "forward"
                              => /\ call[t].cookies.auth \in Mail
                                 /\ session[call[t].cookies.auth] = "valid"
<1> SUFFICES ASSUME NEW t \in Tab, call[t].stage = "sent", call'[t].stage = "forward"
             PROVE  call[t].cookies.auth \in Mail /\ session[call[t].cookies.auth] = "valid"
    OBVIOUS
<1>1. DOMAIN call = Tab
    BY DEF ClientInv, ClientTyped
<1>2. ~NoNewForward
    BY DEF NoNewForward
<1>3. PICK x \in Tab : GateHandles(x)
    <2>1. ~UNCHANGED clientVars /\ \A m \in Mail : ~Lapse(m)
        BY <1>2 DEF clientVars, Lapse, NoNewForward
    <2> QED BY <1>1, <1>2, <2>1, VisitorsForwardNothing, DirectForwardsNothing,
               ScriptedForwardNothing, RenderedForwardNothing DEF ClientNext
<1>4. VerifyRequestAuth(call[x], TRUE) /\ Forwards(x)
    BY <1>1, <1>2, <1>3, GateForwardsOnlyVisits
<1>5. x = t
    BY <1>1, <1>4 DEF Forwards
<1> QED BY <1>4, <1>5, ForwardedIsLive

\* ForwardsOnlyLiveSessions: the gate forwards only what comes with a session that is
\* valid when it is checked, whatever fails and however old the cookie.
THEOREM TheGateForwardsTheLive == ClientSpec => ForwardsOnlyLiveSessions
<1>1. ClientInv /\ [ClientNext]_clientVars =>
          [\A t \in Tab : call[t].stage = "sent" /\ call'[t].stage = "forward"
                              => /\ call[t].cookies.auth \in Mail
                                 /\ session[call[t].cookies.auth] = "valid"]_clientVars
    BY OnlyLiveStep
<1> QED BY <1>1, ClientInvHolds, PTL DEF ClientSpec, ForwardsOnlyLiveSessions
================================================================================

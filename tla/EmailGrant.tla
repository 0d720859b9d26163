----------------------------- MODULE EmailGrant -----------------------------
(***************************************************************************)
(* The e-mail grant of the classic sign-in flow: server/src/app.ts with     *)
(* otpChallengeStore.ts and verificationTokenReplayStore.ts.                *)
(*                                                                          *)
(* POST /signin mails a link, a token with a fresh jti and a lifetime, and, *)
(* if OTP is enabled, a code for the same jti kept as a challenge.  POST    *)
(* /verify-email and POST /verify-email/otp check the token or the code,    *)
(* then spend the jti in the replay store, then sign the browser in.  The   *)
(* check and the spending are separate awaits, so a call can be overtaken.  *)
(* Each operation of the challenge store is one step: a Lua script, or a    *)
(* section under the context's lock file.  A challenge is named by the jti  *)
(* it was made for; both are fresh for every sign-in request.               *)
(***************************************************************************)
EXTENDS Integers, FiniteSets, FiniteSetsExt

CONSTANTS
    Jti,        \* ids of verification tokens
    Context,    \* rotation keys: e-mail, site, scope, return URL and verify URL
    Callback,   \* the contexts that name a verify URL
    Call,       \* requests being handled
    None,
    OtpEnabled, \* config.otp.enabled
    Attempts,   \* config.otp.allowedAttempts
    LinkLife,   \* config.emailExpirationSeconds
    OtpLife,    \* config.otp.expirationSeconds
    MaxTime,    \* bound on the clock
    MaxLag      \* how long a call may take from its check to the spending

ASSUME GrantAssumption ==
    /\ None \notin Jti /\ Callback \subseteq Context
    /\ OtpEnabled \in BOOLEAN
    /\ Attempts \in Nat \ {0} /\ LinkLife \in Nat \ {0} /\ OtpLife \in Nat \ {0}
    /\ MaxTime \in Nat /\ MaxLag \in Nat

VARIABLES
    clock,      \* Date.now()
    tokens,     \* verification tokens that were signed
    challenges, \* the challenge records
    active,     \* the active pointer of each context
    checked,    \* calls past their check, about to spend a jti
    markers,    \* the replay store: spent ids with the time they are kept until
    signedIn,   \* history: sign-ins each sign-in request led to
    spends,     \* history: how often consume accepted each jti
    kept,       \* history: until when the replay store promised to keep a jti
    accepted,   \* history: how often the code of each challenge was accepted
    wrong       \* history: how many wrong codes were compared with it

vars == <<clock, tokens, challenges, active, checked, markers,
          signedIn, spends, kept, accepted, wrong>>
replayHistory == <<signedIn, spends, kept>>
codeHistory   == <<accepted, wrong>>

\* "root" is the jti of the sign-in request that a token goes back to.
Token == [jti : Jti, root : Jti, expiresAt : Nat]
ChallengeRecord == [jti : Jti, context : Context, attempts : 1..Attempts, expiresAt : Nat]
Checked == [call : Call, jti : Jti, root : Jti, until : Nat, callback : BOOLEAN, at : Nat]
Marker == [jti : Jti, expiresAt : Nat]

Alive(records) == {r \in records : r.expiresAt > clock}
Fresh(j) == \A t \in tokens : t.jti # j
Idle(c) == \A x \in checked : x.call # c
LinkTo(j, root) == [jti |-> j, root |-> root, expiresAt |-> clock + LinkLife]

Init ==
    /\ clock = 0 /\ tokens = {} /\ challenges = {} /\ checked = {} /\ markers = {}
    /\ active = [x \in Context |-> None]
    /\ signedIn = [j \in Jti |-> 0] /\ spends = [j \in Jti |-> 0] /\ kept = [j \in Jti |-> 0]
    /\ accepted = [j \in Jti |-> 0] /\ wrong = [j \in Jti |-> 0]

(***************************************************************************)
(* POST /signin.                                                            *)
(***************************************************************************)

\* The code lives no longer than the link.
NewChallenge(x, j) ==
    [jti |-> j, context |-> x, attempts |-> Attempts,
     expiresAt |-> clock + Min({OtpLife, LinkLife})]

\* The file store sweeps expired challenges at most once a minute (due); Redis
\* drops them at once.  A swept challenge takes the pointer to it along.
Swept(due) == IF due THEN challenges \ Alive(challenges) ELSE {}
PointersWithout(gone) ==
    [x \in Context |-> IF \E c \in gone : c.jti = active[x] THEN None ELSE active[x]]

\* The store's create: the context's previous challenge makes way for the new one.
Rotated(x, j, due) ==
    LET left == PointersWithout(Swept(due))
    IN  /\ challenges' = {c \in challenges \ Swept(due) : c.jti # left[x]}
                             \cup {NewChallenge(x, j)}
        /\ active' = [left EXCEPT ![x] = j]

SignIn(x, j, due) ==
    /\ Fresh(j)
    /\ tokens' = tokens \cup {LinkTo(j, j)}
    /\ IF OtpEnabled THEN Rotated(x, j, due) ELSE UNCHANGED <<challenges, active>>
    /\ UNCHANGED <<clock, checked, markers, replayHistory, codeHistory>>

\* The server dies while the file store creates a challenge: the record has been
\* written, the pointer may have been replaced, the previous record is still
\* there.  Nothing is mailed; the link is counted as signed all the same.
SignInCut(x, j, replaced) ==
    /\ OtpEnabled /\ Fresh(j)
    /\ tokens' = tokens \cup {LinkTo(j, j)}
    /\ challenges' = challenges \cup {NewChallenge(x, j)}
    /\ active' = IF replaced THEN [active EXCEPT ![x] = j] ELSE active
    /\ checked' = {}
    /\ UNCHANGED <<clock, markers, replayHistory, codeHistory>>

(***************************************************************************)
(* POST /verify-email: the token is checked here and spent in Spend.        *)
(***************************************************************************)
VerifyLink(c, t) ==
    /\ Idle(c) /\ t \in Alive(tokens)
    /\ checked' = checked \cup {[call |-> c, jti |-> t.jti, root |-> t.root,
                                 until |-> t.expiresAt, callback |-> FALSE, at |-> clock]}
    /\ UNCHANGED <<clock, tokens, challenges, active, markers, replayHistory, codeHistory>>

(***************************************************************************)
(* POST /verify-email/otp: the challenge store's verify.                    *)
(***************************************************************************)

\* Mutant: the accepted challenge stays in the store.
Removed_Kept(gone) == UNCHANGED <<challenges, active>>

\* removeChallengeAndPointer
Removed(gone) ==
    /\ challenges' = challenges \ {gone}
    /\ active' = PointersWithout({gone})

\* Not the context's active challenge, or too late: it is removed.
RefuseCode(ch) ==
    /\ ch \in challenges
    /\ \/ /\ active[ch.context] # ch.jti
          /\ challenges' = challenges \ {ch} /\ UNCHANGED active
       \/ /\ active[ch.context] = ch.jti /\ ch.expiresAt <= clock
          /\ Removed(ch)
    /\ UNCHANGED <<clock, tokens, checked, markers, replayHistory, codeHistory>>

Usable(ch) == ch \in challenges /\ active[ch.context] = ch.jti /\ ch.expiresAt > clock

\* Mutant: the last attempt leaves a challenge with no attempts.
WrongCode_OffByOne(ch) ==
    /\ Usable(ch)
    /\ wrong' = [wrong EXCEPT ![ch.jti] = @ + 1]
    /\ IF ch.attempts = 0
       THEN Removed(ch)
       ELSE /\ challenges' = (challenges \ {ch}) \cup {[ch EXCEPT !.attempts = @ - 1]}
            /\ UNCHANGED active
    /\ UNCHANGED <<clock, tokens, checked, markers, replayHistory, accepted>>

WrongCode(ch) ==
    /\ Usable(ch)
    /\ wrong' = [wrong EXCEPT ![ch.jti] = @ + 1]
    /\ IF ch.attempts = 1
       THEN Removed(ch)
       ELSE /\ challenges' = (challenges \ {ch}) \cup {[ch EXCEPT !.attempts = @ - 1]}
            /\ UNCHANGED active
    /\ UNCHANGED <<clock, tokens, checked, markers, replayHistory, accepted>>

\* The right code.  A form post in a context with a verify URL is not signed in
\* but sent to the verify URL with a new token (Spend).
RightCode(c, ch, isJson) ==
    /\ Idle(c) /\ Usable(ch)
    /\ Removed(ch)
    /\ accepted' = [accepted EXCEPT ![ch.jti] = @ + 1]
    /\ checked' = checked \cup
          {[call |-> c, jti |-> ch.jti, root |-> ch.jti, until |-> ch.expiresAt,
            callback |-> ch.context \in Callback /\ ~isJson, at |-> clock]}
    /\ UNCHANGED <<clock, tokens, markers, replayHistory, wrong>>

(***************************************************************************)
(* Both routes spend the jti in the replay store and then answer.  Expired  *)
(* markers are dropped at once by Redis, at most once a minute by the file  *)
(* store (due) and never by the in-memory store.                            *)
(***************************************************************************)

\* Mutant: consume does not look for the marker.
Remembered_Not(j, due) == {}

Remembered(j, due) == {m \in IF due THEN Alive(markers) ELSE markers : m.jti = j}

\* consume answered false.
SpendAgain(x, due) ==
    /\ x \in checked
    /\ Remembered(x.jti, due) # {}
    /\ markers' = IF due THEN Alive(markers) ELSE markers
    /\ checked' = checked \ {x}
    /\ UNCHANGED <<clock, tokens, challenges, active, replayHistory, codeHistory>>

Consumed(x, due) ==
    /\ x \in checked
    /\ Remembered(x.jti, due) = {}
    /\ markers' = (IF due THEN Alive(markers) ELSE markers)
                      \cup {[jti |-> x.jti, expiresAt |-> x.until]}
    /\ spends' = [spends EXCEPT ![x.jti] = @ + 1]
    /\ kept' = [kept EXCEPT ![x.jti] = x.until]
    /\ checked' = checked \ {x}

\* ... and the access token is signed.
SpendAndSignIn(x, due) ==
    /\ Consumed(x, due) /\ ~x.callback
    /\ signedIn' = [signedIn EXCEPT ![x.root] = @ + 1]
    /\ UNCHANGED <<clock, tokens, challenges, active, codeHistory>>

\* ... and the browser is redirected to the verify URL with a new token.
SpendAndCallBack(x, due, j) ==
    /\ Consumed(x, due) /\ x.callback /\ Fresh(j)
    /\ tokens' = tokens \cup {LinkTo(j, x.root)}
    /\ UNCHANGED <<clock, challenges, active, signedIn, codeHistory>>

\* ... and nothing comes of it: the site left the configuration, or the server
\* died before it answered.
SpendForNothing(x, due) ==
    /\ Consumed(x, due)
    /\ UNCHANGED <<clock, tokens, challenges, active, signedIn, codeHistory>>

\* The server dies, or consume throws, before the jti is spent.
Abandon(x) ==
    /\ x \in checked
    /\ checked' = checked \ {x}
    /\ UNCHANGED <<clock, tokens, challenges, active, markers, replayHistory, codeHistory>>

Tick ==
    /\ clock < MaxTime
    /\ \A x \in checked : clock - x.at < MaxLag
    /\ clock' = clock + 1
    /\ UNCHANGED <<tokens, challenges, active, checked, markers, replayHistory, codeHistory>>

Next ==
    \/ \E x \in Context, j \in Jti, due \in BOOLEAN : SignIn(x, j, due) \/ SignInCut(x, j, due)
    \/ \E c \in Call, t \in tokens : VerifyLink(c, t)
    \/ \E ch \in challenges : RefuseCode(ch) \/ WrongCode(ch)
    \/ \E c \in Call, ch \in challenges, isJson \in BOOLEAN : RightCode(c, ch, isJson)
    \/ \E x \in checked, due \in BOOLEAN :
           SpendAgain(x, due) \/ SpendAndSignIn(x, due) \/ SpendForNothing(x, due)
    \/ \E x \in checked, due \in BOOLEAN, j \in Jti : SpendAndCallBack(x, due, j)
    \/ \E x \in checked : Abandon(x)
    \/ Tick

Spec == Init /\ [][Next]_vars

(***************************************************************************)
(* Properties.                                                              *)
(***************************************************************************)

\* The state is well typed, and no two records share a key.
TypeOK ==
    /\ clock \in 0..MaxTime /\ tokens \subseteq Token
    /\ challenges \subseteq ChallengeRecord /\ active \in [Context -> Jti \cup {None}]
    /\ checked \subseteq Checked /\ markers \subseteq Marker
    /\ \A h \in {signedIn, spends, kept, accepted, wrong} : h \in [Jti -> Nat]
    /\ \A S \in {tokens, challenges, markers} : \A a, b \in S : a.jti = b.jti => a = b
    /\ \A a, b \in checked : a.call = b.call => a = b

\* Whoever spends a jti, through the link, through the code or through two calls
\* that both passed their check, is alone until the marker's deadline.
SpentOnceWhileKept ==
    [][\A j \in Jti : spends'[j] > spends[j] =>
           spends'[j] = spends[j] + 1 /\ (spends[j] = 0 \/ clock >= kept[j])]_vars

\* A code is accepted at most once, also after the marker of its jti is gone and
\* after a crash that left its record behind a newer challenge.
CodeAcceptedOnce == \A j \in Jti : accepted[j] <= 1

\* No more wrong codes are compared with a challenge than the configuration
\* allows, whatever is resent or swept in between.
GuessesBounded == \A j \in Jti : wrong[j] <= Attempts

\* One sign-in request signs a browser in at most once, whichever of its link,
\* its code and the callback token of its code are used and in which order.
OneSignInPerRequest == \A j \in Jti : signedIn[j] <= 1
=============================================================================

-------------------------- MODULE BrowserSsoStore --------------------------
(***************************************************************************)
(* The issuer's browser single-sign-on store: server/src/browserSsoStore.ts *)
(* (createBrowserSsoStore).  It keeps central sessions, authorization       *)
(* requests, authorization codes, browser bindings and bootstrap tickets.   *)
(* Every operation is one transaction of the backend (backend.run), so      *)
(* every operation is one action here; the backends that make it so are     *)
(* the subject of BrowserSsoOcc.                                            *)
(*                                                                          *)
(* Opaque values (cookies, codes, request ids) stand for their hashes: the  *)
(* store only compares and looks up SHA-256 digests.  "app" is everything   *)
(* an application transaction fixes and a later caller has to present       *)
(* again: siteId, redirectUri, scope, state and PKCE challenge.             *)
(***************************************************************************)
EXTENDS Integers, FiniteSets, FiniteSetsExt

CONSTANTS
    Browser,        \* values of the issuer's binding cookie
    Handle,         \* values of the central session cookie
    RequestId,      \* authorization request ids
    Code,           \* authorization codes
    Ticket,         \* bootstrap tickets
    Grant,          \* ids (jti) of e-mail grants
    Email,          \* identities
    App,            \* application transactions
    Flow,           \* the flows in use: hosted, app-owned, launcher
    None,           \* an optional value that is not given
    RequestLimit,   \* pending requests a binding may have (32 in the code)
    MaxRecords,     \* capacity of the file backend's snapshot
    RequestLife,    \* lifetime of a request
    CodeLife,       \* lifetime of a code and of a ticket
    SessionLife,    \* lifetime of a central session
    Retention,      \* how long a logout keeps a binding (24 h and 30 s)
    Slack,          \* how much a binding outlives a session (30 s)
    MaxTime,        \* bound on the clock
    MaxEpoch,       \* bound on the epochs of a binding
    MaxLag          \* how far the "now" a caller sampled may be behind

ASSUME OptionAssumption ==
    None \notin Browser \cup Handle \cup Grant

\* Opaque values are 256 random bits: two kinds of them never coincide.
ASSUME OpaqueAssumption ==
    /\ Handle \cap (RequestId \cup Code \cup Ticket) = {}
    /\ RequestId \cap (Code \cup Ticket) = {}
    /\ Code \cap Ticket = {}

ASSUME FlowAssumption == Flow \subseteq {"hosted", "app-owned", "launcher"}

ASSUME LifetimeAssumption ==
    /\ RequestLimit \in Nat \ {0} /\ MaxRecords \in Nat
    /\ RequestLife \in Nat \ {0} /\ CodeLife \in Nat \ {0}
    /\ SessionLife \in Nat \ {0} /\ Retention \in Nat /\ Slack \in Nat
    /\ MaxTime \in Nat /\ MaxEpoch \in Nat /\ MaxLag \in Nat

VARIABLES
    clock,      \* Date.now() of the issuer
    sessions, requests, codes, bindings, tickets,  \* the five kinds of record
    minted,     \* history: every opaque value the store ever created
    spent,      \* history: requests, codes and tickets that were consumed
    ended,      \* history: sessions that were logged out, replaced or revoked
    cancelled   \* history: tickets outstanding when their browser logged out

tables  == <<sessions, requests, codes, bindings, tickets>>
history == <<minted, spent, ended, cancelled>>
vars    == <<clock, tables, history>>

Session == [id : Handle, email : Email, binding : Browser \cup {None},
            epoch : Nat, expiresAt : Nat]
Request == [id : RequestId, flow : Flow, binding : Browser, app : App,
            grant : Grant \cup {None}, expiresAt : Nat]
CodeRecord == [id : Code, session : Handle, app : App, expiresAt : Nat]
\* "marked" says that bootstrapEpoch is defined; an undefined epoch counts as 0.
Binding == [id : Browser, marked : BOOLEAN, epoch : Nat,
            requests : SUBSET RequestId, expiresAt : Nat]
TicketRecord == [id : Ticket, binding : Browser, epoch : Nat, app : App,
                 email : Email, expiresAt : Nat]

(***************************************************************************)
(* Reading.  A record whose deadline has passed at the transaction's "now"  *)
(* is deleted before it is looked at.  The caller sampled "now" before it   *)
(* waited for the backend, so it may be up to MaxLag behind the clock.      *)
(***************************************************************************)
Alive(table, now) == {x \in table : x.expiresAt > now}
Sampled == {t \in 0..clock : clock - t <= MaxLag}
Ids(table) == {x.id : x \in table}
Named(table, id, now) == {x \in Alive(table, now) : x.id = id}

Consumed(table, x, now) == Alive(table, now) \ {x}

\* Mutant: the epoch of the session's browser is not compared.
SameEpoch_Ignored(s, now) == TRUE

SameEpoch(s, now) ==
    \/ s.binding = None
    \/ \E b \in Named(bindings, s.binding, now) : b.epoch = s.epoch

ActiveSessions(h, now) == {s \in Named(sessions, h, now) : SameEpoch(s, now)}

\* binding?.bootstrapEpoch ?? 0
EpochOf(b, now) ==
    IF Named(bindings, b, now) = {} THEN 0
    ELSE (CHOOSE x \in Named(bindings, b, now) : TRUE).epoch

Records(now) ==
    Cardinality(Alive(sessions, now)) + Cardinality(Alive(requests, now)) +
    Cardinality(Alive(codes, now)) + Cardinality(Alive(bindings, now)) +
    Cardinality(Alive(tickets, now))

RecordsAfter ==
    Cardinality(sessions') + Cardinality(requests') + Cardinality(codes') +
    Cardinality(bindings') + Cardinality(tickets')

\* The file backend refuses to save a snapshot that grew past its capacity; a
\* conjunct of the three operations that can make the snapshot grow.
Fits(now) == RecordsAfter <= MaxRecords \/ RecordsAfter <= Records(now)

HasRequestCapacity(additional, now) ==
    Records(now) + Cardinality(Alive(requests, now))
        + Cardinality(Alive(tickets, now)) + additional + 1 <= MaxRecords

(***************************************************************************)
(* Sign-in requests.                                                        *)
(***************************************************************************)

\* The requests a binding lists that are still pending.
StillPending(b, now) ==
    {r \in Alive(requests, now) : \E x \in Named(bindings, b, now) : r.id \in x.requests}

\* Mutant: the rewritten binding starts again at epoch 0.
Extended_EpochLost(b, r, now) ==
    LET old == Named(bindings, b, now)
        pending == StillPending(b, now)
    IN  [id |-> b, marked |-> \E x \in old : x.marked, epoch |-> 0,
         requests |-> Ids(pending) \cup {r.id},
         expiresAt |-> Max({r.expiresAt} \cup {x.expiresAt : x \in old}
                                         \cup {x.expiresAt : x \in pending})]

\* The binding with one more request: it keeps its epoch and outlives them all.
Extended(b, r, now) ==
    LET old == Named(bindings, b, now)
        pending == StillPending(b, now)
    IN  [id |-> b,
         marked |-> \E x \in old : x.marked,
         epoch |-> EpochOf(b, now),
         requests |-> Ids(pending) \cup {r.id},
         expiresAt |-> Max({r.expiresAt} \cup {x.expiresAt : x \in old}
                                         \cup {x.expiresAt : x \in pending})]

BelowLimit(b, now) == Cardinality(StillPending(b, now)) < RequestLimit

CreateRequest(id, flow, b, a, now) ==
    LET r == [id |-> id, flow |-> flow, binding |-> b, app |-> a,
              grant |-> None, expiresAt |-> now + RequestLife]
        extra == IF Named(bindings, b, now) = {} THEN 2 ELSE 1
    IN  /\ id \notin minted
        /\ BelowLimit(b, now)
        /\ HasRequestCapacity(extra, now)
        /\ minted' = minted \cup {id}
        /\ requests' = Alive(requests, now) \cup {r}
        /\ bindings' = (Alive(bindings, now) \ Named(bindings, b, now))
                           \cup {Extended(b, r, now)}
        /\ sessions' = Alive(sessions, now)
        /\ codes' = Alive(codes, now)
        /\ tickets' = Alive(tickets, now)
        /\ Fits(now)
        /\ UNCHANGED <<clock, spent, ended, cancelled>>

\* bindGrant and bindBootstrapGrant: the latest e-mail replaces the earlier one.
WithGrant(r, g) == [r EXCEPT !.grant = g]

Rebind(r, g, now) ==
    /\ requests' = (Alive(requests, now) \ {r}) \cup {WithGrant(r, g)}
    /\ sessions' = Alive(sessions, now)
    /\ codes' = Alive(codes, now)
    /\ bindings' = Alive(bindings, now)
    /\ tickets' = Alive(tickets, now)
    /\ UNCHANGED <<clock, history>>

BindGrant(id, b, g, now) ==
    \E r \in Named(requests, id, now) : r.binding = b /\ Rebind(r, g, now)

BindBootstrapGrant(id, a, g, now) ==
    \E r \in Named(requests, id, now) :
        r.flow = "app-owned" /\ r.app = a /\ Rebind(r, g, now)

ConsumeLauncherRequest(id, g, now) ==
    \E r \in Named(requests, id, now) :
        /\ r.flow = "launcher" /\ r.grant = g
        /\ requests' = Consumed(requests, r, now)
        /\ sessions' = Alive(sessions, now)
        /\ codes' = Alive(codes, now)
        /\ bindings' = Alive(bindings, now)
        /\ tickets' = Alive(tickets, now)
        /\ spent' = spent \cup {id}
        /\ UNCHANGED <<clock, minted, ended, cancelled>>

(***************************************************************************)
(* Authorization codes.                                                     *)
(***************************************************************************)
CodeDeadline(s, now) == Min({now + CodeLife, s.expiresAt})

\* Mutant: any grant will do.
Issuable_AnyGrant(r, b, g) == r.flow # "launcher" /\ r.binding = b

Issuable(r, b, g) == r.flow # "launcher" /\ r.grant = g /\ r.binding = b

IssueCode(c, id, b, h, g, now) ==
    \E r \in Named(requests, id, now), s \in ActiveSessions(h, now) :
        /\ c \notin minted
        /\ Issuable(r, b, g)
        /\ codes' = Alive(codes, now) \cup
               {[id |-> c, session |-> h, app |-> r.app,
                 expiresAt |-> CodeDeadline(s, now)]}
        /\ requests' = Consumed(requests, r, now)
        /\ sessions' = Alive(sessions, now)
        /\ bindings' = Alive(bindings, now)
        /\ tickets' = Alive(tickets, now)
        /\ minted' = minted \cup {c}
        /\ spent' = spent \cup {id}
        /\ UNCHANGED <<clock, ended, cancelled>>

\* A code whose session is gone answers session_expired and stays where it is.
RedeemCode(c, a, e, now) ==
    \E x \in Named(codes, c, now) : \E s \in ActiveSessions(x.session, now) :
        /\ x.app = a
        /\ s.email = e
        /\ codes' = Consumed(codes, x, now)
        /\ sessions' = Alive(sessions, now)
        /\ requests' = Alive(requests, now)
        /\ bindings' = Alive(bindings, now)
        /\ tickets' = Alive(tickets, now)
        /\ spent' = spent \cup {c}
        /\ UNCHANGED <<clock, minted, ended, cancelled>>

(***************************************************************************)
(* Central sessions.                                                        *)
(***************************************************************************)
CreateSession(h, e, prev, now) ==
    /\ h \notin minted
    /\ sessions' = {s \in Alive(sessions, now) : s.id # prev} \cup
           {[id |-> h, email |-> e, binding |-> None, epoch |-> 0,
             expiresAt |-> now + SessionLife]}
    /\ requests' = Alive(requests, now)
    /\ codes' = Alive(codes, now)
    /\ bindings' = Alive(bindings, now)
    /\ tickets' = Alive(tickets, now)
    /\ minted' = minted \cup {h}
    /\ ended' = ended \cup ({prev} \ {None})
    /\ Fits(now)
    /\ UNCHANGED <<clock, spent, cancelled>>

RevokeSession(h, now) ==
    /\ sessions' = {s \in Alive(sessions, now) : s.id # h}
    /\ requests' = Alive(requests, now)
    /\ codes' = Alive(codes, now)
    /\ bindings' = Alive(bindings, now)
    /\ tickets' = Alive(tickets, now)
    /\ ended' = ended \cup {h}
    /\ UNCHANGED <<clock, minted, spent, cancelled>>

\* Mutant: the browser of a session that is not active any more counts, too.
Touched_Stale(h, b, now) ==
    ({b} \cup {s.binding : s \in Named(sessions, h, now)}) \ {None}

\* A logout touches the browser it is told of and the browser of the session it
\* is told of, when that session is still active.
Touched(h, b, now) ==
    ({b} \cup {s.binding : s \in ActiveSessions(h, now)}) \ {None}

Advanced(b, now) ==
    [b EXCEPT !.epoch = @ + 1, !.expiresAt = Max({@, now + Retention})]

EndBrowserSession(h, b, now) ==
    LET touched == Touched(h, b, now)
        advancing == {x \in Alive(bindings, now) : x.id \in touched /\ x.marked}
    IN  /\ \A x \in advancing : x.epoch < MaxEpoch
        /\ sessions' = {s \in Alive(sessions, now) : s.id # h}
        /\ bindings' = (Alive(bindings, now) \ advancing)
                           \cup {Advanced(x, now) : x \in advancing}
        /\ requests' = Alive(requests, now)
        /\ codes' = Alive(codes, now)
        /\ tickets' = Alive(tickets, now)
        /\ ended' = ended \cup ({h} \ {None}) \cup
               Ids({s \in Alive(sessions, now) : s.binding \in touched})
        /\ cancelled' = cancelled \cup
               Ids({t \in Alive(tickets, now) : t.binding \in touched})
        /\ UNCHANGED <<clock, minted, spent>>

(***************************************************************************)
(* Bootstrap: an app-owned sign-in that also starts a central session.      *)
(***************************************************************************)

\* Ticket issuance marks bindings that need bootstrap cancellation.
Marked(b) == [b EXCEPT !.marked = TRUE]

IssueBootstrapTicket(t, id, a, g, e, now) ==
    \E r \in Named(requests, id, now) :
        /\ t \notin minted
        /\ r.flow = "app-owned" /\ r.app = a /\ r.grant = g
        /\ \E b \in Named(bindings, r.binding, now) :
              /\ tickets' = Alive(tickets, now) \cup
                    {[id |-> t, binding |-> b.id, epoch |-> b.epoch, app |-> a,
                      email |-> e, expiresAt |-> Min({r.expiresAt, now + CodeLife})]}
              /\ bindings' = (Alive(bindings, now) \ {b})
                                 \cup {Marked(b)}
        /\ requests' = Consumed(requests, r, now)
        /\ sessions' = Alive(sessions, now)
        /\ codes' = Alive(codes, now)
        /\ minted' = minted \cup {t}
        /\ spent' = spent \cup {id}
        /\ UNCHANGED <<clock, ended, cancelled>>

\* A ticket counts only while its browser is in the epoch it was issued in.
Redeemable(t, a, now) ==
    {x \in Named(tickets, t, now) :
        x.app = a /\ \E b \in Named(bindings, x.binding, now) : b.epoch = x.epoch}

\* The user has to confirm in another browser, or to replace another identity.
NeedsConfirmation(x, b, prev, now) ==
    \/ x.binding # b
    \/ \E s \in ActiveSessions(prev, now) : s.email # x.email

\* Mutant: the rewritten binding forgets the requests it listed.
Adopted_ListLost(b, now) ==
    LET old == Named(bindings, b, now)
    IN  [id |-> b, marked |-> TRUE, epoch |-> EpochOf(b, now), requests |-> {},
         expiresAt |-> Max({now + SessionLife + Slack} \cup {x.expiresAt : x \in old})]

\* The binding of the browser that redeems: it outlives the new session.
Adopted(b, now) ==
    LET old == Named(bindings, b, now)
    IN  [id |-> b, marked |-> TRUE, epoch |-> EpochOf(b, now),
         requests |-> UNION {x.requests : x \in old},
         expiresAt |-> Max({now + SessionLife + Slack} \cup {x.expiresAt : x \in old})]

RedeemBootstrapTicket(t, a, b, prev, confirmed, h, now) ==
    \E x \in Redeemable(t, a, now) :
        /\ h \notin minted
        /\ confirmed \/ ~NeedsConfirmation(x, b, prev, now)
        /\ sessions' = {s \in Alive(sessions, now) : s.id # prev} \cup
               {[id |-> h, email |-> x.email, binding |-> b,
                 epoch |-> EpochOf(b, now), expiresAt |-> now + SessionLife]}
        /\ bindings' = (Alive(bindings, now) \ Named(bindings, b, now))
                           \cup {Adopted(b, now)}
        /\ tickets' = Consumed(tickets, x, now)
        /\ requests' = Alive(requests, now)
        /\ codes' = Alive(codes, now)
        /\ minted' = minted \cup {h}
        /\ spent' = spent \cup {t}
        /\ ended' = ended \cup ({prev} \ {None})
        /\ Fits(now)
        /\ UNCHANGED <<clock, cancelled>>

(***************************************************************************)
(* Reads, refused operations and prune() only drop expired records.         *)
(***************************************************************************)
Prune(now) ==
    /\ sessions' = Alive(sessions, now)
    /\ requests' = Alive(requests, now)
    /\ codes' = Alive(codes, now)
    /\ bindings' = Alive(bindings, now)
    /\ tickets' = Alive(tickets, now)
    /\ UNCHANGED <<clock, history>>

Tick ==
    /\ clock < MaxTime
    /\ clock' = clock + 1
    /\ UNCHANGED <<tables, history>>

Init ==
    /\ clock = 0
    /\ sessions = {} /\ requests = {} /\ codes = {} /\ bindings = {} /\ tickets = {}
    /\ minted = {} /\ spent = {} /\ ended = {} /\ cancelled = {}

Known(values) == values \cap minted

SessionStep(now) ==
    \/ \E h \in Handle, e \in Email, prev \in Known(Handle) \cup {None} :
          CreateSession(h, e, prev, now)
    \/ \E h \in Known(Handle) : RevokeSession(h, now)
    \/ \E h \in Known(Handle) \cup {None}, b \in Browser \cup {None} :
          EndBrowserSession(h, b, now)

RequestStep(now) ==
    \/ \E id \in RequestId, flow \in Flow, b \in Browser, a \in App :
          CreateRequest(id, flow, b, a, now)
    \/ \E id \in RequestId, b \in Browser, g \in Grant : BindGrant(id, b, g, now)
    \/ \E id \in RequestId, a \in App, g \in Grant : BindBootstrapGrant(id, a, g, now)
    \/ \E id \in RequestId, g \in Grant : ConsumeLauncherRequest(id, g, now)

CodeStep(now) ==
    \/ \E c \in Code, id \in RequestId, b \in Browser, h \in Handle,
          g \in Grant \cup {None} : IssueCode(c, id, b, h, g, now)
    \/ \E c \in Code, a \in App, e \in Email : RedeemCode(c, a, e, now)

BootstrapStep(now) ==
    \/ \E t \in Ticket, id \in RequestId, a \in App, g \in Grant, e \in Email :
          IssueBootstrapTicket(t, id, a, g, e, now)
    \/ \E t \in Ticket, a \in App, b \in Browser, prev \in Known(Handle) \cup {None},
          confirmed \in BOOLEAN, h \in Handle :
          RedeemBootstrapTicket(t, a, b, prev, confirmed, h, now)

Next ==
    \/ Tick
    \/ \E now \in Sampled :
          \/ SessionStep(now)
          \/ RequestStep(now)
          \/ CodeStep(now)
          \/ BootstrapStep(now)
          \/ Prune(now)

Spec == Init /\ [][Next]_vars

-----------------------------------------------------------------------------
(***************************************************************************)
(* What the store promises.                                                 *)
(***************************************************************************)
TypeOK ==
    /\ clock \in Nat
    /\ sessions \in SUBSET Session
    /\ requests \in SUBSET Request
    /\ codes \in SUBSET CodeRecord
    /\ bindings \in SUBSET Binding
    /\ tickets \in SUBSET TicketRecord
    /\ minted \subseteq Handle \cup RequestId \cup Code \cup Ticket
    /\ spent \subseteq RequestId \cup Code \cup Ticket
    /\ ended \subseteq Handle /\ cancelled \subseteq Ticket

IsActive(h) == ActiveSessions(h, clock) # {}

\* A session that was logged out, replaced or revoked is never active again:
\* not when its browser signs in again, nor when the binding that carries the
\* epoch is rewritten by a request, expires or is created anew.
\* (endBrowserSession, readActiveSession, createRequest, redeemBootstrapTicket)
EndedStaysEnded ==
    \A h \in ended, now \in Sampled : ActiveSessions(h, now) = {}

\* A ticket that was outstanding when its browser logged out is never
\* redeemable again, whatever happens to that browser's binding afterwards.
\* (endBrowserSession, readRedeemableBootstrap)
CancelledStaysCancelled ==
    \A t \in cancelled, now \in Sampled, a \in App : Redeemable(t, a, now) = {}

\* Nothing else cancels a ticket: one that is alive and was not cancelled by a
\* logout still finds its binding in its own epoch.
OutstandingTicketsRedeemable ==
    \A t \in Alive(tickets, clock) :
        t.id \notin cancelled => Redeemable(t.id, t.app, clock) # {}

\* A browser never has more than RequestLimit pending requests.  The code counts
\* a list kept in the binding, the property counts the requests themselves.
\* (createRequest)
RequestLimitHolds ==
    \A b \in Browser :
        Cardinality({r \in Alive(requests, clock) : r.binding = b}) <= RequestLimit

\* A request, code or ticket that was consumed is gone for good.
\* (consumeLauncherRequest, issueCode, redeemCode, issueBootstrapTicket,
\* redeemBootstrapTicket)
SingleUse == spent \cap (Ids(requests) \cup Ids(codes) \cup Ids(tickets)) = {}

\* A session stops being active for one of two reasons only: somebody ended it,
\* or its own deadline passed.  It never loses its binding on the way.
\* (the deadlines of createRequest, redeemBootstrapTicket, endBrowserSession)
ActiveUntilEnded ==
    [][\A h \in Handle : IsActive(h) /\ ~IsActive(h)' =>
          \/ h \in ended'
          \/ \A s \in Named(sessions, h, clock) : s.expiresAt <= clock']_vars

\* A logout that presents the handle of a session that is no longer active does
\* not end any other session, in particular not a newer one of that browser.
\* (endBrowserSession)
StaleHandleHarmless ==
    [][\A h \in Known(Handle), now \in Sampled :
          EndBrowserSession(h, None, now) /\ ActiveSessions(h, now) = {} =>
              \A k \in Handle \ {h} : IsActive(k) => IsActive(k)']_vars

\* A code is exchanged only for an identity nobody has ended since it was issued.
\* (redeemCode)
CodeDiesWithSession ==
    [][\A x \in codes : x.id \in spent' \ spent => x.session \notin ended]_vars

\* The life of every central session as readActiveSession sees it.
Life == [h \in Handle |-> IF h \notin minted THEN "unborn"
                          ELSE IF IsActive(h) THEN "active" ELSE "over"]

Central == INSTANCE CentralSession WITH life <- Life

\* The store implements the abstract central session: a session starts once,
\* and what readActiveSession once refused it refuses for ever.
ImplementsCentralSession == Central!Spec

=============================================================================

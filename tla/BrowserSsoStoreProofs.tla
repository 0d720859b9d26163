----------------------- MODULE BrowserSsoStoreProofs -----------------------
(***************************************************************************)
(* Proofs about BrowserSsoStore, for every value of its constants.          *)
(*                                                                          *)
(* EndedStaysEnded and CancelledStaysCancelled are not inductive: that an   *)
(* ended session is refused rests on the epoch its binding has reached, so   *)
(* the binding must still be there, must be marked and must not restart.    *)
(* IInv says why: every session and every ticket is fenced by a marked      *)
(* binding that outlives it and whose epoch is at least its own, strictly   *)
(* above it once the session is ended or the ticket cancelled.              *)
(***************************************************************************)
EXTENDS BrowserSsoStore, TLAPS

UniqueIds(table) == \A x, y \in table : x.id = y.id => x = y

IdInv ==
    /\ UniqueIds(sessions) /\ UniqueIds(requests) /\ UniqueIds(codes)
    /\ UniqueIds(bindings) /\ UniqueIds(tickets)

MintedInv ==
    /\ \A s \in sessions : s.id \in minted
    /\ \A r \in requests : r.id \in minted
    /\ \A c \in codes : c.id \in minted
    /\ \A t \in tickets : t.id \in minted
    /\ \A b \in bindings : b.requests \subseteq minted
    /\ spent \subseteq minted /\ ended \subseteq minted /\ cancelled \subseteq minted

\* A pending request is listed by its own binding, and only there.
RequestInv ==
    /\ \A r \in requests : \E b \in bindings :
          b.id = r.binding /\ b.expiresAt >= r.expiresAt /\ r.id \in b.requests
    /\ \A b \in bindings, r \in requests : r.id \in b.requests => r.binding = b.id

Fences(b, x, over) ==
    /\ b.id = x.binding /\ b.marked /\ b.expiresAt >= x.expiresAt
    /\ x.epoch <= b.epoch
    /\ x.id \in over => x.epoch < b.epoch

SessionInv ==
    \A s \in sessions :
        /\ s.binding # None => \E b \in bindings : Fences(b, s, ended)
        /\ s.id \in ended => s.binding # None

TicketInv == \A t \in tickets : \E b \in bindings : Fences(b, t, cancelled)

SpentInv ==
    /\ \A r \in requests : r.id \notin spent
    /\ \A c \in codes : c.id \notin spent
    /\ \A t \in tickets : t.id \notin spent

IInv == IdInv /\ MintedInv /\ RequestInv /\ SessionInv /\ TicketInv /\ SpentInv

-----------------------------------------------------------------------------
(***************************************************************************)
(* Lemmas about the operators.                                              *)
(***************************************************************************)

\* Math.max and Math.min over a set that is known to have a largest (smallest)
\* element.
LEMMA MaxIs ==
    ASSUME NEW S \in SUBSET Int, NEW m \in S, \A x \in S : x <= m
    PROVE  Max(S) = m
<1>1. \A x \in S : m >= x  OBVIOUS
<1>2. \A y \in S : (\A x \in S : y >= x) => y = m  OBVIOUS
<1>3. QED BY <1>1, <1>2 DEF Max

LEMMA MaxOfOne ==
    ASSUME NEW m \in Int
    PROVE  Max({m}) = m
<1> DEFINE S == {m}
<1>1. S \in SUBSET Int /\ m \in S /\ \A x \in S : x <= m  OBVIOUS
<1> HIDE DEF S
<1>2. Max(S) = m  BY <1>1, MaxIs
<1>3. QED BY <1>2 DEF S

LEMMA MaxOfTwo ==
    ASSUME NEW a, NEW b, a \in Int, b \in Int
    PROVE  Max({a, b}) \in {a, b} /\ Max({a, b}) >= a /\ Max({a, b}) >= b
<1>1. CASE a >= b
  <2>1. \A x \in {a, b} : a >= x  BY <1>1
  <2>2. \A y \in {a, b} : (\A x \in {a, b} : y >= x) => y = a  BY <1>1
  <2>3. QED BY <2>1, <2>2 DEF Max
<1>2. CASE b > a
  <2>1. \A x \in {a, b} : b >= x  BY <1>2
  <2>2. \A y \in {a, b} : (\A x \in {a, b} : y >= x) => y = b  BY <1>2
  <2>3. QED BY <2>1, <2>2 DEF Max
<1>3. QED BY <1>1, <1>2

LEMMA MinOfTwo ==
    ASSUME NEW a, NEW b, a \in Int, b \in Int
    PROVE  Min({a, b}) \in {a, b} /\ Min({a, b}) <= a /\ Min({a, b}) <= b
<1>1. CASE a <= b
  <2>1. \A x \in {a, b} : a <= x  BY <1>1
  <2>2. \A y \in {a, b} : (\A x \in {a, b} : y <= x) => y = a  BY <1>1
  <2>3. QED BY <2>1, <2>2 DEF Min
<1>2. CASE b < a
  <2>1. \A x \in {a, b} : b <= x  BY <1>2
  <2>2. \A y \in {a, b} : (\A x \in {a, b} : y <= x) => y = b  BY <1>2
  <2>3. QED BY <2>1, <2>2 DEF Min
<1>3. QED BY <1>1, <1>2

\* The table after a transaction without writes.
LEMMA AliveIn ==
    ASSUME NEW table, NEW now, NEW x \in Alive(table, now)
    PROVE  x \in table /\ x.expiresAt > now
BY DEF Alive

\* A binding the store finds is the only one of its name.
LEMMA BindingFound ==
    ASSUME UniqueIds(bindings), NEW now, NEW b, NEW x \in Named(bindings, b, now)
    PROVE  /\ Named(bindings, b, now) = {x}
           /\ EpochOf(b, now) = x.epoch
           /\ x \in bindings /\ x.id = b /\ x.expiresAt > now
<1>1. Named(bindings, b, now) = {x}
  BY DEF Named, Alive, UniqueIds
<1>2. (CHOOSE y \in Named(bindings, b, now) : TRUE) = x
  BY <1>1
<1>3. QED BY <1>1, <1>2 DEF EpochOf, Named, Alive

\* A rewritten binding keeps its epoch and its mark, outlives the one it
\* replaces and the new request, and lists every request that is still pending.
LEMMA ExtendedCovers ==
    ASSUME TypeOK, IdInv, RequestInv, NEW now \in Nat, NEW b \in Browser, NEW r \in Request
    PROVE  /\ Extended(b, r, now) \in Binding
           /\ Extended(b, r, now).id = b
           /\ Extended(b, r, now).expiresAt >= r.expiresAt
           /\ Extended(b, r, now).requests = Ids(StillPending(b, now)) \cup {r.id}
           /\ \A x \in Named(bindings, b, now) :
                 /\ Extended(b, r, now).expiresAt >= x.expiresAt
                 /\ Extended(b, r, now).epoch = x.epoch
                 /\ x.marked => Extended(b, r, now).marked
<1> DEFINE old == Named(bindings, b, now)
           pending == StillPending(b, now)
           deadlines == {r.expiresAt} \cup {x.expiresAt : x \in old}
                                    \cup {x.expiresAt : x \in pending}
           e == Extended(b, r, now)
<1>1. r.expiresAt \in Nat /\ r.id \in RequestId  BY DEF Request
<1>2. old \subseteq Binding /\ pending \subseteq Request
  BY DEF Named, Alive, StillPending, TypeOK
<1>3. Ids(pending) \cup {r.id} \in SUBSET RequestId
  BY <1>1, <1>2 DEF Ids, Request
<1>4. /\ e.id = b
      /\ e.requests = Ids(pending) \cup {r.id}
      /\ e.expiresAt = Max(deadlines)
      /\ e.epoch = EpochOf(b, now)
      /\ e.marked = (\E x \in old : x.marked)
  BY DEF Extended
<1>5. CASE old = {}
  <2>1. pending = {}  BY <1>5 DEF StillPending
  <2>2. deadlines = {r.expiresAt}  BY <2>1, <1>5
  <2>3. Max(deadlines) = r.expiresAt  BY <2>2, <1>1, MaxOfOne
  <2>4. EpochOf(b, now) = 0  BY <1>5 DEF EpochOf
  <2>5. e \in Binding
    BY <2>2, <2>3, <2>4, <1>1, <1>3, <1>5 DEF Extended, Binding
  <2>6. QED BY <2>2, <2>3, <2>5, <1>1, <1>4, <1>5
<1>6. CASE old # {}
  <2>1. PICK x \in old : TRUE  BY <1>6
  <2>2. old = {x} /\ EpochOf(b, now) = x.epoch /\ x \in bindings
    BY BindingFound DEF IdInv
  <2>3. x.expiresAt \in Nat /\ x.epoch \in Nat /\ x.marked \in BOOLEAN
    BY <1>2, <2>1 DEF Binding
  <2>4. \A y \in pending : y.expiresAt \in Nat /\ y.expiresAt <= x.expiresAt
    <3> SUFFICES ASSUME NEW y \in pending
                 PROVE  y.expiresAt \in Nat /\ y.expiresAt <= x.expiresAt
      OBVIOUS
    <3>1. y \in requests /\ y.id \in x.requests
      BY <2>2 DEF StillPending, Alive
    <3>2. x.id = b /\ y.binding = x.id
      BY <3>1, <2>1, <2>2 DEF RequestInv, Named
    <3>3. PICK z \in bindings : z.id = y.binding /\ z.expiresAt >= y.expiresAt
      BY <3>1 DEF RequestInv
    <3>4. z = x  BY <3>2, <3>3, <2>2 DEF IdInv, UniqueIds
    <3>5. y.expiresAt \in Nat  BY <1>2 DEF Request
    <3>6. QED BY <3>3, <3>4, <3>5, <2>3
  <2>5. deadlines \in SUBSET Int
    BY <1>1, <2>2, <2>3, <2>4
  <2>6. \E m \in deadlines : (\A y \in deadlines : y <= m)
    <3>1. CASE r.expiresAt >= x.expiresAt
      BY <3>1, <1>1, <2>2, <2>3, <2>4
    <3>2. CASE x.expiresAt > r.expiresAt
      BY <3>2, <1>1, <2>2, <2>3, <2>4
    <3>3. QED BY <3>1, <3>2, <1>1, <2>3
  <2>7. Max(deadlines) \in deadlines /\ \A y \in deadlines : y <= Max(deadlines)
    BY <2>5, <2>6, MaxIs
  <2>8. Max(deadlines) \in Nat /\ Max(deadlines) >= r.expiresAt
           /\ Max(deadlines) >= x.expiresAt
    BY <2>7, <2>2, <2>3, <2>4, <1>1
  <2>9. e \in Binding
    BY <2>8, <2>3, <2>2, <1>3 DEF Extended, Binding
  <2>10. QED BY <2>8, <2>9, <2>2, <1>4
<1>7. QED BY <1>5, <1>6

\* The binding of a redeeming browser, likewise.
LEMMA AdoptedCovers ==
    ASSUME TypeOK, IdInv, NEW now \in Nat, NEW b \in Browser
    PROVE  /\ Adopted(b, now) \in Binding
           /\ Adopted(b, now).id = b
           /\ Adopted(b, now).marked
           /\ Adopted(b, now).epoch = EpochOf(b, now)
           /\ Adopted(b, now).expiresAt >= now + SessionLife
           /\ Named(bindings, b, now) = {} => Adopted(b, now).requests = {}
           /\ \A x \in Named(bindings, b, now) :
                 /\ Adopted(b, now).expiresAt >= x.expiresAt
                 /\ Adopted(b, now).epoch = x.epoch
                 /\ Adopted(b, now).requests = x.requests
<1> DEFINE old == Named(bindings, b, now)
           deadline == now + SessionLife + Slack
           deadlines == {deadline} \cup {x.expiresAt : x \in old}
           a == Adopted(b, now)
<1>1. deadline \in Nat /\ deadline >= now + SessionLife  BY LifetimeAssumption
<1>2. old \subseteq Binding  BY DEF Named, Alive, TypeOK
<1>3. /\ a.id = b /\ a.marked
      /\ a.requests = UNION {x.requests : x \in old}
      /\ a.expiresAt = Max(deadlines)
      /\ a.epoch = EpochOf(b, now)
  BY DEF Adopted
<1>4. CASE old = {}
  <2>1. deadlines = {deadline}  BY <1>4
  <2>2. Max(deadlines) = deadline  BY <2>1, <1>1, MaxOfOne
  <2>3. EpochOf(b, now) = 0  BY <1>4 DEF EpochOf
  <2>4. UNION {x.requests : x \in old} = {}  BY <1>4
  <2>5. a \in Binding  BY <2>2, <2>3, <2>4, <1>1 DEF Adopted, Binding
  <2>6. QED BY <2>2, <2>4, <2>5, <1>1, <1>3, <1>4
<1>5. CASE old # {}
  <2>1. PICK x \in old : TRUE  BY <1>5
  <2>2. old = {x} /\ EpochOf(b, now) = x.epoch
    BY BindingFound DEF IdInv
  <2>3. x.expiresAt \in Nat /\ x.epoch \in Nat /\ x.requests \in SUBSET RequestId
    BY <1>2, <2>1 DEF Binding
  <2>4. deadlines = {deadline, x.expiresAt}  BY <2>2
  <2>5. \E m \in deadlines : (\A y \in deadlines : y <= m)
    BY <2>4, <2>3, <1>1
  <2>51. deadlines \in SUBSET Int  BY <2>4, <2>3, <1>1
  <2>6. Max(deadlines) \in deadlines /\ \A y \in deadlines : y <= Max(deadlines)
    BY <2>51, <2>5, MaxIs
  <2>7. UNION {y.requests : y \in old} = x.requests  BY <2>2
  <2>8. Max(deadlines) \in Nat /\ Max(deadlines) >= deadline /\ Max(deadlines) >= x.expiresAt
    BY <2>6, <2>4, <2>3, <1>1
  <2>9. a \in Binding
    BY <2>8, <2>7, <2>3, <2>2 DEF Adopted, Binding
  <2>10. QED BY <2>8, <2>9, <2>7, <2>2, <1>1, <1>3, <1>5, LifetimeAssumption
<1>6. QED BY <1>4, <1>5

-----------------------------------------------------------------------------
(***************************************************************************)
(* Every operation preserves the types and the inductive invariant.         *)
(***************************************************************************)
Inv == TypeOK /\ IInv

USE DEF UniqueIds, Named, Alive

\* No opaque value names records of two kinds.
LEMMA Apart ==
    ASSUME TypeOK
    PROVE  /\ \A r \in requests : r.id \in RequestId /\ r.id \notin Code \cup Ticket \cup Handle
           /\ \A c \in codes : c.id \in Code /\ c.id \notin RequestId \cup Ticket \cup Handle
           /\ \A t \in tickets : t.id \in Ticket /\ t.id \notin RequestId \cup Code \cup Handle
BY OpaqueAssumption DEF TypeOK, Request, CodeRecord, TicketRecord

LEMMA DeadlineIsTime ==
    ASSUME TypeOK, NEW now \in Nat, NEW s \in sessions
    PROVE  CodeDeadline(s, now) \in Nat
<1>1. s.expiresAt \in Nat /\ now + CodeLife \in Nat
  BY LifetimeAssumption DEF TypeOK, Session
<1>2. PICK d \in Int : d = now + CodeLife  BY <1>1
<1>3. PICK e \in Int : e = s.expiresAt  BY <1>1
<1>4. Min({d, e}) \in {d, e}  BY MinOfTwo
<1>5. QED BY <1>1, <1>2, <1>3, <1>4 DEF CodeDeadline

LEMMA PruneKeeps ==
    ASSUME Inv, NEW now \in Nat, Prune(now)
    PROVE  Inv'
<1> USE DEF Inv, IInv, Prune, history
<1>1. TypeOK'  BY DEF TypeOK
<1>2. IdInv'  BY DEF IdInv, MintedInv
<1>3. MintedInv'  BY DEF MintedInv
<1>4. RequestInv'  BY DEF RequestInv, TypeOK, Request, Binding
<1>5. SessionInv'  BY DEF SessionInv, MintedInv, Fences, TypeOK, Session, Binding
<1>6. TicketInv'  BY DEF TicketInv, MintedInv, Fences, TypeOK, TicketRecord, Binding
<1>7. SpentInv'  BY DEF SpentInv, MintedInv
<1>8. QED BY <1>1, <1>2, <1>3, <1>4, <1>5, <1>6, <1>7

LEMMA TickKeeps ==
    ASSUME Inv, Tick
    PROVE  Inv'
<1> USE DEF Inv, IInv, Tick, tables, history
<1>1. TypeOK'  BY DEF TypeOK
<1>2. IdInv'  BY DEF IdInv, MintedInv
<1>3. MintedInv'  BY DEF MintedInv
<1>4. RequestInv'  BY DEF RequestInv, TypeOK, Request, Binding
<1>5. SessionInv'  BY DEF SessionInv, MintedInv, Fences, TypeOK, Session, Binding
<1>6. TicketInv'  BY DEF TicketInv, MintedInv, Fences, TypeOK, TicketRecord, Binding
<1>7. SpentInv'  BY DEF SpentInv, MintedInv
<1>8. QED BY <1>1, <1>2, <1>3, <1>4, <1>5, <1>6, <1>7

LEMMA IssueCodeKeeps ==
    ASSUME Inv, NEW now \in Nat, NEW c \in Code, NEW id \in RequestId, NEW b \in Browser,
           NEW h \in Handle, NEW g \in Grant \cup {None}, IssueCode(c, id, b, h, g, now)
    PROVE  Inv'
<1> USE DEF Inv, IInv
<1>0. PICK r \in Named(requests, id, now), s \in ActiveSessions(h, now) :
          IssueCode(c, id, b, h, g, now)!(r, s)
  BY DEF IssueCode
<1> DEFINE code == [id |-> c, session |-> h, app |-> r.app, expiresAt |-> CodeDeadline(s, now)]
<1>a. /\ c \notin minted /\ id \in minted /\ r \in requests /\ r.id = id
      /\ requests' = Alive(requests, now) \ {r} /\ sessions' = Alive(sessions, now)
      /\ codes' = Alive(codes, now) \cup {code}
      /\ bindings' = Alive(bindings, now) /\ tickets' = Alive(tickets, now)
      /\ minted' = minted \cup {c} /\ spent' = spent \cup {id}
      /\ UNCHANGED <<clock, ended, cancelled>>
  BY <1>0 DEF MintedInv, Consumed
<1>b. code \in CodeRecord
  <2>1. s \in sessions /\ r \in Request  BY <1>a DEF ActiveSessions, TypeOK
  <2>2. CodeDeadline(s, now) \in Nat  BY <2>1, DeadlineIsTime
  <2>3. QED BY <2>1, <2>2 DEF CodeRecord, Request
<1>1. TypeOK'  BY <1>a, <1>b DEF TypeOK
<1>2. IdInv'  BY <1>a DEF IdInv, MintedInv
<1>3. MintedInv'  BY <1>a DEF MintedInv
<1>4. RequestInv'  BY <1>a DEF RequestInv, TypeOK, Request, Binding
<1>5. SessionInv'  BY <1>a DEF SessionInv, MintedInv, Fences, TypeOK, Session, Binding
<1>6. TicketInv'  BY <1>a DEF TicketInv, MintedInv, Fences, TypeOK, TicketRecord, Binding
<1>7. SpentInv'  BY <1>a, Apart DEF SpentInv, MintedInv, IdInv
<1>8. QED BY <1>1, <1>2, <1>3, <1>4, <1>5, <1>6, <1>7

LEMMA RedeemCodeKeeps ==
    ASSUME Inv, NEW now \in Nat, NEW c \in Code, NEW a \in App, NEW e \in Email,
           RedeemCode(c, a, e, now)
    PROVE  Inv'
<1> USE DEF Inv, IInv
<1>0. PICK x \in Named(codes, c, now) : \E s \in ActiveSessions(x.session, now) :
          RedeemCode(c, a, e, now)!(x)!(s)
  BY DEF RedeemCode
<1>a. /\ x \in codes /\ x.id = c /\ c \in minted
      /\ codes' = Alive(codes, now) \ {x}
      /\ requests' = Alive(requests, now) /\ sessions' = Alive(sessions, now)
      /\ bindings' = Alive(bindings, now) /\ tickets' = Alive(tickets, now)
      /\ spent' = spent \cup {c}
      /\ UNCHANGED <<clock, minted, ended, cancelled>>
  BY <1>0 DEF MintedInv, Consumed
<1>1. TypeOK'  BY <1>a DEF TypeOK
<1>2. IdInv'  BY <1>a DEF IdInv, MintedInv
<1>3. MintedInv'  BY <1>a DEF MintedInv
<1>4. RequestInv'  BY <1>a DEF RequestInv, TypeOK, Request, Binding
<1>5. SessionInv'  BY <1>a DEF SessionInv, MintedInv, Fences, TypeOK, Session, Binding
<1>6. TicketInv'  BY <1>a DEF TicketInv, MintedInv, Fences, TypeOK, TicketRecord, Binding
<1>7. SpentInv'  BY <1>a, Apart DEF SpentInv, MintedInv, IdInv
<1>8. QED BY <1>1, <1>2, <1>3, <1>4, <1>5, <1>6, <1>7

LEMMA ConsumeLauncherRequestKeeps ==
    ASSUME Inv, NEW now \in Nat, NEW id \in RequestId, NEW g \in Grant,
           ConsumeLauncherRequest(id, g, now)
    PROVE  Inv'
<1> USE DEF Inv, IInv
<1>0. PICK r \in Named(requests, id, now) : ConsumeLauncherRequest(id, g, now)!(r)
  BY DEF ConsumeLauncherRequest
<1>a. /\ r \in requests /\ r.id = id /\ id \in minted
      /\ requests' = Alive(requests, now) \ {r}
      /\ codes' = Alive(codes, now) /\ sessions' = Alive(sessions, now)
      /\ bindings' = Alive(bindings, now) /\ tickets' = Alive(tickets, now)
      /\ spent' = spent \cup {id}
      /\ UNCHANGED <<clock, minted, ended, cancelled>>
  BY <1>0 DEF MintedInv, Consumed
<1>1. TypeOK'  BY <1>a DEF TypeOK
<1>2. IdInv'  BY <1>a DEF IdInv, MintedInv
<1>3. MintedInv'  BY <1>a DEF MintedInv
<1>4. RequestInv'  BY <1>a DEF RequestInv, TypeOK, Request, Binding
<1>5. SessionInv'  BY <1>a DEF SessionInv, MintedInv, Fences, TypeOK, Session, Binding
<1>6. TicketInv'  BY <1>a DEF TicketInv, MintedInv, Fences, TypeOK, TicketRecord, Binding
<1>7. SpentInv'  BY <1>a, Apart DEF SpentInv, MintedInv, IdInv
<1>8. QED BY <1>1, <1>2, <1>3, <1>4, <1>5, <1>6, <1>7

\* bindGrant and bindBootstrapGrant.
LEMMA RebindKeeps ==
    ASSUME Inv, NEW now \in Nat, NEW g \in Grant, NEW r \in requests, Rebind(r, g, now),
           r.expiresAt > now
    PROVE  Inv'
<1> USE DEF Inv, IInv
<1> DEFINE q == WithGrant(r, g)
<1>a. /\ q \in Request /\ q.id = r.id /\ q.binding = r.binding /\ q.expiresAt = r.expiresAt
      /\ requests' = (Alive(requests, now) \ {r}) \cup {q}
      /\ codes' = Alive(codes, now) /\ sessions' = Alive(sessions, now)
      /\ bindings' = Alive(bindings, now) /\ tickets' = Alive(tickets, now)
      /\ UNCHANGED <<clock, minted, spent, ended, cancelled>>
  BY DEF Rebind, WithGrant, history, TypeOK, Request
<1> HIDE DEF q
<1>1. TypeOK'  BY <1>a DEF TypeOK
<1>2. IdInv'  BY <1>a DEF IdInv, MintedInv
<1>3. MintedInv'  BY <1>a DEF MintedInv
<1>4. RequestInv'  BY <1>a DEF RequestInv, TypeOK, Request, Binding
<1>5. SessionInv'  BY <1>a DEF SessionInv, MintedInv, Fences, TypeOK, Session, Binding
<1>6. TicketInv'  BY <1>a DEF TicketInv, MintedInv, Fences, TypeOK, TicketRecord, Binding
<1>7. SpentInv'  BY <1>a DEF SpentInv, MintedInv
<1>8. QED BY <1>1, <1>2, <1>3, <1>4, <1>5, <1>6, <1>7

LEMMA CreateSessionKeeps ==
    ASSUME Inv, NEW now \in Nat, NEW h \in Handle, NEW e \in Email,
           NEW prev \in Known(Handle) \cup {None}, CreateSession(h, e, prev, now)
    PROVE  Inv'
<1> USE DEF Inv, IInv
<1> DEFINE session == [id |-> h, email |-> e, binding |-> None, epoch |-> 0,
                       expiresAt |-> now + SessionLife]
<1>a. /\ h \notin minted /\ session \in Session /\ session.id = h /\ session.binding = None
      /\ sessions' = {s \in Alive(sessions, now) : s.id # prev} \cup {session}
      /\ requests' = Alive(requests, now) /\ codes' = Alive(codes, now)
      /\ bindings' = Alive(bindings, now) /\ tickets' = Alive(tickets, now)
      /\ minted' = minted \cup {h} /\ ended' = ended \cup ({prev} \ {None})
      /\ {prev} \ {None} \subseteq Handle \cap minted
      /\ UNCHANGED <<clock, spent, cancelled>>
  BY LifetimeAssumption DEF CreateSession, Session, Known
<1> HIDE DEF session
<1>1. TypeOK'  BY <1>a DEF TypeOK
<1>2. IdInv'  BY <1>a DEF IdInv, MintedInv
<1>3. MintedInv'  BY <1>a DEF MintedInv
<1>4. RequestInv'  BY <1>a DEF RequestInv, TypeOK, Request, Binding
<1>5. SessionInv'  BY <1>a DEF SessionInv, MintedInv, Fences, TypeOK, Session, Binding
<1>6. TicketInv'  BY <1>a DEF TicketInv, MintedInv, Fences, TypeOK, TicketRecord, Binding
<1>7. SpentInv'  BY <1>a DEF SpentInv, MintedInv
<1>8. QED BY <1>1, <1>2, <1>3, <1>4, <1>5, <1>6, <1>7

LEMMA RevokeSessionKeeps ==
    ASSUME Inv, NEW now \in Nat, NEW h \in Known(Handle), RevokeSession(h, now)
    PROVE  Inv'
<1> USE DEF Inv, IInv, RevokeSession, Known
<1>1. TypeOK'  BY DEF TypeOK
<1>2. IdInv'  BY DEF IdInv, MintedInv
<1>3. MintedInv'  BY DEF MintedInv
<1>4. RequestInv'  BY DEF RequestInv, TypeOK, Request, Binding
<1>5. SessionInv'  BY DEF SessionInv, MintedInv, Fences, TypeOK, Session, Binding
<1>6. TicketInv'  BY DEF TicketInv, MintedInv, Fences, TypeOK, TicketRecord, Binding
<1>7. SpentInv'  BY DEF SpentInv, MintedInv
<1>8. QED BY <1>1, <1>2, <1>3, <1>4, <1>5, <1>6, <1>7

LEMMA CreateRequestKeeps ==
    ASSUME Inv, NEW now \in Nat, NEW id \in RequestId, NEW flow \in Flow, NEW b \in Browser,
           NEW a \in App, CreateRequest(id, flow, b, a, now)
    PROVE  Inv'
<1> USE DEF Inv, IInv
<1> DEFINE r == [id |-> id, flow |-> flow, binding |-> b, app |-> a,
                 grant |-> None, expiresAt |-> now + RequestLife]
           new == Extended(b, r, now)
           old == Named(bindings, b, now)
<1>a. /\ r \in Request /\ r.id = id /\ r.binding = b /\ id \notin minted
      /\ minted' = minted \cup {id}
      /\ requests' = Alive(requests, now) \cup {r}
      /\ bindings' = (Alive(bindings, now) \ old) \cup {new}
      /\ codes' = Alive(codes, now) /\ sessions' = Alive(sessions, now)
      /\ tickets' = Alive(tickets, now)
      /\ UNCHANGED <<clock, spent, ended, cancelled>>
  BY LifetimeAssumption DEF CreateRequest, Request
<1> HIDE DEF r
<1>b. /\ new \in Binding /\ new.id = b /\ new.expiresAt >= r.expiresAt
      /\ new.requests = Ids(StillPending(b, now)) \cup {id}
      /\ \A x \in old : /\ new.expiresAt >= x.expiresAt /\ new.epoch = x.epoch
                        /\ x.marked => new.marked
  BY <1>a, ExtendedCovers
<1> HIDE DEF new
<1>c. old \in SUBSET bindings /\ \A x \in Alive(bindings, now) : x \in old <=> x.id = b
  OBVIOUS
<1>d. /\ \A x \in new.requests : x = id \/ \E q \in requests : q.id = x /\ q.expiresAt > now
                                              /\ q.binding = b
      /\ \A q \in Alive(requests, now) : q.binding = b => q.id \in new.requests
  <2>1. \A q \in Alive(requests, now) : q.binding = b => q.id \in new.requests
    <3> SUFFICES ASSUME NEW q \in Alive(requests, now), q.binding = b
                 PROVE  q \in StillPending(b, now)
      BY <1>b DEF Ids
    <3>1. PICK x \in bindings : x.id = b /\ x.expiresAt >= q.expiresAt /\ q.id \in x.requests
      BY DEF RequestInv
    <3>2. x \in Named(bindings, b, now)
      BY <3>1 DEF TypeOK, Binding, Request
    <3>3. QED BY <3>1, <3>2 DEF StillPending
  <2>2. \A q \in StillPending(b, now) : q \in requests /\ q.expiresAt > now /\ q.binding = b
    BY DEF StillPending, RequestInv
  <2>3. QED BY <1>b, <2>1, <2>2 DEF Ids
<1>1. TypeOK'  BY <1>a, <1>b DEF TypeOK
<1>2. IdInv'  BY <1>a, <1>b, <1>c DEF IdInv, MintedInv
<1>3. MintedInv'  BY <1>a, <1>b, <1>c, <1>d DEF MintedInv
<1>4. RequestInv'
  <2>1. \A q \in requests' : \E x \in bindings' :
           x.id = q.binding /\ x.expiresAt >= q.expiresAt /\ q.id \in x.requests
    <3> SUFFICES ASSUME NEW q \in Alive(requests, now)
                 PROVE  \E x \in bindings' :
                           x.id = q.binding /\ x.expiresAt >= q.expiresAt /\ q.id \in x.requests
      BY <1>a, <1>b
    <3>1. PICK x \in bindings : x.id = q.binding /\ x.expiresAt >= q.expiresAt
                                                /\ q.id \in x.requests
      BY DEF RequestInv
    <3>2. x \in Alive(bindings, now)  BY <3>1 DEF TypeOK, Binding, Request
    <3>3. CASE x.id = b
      <4>1. x \in old /\ new \in bindings'  BY <3>2, <3>3, <1>a, <1>c
      <4>2. q.id \in new.requests /\ new.id = q.binding  BY <3>1, <3>3, <1>b, <1>d
      <4>3. /\ new.expiresAt >= x.expiresAt /\ new.expiresAt \in Nat
            /\ x.expiresAt \in Nat /\ q.expiresAt \in Nat
        BY <4>1, <1>b DEF TypeOK, Binding, Request
      <4>4. QED BY <3>1, <4>1, <4>2, <4>3
    <3>4. CASE x.id # b  BY <3>1, <3>2, <3>4, <1>a
    <3>5. QED BY <3>3, <3>4
  <2>2. \A x \in bindings', q \in requests' : q.id \in x.requests => q.binding = x.id
    <3> SUFFICES ASSUME NEW x \in bindings', NEW q \in requests', q.id \in x.requests
                 PROVE  q.binding = x.id
      OBVIOUS
    <3>1. CASE x = new  BY <3>1, <1>a, <1>b, <1>d DEF IdInv, MintedInv
    <3>2. CASE x \in bindings
      BY <3>2, <1>a DEF RequestInv, MintedInv
    <3>3. QED BY <3>1, <3>2, <1>a
  <2>3. QED BY <2>1, <2>2 DEF RequestInv
<1>e. \A x \in Alive(bindings, now) : \E y \in bindings' :
         /\ y.id = x.id /\ y.epoch = x.epoch /\ y.expiresAt >= x.expiresAt
         /\ x.marked => y.marked
         /\ y.expiresAt \in Nat /\ x.expiresAt \in Nat
  <2> SUFFICES ASSUME NEW x \in Alive(bindings, now)
               PROVE  \E y \in bindings' :
                         /\ y.id = x.id /\ y.epoch = x.epoch /\ y.expiresAt >= x.expiresAt
                         /\ x.marked => y.marked
                         /\ y.expiresAt \in Nat /\ x.expiresAt \in Nat
    OBVIOUS
  <2>1. x.expiresAt \in Nat  BY DEF TypeOK, Binding
  <2>2. CASE x \in old
    <3>1. new \in bindings' /\ new.expiresAt \in Nat  BY <1>a, <1>b DEF Binding
    <3>2. QED BY <2>1, <2>2, <3>1, <1>b, <1>c
  <2>3. CASE x \notin old  BY <2>1, <2>3, <1>a
  <2>4. QED BY <2>2, <2>3
<1>5. SessionInv'
  <2> SUFFICES ASSUME NEW s \in Alive(sessions, now), s.binding # None
               PROVE  \E y \in bindings' : Fences(y, s, ended)
    BY <1>a DEF SessionInv, Fences
  <2>1. PICK x \in bindings : Fences(x, s, ended)  BY DEF SessionInv
  <2>2. s.expiresAt \in Nat /\ x \in Alive(bindings, now)
    BY <2>1 DEF TypeOK, Session, Binding, Fences
  <2>3. QED BY <2>1, <2>2, <1>e DEF Fences
<1>6. TicketInv'
  <2> SUFFICES ASSUME NEW t \in Alive(tickets, now)
               PROVE  \E y \in bindings' : Fences(y, t, cancelled)
    BY <1>a DEF TicketInv, Fences
  <2>1. PICK x \in bindings : Fences(x, t, cancelled)  BY DEF TicketInv
  <2>2. t.expiresAt \in Nat /\ x \in Alive(bindings, now)
    BY <2>1 DEF TypeOK, TicketRecord, Binding, Fences
  <2>3. QED BY <2>1, <2>2, <1>e DEF Fences
<1>7. SpentInv'  BY <1>a DEF SpentInv, MintedInv
<1>8. QED BY <1>1, <1>2, <1>3, <1>4, <1>5, <1>6, <1>7

LEMMA EndBrowserSessionKeeps ==
    ASSUME Inv, NEW now \in Nat, NEW h \in Known(Handle) \cup {None},
           NEW b \in Browser \cup {None}, EndBrowserSession(h, b, now)
    PROVE  Inv'
<1> USE DEF Inv, IInv
<1> DEFINE touched == Touched(h, b, now)
           advancing == {x \in Alive(bindings, now) : x.id \in touched /\ x.marked}
<1>a. /\ sessions' = {s \in Alive(sessions, now) : s.id # h}
      /\ bindings' = (Alive(bindings, now) \ advancing) \cup {Advanced(x, now) : x \in advancing}
      /\ requests' = Alive(requests, now) /\ codes' = Alive(codes, now)
      /\ tickets' = Alive(tickets, now)
      /\ ended' = ended \cup ({h} \ {None}) \cup
            Ids({s \in Alive(sessions, now) : s.binding \in touched})
      /\ cancelled' = cancelled \cup Ids({t \in Alive(tickets, now) : t.binding \in touched})
      /\ UNCHANGED <<clock, minted, spent>>
  BY DEF EndBrowserSession
<1>b. None \notin touched  BY DEF Touched
<1> HIDE DEF touched
<1>c. {h} \ {None} \subseteq Handle \cap minted  BY DEF Known
<1>d. \A x \in Alive(bindings, now) :
         /\ Advanced(x, now) \in Binding /\ Advanced(x, now).id = x.id
         /\ Advanced(x, now).requests = x.requests /\ Advanced(x, now).marked = x.marked
         /\ Advanced(x, now).epoch = x.epoch + 1
         /\ Advanced(x, now).expiresAt >= x.expiresAt
  <2> SUFFICES ASSUME NEW x \in Alive(bindings, now)
               PROVE  /\ Advanced(x, now) \in Binding /\ Advanced(x, now).id = x.id
                      /\ Advanced(x, now).requests = x.requests
                      /\ Advanced(x, now).marked = x.marked
                      /\ Advanced(x, now).epoch = x.epoch + 1
                      /\ Advanced(x, now).expiresAt >= x.expiresAt
    OBVIOUS
  <2>1. x \in Binding  BY DEF TypeOK
  <2>2. x.expiresAt \in Nat /\ now + Retention \in Nat
    BY <2>1, LifetimeAssumption DEF Binding
  <2>3. PICK d \in Int : d = now + Retention  BY <2>2
  <2>4. PICK e \in Int : e = x.expiresAt  BY <2>2
  <2>5. Max({e, d}) \in {e, d} /\ Max({e, d}) >= e  BY MaxOfTwo
  <2>6. PICK m \in Nat : m = Max({x.expiresAt, now + Retention}) /\ m >= x.expiresAt
    BY <2>2, <2>3, <2>4, <2>5
  <2>7. Advanced(x, now) = [x EXCEPT !.epoch = x.epoch + 1, !.expiresAt = m]
    BY <2>6 DEF Advanced
  <2>8. /\ x.id \in Browser /\ x.marked \in BOOLEAN /\ x.epoch + 1 \in Nat
        /\ x.requests \in SUBSET RequestId
    BY <2>1 DEF Binding
  <2>9. Advanced(x, now) = [id |-> x.id, marked |-> x.marked, epoch |-> x.epoch + 1,
                            requests |-> x.requests, expiresAt |-> m]
    BY <2>1, <2>7 DEF Binding
  <2>10. QED BY <2>6, <2>8, <2>9 DEF Binding
\* Every binding the transaction sees has a successor; a touched one moves on.
<1>e. \A x \in Alive(bindings, now) : \E y \in bindings' :
         /\ y.id = x.id /\ y.requests = x.requests /\ y.marked = x.marked
         /\ y.expiresAt >= x.expiresAt /\ y.epoch >= x.epoch
         /\ x.id \in touched /\ x.marked => y.epoch > x.epoch
  <2> SUFFICES ASSUME NEW x \in Alive(bindings, now)
               PROVE  \E y \in bindings' :
                         /\ y.id = x.id /\ y.requests = x.requests /\ y.marked = x.marked
                         /\ y.expiresAt >= x.expiresAt /\ y.epoch >= x.epoch
                         /\ x.id \in touched /\ x.marked => y.epoch > x.epoch
    OBVIOUS
  <2>1. x.epoch \in Nat /\ x.expiresAt \in Nat  BY DEF TypeOK, Binding
  <2>2. CASE x \in advancing
    <3>1. Advanced(x, now) \in bindings'  BY <2>2, <1>a
    <3>2. QED BY <3>1, <2>1, <1>d
  <2>3. CASE x \notin advancing  BY <2>3, <2>1, <1>a
  <2>4. QED BY <2>2, <2>3
<1>f. \A y \in bindings' : \E x \in Alive(bindings, now) :
         /\ \/ y = x /\ x \notin advancing
            \/ y = Advanced(x, now) /\ x \in advancing
         /\ y.id = x.id /\ y.requests = x.requests /\ y \in Binding
  <2> SUFFICES ASSUME NEW y \in bindings'
               PROVE  \E x \in Alive(bindings, now) :
                         /\ \/ y = x /\ x \notin advancing
                            \/ y = Advanced(x, now) /\ x \in advancing
                         /\ y.id = x.id /\ y.requests = x.requests /\ y \in Binding
    OBVIOUS
  <2>1. CASE y \in Alive(bindings, now) \ advancing  BY <2>1 DEF TypeOK
  <2>2. CASE \E x \in advancing : y = Advanced(x, now)  BY <2>2, <1>d
  <2>3. QED BY <2>1, <2>2, <1>a
<1> HIDE DEF advancing
<1>1. TypeOK'
  <2>1. bindings' \in SUBSET Binding  BY <1>f
  <2>2. ended' \subseteq Handle  BY <1>a, <1>c DEF TypeOK, Ids, Session
  <2>3. cancelled' \subseteq Ticket  BY <1>a DEF TypeOK, Ids, TicketRecord
  <2>4. QED BY <1>a, <2>1, <2>2, <2>3 DEF TypeOK
<1>2. IdInv'
  <2>1. UniqueIds(bindings')  BY <1>f DEF IdInv
  <2>2. QED BY <1>a, <2>1 DEF IdInv
<1>3. MintedInv'
  <2>1. ended' \subseteq minted /\ cancelled' \subseteq minted
    BY <1>a, <1>c DEF MintedInv, Ids
  <2>2. QED BY <1>a, <1>f, <2>1 DEF MintedInv
<1>4. RequestInv'
  <2>1. \A r \in requests' : \E y \in bindings' :
           y.id = r.binding /\ y.expiresAt >= r.expiresAt /\ r.id \in y.requests
    <3> SUFFICES ASSUME NEW r \in Alive(requests, now)
                 PROVE  \E y \in bindings' :
                           y.id = r.binding /\ y.expiresAt >= r.expiresAt /\ r.id \in y.requests
      BY <1>a
    <3>1. PICK x \in bindings : x.id = r.binding /\ x.expiresAt >= r.expiresAt
                                                /\ r.id \in x.requests
      BY DEF RequestInv
    <3>2. r.expiresAt \in Nat /\ x.expiresAt \in Nat  BY DEF TypeOK, Request, Binding
    <3>3. PICK y \in bindings' : /\ y.id = x.id /\ y.requests = x.requests
                                 /\ y.expiresAt >= x.expiresAt /\ y \in Binding
      BY <3>1, <3>2, <1>e, <1>f
    <3>4. QED BY <3>1, <3>2, <3>3 DEF Binding
  <2>2. \A y \in bindings', r \in requests' : r.id \in y.requests => r.binding = y.id
    BY <1>a, <1>f DEF RequestInv
  <2>3. QED BY <2>1, <2>2 DEF RequestInv
<1>5. SessionInv'
  <2> SUFFICES ASSUME NEW s \in Alive(sessions, now), s.id # h
               PROVE  /\ s.binding # None => \E y \in bindings' : Fences(y, s, ended')
                      /\ s.id \in ended' => s.binding # None
    BY <1>a DEF SessionInv
  \* ended' can only have grown by s when s belongs to a touched binding.
  <2>1. s.id \in ended' => s.id \in ended \/ s.binding \in touched
    BY <1>a DEF Ids, IdInv
  <2>2. s.id \in ended' => s.binding # None  BY <2>1, <1>b DEF SessionInv
  <2>3. ASSUME s.binding # None
        PROVE  \E y \in bindings' : Fences(y, s, ended')
    <3>1. PICK x \in bindings : Fences(x, s, ended)  BY <2>3 DEF SessionInv
    <3>2. /\ s.epoch \in Nat /\ s.expiresAt \in Nat /\ x.epoch \in Nat /\ x.expiresAt \in Nat
          /\ x \in Alive(bindings, now)
      BY <3>1 DEF TypeOK, Session, Binding, Fences
    <3>3. PICK y \in bindings' :
             /\ y.id = x.id /\ y.marked = x.marked /\ y \in Binding
             /\ y.expiresAt >= x.expiresAt /\ y.epoch >= x.epoch
             /\ x.id \in touched /\ x.marked => y.epoch > x.epoch
      BY <3>2, <1>e, <1>f
    <3>4. y.epoch \in Nat /\ y.expiresAt \in Nat  BY <3>3 DEF Binding
    <3>5. Fences(y, s, ended')  BY <2>1, <3>1, <3>2, <3>3, <3>4 DEF Fences
    <3>6. QED BY <3>5
  <2>4. QED BY <2>2, <2>3
<1>6. TicketInv'
  <2> SUFFICES ASSUME NEW t \in Alive(tickets, now)
               PROVE  \E y \in bindings' : Fences(y, t, cancelled')
    BY <1>a DEF TicketInv
  <2>1. t.id \in cancelled' => t.id \in cancelled \/ t.binding \in touched
    BY <1>a DEF Ids, IdInv
  <2>2. PICK x \in bindings : Fences(x, t, cancelled)  BY DEF TicketInv
  <2>3. /\ t.epoch \in Nat /\ t.expiresAt \in Nat /\ x.epoch \in Nat /\ x.expiresAt \in Nat
        /\ x \in Alive(bindings, now)
    BY <2>2 DEF TypeOK, TicketRecord, Binding, Fences
  <2>4. PICK y \in bindings' :
           /\ y.id = x.id /\ y.marked = x.marked /\ y \in Binding
           /\ y.expiresAt >= x.expiresAt /\ y.epoch >= x.epoch
           /\ x.id \in touched /\ x.marked => y.epoch > x.epoch
    BY <2>3, <1>e, <1>f
  <2>5. y.epoch \in Nat /\ y.expiresAt \in Nat  BY <2>4 DEF Binding
  <2>6. Fences(y, t, cancelled')  BY <2>1, <2>2, <2>3, <2>4, <2>5 DEF Fences
  <2>7. QED BY <2>6
<1>7. SpentInv'  BY <1>a DEF SpentInv
<1>8. QED BY <1>1, <1>2, <1>3, <1>4, <1>5, <1>6, <1>7

LEMMA IssueBootstrapTicketKeeps ==
    ASSUME Inv, NEW now \in Nat, NEW t \in Ticket, NEW id \in RequestId, NEW a \in App,
           NEW g \in Grant, NEW e \in Email, IssueBootstrapTicket(t, id, a, g, e, now)
    PROVE  Inv'
<1> USE DEF Inv, IInv
<1>0. PICK r \in Named(requests, id, now) : IssueBootstrapTicket(t, id, a, g, e, now)!(r)
  BY DEF IssueBootstrapTicket
<1>00. PICK x \in Named(bindings, r.binding, now) :
         /\ tickets' = Alive(tickets, now) \cup
               {[id |-> t, binding |-> x.id, epoch |-> x.epoch, app |-> a,
                 email |-> e, expiresAt |-> Min({r.expiresAt, now + CodeLife})]}
         /\ bindings' = (Alive(bindings, now) \ {x}) \cup {Marked(x)}
  BY <1>0
<1> DEFINE ticket == [id |-> t, binding |-> x.id, epoch |-> x.epoch, app |-> a,
                      email |-> e, expiresAt |-> Min({r.expiresAt, now + CodeLife})]
           new == Marked(x)
           old == {x}
           b == r.binding
<1>z. r \in Request /\ x \in Binding /\ x.id = b  BY DEF TypeOK
<1>y. /\ ticket \in TicketRecord /\ ticket.id = t /\ ticket.binding = x.id
      /\ ticket.epoch = x.epoch /\ ticket.expiresAt <= r.expiresAt
  <2>1. now + CodeLife \in Nat /\ r.expiresAt \in Nat
    BY <1>z, LifetimeAssumption DEF Request
  <2>2. PICK d \in Int : d = now + CodeLife  BY <2>1
  <2>3. PICK f \in Int : f = r.expiresAt  BY <2>1
  <2>4. Min({f, d}) \in {f, d} /\ Min({f, d}) <= f  BY MinOfTwo
  <2>5. ticket.expiresAt \in Nat /\ ticket.expiresAt <= r.expiresAt
    BY <2>1, <2>2, <2>3, <2>4
  <2>6. QED BY <1>z, <2>5 DEF TicketRecord, Binding
<1> HIDE DEF ticket
<1>a. /\ r \in requests /\ r.id = id /\ id \in minted /\ t \notin minted
      /\ requests' = Alive(requests, now) \ {r}
      /\ tickets' = Alive(tickets, now) \cup {ticket}
      /\ bindings' = (Alive(bindings, now) \ old) \cup {new}
      /\ codes' = Alive(codes, now) /\ sessions' = Alive(sessions, now)
      /\ minted' = minted \cup {t} /\ spent' = spent \cup {id}
      /\ UNCHANGED <<clock, ended, cancelled>>
  BY <1>0, <1>00 DEF MintedInv, Consumed, ticket
<1>b. /\ new \in Binding /\ new.id = b /\ new.marked /\ new.requests = x.requests
      /\ new.expiresAt = x.expiresAt /\ new.epoch = x.epoch
  BY <1>z DEF Marked, Binding
<1> HIDE DEF new
<1>c. x \in Alive(bindings, now)  OBVIOUS
<1>1. TypeOK'  BY <1>a, <1>b, <1>y DEF TypeOK
<1>2. IdInv'  BY <1>a, <1>b, <1>y, <1>z DEF IdInv, MintedInv
<1>3. MintedInv'  BY <1>a, <1>b, <1>y DEF MintedInv
<1>4. RequestInv'  BY <1>a, <1>b, <1>z DEF RequestInv, TypeOK, Binding, Request
<1>e. \A w \in Alive(bindings, now) : \E y \in bindings' :
         /\ y.id = w.id /\ y.epoch = w.epoch /\ y.expiresAt >= w.expiresAt
         /\ w.marked => y.marked
         /\ y.expiresAt \in Nat /\ w.expiresAt \in Nat
  <2> SUFFICES ASSUME NEW w \in Alive(bindings, now)
               PROVE  \E y \in bindings' :
                         /\ y.id = w.id /\ y.epoch = w.epoch /\ y.expiresAt >= w.expiresAt
                         /\ w.marked => y.marked
                         /\ y.expiresAt \in Nat /\ w.expiresAt \in Nat
    OBVIOUS
  <2>1. w.expiresAt \in Nat  BY DEF TypeOK, Binding
  <2>2. CASE w \in old
    <3>1. new \in bindings' /\ new.expiresAt \in Nat  BY <1>a, <1>b DEF Binding
    <3>2. QED BY <2>1, <2>2, <3>1, <1>b, <1>c
  <2>3. CASE w \notin old  BY <2>1, <2>3, <1>a
  <2>4. QED BY <2>2, <2>3
<1>5. SessionInv'
  <2> SUFFICES ASSUME NEW s \in Alive(sessions, now), s.binding # None
               PROVE  \E y \in bindings' : Fences(y, s, ended)
    BY <1>a DEF SessionInv, Fences
  <2>1. PICK w \in bindings : Fences(w, s, ended)  BY DEF SessionInv
  <2>2. s.expiresAt \in Nat /\ w \in Alive(bindings, now)
    BY <2>1 DEF TypeOK, Session, Binding, Fences
  <2>3. QED BY <2>1, <2>2, <1>e DEF Fences
<1>6. TicketInv'
  <2>1. \E y \in bindings' : Fences(y, ticket, cancelled)
    <3>1. PICK z \in bindings : z.id = r.binding /\ z.expiresAt >= r.expiresAt
      BY <1>a DEF RequestInv
    <3>2. z = x  BY <3>1, <1>c, <1>z DEF IdInv
    <3>3. /\ x.expiresAt \in Nat /\ r.expiresAt \in Nat /\ x.epoch \in Nat
          /\ ticket.expiresAt \in Nat
      BY <1>z, <1>y DEF Binding, Request, TicketRecord
    <3>4. t \notin cancelled  BY <1>a DEF MintedInv
    <3>5. Fences(new, ticket, cancelled)
      BY <1>b, <1>y, <1>z, <3>1, <3>2, <3>3, <3>4 DEF Fences
    <3>6. QED BY <3>5, <1>a
  <2> SUFFICES ASSUME NEW u \in Alive(tickets, now)
               PROVE  \E y \in bindings' : Fences(y, u, cancelled)
    BY <1>a, <2>1 DEF TicketInv, Fences
  <2>2. PICK z \in bindings : Fences(z, u, cancelled)  BY DEF TicketInv
  <2>3. u.expiresAt \in Nat /\ z \in Alive(bindings, now)
    BY <2>2 DEF TypeOK, TicketRecord, Binding, Fences
  <2>4. QED BY <2>2, <2>3, <1>e DEF Fences
<1>7. SpentInv'  BY <1>a, <1>y, Apart DEF SpentInv, MintedInv, IdInv
<1>8. QED BY <1>1, <1>2, <1>3, <1>4, <1>5, <1>6, <1>7

LEMMA RedeemBootstrapTicketKeeps ==
    ASSUME Inv, NEW now \in Nat, NEW t \in Ticket, NEW a \in App, NEW b \in Browser,
           NEW prev \in Known(Handle) \cup {None}, NEW confirmed \in BOOLEAN, NEW h \in Handle,
           RedeemBootstrapTicket(t, a, b, prev, confirmed, h, now)
    PROVE  Inv'
<1> USE DEF Inv, IInv
<1>0. PICK x \in Redeemable(t, a, now) :
         RedeemBootstrapTicket(t, a, b, prev, confirmed, h, now)!(x)
  BY DEF RedeemBootstrapTicket
<1> DEFINE session == [id |-> h, email |-> x.email, binding |-> b,
                       epoch |-> EpochOf(b, now), expiresAt |-> now + SessionLife]
           new == Adopted(b, now)
           old == Named(bindings, b, now)
<1>z. x \in tickets /\ x.id = t /\ x \in TicketRecord  BY DEF Redeemable, TypeOK
<1>b. /\ new \in Binding /\ new.id = b /\ new.marked /\ new.epoch = EpochOf(b, now)
      /\ new.expiresAt >= now + SessionLife
      /\ old = {} => new.requests = {}
      /\ \A y \in old : /\ new.expiresAt >= y.expiresAt /\ new.epoch = y.epoch
                        /\ new.requests = y.requests
  BY AdoptedCovers
<1>y. /\ session \in Session /\ session.id = h /\ session.binding = b
      /\ session.epoch = new.epoch /\ session.expiresAt = now + SessionLife
      /\ session.expiresAt \in Nat /\ session.epoch \in Nat
  <2>1. EpochOf(b, now) \in Nat  BY <1>b DEF Binding
  <2>2. now + SessionLife \in Nat  BY LifetimeAssumption
  <2>3. QED BY <1>b, <1>z, <2>1, <2>2 DEF Session, TicketRecord
<1>a. /\ h \notin minted /\ t \in minted
      /\ sessions' = {s \in Alive(sessions, now) : s.id # prev} \cup {session}
      /\ bindings' = (Alive(bindings, now) \ old) \cup {new}
      /\ tickets' = Alive(tickets, now) \ {x}
      /\ requests' = Alive(requests, now) /\ codes' = Alive(codes, now)
      /\ minted' = minted \cup {h} /\ spent' = spent \cup {t}
      /\ ended' = ended \cup ({prev} \ {None})
      /\ {prev} \ {None} \subseteq Handle \cap minted
      /\ UNCHANGED <<clock, cancelled>>
  BY <1>0, <1>z DEF MintedInv, Consumed, Known
<1> HIDE DEF session, new
<1>c. old \in SUBSET bindings /\ \A y \in Alive(bindings, now) : y \in old <=> y.id = b
  OBVIOUS
<1>d. /\ old = {} \/ \E y \in old : old = {y} /\ new.requests = y.requests
      /\ old = {} => new.requests = {}
  BY <1>b DEF IdInv
<1>1. TypeOK'  BY <1>a, <1>b, <1>y, <1>z DEF TypeOK
<1>2. IdInv'  BY <1>a, <1>b, <1>c, <1>y DEF IdInv, MintedInv
<1>3. MintedInv'  BY <1>a, <1>b, <1>c, <1>d, <1>y DEF MintedInv
<1>e. \A w \in Alive(bindings, now) : \E y \in bindings' :
         /\ y.id = w.id /\ y.epoch = w.epoch /\ y.expiresAt >= w.expiresAt
         /\ w.marked => y.marked
         /\ y.expiresAt \in Nat /\ w.expiresAt \in Nat
  <2> SUFFICES ASSUME NEW w \in Alive(bindings, now)
               PROVE  \E y \in bindings' :
                         /\ y.id = w.id /\ y.epoch = w.epoch /\ y.expiresAt >= w.expiresAt
                         /\ w.marked => y.marked
                         /\ y.expiresAt \in Nat /\ w.expiresAt \in Nat
    OBVIOUS
  <2>1. w.expiresAt \in Nat  BY DEF TypeOK, Binding
  <2>2. CASE w \in old
    <3>1. new \in bindings' /\ new.expiresAt \in Nat  BY <1>a, <1>b DEF Binding
    <3>2. QED BY <2>1, <2>2, <3>1, <1>b, <1>c
  <2>3. CASE w \notin old  BY <2>1, <2>3, <1>a
  <2>4. QED BY <2>2, <2>3
<1>4. RequestInv'
  <2>1. \A r \in requests' : \E y \in bindings' :
           y.id = r.binding /\ y.expiresAt >= r.expiresAt /\ r.id \in y.requests
    <3> SUFFICES ASSUME NEW r \in Alive(requests, now)
                 PROVE  \E y \in bindings' :
                           y.id = r.binding /\ y.expiresAt >= r.expiresAt /\ r.id \in y.requests
      BY <1>a
    <3>1. PICK y \in bindings : y.id = r.binding /\ y.expiresAt >= r.expiresAt
                                                /\ r.id \in y.requests
      BY DEF RequestInv
    <3>2. /\ y \in Alive(bindings, now) /\ r.expiresAt \in Nat /\ y.expiresAt \in Nat
      BY <3>1 DEF TypeOK, Binding, Request
    <3>3. CASE y \in old
      <4>1. new \in bindings' /\ new.expiresAt \in Nat  BY <1>a, <1>b DEF Binding
      <4>2. QED BY <3>1, <3>2, <3>3, <4>1, <1>b, <1>c
    <3>4. CASE y \notin old  BY <3>1, <3>2, <3>4, <1>a
    <3>5. QED BY <3>3, <3>4
  <2>2. \A y \in bindings', r \in requests' : r.id \in y.requests => r.binding = y.id
    <3> SUFFICES ASSUME NEW y \in bindings', NEW r \in requests', r.id \in y.requests
                 PROVE  r.binding = y.id
      OBVIOUS
    <3>1. CASE y = new  BY <3>1, <1>a, <1>b, <1>c, <1>d DEF RequestInv
    <3>2. CASE y \in bindings  BY <3>2, <1>a DEF RequestInv
    <3>3. QED BY <3>1, <3>2, <1>a
  <2>3. QED BY <2>1, <2>2 DEF RequestInv
<1>5. SessionInv'
  <2>1. /\ \E y \in bindings' : Fences(y, session, ended')
        /\ h \notin ended' /\ b # None
    <3>1. h \notin ended'  BY <1>a DEF MintedInv
    <3>2. new.epoch \in Nat /\ new.expiresAt \in Nat  BY <1>b DEF Binding
    <3>3. Fences(new, session, ended')  BY <1>b, <1>y, <3>1, <3>2 DEF Fences
    <3>4. QED BY <3>1, <3>3, <1>a, OptionAssumption
  <2> SUFFICES ASSUME NEW s \in Alive(sessions, now), s.id # prev
               PROVE  /\ s.binding # None => \E y \in bindings' : Fences(y, s, ended')
                      /\ s.id \in ended' => s.binding # None
    BY <1>a, <1>y, <2>1 DEF SessionInv
  <2>2. s.id \in ended' <=> s.id \in ended  BY <1>a
  <2>3. s.id \in ended' => s.binding # None  BY <2>2 DEF SessionInv
  <2>4. ASSUME s.binding # None
        PROVE  \E y \in bindings' : Fences(y, s, ended')
    <3>1. PICK y \in bindings : Fences(y, s, ended)  BY <2>4 DEF SessionInv
    <3>2. s.expiresAt \in Nat /\ y \in Alive(bindings, now)
      BY <3>1 DEF TypeOK, Session, Binding, Fences
    <3>3. QED BY <2>2, <3>1, <3>2, <1>e DEF Fences
  <2>5. QED BY <2>3, <2>4
<1>6. TicketInv'
  <2> SUFFICES ASSUME NEW u \in Alive(tickets, now)
               PROVE  \E y \in bindings' : Fences(y, u, cancelled)
    BY <1>a DEF TicketInv, Fences
  <2>1. PICK w \in bindings : Fences(w, u, cancelled)  BY DEF TicketInv
  <2>2. u.expiresAt \in Nat /\ w \in Alive(bindings, now)
    BY <2>1 DEF TypeOK, TicketRecord, Binding, Fences
  <2>3. QED BY <2>1, <2>2, <1>e DEF Fences
<1>7. SpentInv'  BY <1>a, <1>z, Apart DEF SpentInv, MintedInv, IdInv
<1>8. QED BY <1>1, <1>2, <1>3, <1>4, <1>5, <1>6, <1>7

-----------------------------------------------------------------------------
(***************************************************************************)
(* The theorems.                                                            *)
(***************************************************************************)
LEMMA InitInv == Init => Inv
BY DEF Init, Inv, IInv, TypeOK, IdInv, MintedInv, RequestInv, SessionInv, TicketInv, SpentInv

LEMMA NextInv == Inv /\ [Next]_vars => Inv'
<1> SUFFICES ASSUME Inv, [Next]_vars
             PROVE  Inv'
  OBVIOUS
<1>1. CASE UNCHANGED vars
  BY <1>1 DEF vars, tables, history, Inv, IInv, TypeOK, IdInv, MintedInv, RequestInv,
              SessionInv, TicketInv, SpentInv, Fences
<1>2. CASE Tick  BY <1>2, TickKeeps
<1>3. ASSUME NEW now \in Sampled, SessionStep(now) PROVE Inv'
  <2>1. now \in Nat  BY DEF Sampled
  <2>2. ASSUME NEW h \in Handle, NEW e \in Email, NEW prev \in Known(Handle) \cup {None},
               CreateSession(h, e, prev, now) PROVE Inv'
    BY <2>1, <2>2, CreateSessionKeeps
  <2>3. ASSUME NEW h \in Known(Handle), RevokeSession(h, now) PROVE Inv'
    BY <2>1, <2>3, RevokeSessionKeeps
  <2>4. ASSUME NEW h \in Known(Handle) \cup {None}, NEW b \in Browser \cup {None},
               EndBrowserSession(h, b, now) PROVE Inv'
    BY <2>1, <2>4, EndBrowserSessionKeeps
  <2>5. QED BY <1>3, <2>2, <2>3, <2>4 DEF SessionStep
<1>4. ASSUME NEW now \in Sampled, RequestStep(now) PROVE Inv'
  <2>1. now \in Nat  BY DEF Sampled
  <2>2. ASSUME NEW id \in RequestId, NEW flow \in Flow, NEW b \in Browser, NEW a \in App,
               CreateRequest(id, flow, b, a, now) PROVE Inv'
    BY <2>1, <2>2, CreateRequestKeeps
  <2>3. ASSUME NEW id \in RequestId, NEW b \in Browser, NEW g \in Grant,
               BindGrant(id, b, g, now) PROVE Inv'
    BY <2>1, <2>3, RebindKeeps DEF BindGrant
  <2>4. ASSUME NEW id \in RequestId, NEW a \in App, NEW g \in Grant,
               BindBootstrapGrant(id, a, g, now) PROVE Inv'
    BY <2>1, <2>4, RebindKeeps DEF BindBootstrapGrant
  <2>5. ASSUME NEW id \in RequestId, NEW g \in Grant, ConsumeLauncherRequest(id, g, now)
        PROVE Inv'
    BY <2>1, <2>5, ConsumeLauncherRequestKeeps
  <2>6. QED BY <1>4, <2>2, <2>3, <2>4, <2>5 DEF RequestStep
<1>5. ASSUME NEW now \in Sampled, CodeStep(now) PROVE Inv'
  <2>1. now \in Nat  BY DEF Sampled
  <2>2. ASSUME NEW c \in Code, NEW id \in RequestId, NEW b \in Browser, NEW h \in Handle,
               NEW g \in Grant \cup {None}, IssueCode(c, id, b, h, g, now) PROVE Inv'
    BY <2>1, <2>2, IssueCodeKeeps
  <2>3. ASSUME NEW c \in Code, NEW a \in App, NEW e \in Email, RedeemCode(c, a, e, now)
        PROVE Inv'
    BY <2>1, <2>3, RedeemCodeKeeps
  <2>4. QED BY <1>5, <2>2, <2>3 DEF CodeStep
<1>6. ASSUME NEW now \in Sampled, BootstrapStep(now) PROVE Inv'
  <2>1. now \in Nat  BY DEF Sampled
  <2>2. ASSUME NEW t \in Ticket, NEW id \in RequestId, NEW a \in App, NEW g \in Grant,
               NEW e \in Email, IssueBootstrapTicket(t, id, a, g, e, now) PROVE Inv'
    BY <2>1, <2>2, IssueBootstrapTicketKeeps
  <2>3. ASSUME NEW t \in Ticket, NEW a \in App, NEW b \in Browser,
               NEW prev \in Known(Handle) \cup {None}, NEW confirmed \in BOOLEAN,
               NEW h \in Handle, RedeemBootstrapTicket(t, a, b, prev, confirmed, h, now)
        PROVE Inv'
    BY <2>1, <2>3, RedeemBootstrapTicketKeeps
  <2>4. QED BY <1>6, <2>2, <2>3 DEF BootstrapStep
<1>7. ASSUME NEW now \in Sampled, Prune(now) PROVE Inv'
  BY <1>7, PruneKeeps DEF Sampled
<1>8. QED BY <1>1, <1>2, <1>3, <1>4, <1>5, <1>6, <1>7 DEF Next

\* Every reachable state is well-typed and fenced: the inductive invariant.
THEOREM InvariantHolds == Spec => []Inv
BY InitInv, NextInv, PTL DEF Spec

\* Every record the store ever holds has the type its schema asks for.
THEOREM TypeCorrect == Spec => []TypeOK
<1>1. Inv => TypeOK  BY DEF Inv
<1>2. QED BY <1>1, InvariantHolds, PTL

\* A session that was logged out, replaced or revoked is refused for ever, for any
\* number of browsers, sessions and requests and all lifetimes.
THEOREM EndedForEver == Spec => []EndedStaysEnded
<1>1. Inv => EndedStaysEnded
  <2> SUFFICES ASSUME Inv, NEW h \in ended, NEW now \in Sampled,
                      NEW s \in ActiveSessions(h, now)
               PROVE  FALSE
    BY DEF EndedStaysEnded
  <2>1. s \in sessions /\ s.id \in ended /\ SameEpoch(s, now)
    BY DEF ActiveSessions
  <2>2. PICK b \in bindings : Fences(b, s, ended)
    BY <2>1 DEF Inv, IInv, SessionInv
  <2>3. s.binding # None  BY <2>1 DEF Inv, IInv, SessionInv
  <2>4. PICK x \in Named(bindings, s.binding, now) : x.epoch = s.epoch
    BY <2>1, <2>3 DEF SameEpoch
  <2>5. x = b  BY <2>2, <2>4 DEF Inv, IInv, IdInv, Fences
  <2>6. b.epoch \in Nat /\ s.epoch < b.epoch
    BY <2>1, <2>2 DEF Inv, TypeOK, Binding, Fences
  <2>7. QED BY <2>4, <2>5, <2>6
<1>2. QED BY <1>1, InvariantHolds, PTL

\* A ticket outstanding at a logout of its browser is refused for ever.
THEOREM CancelledForEver == Spec => []CancelledStaysCancelled
<1>1. Inv => CancelledStaysCancelled
  <2> SUFFICES ASSUME Inv, NEW t \in cancelled, NEW now \in Sampled, NEW a \in App,
                      NEW x \in Redeemable(t, a, now)
               PROVE  FALSE
    BY DEF CancelledStaysCancelled
  <2>1. x \in tickets /\ x.id \in cancelled  BY DEF Redeemable
  <2>2. PICK b \in bindings : Fences(b, x, cancelled)
    BY <2>1 DEF Inv, IInv, TicketInv
  <2>3. PICK y \in Named(bindings, x.binding, now) : y.epoch = x.epoch  BY DEF Redeemable
  <2>4. y = b  BY <2>2, <2>3 DEF Inv, IInv, IdInv, Fences
  <2>5. b.epoch \in Nat /\ x.epoch < b.epoch
    BY <2>1, <2>2 DEF Inv, TypeOK, Binding, Fences
  <2>6. QED BY <2>3, <2>4, <2>5
<1>2. QED BY <1>1, InvariantHolds, PTL

\* A consumed request, code or ticket never comes back.
THEOREM ConsumedOnce == Spec => []SingleUse
<1>1. Inv => SingleUse  BY DEF Inv, IInv, SpentInv, SingleUse, Ids
<1>2. QED BY <1>1, InvariantHolds, PTL

=============================================================================

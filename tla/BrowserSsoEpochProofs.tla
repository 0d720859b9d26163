----------------------- MODULE BrowserSsoEpochProofs -----------------------
(***************************************************************************)
(* Epochs end what a logout names and nothing else, for every value of the  *)
(* constants.  BrowserSsoStoreProofs shows that the binding of an ended     *)
(* session or a cancelled ticket has moved on; here its converse: as long   *)
(* as nobody ended it, a session or ticket is in the current epoch of its   *)
(* binding.  So a session is active exactly from its creation until it is   *)
(* ended or reaches its deadline, which is what the callers of the store    *)
(* see of it (CentralSession).                                              *)
(*                                                                         *)
(* At the end, the number of requests a browser may have pending.           *)
(***************************************************************************)
EXTENDS BrowserSsoStoreProofs, FiniteSetTheorems

Current(x, over) ==
    x.id \notin over => \E b \in bindings : b.id = x.binding /\ b.epoch = x.epoch

CurrentInv ==
    /\ \A s \in sessions : s.binding # None => Current(s, ended)
    /\ \A t \in tickets : Current(t, cancelled)

-----------------------------------------------------------------------------
(***************************************************************************)
(* A transaction that leaves every binding it sees in its epoch.            *)
(***************************************************************************)
EpochsKept(now) ==
    \A x \in Alive(bindings, now) : \E y \in bindings' : y.id = x.id /\ y.epoch = x.epoch

\* A session or ticket that is pending finds its binding pending, too.
LEMMA FencePending ==
    ASSUME Inv, NEW now \in Nat
    PROVE  /\ \A s \in Alive(sessions, now) : s.binding # None =>
                 \E b \in Alive(bindings, now) : Fences(b, s, ended)
           /\ \A t \in Alive(tickets, now) :
                 \E b \in Alive(bindings, now) : Fences(b, t, cancelled)
<1>1. ASSUME NEW s \in Alive(sessions, now), s.binding # None
      PROVE  \E b \in Alive(bindings, now) : Fences(b, s, ended)
  <2>1. PICK b \in bindings : Fences(b, s, ended)
    BY <1>1 DEF Inv, IInv, SessionInv, Alive
  <2>2. b.expiresAt \in Nat /\ s.expiresAt \in Nat /\ s.expiresAt > now
    BY DEF Inv, TypeOK, Binding, Session, Alive
  <2>3. QED BY <2>1, <2>2 DEF Fences, Alive
<1>2. ASSUME NEW t \in Alive(tickets, now)
      PROVE  \E b \in Alive(bindings, now) : Fences(b, t, cancelled)
  <2>1. PICK b \in bindings : Fences(b, t, cancelled)
    BY DEF Inv, IInv, TicketInv, Alive
  <2>2. b.expiresAt \in Nat /\ t.expiresAt \in Nat /\ t.expiresAt > now
    BY DEF Inv, TypeOK, Binding, TicketRecord, Alive
  <2>3. QED BY <2>1, <2>2 DEF Fences, Alive
<1>3. QED BY <1>1, <1>2

LEMMA StaysCurrent ==
    ASSUME Inv, CurrentInv, NEW now \in Nat, EpochsKept(now),
           ended \subseteq ended', cancelled \subseteq cancelled'
    PROVE  /\ \A s \in Alive(sessions, now) : s.binding # None => Current(s, ended)'
           /\ \A t \in Alive(tickets, now) : Current(t, cancelled)'
<1>1. ASSUME NEW s \in Alive(sessions, now), s.binding # None, s.id \notin ended'
      PROVE  \E y \in bindings' : y.id = s.binding /\ y.epoch = s.epoch
  <2>1. PICK b \in Alive(bindings, now) : Fences(b, s, ended)  BY <1>1, FencePending
  <2>2. b.epoch = s.epoch
    <3>1. PICK c \in bindings : c.id = s.binding /\ c.epoch = s.epoch
      BY <1>1 DEF CurrentInv, Current, Alive
    <3>2. QED BY <2>1, <3>1 DEF Inv, IInv, IdInv, UniqueIds, Fences, Alive
  <2>3. QED BY <2>1, <2>2 DEF EpochsKept, Fences
<1>2. ASSUME NEW t \in Alive(tickets, now), t.id \notin cancelled'
      PROVE  \E y \in bindings' : y.id = t.binding /\ y.epoch = t.epoch
  <2>1. PICK b \in Alive(bindings, now) : Fences(b, t, cancelled)  BY <1>2, FencePending
  <2>2. b.epoch = t.epoch
    <3>1. PICK c \in bindings : c.id = t.binding /\ c.epoch = t.epoch
      BY <1>2 DEF CurrentInv, Current, Alive
    <3>2. QED BY <2>1, <3>1 DEF Inv, IInv, IdInv, UniqueIds, Fences, Alive
  <2>3. QED BY <2>1, <2>2 DEF EpochsKept, Fences
<1>3. QED BY <1>1, <1>2 DEF Current

\* Operations that only drop bindings whose deadline has passed.
LEMMA AliveKept ==
    ASSUME NEW now, bindings' = Alive(bindings, now)
    PROVE  EpochsKept(now)
BY DEF EpochsKept

-----------------------------------------------------------------------------
(***************************************************************************)
(* Every operation preserves CurrentInv.                                    *)
(***************************************************************************)
LEMMA QuietCurrent ==
    ASSUME Inv, CurrentInv, NEW now \in Nat, bindings' = Alive(bindings, now),
           \A s \in sessions' : s \in Alive(sessions, now) \/ s.binding = None,
           tickets' = Alive(tickets, now),
           ended \subseteq ended', cancelled \subseteq cancelled'
    PROVE  CurrentInv'
<1>1. EpochsKept(now)  BY AliveKept
<1>2. QED BY <1>1, StaysCurrent DEF CurrentInv

LEMMA CreateRequestCurrent ==
    ASSUME Inv, CurrentInv, NEW now \in Nat, NEW id \in RequestId, NEW flow \in Flow,
           NEW b \in Browser, NEW a \in App, CreateRequest(id, flow, b, a, now)
    PROVE  CurrentInv'
<1> DEFINE r == [id |-> id, flow |-> flow, binding |-> b, app |-> a,
                 grant |-> None, expiresAt |-> now + RequestLife]
           new == Extended(b, r, now)
           old == Named(bindings, b, now)
<1>1. /\ r \in Request
      /\ bindings' = (Alive(bindings, now) \ old) \cup {new}
      /\ sessions' = Alive(sessions, now) /\ tickets' = Alive(tickets, now)
      /\ ended' = ended /\ cancelled' = cancelled
  BY LifetimeAssumption DEF CreateRequest, Request
<1> HIDE DEF r
<1>2. new.id = b /\ \A x \in old : new.epoch = x.epoch /\ x.id = b
  BY <1>1, ExtendedCovers DEF Inv, IInv, Named
<1> HIDE DEF new, old
<1>3. EpochsKept(now)  BY <1>1, <1>2 DEF EpochsKept
<1>4. QED BY <1>1, <1>3, StaysCurrent DEF CurrentInv

\* A logout leaves the epochs of the browsers it does not touch, and ends or
\* cancels what it finds in those it does.
LEMMA EndBrowserSessionCurrent ==
    ASSUME Inv, CurrentInv, NEW now \in Nat, NEW h \in Known(Handle) \cup {None},
           NEW b \in Browser \cup {None}, EndBrowserSession(h, b, now)
    PROVE  CurrentInv'
<1> DEFINE touched == Touched(h, b, now)
           advancing == {x \in Alive(bindings, now) : x.id \in touched /\ x.marked}
<1>1. /\ sessions' = {s \in Alive(sessions, now) : s.id # h}
      /\ bindings' = (Alive(bindings, now) \ advancing) \cup {Advanced(x, now) : x \in advancing}
      /\ tickets' = Alive(tickets, now)
      /\ ended' = ended \cup ({h} \ {None}) \cup
            Ids({s \in Alive(sessions, now) : s.binding \in touched})
      /\ cancelled' = cancelled \cup Ids({t \in Alive(tickets, now) : t.binding \in touched})
  BY DEF EndBrowserSession
<1> HIDE DEF touched
<1>2. \A x \in Alive(bindings, now) : x.id \notin touched => x \in bindings'
  BY <1>1
<1>3. ASSUME NEW s \in Alive(sessions, now), s.binding # None, s.id \notin ended'
      PROVE  \E y \in bindings' : y.id = s.binding /\ y.epoch = s.epoch
  <2>1. s.binding \notin touched /\ s.id \notin ended  BY <1>1, <1>3 DEF Ids
  <2>2. PICK y \in Alive(bindings, now) : Fences(y, s, ended)  BY <1>3, FencePending
  <2>3. PICK c \in bindings : c.id = s.binding /\ c.epoch = s.epoch
    BY <1>3, <2>1 DEF CurrentInv, Current, Alive
  <2>4. y = c  BY <2>2, <2>3 DEF Inv, IInv, IdInv, UniqueIds, Fences, Alive
  <2>5. QED BY <1>2, <2>1, <2>2, <2>3, <2>4
<1>4. ASSUME NEW t \in Alive(tickets, now), t.id \notin cancelled'
      PROVE  \E y \in bindings' : y.id = t.binding /\ y.epoch = t.epoch
  <2>1. t.binding \notin touched /\ t.id \notin cancelled  BY <1>1, <1>4 DEF Ids
  <2>2. PICK y \in Alive(bindings, now) : Fences(y, t, cancelled)  BY FencePending
  <2>3. PICK c \in bindings : c.id = t.binding /\ c.epoch = t.epoch
    BY <2>1 DEF CurrentInv, Current, Alive
  <2>4. y = c  BY <2>2, <2>3 DEF Inv, IInv, IdInv, UniqueIds, Fences, Alive
  <2>5. QED BY <1>2, <2>1, <2>2, <2>3, <2>4
<1>5. QED BY <1>1, <1>3, <1>4 DEF CurrentInv, Current

LEMMA IssueBootstrapTicketCurrent ==
    ASSUME Inv, CurrentInv, NEW now \in Nat, NEW t \in Ticket, NEW id \in RequestId,
           NEW a \in App, NEW g \in Grant, NEW e \in Email,
           IssueBootstrapTicket(t, id, a, g, e, now)
    PROVE  CurrentInv'
<1>1. PICK r \in Named(requests, id, now), x \in Alive(bindings, now) :
         /\ tickets' = Alive(tickets, now) \cup
               {[id |-> t, binding |-> x.id, epoch |-> x.epoch, app |-> a,
                 email |-> e, expiresAt |-> Min({r.expiresAt, now + CodeLife})]}
         /\ bindings' = (Alive(bindings, now) \ {x}) \cup {Marked(x)}
         /\ sessions' = Alive(sessions, now)
         /\ ended' = ended /\ cancelled' = cancelled
  BY DEF IssueBootstrapTicket, Named
<1>2. Marked(x).id = x.id /\ Marked(x).epoch = x.epoch
  BY DEF Marked, Inv, TypeOK, Binding, Alive
<1>3. EpochsKept(now)  BY <1>1, <1>2 DEF EpochsKept
<1>4. QED BY <1>1, <1>2, <1>3, StaysCurrent DEF CurrentInv, Current

LEMMA RedeemBootstrapTicketCurrent ==
    ASSUME Inv, CurrentInv, NEW now \in Nat, NEW t \in Ticket, NEW a \in App, NEW b \in Browser,
           NEW prev \in Known(Handle) \cup {None}, NEW confirmed \in BOOLEAN, NEW h \in Handle,
           RedeemBootstrapTicket(t, a, b, prev, confirmed, h, now)
    PROVE  CurrentInv'
<1> DEFINE new == Adopted(b, now)
           old == Named(bindings, b, now)
<1>1. PICK x \in Redeemable(t, a, now) :
         /\ sessions' = {s \in Alive(sessions, now) : s.id # prev} \cup
               {[id |-> h, email |-> x.email, binding |-> b,
                 epoch |-> EpochOf(b, now), expiresAt |-> now + SessionLife]}
         /\ bindings' = (Alive(bindings, now) \ old) \cup {new}
         /\ tickets' = Alive(tickets, now) \ {x}
         /\ ended' = ended \cup ({prev} \ {None}) /\ cancelled' = cancelled
  BY DEF RedeemBootstrapTicket, Consumed
<1>2. /\ new.id = b /\ new.epoch = EpochOf(b, now)
      /\ \A y \in old : new.epoch = y.epoch /\ y.id = b
  BY AdoptedCovers DEF Inv, IInv, Named
<1> HIDE DEF new, old
<1>3. EpochsKept(now)  BY <1>1, <1>2 DEF EpochsKept
<1>4. new \in bindings'  BY <1>1
<1>5. QED BY <1>1, <1>2, <1>3, <1>4, StaysCurrent DEF CurrentInv, Current

LEMMA InitCurrent == Init => CurrentInv
BY DEF Init, CurrentInv

LEMMA NextCurrent == Inv /\ CurrentInv /\ [Next]_vars => CurrentInv'
<1> SUFFICES ASSUME Inv, CurrentInv, [Next]_vars
             PROVE  CurrentInv'
  OBVIOUS
<1>1. CASE UNCHANGED vars
  BY <1>1 DEF vars, tables, history, CurrentInv, Current
<1>2. CASE Tick
  BY <1>2 DEF Tick, tables, history, CurrentInv, Current
<1>3. ASSUME NEW now \in Sampled, SessionStep(now) PROVE CurrentInv'
  <2>1. now \in Nat  BY DEF Sampled
  <2>2. ASSUME NEW h \in Handle, NEW e \in Email, NEW prev \in Known(Handle) \cup {None},
               CreateSession(h, e, prev, now) PROVE CurrentInv'
    BY <2>1, <2>2, QuietCurrent DEF CreateSession
  <2>3. ASSUME NEW h \in Known(Handle), RevokeSession(h, now) PROVE CurrentInv'
    BY <2>1, <2>3, QuietCurrent DEF RevokeSession
  <2>4. ASSUME NEW h \in Known(Handle) \cup {None}, NEW b \in Browser \cup {None},
               EndBrowserSession(h, b, now) PROVE CurrentInv'
    BY <2>1, <2>4, EndBrowserSessionCurrent
  <2>5. QED BY <1>3, <2>2, <2>3, <2>4 DEF SessionStep
<1>4. ASSUME NEW now \in Sampled, RequestStep(now) PROVE CurrentInv'
  <2>1. now \in Nat  BY DEF Sampled
  <2>2. ASSUME NEW id \in RequestId, NEW flow \in Flow, NEW b \in Browser, NEW a \in App,
               CreateRequest(id, flow, b, a, now) PROVE CurrentInv'
    BY <2>1, <2>2, CreateRequestCurrent
  <2>3. ASSUME NEW r, NEW g, Rebind(r, g, now) PROVE CurrentInv'
    BY <2>1, <2>3, QuietCurrent DEF Rebind, history
  <2>4. ASSUME NEW id \in RequestId, NEW g \in Grant, ConsumeLauncherRequest(id, g, now)
        PROVE CurrentInv'
    BY <2>1, <2>4, QuietCurrent DEF ConsumeLauncherRequest
  <2>5. QED BY <1>4, <2>2, <2>3, <2>4 DEF RequestStep, BindGrant, BindBootstrapGrant
<1>5. ASSUME NEW now \in Sampled, CodeStep(now) PROVE CurrentInv'
  <2>1. now \in Nat  BY DEF Sampled
  <2>2. QED BY <1>5, <2>1, QuietCurrent DEF CodeStep, IssueCode, RedeemCode
<1>6. ASSUME NEW now \in Sampled, BootstrapStep(now) PROVE CurrentInv'
  <2>1. now \in Nat  BY DEF Sampled
  <2>2. ASSUME NEW t \in Ticket, NEW id \in RequestId, NEW a \in App, NEW g \in Grant,
               NEW e \in Email, IssueBootstrapTicket(t, id, a, g, e, now) PROVE CurrentInv'
    BY <2>1, <2>2, IssueBootstrapTicketCurrent
  <2>3. ASSUME NEW t \in Ticket, NEW a \in App, NEW b \in Browser,
               NEW prev \in Known(Handle) \cup {None}, NEW confirmed \in BOOLEAN,
               NEW h \in Handle, RedeemBootstrapTicket(t, a, b, prev, confirmed, h, now)
        PROVE CurrentInv'
    BY <2>1, <2>3, RedeemBootstrapTicketCurrent
  <2>4. QED BY <1>6, <2>2, <2>3 DEF BootstrapStep
<1>7. ASSUME NEW now \in Sampled, Prune(now) PROVE CurrentInv'
  BY <1>7, QuietCurrent DEF Prune, Sampled, history
<1>8. QED BY <1>1, <1>2, <1>3, <1>4, <1>5, <1>6, <1>7 DEF Next

LEMMA CurrentHolds == Spec => [](Inv /\ CurrentInv)
<1>1. Inv /\ CurrentInv /\ [Next]_vars => (Inv /\ CurrentInv)'  BY NextInv, NextCurrent
<1>2. Init => Inv /\ CurrentInv  BY InitInv, InitCurrent
<1>3. QED BY <1>1, <1>2, PTL DEF Spec

-----------------------------------------------------------------------------
(***************************************************************************)
(* What follows for tickets and sessions.                                   *)
(***************************************************************************)

\* A ticket that no logout cancelled is redeemable until its deadline, for any
\* number of browsers and tickets.
THEOREM OutstandingForEver == Spec => []OutstandingTicketsRedeemable
<1>1. Inv /\ CurrentInv => OutstandingTicketsRedeemable
  <2> SUFFICES ASSUME Inv, CurrentInv, NEW t \in Alive(tickets, clock), t.id \notin cancelled
               PROVE  Redeemable(t.id, t.app, clock) # {}
    BY DEF OutstandingTicketsRedeemable
  <2>1. clock \in Nat  BY DEF Inv, TypeOK
  <2>2. PICK b \in Alive(bindings, clock) : Fences(b, t, cancelled)
    BY <2>1, FencePending
  <2>3. PICK c \in bindings : c.id = t.binding /\ c.epoch = t.epoch
    BY DEF CurrentInv, Current, Alive
  <2>4. b = c  BY <2>2, <2>3 DEF Inv, IInv, IdInv, UniqueIds, Fences, Alive
  <2>5. t \in Redeemable(t.id, t.app, clock)
    BY <2>2, <2>3, <2>4 DEF Redeemable, Named
  <2>6. QED BY <2>5
<1>2. QED BY <1>1, CurrentHolds, PTL

\* A session is active until its deadline unless somebody ended it.
LEMMA ActiveMeansNotEnded ==
    ASSUME Inv, CurrentInv, NEW h
    PROVE  IsActive(h) <=> \E s \in sessions : s.id = h /\ s.expiresAt > clock /\ h \notin ended
<1>0. clock \in Nat  BY DEF Inv, TypeOK
<1>1. ASSUME NEW s \in ActiveSessions(h, clock)
      PROVE  s \in sessions /\ s.id = h /\ s.expiresAt > clock /\ h \notin ended
  <2>1. s \in Alive(sessions, clock) /\ s \in sessions /\ s.id = h /\ s.expiresAt > clock
        /\ SameEpoch(s, clock)
    BY DEF ActiveSessions, Named, Alive
  <2>2. ASSUME h \in ended PROVE FALSE
    <3>1. s.binding # None  BY <2>1, <2>2 DEF Inv, IInv, SessionInv
    <3>2. PICK b \in Alive(bindings, clock) : Fences(b, s, ended)
      BY <1>0, <2>1, <3>1, FencePending
    <3>3. PICK x \in Named(bindings, s.binding, clock) : x.epoch = s.epoch
      BY <2>1, <3>1 DEF SameEpoch
    <3>4. x = b  BY <3>2, <3>3 DEF Inv, IInv, IdInv, UniqueIds, Fences, Named, Alive
    <3>5. b.epoch \in Nat /\ s.epoch < b.epoch
      BY <2>1, <2>2, <3>2 DEF Inv, TypeOK, Binding, Fences, Alive
    <3>6. QED BY <3>3, <3>4, <3>5
  <2>3. QED BY <2>1, <2>2
<1>2. ASSUME NEW s \in sessions, s.id = h, s.expiresAt > clock, h \notin ended
      PROVE  s \in ActiveSessions(h, clock)
  <2>1. s \in Named(sessions, h, clock)  BY <1>2 DEF Named, Alive
  <2>2. ASSUME s.binding # None
        PROVE  \E b \in Named(bindings, s.binding, clock) : b.epoch = s.epoch
    <3>1. PICK b \in Alive(bindings, clock) : Fences(b, s, ended)
      BY <1>0, <1>2, <2>2, FencePending DEF Alive
    <3>2. PICK c \in bindings : c.id = s.binding /\ c.epoch = s.epoch
      BY <1>2, <2>2 DEF CurrentInv, Current
    <3>3. b = c  BY <3>1, <3>2 DEF Inv, IInv, IdInv, UniqueIds, Fences, Alive
    <3>4. QED BY <3>1, <3>2, <3>3 DEF Named
  <2>3. QED BY <2>1, <2>2 DEF ActiveSessions, SameEpoch
<1>3. QED BY <1>1, <1>2 DEF IsActive

\* The same, as a formula of a state and of the next.
ActiveAsStored ==
    \A h \in Handle :
        IsActive(h) <=> \E s \in sessions : s.id = h /\ s.expiresAt > clock /\ h \notin ended

LEMMA ActiveNowAndNext ==
    /\ Inv /\ CurrentInv => ActiveAsStored
    /\ (Inv /\ CurrentInv)' => ActiveAsStored'
<1>1. Inv /\ CurrentInv => ActiveAsStored  BY ActiveMeansNotEnded DEF ActiveAsStored
<1>2. (Inv /\ CurrentInv)' => ActiveAsStored'  BY <1>1, PTL
<1>3. QED BY <1>1, <1>2

\* What one step does to sessions: it keeps those that are pending and that it
\* does not end, and it adds at most one, under a handle nobody had.
Successor(now) ==
    /\ now <= clock' /\ clock <= clock'
    /\ ended \subseteq ended' /\ minted \subseteq minted'
    /\ \A s \in sessions : s.expiresAt > now /\ s.id \notin ended' => s \in sessions'

Adds(h, now) ==
    /\ h \in Handle /\ h \notin minted /\ h \notin ended'
    /\ Handle \cap minted' = (Handle \cap minted) \cup {h}
    /\ clock' = clock
    /\ \A s \in sessions' : s \in sessions \/ s.id = h
    /\ \E s \in sessions' : s.id = h /\ s.expiresAt = now + SessionLife

AddsNone ==
    /\ Handle \cap minted' = Handle \cap minted
    /\ sessions' \subseteq sessions

LEMMA StepOnSessions ==
    ASSUME Inv, [Next]_vars
    PROVE  \E now \in Sampled : Successor(now) /\ (AddsNone \/ \E h \in Handle : Adds(h, now))
<1> USE DEF Successor, Alive
<1>0. /\ clock \in Nat /\ clock \in Sampled /\ \A t \in Sampled : t \in Nat /\ t <= clock
      /\ ended \subseteq minted /\ ended \subseteq Handle
      /\ \A s \in sessions : s.id \in Handle /\ s.id # None /\ s.id \in minted
      /\ \A id \in RequestId \cup Code \cup Ticket : id \notin Handle
  BY LifetimeAssumption, OptionAssumption, OpaqueAssumption
     DEF Inv, IInv, TypeOK, MintedInv, Sampled, Session
<1>1. CASE UNCHANGED vars
  <2>1. Successor(clock) /\ AddsNone
    BY <1>0, <1>1 DEF vars, tables, history, AddsNone
  <2>2. QED BY <1>0, <2>1
<1>2. CASE Tick
  <2>1. Successor(clock) /\ AddsNone
    BY <1>0, <1>2 DEF Tick, tables, history, AddsNone
  <2>2. QED BY <1>0, <2>1
<1>3. ASSUME NEW now \in Sampled, SessionStep(now)
      PROVE  Successor(now) /\ (AddsNone \/ \E h \in Handle : Adds(h, now))
  <2>2. ASSUME NEW h \in Handle, NEW e \in Email, NEW prev \in Known(Handle) \cup {None},
               CreateSession(h, e, prev, now)
        PROVE  Successor(now) /\ Adds(h, now)
    <3> DEFINE session == [id |-> h, email |-> e, binding |-> None, epoch |-> 0,
                           expiresAt |-> now + SessionLife]
    <3>1. /\ sessions' = {s \in Alive(sessions, now) : s.id # prev} \cup {session}
          /\ session.id = h /\ session.expiresAt = now + SessionLife
          /\ ended' = ended \cup ({prev} \ {None}) /\ minted' = minted \cup {h}
          /\ h \notin minted /\ clock' = clock
      BY <2>2 DEF CreateSession
    <3> HIDE DEF session
    <3>2. prev \in minted \/ prev = None  BY DEF Known
    <3>3. Successor(now)  BY <1>0, <3>1
    <3>4. h \notin ended'  BY <1>0, <3>1, <3>2
    <3>5. QED BY <3>1, <3>3, <3>4 DEF Adds
  <2>3. ASSUME NEW h \in Known(Handle), RevokeSession(h, now)
        PROVE  Successor(now) /\ AddsNone
    BY <1>0, <2>3 DEF RevokeSession, AddsNone
  <2>4. ASSUME NEW h \in Known(Handle) \cup {None}, NEW b \in Browser \cup {None},
               EndBrowserSession(h, b, now)
        PROVE  Successor(now) /\ AddsNone
    BY <1>0, <2>4 DEF EndBrowserSession, AddsNone
  <2>5. QED BY <1>3, <2>2, <2>3, <2>4 DEF SessionStep
<1>4. ASSUME NEW now \in Sampled, RequestStep(now)
      PROVE  Successor(now) /\ AddsNone
  <2>2. ASSUME NEW id \in RequestId, NEW flow \in Flow, NEW b \in Browser, NEW a \in App,
               CreateRequest(id, flow, b, a, now) PROVE Successor(now) /\ AddsNone
    BY <1>0, <2>2 DEF CreateRequest, AddsNone
  <2>3. ASSUME NEW r, NEW g, Rebind(r, g, now) PROVE Successor(now) /\ AddsNone
    BY <1>0, <2>3 DEF Rebind, history, AddsNone
  <2>4. ASSUME NEW id \in RequestId, NEW g \in Grant, ConsumeLauncherRequest(id, g, now)
        PROVE Successor(now) /\ AddsNone
    BY <1>0, <2>4 DEF ConsumeLauncherRequest, AddsNone
  <2>5. QED BY <1>4, <2>2, <2>3, <2>4 DEF RequestStep, BindGrant, BindBootstrapGrant
<1>5. ASSUME NEW now \in Sampled, CodeStep(now)
      PROVE  Successor(now) /\ AddsNone
  <2>1. ASSUME NEW c \in Code, NEW id \in RequestId, NEW b \in Browser, NEW h \in Handle,
               NEW g \in Grant \cup {None}, IssueCode(c, id, b, h, g, now)
        PROVE  Successor(now) /\ AddsNone
    <3>1. /\ sessions' = Alive(sessions, now) /\ minted' = minted \cup {c}
          /\ ended' = ended /\ clock' = clock
      BY <2>1 DEF IssueCode
    <3>2. QED BY <1>0, <3>1 DEF AddsNone
  <2>2. ASSUME NEW c \in Code, NEW a \in App, NEW e \in Email, RedeemCode(c, a, e, now)
        PROVE  Successor(now) /\ AddsNone
    <3>1. /\ sessions' = Alive(sessions, now) /\ minted' = minted
          /\ ended' = ended /\ clock' = clock
      BY <2>2 DEF RedeemCode
    <3>2. QED BY <1>0, <3>1 DEF AddsNone
  <2>3. QED BY <1>5, <2>1, <2>2 DEF CodeStep
<1>6. ASSUME NEW now \in Sampled, BootstrapStep(now)
      PROVE  Successor(now) /\ (AddsNone \/ \E h \in Handle : Adds(h, now))
  <2>2. ASSUME NEW t \in Ticket, NEW id \in RequestId, NEW a \in App, NEW g \in Grant,
               NEW e \in Email, IssueBootstrapTicket(t, id, a, g, e, now)
        PROVE  Successor(now) /\ AddsNone
    <3>1. /\ sessions' = Alive(sessions, now) /\ minted' = minted \cup {t}
          /\ ended' = ended /\ clock' = clock
      BY <2>2 DEF IssueBootstrapTicket
    <3>2. QED BY <1>0, <3>1 DEF AddsNone
  <2>3. ASSUME NEW t \in Ticket, NEW a \in App, NEW b \in Browser,
               NEW prev \in Known(Handle) \cup {None}, NEW confirmed \in BOOLEAN,
               NEW h \in Handle, RedeemBootstrapTicket(t, a, b, prev, confirmed, h, now)
        PROVE  Successor(now) /\ Adds(h, now)
    <3>0. PICK x \in Redeemable(t, a, now) :
             /\ sessions' = {s \in Alive(sessions, now) : s.id # prev} \cup
                   {[id |-> h, email |-> x.email, binding |-> b,
                     epoch |-> EpochOf(b, now), expiresAt |-> now + SessionLife]}
             /\ ended' = ended \cup ({prev} \ {None}) /\ minted' = minted \cup {h}
             /\ h \notin minted /\ clock' = clock
      BY <2>3 DEF RedeemBootstrapTicket
    <3> DEFINE session == [id |-> h, email |-> x.email, binding |-> b,
                           epoch |-> EpochOf(b, now), expiresAt |-> now + SessionLife]
    <3>1. /\ sessions' = {s \in Alive(sessions, now) : s.id # prev} \cup {session}
          /\ session.id = h /\ session.expiresAt = now + SessionLife
      BY <3>0
    <3> HIDE DEF session
    <3>2. prev \in minted \/ prev = None  BY DEF Known
    <3>3. Successor(now)  BY <1>0, <3>0, <3>1
    <3>4. h \notin ended'  BY <1>0, <3>0, <3>2
    <3>5. QED BY <3>0, <3>1, <3>3, <3>4 DEF Adds
  <2>4. QED BY <1>6, <2>2, <2>3 DEF BootstrapStep
<1>7. ASSUME NEW now \in Sampled, Prune(now)
      PROVE  Successor(now) /\ AddsNone
  BY <1>0, <1>7 DEF Prune, history, AddsNone
<1>8. QED BY <1>1, <1>2, <1>3, <1>4, <1>5, <1>6, <1>7 DEF Next

\* A session ends for two reasons only, somebody ended it or its deadline passed,
\* for every value of the constants.
THEOREM ActiveTillEnded == Spec => ActiveUntilEnded
<1>1. Inv /\ CurrentInv /\ [Next]_vars /\ (Inv /\ CurrentInv)' =>
         [\A h \in Handle : IsActive(h) /\ ~IsActive(h)' =>
             \/ h \in ended'
             \/ \A s \in Named(sessions, h, clock) : s.expiresAt <= clock']_vars
  <2> SUFFICES ASSUME Inv, CurrentInv, [Next]_vars, Inv', CurrentInv',
                      NEW h \in Handle, IsActive(h), ~IsActive(h)', h \notin ended',
                      NEW s \in Named(sessions, h, clock)
               PROVE  s.expiresAt <= clock'
    OBVIOUS
  <2>1. PICK now \in Sampled : Successor(now)  BY StepOnSessions
  <2>2. s \in sessions /\ s.id = h  BY DEF Named, Alive
  <2>3. now \in Nat /\ clock' \in Nat /\ s.expiresAt \in Nat
    BY <2>2 DEF Sampled, Inv, TypeOK, Session
  <2>4. ASSUME s.expiresAt > clock' PROVE FALSE
    <3>1. s.expiresAt > now  BY <2>1, <2>3, <2>4 DEF Successor
    <3>2. s \in sessions'  BY <2>1, <2>2, <3>1 DEF Successor
    <3>3. IsActive(h)' <=> \E x \in sessions' : x.id = h /\ x.expiresAt > clock' /\ h \notin ended'
      BY ActiveNowAndNext DEF ActiveAsStored
    <3>4. QED BY <2>2, <2>4, <3>2, <3>3
  <2>5. QED BY <2>3, <2>4
<1>2. QED BY <1>1, CurrentHolds, PTL DEF ActiveUntilEnded, Spec

\* A stale cookie ends no other session, for every value of the constants.
THEOREM StaleHandleHarmsNobody == Spec => StaleHandleHarmless
<1>1. Inv /\ CurrentInv /\ [Next]_vars /\ (Inv /\ CurrentInv)' =>
         [\A h \in Known(Handle), now \in Sampled :
             EndBrowserSession(h, None, now) /\ ActiveSessions(h, now) = {} =>
                 \A k \in Handle \ {h} : IsActive(k) => IsActive(k)']_vars
  <2> SUFFICES ASSUME Inv, CurrentInv, (Inv /\ CurrentInv)',
                      NEW h \in Known(Handle), NEW now \in Sampled,
                      EndBrowserSession(h, None, now), ActiveSessions(h, now) = {},
                      NEW k \in Handle \ {h}, IsActive(k)
               PROVE  IsActive(k)'
    OBVIOUS
  <2>1. PICK s \in sessions : s.id = k /\ s.expiresAt > clock /\ k \notin ended
    BY ActiveNowAndNext DEF ActiveAsStored
  <2>2. Touched(h, None, now) = {}  BY DEF Touched
  <2>3. /\ sessions' = {x \in Alive(sessions, now) : x.id # h}
        /\ ended' = ended \cup ({h} \ {None}) /\ clock' = clock
    BY <2>2 DEF EndBrowserSession, Ids
  <2>4. s.expiresAt \in Nat /\ clock \in Nat /\ now \in Nat /\ now <= clock
    BY DEF Sampled, Inv, TypeOK, Session
  <2>5. s \in sessions'  BY <2>1, <2>3, <2>4 DEF Alive
  <2>6. k \notin ended'  BY <2>1, <2>3
  <2>7. QED BY <2>1, <2>3, <2>5, <2>6, ActiveNowAndNext DEF ActiveAsStored
<1>2. QED BY <1>1, CurrentHolds, PTL DEF StaleHandleHarmless, Spec

\* A code is never exchanged for an identity that was ended after the code was
\* issued, for every value of the constants.
THEOREM CodeDiesWithItsSession == Spec => CodeDiesWithSession
<1>1. EndedStaysEnded /\ Inv /\ [Next]_vars =>
         [\A x \in codes : x.id \in spent' \ spent => x.session \notin ended]_vars
  <2> SUFFICES ASSUME EndedStaysEnded, Inv, Next,
                      NEW x \in codes, x.id \in spent' \ spent
               PROVE  x.session \notin ended
    BY DEF vars
  <2>1. x.id \in Code /\ x.id \notin RequestId \cup Ticket
    BY OpaqueAssumption DEF Inv, TypeOK, CodeRecord
  <2>2. PICK now \in Sampled, c \in Code, a \in App, e \in Email : RedeemCode(c, a, e, now)
    <3>1. CASE Tick  BY <3>1 DEF Tick, history
    <3>2. ASSUME NEW now \in Sampled, SessionStep(now) PROVE FALSE
      BY <3>2 DEF SessionStep, CreateSession, RevokeSession, EndBrowserSession
    <3>3. ASSUME NEW now \in Sampled, RequestStep(now) PROVE FALSE
      <4>1. ASSUME NEW r, NEW g, Rebind(r, g, now) PROVE FALSE
        BY <4>1 DEF Rebind, history
      <4>2. ASSUME NEW id \in RequestId, NEW g \in Grant, ConsumeLauncherRequest(id, g, now)
            PROVE FALSE
        BY <2>1, <4>2 DEF ConsumeLauncherRequest
      <4>3. ASSUME NEW id \in RequestId, NEW flow \in Flow, NEW b \in Browser, NEW a \in App,
                   CreateRequest(id, flow, b, a, now) PROVE FALSE
        BY <4>3 DEF CreateRequest
      <4>4. QED BY <3>3, <4>1, <4>2, <4>3 DEF RequestStep, BindGrant, BindBootstrapGrant
    <3>4. ASSUME NEW now \in Sampled, NEW c \in Code, NEW id \in RequestId, NEW b \in Browser,
                 NEW h \in Handle, NEW g \in Grant \cup {None}, IssueCode(c, id, b, h, g, now)
          PROVE FALSE
      <4>1. spent' = spent \cup {id}  BY <3>4 DEF IssueCode
      <4>2. QED BY <2>1, <4>1
    <3>5. ASSUME NEW now \in Sampled, BootstrapStep(now) PROVE FALSE
      <4>1. ASSUME NEW t \in Ticket, NEW id \in RequestId, NEW a \in App, NEW g \in Grant,
                   NEW e \in Email, IssueBootstrapTicket(t, id, a, g, e, now) PROVE FALSE
        <5>1. spent' = spent \cup {id}  BY <4>1 DEF IssueBootstrapTicket
        <5>2. QED BY <2>1, <5>1
      <4>2. ASSUME NEW t \in Ticket, NEW a \in App, NEW b \in Browser,
                   NEW prev \in Known(Handle) \cup {None}, NEW confirmed \in BOOLEAN,
                   NEW h \in Handle, RedeemBootstrapTicket(t, a, b, prev, confirmed, h, now)
            PROVE FALSE
        <5>1. spent' = spent \cup {t}  BY <4>2 DEF RedeemBootstrapTicket
        <5>2. QED BY <2>1, <5>1
      <4>3. QED BY <3>5, <4>1, <4>2 DEF BootstrapStep
    <3>6. ASSUME NEW now \in Sampled, Prune(now) PROVE FALSE
      BY <3>6 DEF Prune, history
    <3>7. QED BY <3>1, <3>2, <3>3, <3>4, <3>5, <3>6 DEF Next, CodeStep
  <2>3. PICK y \in Named(codes, c, now) :
           ActiveSessions(y.session, now) # {} /\ spent' = spent \cup {c}
    BY <2>2 DEF RedeemCode
  <2>4. y = x  BY <2>3 DEF Inv, IInv, IdInv, UniqueIds, Named, Alive
  <2>5. QED BY <2>3, <2>4 DEF EndedStaysEnded
<1>2. QED BY <1>1, EndedForEver, InvariantHolds, PTL DEF CodeDiesWithSession, Spec

-----------------------------------------------------------------------------
(***************************************************************************)
(* The store implements the central session.                                *)
(***************************************************************************)

\* A session is over for good.
LEMMA OverStaysOver ==
    ASSUME Inv, CurrentInv, (Inv /\ CurrentInv)', NEW now \in Sampled, Successor(now),
           AddsNone \/ \E h \in Handle : Adds(h, now),
           NEW k \in Handle, k \in minted, ~IsActive(k)
    PROVE  ~IsActive(k)'
<1> SUFFICES ASSUME IsActive(k)'
             PROVE  FALSE
  OBVIOUS
<1>1. PICK s \in sessions' : s.id = k /\ s.expiresAt > clock' /\ k \notin ended'
  BY ActiveNowAndNext DEF ActiveAsStored
<1>2. s \in sessions  BY <1>1 DEF AddsNone, Adds
<1>3. s.expiresAt \in Nat /\ clock \in Nat /\ clock' \in Nat /\ clock <= clock'
  BY <1>2 DEF Inv, TypeOK, Session, Successor
<1>4. s.expiresAt > clock /\ k \notin ended  BY <1>1, <1>3 DEF Successor
<1>5. QED BY <1>1, <1>2, <1>4, ActiveNowAndNext DEF ActiveAsStored

\* A step that adds no session finishes those that are active no more.
LEMMA FinishStep ==
    ASSUME Inv, CurrentInv, (Inv /\ CurrentInv)', NEW now \in Sampled, Successor(now), AddsNone
    PROVE  \E done \in SUBSET Central!Active : Central!Finish(done)
<1> DEFINE done == {k \in Central!Active : ~IsActive(k)'}
<1>1. ASSUME NEW k \in Handle
      PROVE  Life'[k] = IF k \in done THEN "over" ELSE Life[k]
  <2>1. k \in minted <=> k \in minted'  BY DEF AddsNone
  <2>2. CASE k \notin minted  BY <2>1, <2>2 DEF Life, Central!Active
  <2>3. CASE k \in minted /\ IsActive(k)  BY <2>1, <2>3 DEF Life, Central!Active
  <2>4. CASE k \in minted /\ ~IsActive(k)
    BY <2>1, <2>4, OverStaysOver DEF Life, Central!Active
  <2>5. QED BY <2>2, <2>3, <2>4
<1>2. Life' = [k \in Handle |-> IF k \in done THEN "over" ELSE Life[k]]
  BY <1>1 DEF Life
<1>3. QED BY <1>2 DEF Central!Finish

\* A step that adds a session starts it.  It is active at once when a caller's
\* clock does not lag by the lifetime of a session.
LEMMA StartStep ==
    ASSUME Inv, CurrentInv, (Inv /\ CurrentInv)', NEW now \in Sampled, Successor(now),
           NEW h \in Handle, Adds(h, now), MaxLag < SessionLife
    PROVE  \E replaced \in SUBSET Central!Active : Central!Start(h, replaced)
<1> DEFINE replaced == {k \in Central!Active : ~IsActive(k)'}
<1>1. /\ h \notin minted /\ h \in minted'
      /\ \A k \in Handle \ {h} : k \in minted <=> k \in minted'
  BY DEF Adds
<1>2. IsActive(h)'
  <2>1. PICK s \in sessions' : s.id = h /\ s.expiresAt = now + SessionLife
    BY DEF Adds
  <2>2. /\ now \in Nat /\ clock \in Nat /\ clock - now <= MaxLag /\ clock' = clock
        /\ h \notin ended'
    BY DEF Sampled, Inv, TypeOK, Adds
  <2>3. s.expiresAt > clock'  BY <2>1, <2>2, LifetimeAssumption
  <2>4. QED BY <2>1, <2>2, <2>3, ActiveNowAndNext DEF ActiveAsStored
<1>3. ASSUME NEW k \in Handle
      PROVE  Life'[k] = IF k = h THEN "active"
                        ELSE IF k \in replaced THEN "over" ELSE Life[k]
  <2>1. CASE k = h  BY <1>1, <1>2, <2>1 DEF Life
  <2>2. CASE k # h /\ k \notin minted  BY <1>1, <2>2 DEF Life, Central!Active
  <2>3. CASE k # h /\ k \in minted /\ IsActive(k)
    BY <1>1, <2>3 DEF Life, Central!Active
  <2>4. CASE k # h /\ k \in minted /\ ~IsActive(k)
    BY <1>1, <2>4, OverStaysOver DEF Life, Central!Active
  <2>5. QED BY <2>1, <2>2, <2>3, <2>4
<1>4. Life' = [k \in Handle |-> IF k = h THEN "active"
                                ELSE IF k \in replaced THEN "over" ELSE Life[k]]
  BY <1>3 DEF Life
<1>5. Life[h] = "unborn"  BY <1>1 DEF Life
<1>6. QED BY <1>4, <1>5 DEF Central!Start

\* The store implements the central session, for any number of browsers and
\* epochs, if no caller's clock lags by a session's lifetime.
THEOREM Refinement ==
    ASSUME MaxLag < SessionLife
    PROVE  Spec => ImplementsCentralSession
<1>1. Init => Central!Init
  BY DEF Init, Central!Init, Life
<1>2. (Inv /\ CurrentInv) /\ [Next]_vars /\ (Inv /\ CurrentInv)' => [Central!Next]_Life
  <2> SUFFICES ASSUME Inv, CurrentInv, [Next]_vars, (Inv /\ CurrentInv)'
               PROVE  Central!Next
    OBVIOUS
  <2>1. PICK now \in Sampled : Successor(now) /\ (AddsNone \/ \E h \in Handle : Adds(h, now))
    BY StepOnSessions
  <2>2. CASE AddsNone  BY <2>1, <2>2, FinishStep DEF Central!Next
  <2>3. CASE \E h \in Handle : Adds(h, now)
    BY <2>1, <2>3, StartStep DEF Central!Next
  <2>4. QED BY <2>1, <2>2, <2>3
<1>3. QED BY <1>1, <1>2, CurrentHolds, PTL DEF Spec, Central!Spec, ImplementsCentralSession

-----------------------------------------------------------------------------
(***************************************************************************)
(* A browser's pending requests never exceed the limit.  createRequest      *)
(* counts the requests that the binding lists and that are pending at its   *)
(* own "now"; the theorem is about the requests themselves, at the issuer's *)
(* clock.  That the list has them all is RequestInv of                      *)
(* BrowserSsoStoreProofs.                                                   *)
(***************************************************************************)
PendingOf(b) == {r \in Alive(requests, clock) : r.binding = b}

\* There are finitely many requests, and of no browser too many.
LimitInv == IsFiniteSet(requests) /\ RequestLimitHolds

\* What is left of a finite set has no more elements, and fits where it fitted.
LEMMA SubsetFits ==
    ASSUME NEW S, NEW T, IsFiniteSet(S), T \subseteq S, Cardinality(S) <= RequestLimit
    PROVE  IsFiniteSet(T) /\ Cardinality(T) <= RequestLimit
<1>1. IsFiniteSet(T) /\ Cardinality(T) <= Cardinality(S)  BY FS_Subset
<1>2. Cardinality(T) \in Nat /\ Cardinality(S) \in Nat  BY <1>1, FS_CardinalityType
<1>3. QED BY <1>1, <1>2, LifetimeAssumption

LEMMA PendingIsFinite ==
    ASSUME IsFiniteSet(requests), NEW b
    PROVE  IsFiniteSet(PendingOf(b))
<1>1. PendingOf(b) \subseteq requests  BY DEF PendingOf, Alive
<1>2. QED BY <1>1, FS_Subset

\* A step that adds no request leaves the limit alone; time may pass.
LEMMA FewerRequests ==
    ASSUME TypeOK, LimitInv, requests' \subseteq requests, clock' \in Nat, clock <= clock'
    PROVE  LimitInv'
<1>1. IsFiniteSet(requests')  BY FS_Subset DEF LimitInv
<1>2. ASSUME NEW b \in Browser PROVE Cardinality(PendingOf(b)') <= RequestLimit
  <2>1. PendingOf(b)' \subseteq PendingOf(b)
    BY DEF PendingOf, Alive, TypeOK, Request
  <2>2. IsFiniteSet(PendingOf(b)) /\ Cardinality(PendingOf(b)) <= RequestLimit
    BY PendingIsFinite DEF LimitInv, RequestLimitHolds, PendingOf
  <2>3. QED BY <2>1, <2>2, SubsetFits
<1>3. QED BY <1>1, <1>2 DEF LimitInv, RequestLimitHolds, PendingOf

\* A new grant takes the place of the old one in the same request.
LEMMA RebindFits ==
    ASSUME Inv, LimitInv, NEW now \in Nat, NEW g \in Grant, NEW r \in Alive(requests, now),
           Rebind(r, g, now)
    PROVE  LimitInv'
<1> DEFINE q == WithGrant(r, g)
           kept == Alive(requests, now) \ {r}
<1>1. /\ q.binding = r.binding /\ q.expiresAt = r.expiresAt
      /\ requests' = kept \cup {q} /\ clock' = clock
      /\ r \in requests /\ kept \subseteq requests
  BY DEF Rebind, WithGrant, Inv, TypeOK, Request, Alive
<1> HIDE DEF q
<1>2. IsFiniteSet(requests')
  <2>1. IsFiniteSet(kept)  BY <1>1, FS_Subset DEF LimitInv
  <2>2. QED BY <1>1, <2>1, FS_AddElement
<1>3. ASSUME NEW b \in Browser PROVE Cardinality(PendingOf(b)') <= RequestLimit
  <2> DEFINE P == PendingOf(b)
  <2>1. IsFiniteSet(P) /\ Cardinality(P) \in Nat /\ Cardinality(P) <= RequestLimit
    BY PendingIsFinite, FS_CardinalityType DEF LimitInv, RequestLimitHolds, PendingOf
  <2>2. CASE r \in P
    <3>1. PendingOf(b)' \subseteq (P \ {r}) \cup {q}
      BY <1>1 DEF PendingOf, Alive
    <3>2. /\ IsFiniteSet(P \ {r}) /\ Cardinality(P \ {r}) = Cardinality(P) - 1
      BY <2>1, <2>2, FS_RemoveElement
    <3>3. /\ IsFiniteSet((P \ {r}) \cup {q})
          /\ Cardinality((P \ {r}) \cup {q}) <= Cardinality(P)
      <4>1. /\ IsFiniteSet((P \ {r}) \cup {q})
            /\ Cardinality((P \ {r}) \cup {q}) =
                  IF q \in P \ {r} THEN Cardinality(P \ {r}) ELSE Cardinality(P \ {r}) + 1
        BY <3>2, FS_AddElement
      <4> HIDE DEF P
      <4>2. QED BY <2>1, <3>2, <4>1
    <3>4. Cardinality((P \ {r}) \cup {q}) <= RequestLimit
      <4>1. Cardinality((P \ {r}) \cup {q}) \in Nat  BY <3>3, FS_CardinalityType
      <4> HIDE DEF P
      <4>2. QED BY <2>1, <3>3, <4>1, LifetimeAssumption
    <3>5. QED BY <3>1, <3>3, <3>4, SubsetFits
  <2>3. CASE r \notin P
    <3>1. PendingOf(b)' \subseteq P
      BY <1>1, <2>3 DEF PendingOf, Alive
    <3>2. QED BY <2>1, <3>1, SubsetFits
  <2>4. QED BY <2>2, <2>3
<1>4. QED BY <1>2, <1>3 DEF LimitInv, RequestLimitHolds, PendingOf

\* createRequest: what is pending at the clock was counted at the caller's "now",
\* which is not ahead of the clock.
LEMMA CreateRequestFits ==
    ASSUME Inv, LimitInv, NEW now \in Sampled, NEW id \in RequestId, NEW flow \in Flow,
           NEW b \in Browser, NEW a \in App, CreateRequest(id, flow, b, a, now)
    PROVE  LimitInv'
<1> DEFINE r == [id |-> id, flow |-> flow, binding |-> b, app |-> a,
                 grant |-> None, expiresAt |-> now + RequestLife]
           counted == StillPending(b, now)
<1>1. /\ now \in Nat /\ now <= clock /\ clock \in Nat /\ clock' = clock
      /\ requests' = Alive(requests, now) \cup {r} /\ r.binding = b
      /\ Cardinality(counted) < RequestLimit
  BY DEF CreateRequest, BelowLimit, Sampled, Inv, TypeOK
<1> HIDE DEF r
<1>2. Alive(requests, now) \subseteq requests /\ counted \subseteq requests
  BY DEF Alive, StillPending
<1>3. IsFiniteSet(requests')
  <2>1. IsFiniteSet(Alive(requests, now))  BY <1>2, FS_Subset DEF LimitInv
  <2>2. QED BY <1>1, <2>1, FS_AddElement
<1>4. ASSUME NEW c \in Browser PROVE Cardinality(PendingOf(c)') <= RequestLimit
  <2>1. CASE c = b
    <3>1. \A x \in PendingOf(b)' : x = r \/ x \in counted
      <4> SUFFICES ASSUME NEW x \in requests, x.expiresAt > clock, x.binding = b
                   PROVE  x \in counted
        BY <1>1, <1>2 DEF PendingOf, Alive
      <4>1. x.expiresAt \in Nat  BY DEF Inv, TypeOK, Request
      <4>2. PICK y \in bindings : y.id = b /\ y.expiresAt >= x.expiresAt /\ x.id \in y.requests
        BY DEF Inv, IInv, RequestInv
      <4>3. y.expiresAt \in Nat  BY DEF Inv, TypeOK, Binding
      <4>4. x.expiresAt > now /\ y.expiresAt > now  BY <1>1, <4>1, <4>2, <4>3
      <4>5. QED BY <4>2, <4>4 DEF StillPending, Named, Alive
    <3>2. IsFiniteSet(counted) /\ Cardinality(counted) \in Nat
      BY <1>2, FS_Subset, FS_CardinalityType DEF LimitInv
    <3>3. /\ IsFiniteSet(counted \cup {r}) /\ Cardinality(counted \cup {r}) \in Nat
          /\ Cardinality(counted \cup {r}) <= Cardinality(counted) + 1
      <4>1. /\ IsFiniteSet(counted \cup {r})
            /\ Cardinality(counted \cup {r}) =
                  IF r \in counted THEN Cardinality(counted) ELSE Cardinality(counted) + 1
        BY <3>2, FS_AddElement
      <4> HIDE DEF counted
      <4>2. QED BY <3>2, <4>1
    <3>4. PendingOf(b)' \subseteq counted \cup {r}  BY <3>1
    <3> HIDE DEF counted
    <3>5. Cardinality(counted \cup {r}) <= RequestLimit
      BY <1>1, <3>2, <3>3, LifetimeAssumption
    <3>6. QED BY <2>1, <3>3, <3>4, <3>5, SubsetFits
  <2>2. CASE c # b
    <3>1. PendingOf(c)' \subseteq PendingOf(c)
      BY <1>1, <1>2, <2>2 DEF PendingOf, Alive
    <3>2. IsFiniteSet(PendingOf(c)) /\ Cardinality(PendingOf(c)) <= RequestLimit
      BY PendingIsFinite DEF LimitInv, RequestLimitHolds, PendingOf
    <3>3. QED BY <3>1, <3>2, SubsetFits
  <2>3. QED BY <2>1, <2>2
<1>5. QED BY <1>3, <1>4 DEF LimitInv, RequestLimitHolds, PendingOf

\* Every other operation only drops requests.
LEMMA OthersDrop ==
    ASSUME Inv, NEW now \in Sampled,
           \/ SessionStep(now) \/ CodeStep(now) \/ BootstrapStep(now) \/ Prune(now)
           \/ \E id \in RequestId, g \in Grant : ConsumeLauncherRequest(id, g, now)
    PROVE  requests' \subseteq requests /\ clock' = clock
<1>1. CASE SessionStep(now)
  BY <1>1 DEF SessionStep, CreateSession, RevokeSession, EndBrowserSession, Alive
<1>2. CASE CodeStep(now)
  BY <1>2 DEF CodeStep, IssueCode, RedeemCode, Consumed, Alive
<1>3. CASE BootstrapStep(now)
  <2>1. ASSUME NEW t, NEW id, NEW a, NEW g, NEW e, IssueBootstrapTicket(t, id, a, g, e, now)
        PROVE  requests' \subseteq requests /\ clock' = clock
    BY <2>1 DEF IssueBootstrapTicket, Consumed, Alive
  <2>2. ASSUME NEW t, NEW a, NEW b, NEW prev, NEW confirmed, NEW h,
               RedeemBootstrapTicket(t, a, b, prev, confirmed, h, now)
        PROVE  requests' \subseteq requests /\ clock' = clock
    BY <2>2 DEF RedeemBootstrapTicket, Alive
  <2>3. QED BY <1>3, <2>1, <2>2 DEF BootstrapStep
<1>4. CASE Prune(now)  BY <1>4 DEF Prune, Alive
<1>5. CASE \E id \in RequestId, g \in Grant : ConsumeLauncherRequest(id, g, now)
  BY <1>5 DEF ConsumeLauncherRequest, Consumed, Alive
<1>6. QED BY <1>1, <1>2, <1>3, <1>4, <1>5

LEMMA NextFits == Inv /\ LimitInv /\ [Next]_vars => LimitInv'
<1> SUFFICES ASSUME Inv, LimitInv, [Next]_vars
             PROVE  LimitInv'
  OBVIOUS
<1>0. TypeOK /\ clock \in Nat  BY DEF Inv, TypeOK
<1>1. CASE UNCHANGED vars
  <2>1. requests' = requests /\ clock' = clock  BY <1>1 DEF vars, tables
  <2>2. QED BY <1>0, <2>1, FewerRequests
<1>2. CASE Tick
  <2>1. requests' = requests /\ clock' = clock + 1  BY <1>2 DEF Tick, tables
  <2>2. QED BY <1>0, <2>1, FewerRequests
<1>3. ASSUME NEW now \in Sampled, RequestStep(now) PROVE LimitInv'
  <2>0. now \in Nat  BY DEF Sampled
  <2>1. ASSUME NEW id \in RequestId, NEW flow \in Flow, NEW b \in Browser, NEW a \in App,
               CreateRequest(id, flow, b, a, now) PROVE LimitInv'
    BY <2>1, CreateRequestFits
  <2>2. ASSUME NEW id \in RequestId, NEW b \in Browser, NEW g \in Grant,
               BindGrant(id, b, g, now) PROVE LimitInv'
    BY <2>0, <2>2, RebindFits DEF BindGrant, Named
  <2>3. ASSUME NEW id \in RequestId, NEW a \in App, NEW g \in Grant,
               BindBootstrapGrant(id, a, g, now) PROVE LimitInv'
    BY <2>0, <2>3, RebindFits DEF BindBootstrapGrant, Named
  <2>4. CASE \E id \in RequestId, g \in Grant : ConsumeLauncherRequest(id, g, now)
    <3>1. requests' \subseteq requests /\ clock' = clock  BY <2>4, OthersDrop
    <3>2. QED BY <1>0, <3>1, FewerRequests
  <2>5. QED BY <1>3, <2>1, <2>2, <2>3, <2>4 DEF RequestStep
<1>4. ASSUME NEW now \in Sampled,
             SessionStep(now) \/ CodeStep(now) \/ BootstrapStep(now) \/ Prune(now)
      PROVE  LimitInv'
  <2>1. requests' \subseteq requests /\ clock' = clock  BY <1>4, OthersDrop
  <2>2. QED BY <1>0, <2>1, FewerRequests
<1>5. QED BY <1>1, <1>2, <1>3, <1>4 DEF Next

\* No browser ever has more pending requests than the limit, although
\* createRequest counts a list, at a time that may lie behind, and other operations
\* rewrite the binding that keeps the list.
THEOREM LimitForEver == Spec => []RequestLimitHolds
<1>1. Init => LimitInv
  <2> SUFFICES ASSUME Init PROVE LimitInv
    OBVIOUS
  <2>1. IsFiniteSet(requests)  BY FS_EmptySet DEF Init
  <2>2. \A b \in Browser : PendingOf(b) = {}  BY DEF Init, PendingOf, Alive
  <2>3. QED BY <2>1, <2>2, FS_EmptySet, LifetimeAssumption
            DEF LimitInv, RequestLimitHolds, PendingOf
<1>2. LimitInv => RequestLimitHolds  BY DEF LimitInv
<1>3. QED BY <1>1, <1>2, NextFits, InvariantHolds, PTL DEF Spec
=============================================================================

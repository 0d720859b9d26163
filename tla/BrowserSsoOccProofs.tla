------------------------- MODULE BrowserSsoOccProofs -------------------------
(***************************************************************************)
(* The optimistic transactions of the Redis backend, for any number of      *)
(* calls, keys and values, any operations and any limit on attempts; then,  *)
(* in the last section only, for the operations of MCOccSessions.           *)
(***************************************************************************)
EXTENDS MCOccSessions, TLAPS

Running(t) == pc[t] \in {"reading", "committed", "refused"}
Changed(t) == \E k \in DOMAIN reads[t] : db[k] # reads[t][k]

\* A call that is under way can be refused only after a change that its count of
\* refused attempts does not account for yet.
Contention ==
    \A t \in Txn : Running(t) =>
        /\ attempts[t] < MaxAttempts
        /\ Changed(t) \/ pc[t] = "refused" => attempts[t] < changes[t]

\* A call that has not begun has read nothing and was never refused.
Fresh == \A t \in Txn : pc[t] = "idle" => reads[t] = Nothing /\ attempts[t] = 0

IInv == TypeOK /\ RefusedOnlyByChange /\ Contention /\ Fresh

-----------------------------------------------------------------------------
(***************************************************************************)
(* Read sets and what operations do with them.                              *)
(***************************************************************************)

\* A read set is a function from some keys to values.
LEMMA SeenIs == ASSUME NEW seen \in Seen
                PROVE  DOMAIN seen \in SUBSET Key /\ seen \in [DOMAIN seen -> Value]
BY DEF Seen

LEMMA SeenIf == ASSUME NEW S \in SUBSET Key, NEW seen \in [S -> Value]
                PROVE  seen \in Seen
BY DEF Seen

\* Nothing has been read at the start of an attempt.
LEMMA NothingSeen == Nothing \in Seen /\ DOMAIN Nothing = {}
<1>1. Nothing \in [{} -> Value]
  BY DEF Nothing
<1> QED BY <1>1, SeenIf DEF Nothing

\* Reading one more key gives a read set.
LEMMA WithSeen ==
    ASSUME NEW seen \in Seen, NEW k \in Key, NEW v \in Value
    PROVE  With(seen, k, v) \in Seen
<1>1. With(seen, k, v) \in [DOMAIN seen \cup {k} -> Value]
  BY SeenIs DEF With
<1>2. DOMAIN seen \cup {k} \in SUBSET Key
  BY SeenIs
<1> QED BY <1>1, <1>2, SeenIf

\* Writing keeps the store a store.
LEMMA WrittenStore ==
    ASSUME NEW d \in Store, NEW w \in Seen
    PROVE  Written(d, w) \in Store
BY SeenIs DEF Written, Store

\* What OperationAssumption says of a read set that agrees with a store.
LEMMA Locality ==
    ASSUME NEW t \in Txn, NEW seen \in Seen, NEW d \in Store,
           \A k \in DOMAIN seen : d[k] = seen[k]
    PROVE  /\ NextKey(t, seen) \in (Key \ DOMAIN seen) \cup {Enough}
           /\ NextKey(t, seen) = Enough =>
                  /\ Effect(t, seen) \in Seen
                  /\ Result(t, seen) \in Answer
                  /\ Effect(t, d) = Effect(t, seen)
                  /\ Result(t, d) = Result(t, seen)
<1>1. seen = [k \in DOMAIN seen |-> d[k]]
  BY SeenIs
<1>2. DOMAIN seen \in SUBSET Key
  BY SeenIs
<1> QED BY <1>1, <1>2, OperationAssumption

\* ... and of every read set: some store agrees with it.
LEMMA Operation ==
    ASSUME NEW t \in Txn, NEW seen \in Seen
    PROVE  /\ NextKey(t, seen) \in (Key \ DOMAIN seen) \cup {Enough}
           /\ NextKey(t, seen) = Enough =>
                  /\ Effect(t, seen) \in Seen
                  /\ Result(t, seen) \in Answer
<1> DEFINE d == [k \in Key |-> IF k \in DOMAIN seen THEN seen[k] ELSE Absent]
<1>1. d \in Store
  BY SeenIs, ConstantAssumption DEF Store
<1>2. \A k \in DOMAIN seen : d[k] = seen[k]
  BY SeenIs
<1>3. QED BY <1>1, <1>2, Locality

-----------------------------------------------------------------------------
(***************************************************************************)
(* The invariant.                                                           *)
(***************************************************************************)

\* A change of the store is counted by every call that is under way.
LEMMA CountedIs ==
    ASSUME IInv, NEW c \in BOOLEAN
    PROVE  /\ Counted(c) \in [Txn -> 0..MaxAttempts]
           /\ \A t \in Txn : Counted(c)[t] >= changes[t]
           /\ \A t \in Txn : c /\ Running(t) => attempts[t] < Counted(c)[t]
<1> USE ConstantAssumption
<1>1. MaxAttempts \in Nat /\ changes \in [Txn -> 0..MaxAttempts]
      /\ attempts \in [Txn -> 0..MaxAttempts]
  BY DEF IInv, TypeOK
<1>2. \A t \in Txn : Counted(c)[t] \in 0..MaxAttempts /\ Counted(c)[t] >= changes[t]
  BY <1>1 DEF Counted
<1>3. ASSUME NEW t \in Txn, c, Running(t)
      PROVE  attempts[t] < Counted(c)[t]
  <2>1. attempts[t] < MaxAttempts /\ attempts[t] <= changes[t]
    BY <1>3 DEF IInv, Contention, RefusedOnlyByChange
  <2> QED BY <1>1, <1>3, <2>1 DEF Counted, Running
<1>4. Counted(c) \in [Txn -> 0..MaxAttempts]
  BY <1>2 DEF Counted
<1> QED BY <1>2, <1>3, <1>4

LEMMA InitInv == Init => IInv
BY ConstantAssumption, NothingSeen
   DEF Init, IInv, TypeOK, RefusedOnlyByChange, Contention, Fresh, Running, Store

LEMMA NextInv == IInv /\ [Next]_vars => IInv'
<1> SUFFICES ASSUME IInv, [Next]_vars PROVE IInv'
  OBVIOUS
<1> USE ConstantAssumption
<1>0. TypeOK /\ RefusedOnlyByChange /\ Contention /\ Fresh
  BY DEF IInv
<1>1. ASSUME NEW t \in Txn, Begin(t) PROVE IInv'
  <2>1. attempts[t] < MaxAttempts /\ ~Changed(t)
    BY <1>0, <1>1, NothingSeen DEF Fresh, Changed, Begin
  <2>2. TypeOK' /\ RefusedOnlyByChange' /\ Fresh'
    BY <1>0, <1>1 DEF TypeOK, RefusedOnlyByChange, Fresh, Begin
  <2>3. Contention'
    BY <1>0, <1>1, <2>1 DEF TypeOK, Contention, Begin, Running, Changed
  <2> QED BY <2>2, <2>3 DEF IInv
<1>2. ASSUME NEW t \in Txn, Read(t) PROVE IInv'
  <2> DEFINE k == NextKey(t, reads[t])
  <2>1. reads[t] \in Seen /\ k \in Key \ DOMAIN reads[t] /\ db[k] \in Value
    BY <1>0, <1>2, Operation DEF TypeOK, Read, Store
  <2>2. reads' = [reads EXCEPT ![t] = With(reads[t], k, db[k])] /\ pc[t] = "reading"
    BY <1>2 DEF Read
  <2>3. UNCHANGED <<db, pc, attempts, resends, outcome, changes>>
    BY <1>2 DEF Read
  <2> HIDE DEF k
  <2>4. With(reads[t], k, db[k]) \in Seen
    BY <2>1, WithSeen
  <2>5. TypeOK'
    BY <1>0, <2>2, <2>3, <2>4 DEF TypeOK
  <2>6. Changed(t)' => Changed(t)
    <3>1. reads'[t] = With(reads[t], k, db[k])
      BY <1>0, <2>2 DEF TypeOK
    <3> QED BY <2>3, <3>1 DEF Changed, With
  <2>7. Contention' /\ Fresh' /\ RefusedOnlyByChange'
    BY <1>0, <2>2, <2>3, <2>6
       DEF TypeOK, Contention, Fresh, RefusedOnlyByChange, Running, Changed
  <2> QED BY <2>5, <2>7 DEF IInv
<1>3. ASSUME NEW t \in Txn, CommitScript(t) PROVE IInv'
  <2>1. reads[t] \in Seen /\ NextKey(t, reads[t]) = Enough /\ pc[t] = "reading"
    BY <1>0, <1>3 DEF TypeOK, CommitScript
  <2>2. CASE Validated(t)
    <3>1. /\ db' = Written(db, Effect(t, reads[t]))
          /\ outcome' = [outcome EXCEPT ![t] = Result(t, reads[t])]
          /\ pc' = [pc EXCEPT ![t] = "committed"]
          /\ changes' = Counted(db' # db)
          /\ UNCHANGED <<reads, attempts, resends>>
      BY <1>3, <2>2 DEF CommitScript
    <3>2. db' \in Store /\ Result(t, reads[t]) \in Answer
      BY <1>0, <2>1, <3>1, Operation, WrittenStore DEF TypeOK
    <3>3. /\ changes' \in [Txn -> 0..MaxAttempts]
          /\ \A u \in Txn : changes'[u] >= changes[u]
          /\ \A u \in Txn : db' # db /\ Running(u) => attempts[u] < changes'[u]
      BY <3>1, CountedIs
    <3>4. TypeOK'
      BY <1>0, <2>1, <3>1, <3>2, <3>3 DEF TypeOK
    <3>5. RefusedOnlyByChange' /\ Fresh'
      BY <1>0, <2>1, <3>1, <3>3 DEF TypeOK, RefusedOnlyByChange, Fresh
    <3>6. ASSUME NEW u \in Txn, Running(u)'
          PROVE  attempts'[u] < MaxAttempts
                 /\ (Changed(u)' \/ pc'[u] = "refused" => attempts'[u] < changes'[u])
      <4>1. Running(u)
        BY <1>0, <2>1, <3>1, <3>6 DEF TypeOK, Running
      <4>2. CASE db' = db
        <5>1. Changed(u)' \/ pc'[u] = "refused" => Changed(u) \/ pc[u] = "refused"
          BY <1>0, <3>1, <4>2 DEF TypeOK, Changed
        <5> QED BY <1>0, <3>1, <3>3, <4>1, <5>1 DEF TypeOK, Contention
      <4>3. CASE db' # db
        BY <1>0, <3>1, <3>3, <4>1, <4>3 DEF Contention
      <4> QED BY <4>2, <4>3
    <3> QED BY <3>4, <3>5, <3>6 DEF IInv, Contention
  <2>3. CASE ~Validated(t)
    <3>1. /\ pc' = [pc EXCEPT ![t] = "refused"]
          /\ UNCHANGED <<db, outcome, changes, reads, attempts, resends>>
      BY <1>3, <2>3 DEF CommitScript
    <3>2. Changed(t) /\ Running(t)
      BY <2>1, <2>3 DEF Validated, Changed, Running
    <3> QED BY <1>0, <2>1, <3>1, <3>2
            DEF IInv, TypeOK, RefusedOnlyByChange, Contention, Fresh, Running, Changed
  <2> QED BY <2>2, <2>3
<1>4. ASSUME NEW t \in Txn, Answered(t) PROVE IInv'
  <2>1. TypeOK' /\ RefusedOnlyByChange' /\ Fresh'
    BY <1>0, <1>4, NothingSeen DEF TypeOK, RefusedOnlyByChange, Fresh, Answered, Leaves
  <2>2. Contention'
    BY <1>0, <1>4 DEF TypeOK, Contention, Answered, Leaves, Running, Changed
  <2> QED BY <2>1, <2>2 DEF IInv
<1>5. ASSUME NEW t \in Txn, Retry(t) PROVE IInv'
  <2>1. /\ attempts[t] \in Nat /\ attempts[t] < MaxAttempts /\ attempts[t] < changes[t]
        /\ changes[t] \in Nat
    BY <1>0, <1>5 DEF TypeOK, Contention, Retry, Running
  <2>2. /\ attempts' = [attempts EXCEPT ![t] = attempts[t] + 1]
        /\ reads' = [reads EXCEPT ![t] = Nothing]
        /\ pc' = [pc EXCEPT ![t] = IF attempts'[t] < MaxAttempts THEN "reading" ELSE "failed"]
        /\ resends' = [resends EXCEPT ![t] = 0]
        /\ UNCHANGED <<db, outcome, changes>>
    BY <1>5 DEF Retry
  <2>3. TypeOK'
    BY <1>0, <2>1, <2>2, NothingSeen DEF TypeOK
  <2>4. RefusedOnlyByChange' /\ Fresh'
    BY <1>0, <2>1, <2>2 DEF TypeOK, RefusedOnlyByChange, Fresh
  <2>5. ~Changed(t)'
    BY <1>0, <2>2, NothingSeen DEF TypeOK, Changed
  <2>6. Contention'
    BY <1>0, <2>1, <2>2, <2>5 DEF TypeOK, Contention, Running, Changed
  <2> QED BY <2>3, <2>4, <2>6 DEF IInv
<1>6. ASSUME NEW t \in Txn, Resend(t) PROVE IInv'
  <2>1. TypeOK' /\ RefusedOnlyByChange' /\ Fresh'
    BY <1>0, <1>6 DEF TypeOK, RefusedOnlyByChange, Fresh, Resend
  <2>2. Contention'
    BY <1>0, <1>6 DEF TypeOK, Contention, Resend, Running, Changed
  <2> QED BY <2>1, <2>2 DEF IInv
<1>7. ASSUME NEW t \in Txn, Throw(t) PROVE IInv'
  <2>1. TypeOK' /\ RefusedOnlyByChange' /\ Fresh'
    BY <1>0, <1>7, NothingSeen DEF TypeOK, RefusedOnlyByChange, Fresh, Throw, Leaves
  <2>2. Contention'
    BY <1>0, <1>7 DEF TypeOK, Contention, Throw, Leaves, Running, Changed
  <2> QED BY <2>1, <2>2 DEF IInv
<1>8. ASSUME NEW k \in Key, Expire(k) PROVE IInv'
  <2>1. /\ db' = [db EXCEPT ![k] = Absent] /\ changes' = Counted(TRUE)
        /\ UNCHANGED <<pc, reads, attempts, resends, outcome>>
    BY <1>8 DEF Expire
  <2>2. /\ changes' \in [Txn -> 0..MaxAttempts]
        /\ \A u \in Txn : changes'[u] >= changes[u]
        /\ \A u \in Txn : Running(u) => attempts[u] < changes'[u]
    BY <2>1, CountedIs
  <2>3. TypeOK'
    BY <1>0, <2>1, <2>2 DEF TypeOK, Store
  <2>4. RefusedOnlyByChange' /\ Fresh'
    <3>1. \A u \in Txn : attempts[u] <= changes'[u]
      <4> TAKE u \in Txn
      <4>1. attempts[u] <= changes[u] /\ changes[u] <= changes'[u]
        BY <1>0, <2>2 DEF RefusedOnlyByChange
      <4>2. attempts[u] \in Int /\ changes[u] \in Int /\ changes'[u] \in Int
        BY <1>0, <2>2 DEF TypeOK
      <4> QED BY <4>1, <4>2
    <3>2. RefusedOnlyByChange'
      BY <2>1, <3>1 DEF RefusedOnlyByChange
    <3>3. Fresh'
      BY <1>0, <2>1 DEF Fresh
    <3> QED BY <3>2, <3>3
  <2>5. ASSUME NEW u \in Txn, Running(u)'
        PROVE  attempts'[u] < MaxAttempts
               /\ (Changed(u)' \/ pc'[u] = "refused" => attempts'[u] < changes'[u])
    <3>1. Running(u) /\ attempts'[u] = attempts[u]
      BY <2>1, <2>5 DEF Running
    <3> QED BY <1>0, <2>2, <3>1 DEF Contention
  <2> QED BY <2>3, <2>4, <2>5 DEF IInv, Contention
<1>9. CASE UNCHANGED vars
  BY <1>0, <1>9 DEF IInv, TypeOK, RefusedOnlyByChange, Contention, Fresh, Running, Changed, vars
<1> QED BY <1>1, <1>2, <1>3, <1>4, <1>5, <1>6, <1>7, <1>8, <1>9 DEF Next, Proceed

THEOREM InvariantHolds == Spec => []IInv
BY InitInv, NextInv, PTL DEF Spec

\* The backend's state is well typed: no script carries an unfinished read set
\* and no call makes more than MaxAttempts attempts (COMMIT_SCRIPT, run).
THEOREM TypeCorrect == Spec => []TypeOK
<1>1. IInv => TypeOK
  BY DEF IInv
<1> QED BY <1>1, InvariantHolds, PTL

\* The contention limit is reached only after as many changes of the store.
THEOREM ContentionIsReal == Spec => []RefusedOnlyByChange
<1>1. IInv => RefusedOnlyByChange
  BY DEF IInv
<1> QED BY <1>1, InvariantHolds, PTL

-----------------------------------------------------------------------------
(***************************************************************************)
(* The refinement: the commit script is the instant at which a call takes   *)
(* effect.                                                                  *)
(***************************************************************************)
LEMMA InitMaps == Init => Backend!Init
BY DEF Init, Backend!Init

\* A committed attempt has an answer.
Told == \A t \in Txn : pc[t] = "committed" => outcome[t] # None

LEMMA ToldHolds == Spec => []Told
<1>1. Init => Told
  BY DEF Init, Told
<1>2. IInv /\ Told /\ [Next]_vars => Told'
  <2> SUFFICES ASSUME IInv, Told, [Next]_vars PROVE Told'
    OBVIOUS
  <2>0. TypeOK
    BY DEF IInv
  <2>1. ASSUME NEW t \in Txn, CommitScript(t) PROVE Told'
    <3>1. Result(t, reads[t]) # None
      BY <2>0, <2>1, Operation, ConstantAssumption DEF TypeOK, CommitScript
    <3> QED BY <2>0, <2>1, <3>1 DEF TypeOK, CommitScript, Told
  <2>2. CASE \E t \in Txn : Begin(t) \/ Read(t) \/ Answered(t) \/ Retry(t) \/ Resend(t)
                            \/ Throw(t)
    BY <2>0, <2>2 DEF TypeOK, Told, Begin, Read, Answered, Retry, Resend, Throw, Leaves
  <2>3. CASE \E k \in Key : Expire(k)
    BY <2>3 DEF Told, Expire
  <2>4. CASE UNCHANGED vars
    BY <2>4 DEF Told, vars
  <2> QED BY <2>1, <2>2, <2>3, <2>4 DEF Next, Proceed
<1> QED BY <1>1, <1>2, InvariantHolds, PTL DEF Spec

LEMMA NextMaps == IInv /\ Told /\ [Next]_vars => [Backend!Next]_(Backend!vars)
<1> SUFFICES ASSUME IInv, Told, [Next]_vars PROVE [Backend!Next]_(Backend!vars)
  OBVIOUS
<1>0. TypeOK
  BY DEF IInv
<1>1. ASSUME NEW t \in Txn, Begin(t) PROVE Backend!Start(t)
  BY <1>0, <1>1 DEF TypeOK, Begin, Backend!Start
<1>2. ASSUME NEW t \in Txn, CommitScript(t), Validated(t) PROVE Backend!Execute(t)
  <2>1. Effect(t, db) = Effect(t, reads[t]) /\ Result(t, db) = Result(t, reads[t])
    BY <1>0, <1>2, Locality DEF TypeOK, CommitScript, Validated
  <2> QED BY <1>0, <1>2, <2>1
          DEF TypeOK, CommitScript, Written, Backend!Execute, Backend!Written
<1>3. ASSUME NEW t \in Txn, Answered(t) PROVE Backend!Return(t)
  BY <1>0, <1>3 DEF TypeOK, Answered, Leaves, Told, Backend!Return
<1>4. ASSUME NEW t \in Txn, Throw(t) PROVE Backend!Fail(t)
  BY <1>0, <1>4 DEF TypeOK, Throw, Leaves, Backend!Fail
<1>5. ASSUME NEW t \in Txn, Retry(t) PROVE Backend!Fail(t) \/ UNCHANGED Backend!vars
  BY <1>0, <1>5 DEF TypeOK, Retry, Backend!Fail, Backend!vars
<1>6. ASSUME NEW t \in Txn, Read(t) \/ Resend(t) \/ (CommitScript(t) /\ ~Validated(t))
      PROVE  UNCHANGED Backend!vars
  BY <1>0, <1>6 DEF TypeOK, Read, Resend, CommitScript, Backend!vars
<1>7. ASSUME NEW k \in Key, Expire(k) PROVE Backend!Expire(k)
  BY <1>0, <1>7 DEF TypeOK, Expire, Backend!Expire
<1>8. CASE UNCHANGED vars
  BY <1>8 DEF vars, Backend!vars
<1> QED BY <1>1, <1>2, <1>3, <1>4, <1>5, <1>6, <1>7, <1>8 DEF Next, Proceed, Backend!Next

\* The Redis backend implements the atomic transactions the store is written
\* against: every operation of BrowserSsoStore is one step for every interleaving,
\* refused attempt and lost reply.
THEOREM Refinement == Spec => ImplementsAtomicTransactions
BY InitMaps, NextMaps, InvariantHolds, ToldHolds, PTL
   DEF Spec, ImplementsAtomicTransactions, Backend!Spec

-----------------------------------------------------------------------------
(***************************************************************************)
(* The operations that race at a logout (MCOccSessions): redemptions of a   *)
(* code and of a ticket, and logouts, any number of each.  Nothing puts a   *)
(* code, a ticket or a session back; an epoch only moves forward; a logout  *)
(* leaves the ticket and what it was exchanged for in an epoch that is over.*)
(***************************************************************************)
Taken(T, k) == (\E t \in T : outcome[t] = "redeemed") => db[k] = Absent
Ended == \E t \in Leavers : outcome[t] = "ended"

KeysOK ==
    /\ db["code"] \in {Absent, 0} /\ db["ticket"] \in {Absent, 0}
    /\ db["session"] \in {Absent, 0}
    /\ db["binding"] \in {Absent} \cup Nat /\ db["adopted"] \in {Absent} \cup Nat

Forward == db["adopted"] # Absent /\ db["binding"] # Absent => db["adopted"] <= db["binding"]

OverAfterLogout == Ended =>
    /\ db["session"] = Absent
    /\ db["binding"] # Absent =>
           0 < db["binding"] /\ (db["adopted"] # Absent => db["adopted"] < db["binding"])

SessionsInv ==
    /\ KeysOK /\ Forward /\ RedeemedOnce /\ OverAfterLogout
    /\ Taken(Redeemers, "code") /\ Taken(Adopters, "ticket")

LEMMA SessionsInit == Init => SessionsInv
<1> SUFFICES ASSUME Init PROVE SessionsInv
  OBVIOUS
<1>1. db = [k \in MCKey |-> IF k = "adopted" THEN Absent ELSE 0]
  BY SessionsAssumption DEF Init, MCInitially
<1>2. \A t \in Redeemers \cup Adopters \cup Leavers : outcome[t] = None
  BY SessionsAssumption DEF Init, MCTxn
<1>3. None \notin {"redeemed", "ended"}
  BY SessionsAssumption, ConstantAssumption DEF MCAnswer
<1>4. KeysOK /\ Forward  BY <1>1, SessionsAssumption DEF KeysOK, Forward, MCKey
<1>5. QED BY <1>2, <1>3, <1>4 DEF SessionsInv, RedeemedOnce, OverAfterLogout, Ended, Taken

\* Which role a call has.
LEMMA Roles ==
    ASSUME NEW t \in Txn
    PROVE  /\ t \in Redeemers \/ t \in Adopters \/ t \in Leavers
           /\ t \in Redeemers => t \notin Adopters /\ t \notin Leavers
           /\ t \in Adopters => t \notin Leavers
BY SessionsAssumption DEF MCTxn

LEMMA Paths ==
    /\ \A t \in Redeemers : Path(t) = <<"code", "session", "binding">>
    /\ \A t \in Adopters : Path(t) = <<"ticket", "binding", "adopted">>
    /\ \A t \in Leavers : Path(t) = <<"session", "binding">>
<1>1. \A t \in Redeemers \cup Adopters \cup Leavers : t \in Txn
  BY SessionsAssumption DEF MCTxn
<1>2. QED BY <1>1, Roles DEF Path

\* An operation that has enough has been refused by what it read, or has read
\* every key of its path.
LEMMA HasRead ==
    ASSUME NEW t \in Txn, NEW seen, MCNextKey(t, seen) = Enough, ~Rejects(t, seen)
    PROVE  \A i \in DOMAIN Path(t) : Path(t)[i] \in DOMAIN seen
<1> DEFINE unread == {i \in DOMAIN Path(t) : Path(t)[i] \notin DOMAIN seen}
<1>1. /\ DOMAIN Path(t) \subseteq 1..3
      /\ \A i \in DOMAIN Path(t) : Path(t)[i] \in Key
  <2>1. {"code", "session", "binding", "ticket", "adopted"} = Key
    BY SessionsAssumption DEF MCKey
  <2>2. CASE t \in Redeemers  BY <2>1, <2>2, Paths
  <2>3. CASE t \in Adopters  BY <2>1, <2>3, Paths
  <2>4. CASE t \in Leavers  BY <2>1, <2>4, Paths
  <2>5. QED BY <2>2, <2>3, <2>4, Roles
<1>2. SUFFICES ASSUME unread # {} PROVE FALSE
  OBVIOUS
<1>3. \E i \in unread : \A j \in unread : i <= j
  <2>1. unread \subseteq 1..3  BY <1>1
  <2> HIDE DEF unread
  <2>2. CASE 1 \in unread  BY <2>1, <2>2
  <2>3. CASE 1 \notin unread /\ 2 \in unread  BY <2>1, <2>3
  <2>4. CASE 1 \notin unread /\ 2 \notin unread
    <3>1. \A i \in unread : i = 3  BY <2>1, <2>4
    <3>2. QED BY <1>2, <3>1
  <2>5. QED BY <2>2, <2>3, <2>4
<1> DEFINE next == CHOOSE i \in unread : \A j \in unread : i <= j
<1>4. next \in unread  BY <1>3
<1>5. Path(t)[next] = Enough  BY <1>2 DEF MCNextKey
<1>6. QED BY <1>1, <1>4, <1>5, ConstantAssumption

LEMMA CommitFacts ==
    ASSUME TypeOK, NEW t \in Txn, CommitScript(t), Validated(t)
    PROVE  /\ outcome' = [outcome EXCEPT ![t] = MCResult(t, reads[t])]
           /\ db' = Written(db, MCEffect(t, reads[t]))
           /\ \A k \in DOMAIN reads[t] : reads[t][k] = db[k]
           /\ ~Rejects(t, reads[t]) =>
                  \A i \in DOMAIN Path(t) : Path(t)[i] \in DOMAIN reads[t]
<1>1. reads[t] \in Seen /\ NextKey(t, reads[t]) = Enough
  BY DEF TypeOK, CommitScript
<1>2. /\ MCNextKey(t, reads[t]) = Enough
      /\ Effect(t, reads[t]) = MCEffect(t, reads[t])
      /\ Result(t, reads[t]) = MCResult(t, reads[t])
  BY <1>1, SessionsAssumption
<1>3. QED BY <1>2, HasRead DEF CommitScript, Validated

LEMMA RejectedKeeps ==
    ASSUME TypeOK, SessionsInv, NEW t \in Txn, UNCHANGED db,
           outcome' = [outcome EXCEPT ![t] = "rejected"]
    PROVE  SessionsInv'
<1>1. \A s \in Txn : outcome'[s] \in {outcome[s], "rejected"}  BY DEF TypeOK
<1>2. \A s \in Redeemers \cup Adopters \cup Leavers : s \in Txn
  BY SessionsAssumption DEF MCTxn
<1>3. QED BY <1>1, <1>2 DEF SessionsInv, KeysOK, Forward, RedeemedOnce, OverAfterLogout, Ended,
                            Taken

\* What is written, key by key.
LEMMA Keys == Key = {"code", "session", "binding", "ticket", "adopted"}
BY SessionsAssumption DEF MCKey

LEMMA RedeemKeeps ==
    ASSUME TypeOK, SessionsInv, NEW t \in Redeemers, CommitScript(t), Validated(t),
           ~Rejects(t, reads[t])
    PROVE  SessionsInv'
<1>1. t \in Txn /\ t \notin Adopters /\ t \notin Leavers
  BY Roles, SessionsAssumption DEF MCTxn
<1>2. {"code", "session", "binding"} \subseteq DOMAIN reads[t]
  BY <1>1, CommitFacts, Paths
<1>3. db["code"] # Absent /\ db["session"] # Absent
  BY <1>1, <1>2, CommitFacts DEF Rejects, Missing
<1>4. MCEffect(t, reads[t]) = [k \in {"code"} |-> Absent]
      /\ MCResult(t, reads[t]) = "redeemed"
  BY <1>1 DEF MCEffect, MCResult
<1>5. /\ db'["code"] = Absent
      /\ \A k \in {"session", "binding", "ticket", "adopted"} : db'[k] = db[k]
  BY <1>1, <1>4, CommitFacts, Keys DEF Written
<1>6. \A s \in Txn : outcome'[s] = IF s = t THEN "redeemed" ELSE outcome[s]
  BY <1>1, <1>4, CommitFacts DEF TypeOK
<1>7. \A s \in Redeemers \cup Adopters \cup Leavers : s \in Txn
  BY SessionsAssumption DEF MCTxn
<1>8. ~Ended /\ ~Ended'
  <2>1. ~Ended  BY <1>3 DEF SessionsInv, OverAfterLogout
  <2>2. QED BY <1>1, <1>6, <1>7, <2>1 DEF Ended
<1>9. RedeemedOnce' /\ Taken(Redeemers, "code")' /\ Taken(Adopters, "ticket")'
  <2>1. \A s \in Redeemers : outcome[s] # "redeemed"  BY <1>3 DEF SessionsInv, Taken
  <2>2. \A s \in Adopters : outcome'[s] = outcome[s]  BY <1>1, <1>6, <1>7
  <2>3. \A s \in Redeemers : outcome'[s] = "redeemed" => s = t  BY <1>6, <1>7, <2>1
  <2>4. QED BY <1>5, <2>2, <2>3 DEF SessionsInv, RedeemedOnce, Taken
<1>10. KeysOK' /\ Forward'  BY <1>5 DEF SessionsInv, KeysOK, Forward
<1>11. QED BY <1>8, <1>9, <1>10 DEF SessionsInv, OverAfterLogout

LEMMA AdoptKeeps ==
    ASSUME TypeOK, SessionsInv, NEW t \in Adopters, CommitScript(t), Validated(t),
           ~Rejects(t, reads[t])
    PROVE  SessionsInv'
<1>1. t \in Txn /\ t \notin Redeemers /\ t \notin Leavers
  BY Roles, SessionsAssumption DEF MCTxn
<1>2. {"ticket", "binding"} \subseteq DOMAIN reads[t]
  BY <1>1, CommitFacts, Paths
<1>3. /\ db["ticket"] # Absent /\ db["binding"] = db["ticket"]
      /\ reads[t]["binding"] = db["binding"]
  BY <1>1, <1>2, CommitFacts DEF Rejects, Missing, Mismatch
<1>4. db["ticket"] = 0 /\ db["binding"] = 0  BY <1>3 DEF SessionsInv, KeysOK
<1>5. MCEffect(t, reads[t]) = [k \in {"ticket", "adopted", "binding"} |->
                                  IF k = "ticket" THEN Absent ELSE reads[t]["binding"]]
      /\ MCResult(t, reads[t]) = "redeemed"
  BY <1>1 DEF MCEffect, MCResult
<1>6. /\ db'["ticket"] = Absent /\ db'["adopted"] = 0 /\ db'["binding"] = 0
      /\ db'["code"] = db["code"] /\ db'["session"] = db["session"]
  BY <1>1, <1>3, <1>4, <1>5, CommitFacts, Keys DEF Written
<1>7. \A s \in Txn : outcome'[s] = IF s = t THEN "redeemed" ELSE outcome[s]
  BY <1>1, <1>5, CommitFacts DEF TypeOK
<1>8. \A s \in Redeemers \cup Adopters \cup Leavers : s \in Txn
  BY SessionsAssumption DEF MCTxn
<1>9. ~Ended /\ ~Ended'
  <2>1. ~Ended  BY <1>4, SessionsAssumption DEF SessionsInv, OverAfterLogout
  <2>2. QED BY <1>1, <1>7, <1>8, <2>1 DEF Ended
<1>10. RedeemedOnce' /\ Taken(Redeemers, "code")' /\ Taken(Adopters, "ticket")'
  <2>1. \A s \in Adopters : outcome[s] # "redeemed"  BY <1>3 DEF SessionsInv, Taken
  <2>2. \A s \in Redeemers : outcome'[s] = outcome[s]  BY <1>1, <1>7, <1>8
  <2>3. \A s \in Adopters : outcome'[s] = "redeemed" => s = t  BY <1>7, <1>8, <2>1
  <2>4. QED BY <1>6, <2>2, <2>3 DEF SessionsInv, RedeemedOnce, Taken
<1>11. KeysOK' /\ Forward'  BY <1>6 DEF SessionsInv, KeysOK, Forward
<1>12. QED BY <1>9, <1>10, <1>11 DEF SessionsInv, OverAfterLogout

LEMMA LeaveKeeps ==
    ASSUME TypeOK, SessionsInv, NEW t \in Leavers, CommitScript(t), Validated(t),
           ~Rejects(t, reads[t])
    PROVE  SessionsInv'
<1>1. t \in Txn /\ t \notin Redeemers /\ t \notin Adopters
  BY Roles, SessionsAssumption DEF MCTxn
<1>2. {"session", "binding"} \subseteq DOMAIN reads[t]
  BY <1>1, CommitFacts, Paths
<1>3. reads[t]["binding"] = db["binding"]  BY <1>1, <1>2, CommitFacts
<1>4. MCEffect(t, reads[t]) = [k \in {"session", "binding"} |->
                                  IF k = "session" \/ Missing(reads[t], "binding") THEN Absent
                                  ELSE reads[t]["binding"] + 1]
      /\ MCResult(t, reads[t]) = "ended"
  BY <1>1 DEF MCEffect, MCResult
<1>5. /\ db'["session"] = Absent
      /\ db'["binding"] = IF db["binding"] = Absent THEN Absent ELSE db["binding"] + 1
      /\ \A k \in {"code", "ticket", "adopted"} : db'[k] = db[k]
  BY <1>1, <1>2, <1>3, <1>4, CommitFacts, Keys DEF Written, Missing
<1>6. \A s \in Txn : outcome'[s] = IF s = t THEN "ended" ELSE outcome[s]
  BY <1>1, <1>4, CommitFacts DEF TypeOK
<1>7. \A s \in Redeemers \cup Adopters : s \in Txn /\ s # t
  BY <1>1, SessionsAssumption DEF MCTxn
<1>8. KeysOK' /\ Forward' /\ OverAfterLogout'
  <2>1. db["binding"] \in {Absent} \cup Nat /\ db["adopted"] \in {Absent} \cup Nat /\ Forward
    BY DEF SessionsInv, KeysOK
  <2>2. db'["binding"] \in {Absent} \cup Nat
    BY <1>5, <2>1
  <2>3. db'["binding"] # Absent =>
            0 < db'["binding"] /\ (db'["adopted"] # Absent => db'["adopted"] < db'["binding"])
    BY <1>5, <2>1 DEF Forward
  <2>4. QED BY <1>5, <2>1, <2>2, <2>3 DEF SessionsInv, KeysOK, Forward, OverAfterLogout
<1>9. RedeemedOnce' /\ Taken(Redeemers, "code")' /\ Taken(Adopters, "ticket")'
  BY <1>5, <1>6, <1>7 DEF SessionsInv, RedeemedOnce, Taken
<1>10. QED BY <1>8, <1>9 DEF SessionsInv

LEMMA CommitKeeps ==
    ASSUME TypeOK, SessionsInv, NEW t \in Txn, CommitScript(t)
    PROVE  SessionsInv'
<1>1. CASE ~Validated(t)
  BY <1>1 DEF CommitScript, SessionsInv, KeysOK, Forward, RedeemedOnce, OverAfterLogout, Ended,
              Taken
<1>2. CASE Validated(t) /\ Rejects(t, reads[t])
  <2>1. db' = Written(db, Nothing) /\ outcome' = [outcome EXCEPT ![t] = "rejected"]
    BY <1>2, CommitFacts DEF MCEffect, MCResult
  <2>2. db' = db
    BY <2>1, NothingSeen DEF Written, TypeOK, Store
  <2>3. QED BY <2>1, <2>2, RejectedKeeps
<1>3. CASE Validated(t) /\ ~Rejects(t, reads[t])
  BY <1>3, Roles, RedeemKeeps, AdoptKeeps, LeaveKeeps
<1>4. QED BY <1>1, <1>2, <1>3

LEMMA ExpireKeeps ==
    ASSUME TypeOK, SessionsInv, NEW k \in Key, Expire(k)
    PROVE  SessionsInv'
<1>1. db'[k] = Absent /\ \A j \in Key : j # k => db'[j] = db[j]
  BY DEF Expire, TypeOK, Store
<1>2. UNCHANGED outcome  BY DEF Expire
<1>3. KeysOK' /\ Forward' /\ OverAfterLogout'
  BY <1>1, <1>2, Keys DEF SessionsInv, KeysOK, Forward, OverAfterLogout, Ended
<1>4. RedeemedOnce' /\ Taken(Redeemers, "code")' /\ Taken(Adopters, "ticket")'
  BY <1>1, <1>2, Keys DEF SessionsInv, RedeemedOnce, Taken
<1>5. QED BY <1>3, <1>4 DEF SessionsInv

LEMMA SessionsNext == IInv /\ SessionsInv /\ [Next]_vars => SessionsInv'
<1> SUFFICES ASSUME IInv, SessionsInv, [Next]_vars PROVE SessionsInv'
  OBVIOUS
<1>0. TypeOK  BY DEF IInv
<1>1. ASSUME UNCHANGED <<db, outcome>> PROVE SessionsInv'
  BY <1>1 DEF SessionsInv, KeysOK, Forward, RedeemedOnce, OverAfterLogout, Ended, Taken
<1>2. CASE \E t \in Txn : \/ Begin(t) \/ Read(t) \/ Answered(t)
                           \/ Retry(t) \/ Resend(t) \/ Throw(t)
  BY <1>1, <1>2 DEF Begin, Read, Answered, Retry, Resend, Throw, Leaves
<1>3. CASE \E t \in Txn : CommitScript(t)  BY <1>0, <1>3, CommitKeeps
<1>4. CASE \E k \in Key : Expire(k)  BY <1>0, <1>4, ExpireKeeps
<1>5. CASE UNCHANGED vars  BY <1>1, <1>5 DEF vars
<1>6. QED BY <1>2, <1>3, <1>4, <1>5 DEF Next, Proceed

LEMMA SessionsHold == Spec => [](IInv /\ SessionsInv)
<1>1. QED BY InvariantHolds, SessionsInit, SessionsNext, PTL DEF Spec

\* One call at most turns a code into a sign-in, and one a ticket, however many
\* race for it, are refused, resent or fail.  (redeemCode, redeemBootstrapTicket)
THEOREM RedeemedByOne == Spec => []RedeemedOnce
<1>1. SessionsInv => RedeemedOnce  BY DEF SessionsInv
<1>2. QED BY <1>1, SessionsHold, PTL

\* When a logout has been answered, nothing that was under way in the browser ends
\* in a sign-in, with whatever it had read before.  (endBrowserSession)
THEOREM LogoutsAreFinal == Spec => LogoutIsFinal
<1>1. SessionsInv => SignedOutForGood
  <2>1. SUFFICES ASSUME SessionsInv, LoggedOut
                 PROVE  ~SessionActive("session") /\ ~SessionActive("adopted")
    BY DEF SignedOutForGood
  <2>2. Ended  BY <2>1 DEF LoggedOut, Ended
  <2>3. QED BY <2>1, <2>2 DEF SessionsInv, OverAfterLogout, KeysOK, SessionActive
<1> DEFINE Late == LoggedOut => \A t \in Redeemers \cup Adopters :
                       outcome'[t] = "redeemed" => outcome[t] = "redeemed"
<1>2. ASSUME IInv, SessionsInv, [Next]_vars PROVE Late
  <2>0. TypeOK  BY <1>2 DEF IInv
  <2>1. SUFFICES ASSUME LoggedOut, NEW t \in Redeemers \cup Adopters,
                        outcome'[t] = "redeemed", outcome[t] # "redeemed"
                 PROVE  FALSE
    OBVIOUS
  <2>2. t \in Txn /\ Ended
    BY <2>1, SessionsAssumption DEF MCTxn, LoggedOut, Ended
  <2>3. PICK s \in Txn : CommitScript(s) /\ Validated(s)
    BY <1>2, <2>1 DEF Next, Proceed, Begin, Read, CommitScript, Answered, Retry, Resend, Throw,
                      Leaves, Expire, vars
  <2>4. s = t /\ ~Rejects(t, reads[t])
    <3>1. outcome' = [outcome EXCEPT ![s] = MCResult(s, reads[s])]
      BY <2>0, <2>3, CommitFacts
    <3>2. s = t  BY <2>0, <2>1, <2>2, <3>1 DEF TypeOK
    <3>3. MCResult(t, reads[t]) = "redeemed"  BY <2>0, <2>1, <2>2, <3>1, <3>2 DEF TypeOK
    <3>4. QED BY <3>2, <3>3 DEF MCResult
  <2>5. db["session"] = Absent /\ (db["binding"] # Absent => 0 < db["binding"]) /\ KeysOK
    BY <1>2, <2>2 DEF SessionsInv, OverAfterLogout
  <2>6. CASE t \in Redeemers
    <3>1. "session" \in DOMAIN reads[t]  BY <2>0, <2>2, <2>3, <2>4, <2>6, CommitFacts, Paths
    <3>2. reads[t]["session"] = Absent  BY <2>0, <2>2, <2>3, <2>4, <2>5, <3>1, CommitFacts
    <3>3. QED BY <2>4, <2>6, <3>1, <3>2 DEF Rejects, Missing
  <2>7. CASE t \in Adopters
    <3>1. {"ticket", "binding"} \subseteq DOMAIN reads[t]
      BY <2>0, <2>2, <2>3, <2>4, <2>7, CommitFacts, Paths
    <3>2. reads[t]["ticket"] = db["ticket"] /\ reads[t]["binding"] = db["binding"]
      BY <2>0, <2>2, <2>3, <2>4, <3>1, CommitFacts
    <3>3. db["ticket"] # Absent /\ db["binding"] # Absent /\ db["ticket"] = db["binding"]
      BY <2>4, <2>7, <3>1, <3>2 DEF Rejects, Missing, Mismatch
    <3>4. QED BY <2>5, <3>3 DEF KeysOK
  <2>8. QED BY <2>1, <2>6, <2>7
<1>3. IInv /\ SessionsInv /\ [Next]_vars => [Late]_vars  BY <1>2
<1>4. QED BY <1>1, <1>3, SessionsHold, PTL DEF LogoutIsFinal, NothingRedeemedAfterLogout, Spec
=============================================================================

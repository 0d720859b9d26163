---------------------------- MODULE BrowserSsoOcc ----------------------------
(***************************************************************************)
(* The Redis backend of the browser-SSO store, browserSsoRedisStore.ts:     *)
(* optimistic transactions.  An operation reads keys one by one while other *)
(* servers write them; then one Lua script compares every key it read       *)
(* (absent ones too) and, only if none changed, applies all its writes.     *)
(* A refused script starts the operation again, at most MaxAttempts times.  *)
(*                                                                          *)
(* The operations are parameters: NextKey says which key a call reads next  *)
(* given what it has seen, Effect and Result what it then writes and        *)
(* answers.  Records carry no clock: a key may expire whenever MayExpire    *)
(* says so, be it a record just written with a deadline in Redis's past.    *)
(***************************************************************************)
EXTENDS Integers

CONSTANTS
    Txn, Key, Value, Absent, Answer, None, Initially,
    NextKey(_, _), Effect(_, _), Result(_, _),
    MayExpire(_, _), \* deadlines let this key expire in this store
    Enough,         \* NextKey: the operation has read all it needs
    MaxAttempts,    \* 64 in the code
    MaxResends      \* maxRetriesPerRequest of the Redis client: 1

Store == [Key -> Value]
Seen  == UNION {[S -> Value] : S \in SUBSET Key}

ASSUME ConstantAssumption ==
    /\ Absent \in Value
    /\ None \notin Answer
    /\ Enough \notin Key
    /\ Initially \subseteq Store
    /\ MaxAttempts \in Nat \ {0} /\ MaxResends \in Nat

\* An operation is code that sees the store only through get and set, and set
\* reads the key first: it asks for new keys until it has enough, writes only
\* keys it has read, and what it does depends on nothing it has not read.
ASSUME OperationAssumption ==
    \A t \in Txn, d \in Store, S \in SUBSET Key :
        LET seen == [k \in S |-> d[k]]
        IN  /\ NextKey(t, seen) \in (Key \ S) \cup {Enough}
            /\ NextKey(t, seen) = Enough =>
                   /\ Effect(t, seen) \in Seen
                   /\ DOMAIN Effect(t, seen) \subseteq S
                   /\ Result(t, seen) \in Answer
                   /\ Effect(t, d) = Effect(t, seen)
                   /\ Result(t, d) = Result(t, seen)

VARIABLES
    db,         \* the keys of the browser-sso hash slot
    pc,         \* where a call of run stands
    reads,      \* the read set of the current attempt
    attempts,   \* attempts that were refused
    resends,    \* times the client sent the current script again
    outcome,    \* history: the answer of the last attempt whose writes were applied
    changes     \* history: changes of the store since the call began
vars == <<db, pc, reads, attempts, resends, outcome, changes>>

Nothing == [k \in {} |-> Absent]
With(seen, k, v) == [x \in DOMAIN seen \cup {k} |-> IF x = k THEN v ELSE seen[x]]
Written(old, writes) ==
    [k \in Key |-> IF k \in DOMAIN writes THEN writes[k] ELSE old[k]]

\* Every call that is under way sees the store change; MaxAttempts bounds the count.
Counted(changed) ==
    [t \in Txn |-> IF changed /\ pc[t] \notin {"idle", "answered", "failed"}
                      /\ changes[t] < MaxAttempts
                   THEN changes[t] + 1 ELSE changes[t]]

Init ==
    /\ db \in Initially
    /\ pc = [t \in Txn |-> "idle"]
    /\ reads = [t \in Txn |-> Nothing]
    /\ attempts = [t \in Txn |-> 0]
    /\ resends = [t \in Txn |-> 0]
    /\ outcome = [t \in Txn |-> None]
    /\ changes = [t \in Txn |-> 0]

Begin(t) ==
    /\ pc[t] = "idle"
    /\ pc' = [pc EXCEPT ![t] = "reading"]
    /\ UNCHANGED <<db, reads, attempts, resends, outcome, changes>>

\* client.get of a key that this attempt has not read yet.
Read(t) ==
    /\ pc[t] = "reading"
    /\ LET k == NextKey(t, reads[t])
       IN  /\ k # Enough
           /\ reads' = [reads EXCEPT ![t] = With(@, k, db[k])]
    /\ UNCHANGED <<db, pc, attempts, resends, outcome, changes>>

\* Mutant: only the keys that are written are compared.
Validated_WritesOnly(t) ==
    \A k \in DOMAIN Effect(t, reads[t]) : db[k] = reads[t][k]

\* Mutant: absent keys are not compared.
Validated_AbsentSkipped(t) ==
    \A k \in DOMAIN reads[t] : reads[t][k] # Absent => db[k] = reads[t][k]

Validated(t) == \A k \in DOMAIN reads[t] : db[k] = reads[t][k]

\* The operation has returned and COMMIT_SCRIPT runs in Redis: compare, then write.
CommitScript(t) ==
    /\ pc[t] = "reading" /\ NextKey(t, reads[t]) = Enough
    /\ IF Validated(t)
       THEN /\ db' = Written(db, Effect(t, reads[t]))
            /\ outcome' = [outcome EXCEPT ![t] = Result(t, reads[t])]
            /\ pc' = [pc EXCEPT ![t] = "committed"]
            /\ changes' = Counted(db' # db)
       ELSE /\ pc' = [pc EXCEPT ![t] = "refused"]
            /\ UNCHANGED <<db, outcome, changes>>
    /\ UNCHANGED <<reads, attempts, resends>>

\* run is over and its variables are gone; nobody counts changes for it any more.
Leaves(t, place) ==
    /\ pc' = [pc EXCEPT ![t] = place]
    /\ reads' = [reads EXCEPT ![t] = Nothing]
    /\ attempts' = [attempts EXCEPT ![t] = 0]
    /\ resends' = [resends EXCEPT ![t] = 0]
    /\ changes' = [changes EXCEPT ![t] = 0]
    /\ UNCHANGED <<db, outcome>>

\* committed === 1: run answers.
Answered(t) == pc[t] = "committed" /\ Leaves(t, "answered")

\* Mutant: the loop has no limit, and the read set outlives the attempt.
Retry_Forever(t) ==
    /\ pc[t] = "refused"
    /\ pc' = [pc EXCEPT ![t] = "reading"]
    /\ resends' = [resends EXCEPT ![t] = 0]
    /\ UNCHANGED <<db, reads, attempts, outcome, changes>>

\* Mutant: a refused attempt is answered all the same.
Retry_Ignored(t) ==
    /\ pc[t] = "refused"
    /\ outcome' = [outcome EXCEPT ![t] = Result(t, reads[t])]
    /\ pc' = [pc EXCEPT ![t] = "answered"]
    /\ UNCHANGED <<db, reads, attempts, resends, changes>>

\* committed === 0: a new attempt with an empty read set, or the contention error.
Retry(t) ==
    /\ pc[t] = "refused"
    /\ attempts' = [attempts EXCEPT ![t] = @ + 1]
    /\ pc' = [pc EXCEPT ![t] = IF attempts'[t] < MaxAttempts THEN "reading" ELSE "failed"]
    /\ reads' = [reads EXCEPT ![t] = Nothing]
    /\ resends' = [resends EXCEPT ![t] = 0]
    /\ UNCHANGED <<db, outcome, changes>>

\* The connection drops before the reply arrives: the client cannot tell whether
\* the script ran, and sends it again once it has reconnected.
Resend(t) ==
    /\ pc[t] \in {"committed", "refused"}
    /\ resends[t] < MaxResends
    /\ pc' = [pc EXCEPT ![t] = "reading"]
    /\ resends' = [resends EXCEPT ![t] = @ + 1]
    /\ UNCHANGED <<db, reads, attempts, outcome, changes>>

\* A get or the script fails for good: run throws, whatever Redis did.
Throw(t) ==
    /\ pc[t] \in {"reading", "committed", "refused"}
    /\ Leaves(t, "failed")

\* Redis drops a key whose PXAT deadline has passed.
Expire(k) ==
    /\ db[k] # Absent /\ MayExpire(k, db)
    /\ db' = [db EXCEPT ![k] = Absent]
    /\ changes' = Counted(TRUE)
    /\ UNCHANGED <<pc, reads, attempts, resends, outcome>>

Proceed(t) == Begin(t) \/ Read(t) \/ CommitScript(t) \/ Answered(t) \/ Retry(t)

Next ==
    \/ \E t \in Txn : Proceed(t) \/ Resend(t) \/ Throw(t)
    \/ \E k \in Key : Expire(k)

\* Node runs every call on as long as Redis answers; nothing makes a record
\* expire or a connection drop.
Fairness == \A t \in Txn : WF_vars(Proceed(t))

Spec == Init /\ [][Next]_vars /\ Fairness

(***************************************************************************)
(* Properties of every instance.                                            *)
(***************************************************************************)
Over(t) == pc[t] \in {"answered", "failed"}

\* The backend's state is well typed; in particular a script never carries a
\* read set the operation had not finished, nor a count beyond its limit.
TypeOK ==
    /\ db \in Store
    /\ pc \in [Txn -> {"idle", "reading", "committed", "refused", "answered", "failed"}]
    /\ reads \in [Txn -> Seen]
    /\ \A t \in Txn : pc[t] \in {"committed", "refused"} =>
                          NextKey(t, reads[t]) = Enough
    /\ attempts \in [Txn -> 0..MaxAttempts] /\ resends \in [Txn -> 0..MaxResends]
    /\ outcome \in [Txn -> Answer \cup {None}]
    /\ changes \in [Txn -> 0..MaxAttempts]

\* An attempt is refused only because the store changed during it: the
\* contention error after 64 attempts takes 64 changes by others, expiries, or
\* the call's own write whose reply was lost.
RefusedOnlyByChange == \A t \in Txn : attempts[t] <= changes[t]

\* Every call of run comes to an end, however the others interleave.
Settles == \A t \in Txn : pc[t] = "reading" ~> Over(t)

Backend == INSTANCE AtomicTransactions WITH
    phase <- [t \in Txn |-> IF pc[t] \in {"idle", "answered", "failed"} THEN pc[t]
                            ELSE "running"]

\* The optimistic loop implements one-at-a-time transactions: each call takes
\* effect on the store it finds at one instant, whatever was written while it
\* read, and a reply that is lost does not make it take effect in part.
ImplementsAtomicTransactions == Backend!Spec
=============================================================================

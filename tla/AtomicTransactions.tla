------------------------- MODULE AtomicTransactions -------------------------
(***************************************************************************)
(* What createBrowserSsoStore relies on (BrowserSsoBackend.run): an         *)
(* operation takes effect on the records as if nothing else ran meanwhile,  *)
(* or not at all, and what it answers is what it found then.  A caller may  *)
(* be told of a failure although the operation took effect, and an          *)
(* operation whose answer was lost may take effect once more.               *)
(***************************************************************************)
CONSTANTS
    Txn,            \* calls of backend.run
    Key, Value,     \* record keys, and what a key can hold
    Absent,         \* the value of a key that holds nothing
    Answer,         \* what an operation can answer
    None,           \* no answer yet
    Initially,      \* the stores to start from
    Effect(_, _),   \* what a call writes, given what it reads
    Result(_, _)    \* what a call answers, given what it reads

VARIABLES db, phase, outcome
vars == <<db, phase, outcome>>

Store == [Key -> Value]
Written(old, writes) ==
    [k \in Key |-> IF k \in DOMAIN writes THEN writes[k] ELSE old[k]]

Init ==
    /\ db \in Initially
    /\ phase = [t \in Txn |-> "idle"]
    /\ outcome = [t \in Txn |-> None]

Start(t) ==
    /\ phase[t] = "idle"
    /\ phase' = [phase EXCEPT ![t] = "running"]
    /\ UNCHANGED <<db, outcome>>

Execute(t) ==
    /\ phase[t] = "running"
    /\ db' = Written(db, Effect(t, db))
    /\ outcome' = [outcome EXCEPT ![t] = Result(t, db)]
    /\ UNCHANGED phase

Return(t) ==
    /\ phase[t] = "running" /\ outcome[t] # None
    /\ phase' = [phase EXCEPT ![t] = "answered"]
    /\ UNCHANGED <<db, outcome>>

Fail(t) ==
    /\ phase[t] = "running"
    /\ phase' = [phase EXCEPT ![t] = "failed"]
    /\ UNCHANGED <<db, outcome>>

Expire(k) ==
    /\ db' = [db EXCEPT ![k] = Absent]
    /\ UNCHANGED <<phase, outcome>>

Next ==
    \/ \E t \in Txn : Start(t) \/ Execute(t) \/ Return(t) \/ Fail(t)
    \/ \E k \in Key : Expire(k)

Spec == Init /\ [][Next]_vars
=============================================================================

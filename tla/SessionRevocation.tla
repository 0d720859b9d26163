-------------------------- MODULE SessionRevocation --------------------------
(***************************************************************************)
(* server/src/sessionRevocationStore.ts, and its Redis counterpart: which    *)
(* access tokens (by jti) were signed out.  POST /logout revokes the token   *)
(* of the request until it expires, POST /session-revocations/check answers  *)
(* the gates.  The file store keeps one file per jti, which holds the expiry *)
(* time; every file operation is a step of its own.                          *)
(***************************************************************************)
EXTENDS Integers, Sequences, FiniteSets

CONSTANTS
    Jti, NoJti,   \* access tokens, and a token that is none
    Expiry,       \* when each expires
    Caller,       \* requests the server may be serving at once
    MaxTime, MaxCrash  \* bounds: the clock, crashes of the server

ASSUME RevocationAssumption == Expiry \in [Jti -> Nat \ {0}] /\ MaxTime \in Nat

VARIABLES
    backend,    \* "file" or "redis"
    entry,      \* per jti: no entry, a file without its contents, or an expiry time
    calls,      \* the requests being served
    returned,   \* jtis whose revocation was answered
    disturbed,  \* jtis whose file was read, or left by a crash, while it was written
    now, crashes
revocationVars == <<backend, entry, calls, returned, disturbed, now, crashes>>

NoEntry == -1
Empty == 0
Serving(at, jti, since) == [at |-> at, jti |-> jti, since |-> since]
Free == Serving("free", NoJti, 0)

RevocationInit ==
    /\ backend \in {"file", "redis"}
    /\ entry = [j \in Jti |-> NoEntry] /\ calls = [c \in Caller |-> Free]
    /\ returned = {} /\ disturbed = {} /\ now = 1 /\ crashes = 0

Set(c, call) == calls' = [calls EXCEPT ![c] = call]

\* revokeRequestAccessToken: a valid token of this issuer; 'w' empties the file.
Revoke(c, j) ==
    /\ calls[c] = Free /\ now < Expiry[j]
    /\ IF backend = "redis"
       THEN /\ entry' = [entry EXCEPT ![j] = Expiry[j]]
            /\ returned' = returned \cup {j} /\ UNCHANGED calls
       ELSE /\ entry' = [entry EXCEPT ![j] = Empty]
            /\ Set(c, Serving("writing", j, now))
            /\ UNCHANGED returned
    /\ UNCHANGED <<backend, disturbed, now, crashes>>

\* The contents reach the file that was opened, which may have been removed since.
WriteExpiry(c) ==
    /\ calls[c].at \in {"writing", "writingRemoved"}
    /\ entry' = IF calls[c].at = "writing"
                THEN [entry EXCEPT ![calls[c].jti] = Expiry[calls[c].jti]] ELSE entry
    /\ returned' = returned \cup {calls[c].jti}
    /\ Set(c, Free)
    /\ UNCHANGED <<backend, disturbed, now, crashes>>

\* Mutant: the sweep takes a file whose token expires later for an expired one.
Live_Early(e) == e = Empty \/ e > now + 1

\* pruneExpiredTimestampFiles leaves a file alone that holds no number.
Live(e) == e = Empty \/ e > now

Pruned == [j \in Jti |-> IF Live(entry[j]) THEN entry[j] ELSE NoEntry]

\* isRevoked, of any token, with or without the sweep.
Check(c, j) ==
    /\ calls[c] = Free
    /\ IF backend = "redis"
       THEN UNCHANGED <<entry, calls>>
       ELSE /\ entry' \in {entry, Pruned}
            /\ Set(c, Serving("reading", j, now))
    /\ UNCHANGED <<backend, returned, disturbed, now, crashes>>

ReadEntry(c) ==
    /\ calls[c].at = "reading"
    /\ LET read == entry[calls[c].jti]
       IN IF read = Empty \/ (read # NoEntry /\ read <= calls[c].since)
          THEN /\ Set(c, Serving("removing", calls[c].jti, calls[c].since))
               /\ disturbed' = IF read = Empty THEN disturbed \cup {calls[c].jti} ELSE disturbed
          ELSE Set(c, Free) /\ UNCHANGED disturbed  \* revoked iff there is one
    /\ UNCHANGED <<backend, entry, returned, now, crashes>>

\* rm, of whatever file has that name by now; the answer is "not revoked".
RemoveEntry(c) ==
    /\ calls[c].at = "removing"
    /\ entry' = [entry EXCEPT ![calls[c].jti] = NoEntry]
    /\ calls' = [d \in Caller |->
                   IF d = c THEN Free
                   ELSE IF calls[d].at = "writing" /\ calls[d].jti = calls[c].jti
                   THEN Serving("writingRemoved", calls[d].jti, calls[d].since)
                   ELSE calls[d]]
    /\ UNCHANGED <<backend, returned, disturbed, now, crashes>>

RevocationTick ==
    /\ now < MaxTime /\ now' = now + 1
    /\ entry' = IF backend = "redis" THEN [j \in Jti |-> IF entry[j] > now' THEN entry[j] ELSE NoEntry]
                ELSE entry
    /\ UNCHANGED <<backend, calls, returned, disturbed, crashes>>

RevocationCrash ==
    /\ crashes < MaxCrash /\ crashes' = crashes + 1
    /\ disturbed' = disturbed \cup {calls[c].jti : c \in {d \in Caller : calls[d].at = "writing"}}
    /\ calls' = [c \in Caller |-> Free]
    /\ UNCHANGED <<backend, entry, returned, now>>

RevocationNext ==
    \/ \E c \in Caller, j \in Jti : Revoke(c, j) \/ Check(c, j)
    \/ \E c \in Caller : WriteExpiry(c) \/ ReadEntry(c) \/ RemoveEntry(c)
    \/ RevocationTick \/ RevocationCrash

RevocationSpec == RevocationInit /\ [][RevocationNext]_revocationVars

(***************************************************************************)
(* Properties                                                               *)
(***************************************************************************)
RevocationTypeOK ==
    /\ backend \in {"file", "redis"} /\ now \in Nat \ {0}
    /\ entry \in [Jti -> Int]
    /\ \A j \in Jti : entry[j] \in {NoEntry, Empty, Expiry[j]}
    /\ calls \in [Caller -> [at : {"free", "writing", "writingRemoved", "reading",
                                   "removing"},
                             jti : Jti \cup {NoJti}, since : Nat]]
    /\ \A c \in Caller : /\ calls[c].at # "free" => calls[c].jti \in Jti
                        /\ calls[c].since <= now
    /\ returned \subseteq Jti

BeingWritten(j) == \E c \in Caller : calls[c].at = "writing" /\ calls[c].jti = j

\* A sign-out that was answered is in the store until the token expires, whatever
\* checks and sweeps run and however often the server restarts, unless a check or
\* a crash came upon its file between the opening and the writing of it.
SignOutKept ==
    \A j \in returned \ disturbed :
        now < Expiry[j] /\ ~BeingWritten(j) => entry[j] = Expiry[j]

\* docs/security-controls.md:119: "Revocation entries live until the JWT expiry".
\* They do not: isRevoked removes a file it reads before revoke has written it.
EntriesLiveUntilExpiry ==
    \A j \in returned : now < Expiry[j] => entry[j] # NoEntry
=============================================================================

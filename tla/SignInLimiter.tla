----------------------------- MODULE SignInLimiter -----------------------------
(***************************************************************************)
(* The limiters, for one key: server/src/perEmailSignInLimiter.ts (sign-in   *)
(* mails of one address) and gate/src/rateLimit.ts (requests of one peer).   *)
(* The file limiter counts, then writes a record file; the server's          *)
(* in-memory one is synchronous; with Redis, both sides read their clock and *)
(* send one and the same script; the gate's in-memory one counts in windows  *)
(* that do not slide.                                                        *)
(***************************************************************************)
EXTENDS Integers, FiniteSets

CONSTANTS
    SignInEmailRateLimitMax, RateLimitWindow,
    Request,                   \* calls of consume that may be served at once
    MaxAttempts, MaxClock      \* bounds: attempts recorded, the clock

\* The configuration's schema admits positive integers only.
ASSUME LimiterAssumption ==
    /\ SignInEmailRateLimitMax \in Nat \ {0} /\ RateLimitWindow \in Nat \ {0}
    /\ MaxAttempts \in Nat /\ MaxClock \in Nat

VARIABLES
    limiter,     \* which one it is
    records,     \* recorded attempts: number, and time or no contents yet
    gateWindow,  \* the gate's window: when it began, attempts in it
    consume,     \* the calls of consume under way
    passed,      \* attempts let through
    disordered,  \* two calls of the file limiter were under way at once, or a
                 \* script of one server overtook an earlier one of another
    clock
limiterVars == <<limiter, records, gateWindow, consume, passed, disordered, clock>>

NotANumber == -1
NoWindow == [windowStartMs |-> NotANumber, count |-> 0]
Waiting == [at |-> "none", nowMs |-> 0, seen |-> {}, number |-> 0]

LimiterInit ==
    /\ limiter \in {"file", "memory", "redis", "gate"}
    /\ records = {} /\ gateWindow = NoWindow /\ passed = {}
    /\ consume = [r \in Request |-> Waiting] /\ disordered = FALSE /\ clock = 1

\* Mutant: the window is one unit of time short.
Recent_Short(record, nowMs) ==
    record.time # NotANumber /\ record.time > nowMs - RateLimitWindow + 1

Recent(record, nowMs) == record.time # NotANumber /\ record.time > nowMs - RateLimitWindow

RecentAttempts(nowMs) == {a \in records : Recent(a, nowMs)}

\* Every attempt recorded is another one, one that was refused in the end included.
Unused ==
    (1..MaxAttempts) \ ({a.number : a \in records \cup passed} \cup {consume[r].number : r \in Request})

NextNumber == CHOOSE n \in Unused : TRUE

Passed(number, time) == passed' = passed \cup {[number |-> number, time |-> time]}

\* createInMemoryPerEmailSignInLimiter.
ConsumeAtOnce ==
    /\ limiter = "memory" /\ Unused # {}
    /\ IF Cardinality(RecentAttempts(clock)) >= SignInEmailRateLimitMax
       THEN records' = RecentAttempts(clock) /\ UNCHANGED passed
       ELSE /\ records' = RecentAttempts(clock) \cup {[number |-> NextNumber, time |-> clock]}
            /\ Passed(NextNumber, clock)
    /\ UNCHANGED <<limiter, gateWindow, consume, disordered, clock>>

\* createInMemoryGateRateLimiter: an entry that is too old is pruned first.
PruneExpiredEntries ==
    IF gateWindow # NoWindow /\ clock - gateWindow.windowStartMs >= RateLimitWindow
    THEN NoWindow ELSE gateWindow

ConsumeInGate ==
    /\ limiter = "gate" /\ Unused # {}
    /\ LET pruned == PruneExpiredEntries
       IN  \/ /\ pruned = NoWindow
              /\ gateWindow' = [windowStartMs |-> clock, count |-> 1] /\ Passed(NextNumber, clock)
           \/ /\ pruned # NoWindow /\ pruned.count < SignInEmailRateLimitMax
              /\ gateWindow' = [pruned EXCEPT !.count = @ + 1] /\ Passed(NextNumber, clock)
           \/ /\ pruned # NoWindow /\ pruned.count >= SignInEmailRateLimitMax
              /\ gateWindow' = pruned /\ UNCHANGED passed
    /\ UNCHANGED <<limiter, records, consume, disordered, clock>>

\* With Redis: the clock is read when the script is sent ...
SendScript(r) ==
    /\ limiter = "redis" /\ consume[r] = Waiting
    /\ consume' = [consume EXCEPT ![r] = [Waiting EXCEPT !.at = "asking", !.nowMs = clock]]
    /\ UNCHANGED <<limiter, records, gateWindow, passed, disordered, clock>>

\* ... and used when it runs, by the server's script and by the gate's alike: the
\* attempts that are too old are removed, and room is left for one or not.
ScriptAllows(nowMs) == Cardinality(RecentAttempts(nowMs)) < SignInEmailRateLimitMax

LetThrough(r, number) ==
    Passed(number, consume[r].nowMs) /\ consume' = [consume EXCEPT ![r] = Waiting]

\* A script whose reply was lost is sent once more, with the same member, and may
\* then be refused on account of itself.
RunScript(r) ==
    LET call == consume[r]
        number == IF call.at = "asking" THEN NextNumber ELSE call.number
        recent == RecentAttempts(call.nowMs)
    IN /\ call.at \in {"asking", "asking again"} /\ (call.at = "asking" => Unused # {})
       /\ IF ScriptAllows(call.nowMs)
          THEN /\ records' = recent \cup {[number |-> number, time |-> call.nowMs]}
               /\ \/ LetThrough(r, number)
                  \/ /\ call.at = "asking" /\ UNCHANGED passed
                     /\ consume' = [consume EXCEPT ![r].at = "asking again", ![r].number = number]
          ELSE /\ records' = recent /\ UNCHANGED passed
               /\ consume' = [consume EXCEPT ![r] = Waiting]
       /\ disordered' = (disordered \/ \E s \in Request :
                            consume[s] # Waiting /\ consume[s].nowMs < call.nowMs)
       /\ UNCHANGED <<limiter, gateWindow, clock>>

\* With files, collectRecentTimestamps reads every record file of the address ...
CountRecords(r) ==
    /\ limiter = "file" /\ consume[r] = Waiting
    /\ consume' = [consume EXCEPT
           ![r] = [Waiting EXCEPT !.at = "sweeping", !.nowMs = clock, !.seen = records]]
    /\ disordered' = (disordered \/ \E s \in Request : consume[s] # Waiting)
    /\ UNCHANGED <<limiter, records, gateWindow, passed, clock>>

\* ... and removes the old ones, and those it could not read a number from.
SweepRecords(r) ==
    LET call == consume[r]
        recent == {a \in call.seen : Recent(a, call.nowMs)}
    IN /\ call.at = "sweeping"
       /\ records' = {a \in records : a.number \notin {b.number : b \in call.seen \ recent}}
       /\ IF Cardinality(recent) >= SignInEmailRateLimitMax
          THEN consume' = [consume EXCEPT ![r] = Waiting]
          ELSE consume' = [consume EXCEPT ![r].at = "passing"]
       /\ UNCHANGED <<limiter, gateWindow, passed, disordered, clock>>

CreateRecord(r) ==
    /\ consume[r].at = "passing" /\ Unused # {}
    /\ records' = records \cup {[number |-> NextNumber, time |-> NotANumber]}
    /\ consume' = [consume EXCEPT ![r].at = "writing", ![r].number = NextNumber]
    /\ UNCHANGED <<limiter, gateWindow, passed, disordered, clock>>

WriteRecord(r) ==
    LET call == consume[r]
        empty == [number |-> call.number, time |-> NotANumber]
    IN /\ call.at = "writing"
       /\ records' = IF empty \in records
                     THEN (records \ {empty}) \cup {[empty EXCEPT !.time = call.nowMs]} ELSE records
       /\ Passed(call.number, call.nowMs)
       /\ consume' = [consume EXCEPT ![r] = Waiting]
       /\ UNCHANGED <<limiter, gateWindow, disordered, clock>>

LimiterTick ==
    /\ clock < MaxClock /\ clock' = clock + 1
    /\ UNCHANGED <<limiter, records, gateWindow, consume, passed, disordered>>

LimiterNext ==
    \/ ConsumeAtOnce \/ ConsumeInGate \/ LimiterTick
    \/ \E r \in Request :
           \/ SendScript(r) \/ RunScript(r)
           \/ CountRecords(r) \/ SweepRecords(r) \/ CreateRecord(r) \/ WriteRecord(r)

LimiterSpec == LimiterInit /\ [][LimiterNext]_limiterVars

(***************************************************************************)
(* Properties                                                               *)
(***************************************************************************)
\* As long as no two calls of the file limiter overlap and no script overtakes
\* another, no window of time, wherever it begins, holds more attempts than the
\* limit, whatever was swept in between and whichever reply was lost; the gate's
\* windows, which do not slide, let up to twice as many through.
LimitHoldsInEveryWindow ==
    ~disordered =>
        \A p \in passed :
            Cardinality({q \in passed : q.time <= p.time /\ q.time > p.time - RateLimitWindow})
                <= SignInEmailRateLimitMax * (IF limiter = "gate" THEN 2 ELSE 1)
=============================================================================

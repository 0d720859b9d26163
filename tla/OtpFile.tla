-------------------------------- MODULE OtpFile --------------------------------
(***************************************************************************)
(* server/src/otpChallengeStore.ts: the files of the one-time codes of one   *)
(* rotation key (an address at a site), operation by operation.  EmailGrant  *)
(* takes create and verify as atomic; here are the lock file that is to make *)
(* them so, which expires after ten seconds, and what a crash leaves.        *)
(***************************************************************************)
EXTENDS Integers, FiniteSets

CONSTANTS
    Challenge,    \* challenges that may be created
    Attempts, \* attemptsRemaining of a new one
    Worker,       \* requests being served
    NoChallenge,
    MaxHalts, MaxGuesses  \* bounds: crashes, verifications

ASSUME OtpFileAssumption == Attempts \in Nat \ {0} /\ NoChallenge \notin Challenge \cup Worker

VARIABLES
    otpLock,    \* the lock file, and whether it is older than ten seconds
    stored,     \* per challenge: no file, a torn file, or the attempts remaining
    active,     \* the rotation pointer
    worker,     \* the calls under way
    wrong,      \* per challenge: wrong codes answered as such
    accepted,   \* per challenge: right codes accepted
    issued,     \* challenges created so far
    takenOver,  \* some lock file was removed as stale while its maker ran, or twice
    halts
otpVars == <<otpLock, stored, active, worker, wrong, accepted, issued, takenOver, halts>>

NoFile == -1
TornFile == -2
Contents == {NoFile, TornFile} \cup 1 .. Attempts
NoLock == [by |-> NoChallenge, old |-> FALSE]
Work(at, c, code, before, read) ==
    [at |-> at, for |-> c, code |-> code, before |-> before, read |-> read]
Resting == Work("resting", NoChallenge, "none", NoChallenge, 0)

OtpInit ==
    /\ otpLock = NoLock /\ active = NoChallenge /\ takenOver = FALSE /\ halts = 0
    /\ stored = [c \in Challenge |-> NoFile] /\ worker = [w \in Worker |-> Resting]
    /\ wrong = [c \in Challenge |-> 0] /\ accepted = [c \in Challenge |-> 0] /\ issued = {}

Move(w, call) == worker' = [worker EXCEPT ![w] = call]
At(w, where) ==
    Move(w, Work(where, worker[w].for, worker[w].code, worker[w].before, worker[w].read))
Verifications == {w \in Worker : worker[w].code # "none"}
Answered(c) == wrong[c] + accepted[c]

\* create: the sweep before it throws at a file that does not parse.
StartCreate(w, c) ==
    /\ worker[w] = Resting /\ c \notin issued
    /\ \A d \in Challenge : stored[d] # TornFile
    /\ issued' = issued \cup {c}
    /\ Move(w, Work("locking", c, "none", NoChallenge, 0))
    /\ UNCHANGED <<otpLock, stored, active, wrong, accepted, takenOver, halts>>

\* verify: the first read, outside the lock, is only for the rotation key.
StartVerify(w, c, code) ==
    /\ worker[w] = Resting /\ stored[c] \notin {NoFile, TornFile}
    /\ Answered(c) + Cardinality(Verifications) < MaxGuesses
    /\ Move(w, Work("locking", c, code, NoChallenge, 0))
    /\ UNCHANGED <<otpLock, stored, active, wrong, accepted, issued, takenOver, halts>>

\* Under the lock a verification reads on, and a creation writes.
Begins(w) ==
    Move(w, Work(IF worker[w].code = "none" THEN "write" ELSE "check",
                 worker[w].for, worker[w].code, active, worker[w].read))

\* Mutant: the lock file is opened without the exclusive flag.
TakeOtpLock_Shared(w) ==
    /\ worker[w].at = "locking"
    /\ otpLock' = [by |-> w, old |-> FALSE]
    /\ Begins(w)
    /\ UNCHANGED <<stored, active, wrong, accepted, issued, takenOver, halts>>

\* tryCreateLockFile
TakeOtpLock(w) ==
    /\ worker[w].at = "locking" /\ otpLock = NoLock
    /\ otpLock' = [by |-> w, old |-> FALSE]
    /\ Begins(w)
    /\ UNCHANGED <<stored, active, wrong, accepted, issued, takenOver, halts>>

\* A lock file more than ten seconds old: its maker is dead, or slow.
OtpLockAges ==
    /\ otpLock # NoLock /\ ~otpLock.old
    /\ otpLock' = [by |-> otpLock.by, old |-> TRUE]
    /\ UNCHANGED <<stored, active, worker, wrong, accepted, issued, takenOver, halts>>

\* removeStaleLockFile: stat ...
StatOtpLock(w) ==
    /\ worker[w].at = "locking" /\ otpLock.old
    /\ At(w, "removing")
    /\ UNCHANGED <<otpLock, stored, active, wrong, accepted, issued, takenOver, halts>>

Held(w) == worker[w].at \in {"check", "judge", "write", "point", "drop", "forget", "recount", "unlock"}

\* ... then rm, of whatever lock file there is by now.
RemoveOtpLock(w) ==
    /\ worker[w].at = "removing"
    /\ otpLock' = NoLock /\ At(w, "locking")
    /\ takenOver' = (takenOver \/ (otpLock # NoLock /\ Held(otpLock.by)))
    /\ UNCHANGED <<stored, active, wrong, accepted, issued, halts>>

\* A hundred attempts, five milliseconds apart.
GiveUp(w) ==
    /\ worker[w].at = "locking" /\ otpLock # NoLock
    /\ Move(w, Resting)
    /\ UNCHANGED <<otpLock, stored, active, wrong, accepted, issued, takenOver, halts>>

(***************************************************************************)
(* create, under the lock                                                   *)
(***************************************************************************)
WriteChallenge(w) ==
    /\ worker[w].at = "write"
    /\ stored' = [stored EXCEPT ![worker[w].for] = Attempts]
    /\ At(w, "point")
    /\ UNCHANGED <<otpLock, active, wrong, accepted, issued, takenOver, halts>>

\* replaceActiveChallengeId: a temporary file and a rename.
PointTo(w) ==
    /\ worker[w].at = "point"
    /\ active' = worker[w].for
    /\ At(w, "drop")
    /\ UNCHANGED <<otpLock, stored, wrong, accepted, issued, takenOver, halts>>

DropPrevious(w) ==
    /\ worker[w].at = "drop"
    /\ stored' = IF worker[w].before = NoChallenge THEN stored
                 ELSE [stored EXCEPT ![worker[w].before] = NoFile]
    /\ At(w, "unlock")
    /\ UNCHANGED <<otpLock, active, wrong, accepted, issued, takenOver, halts>>

(***************************************************************************)
(* verify, under the lock                                                   *)
(***************************************************************************)
IsActive(c) == active = c

\* The challenge is read again, then the pointer.
ReadAgain(w) ==
    /\ worker[w].at = "check"
    /\ Move(w, Work("judge", worker[w].for, worker[w].code, worker[w].before,
                    stored[worker[w].for]))
    /\ UNCHANGED <<otpLock, stored, active, wrong, accepted, issued, takenOver, halts>>

Ends(call) == call.code = "right" \/ call.read <= 1

\* Gone, no longer the active one, a code that ends it, or a wrong code with
\* attempts left: writeFile first empties the file.
JudgeCode(w) ==
    LET c == worker[w].for
        found == worker[w].read \notin {NoFile, TornFile}
    IN /\ worker[w].at = "judge"
       /\ \/ /\ ~found
             /\ At(w, "unlock") /\ UNCHANGED <<stored, wrong, accepted>>
          \/ /\ found /\ ~IsActive(c)
             /\ stored' = [stored EXCEPT ![c] = NoFile]
             /\ At(w, "unlock") /\ UNCHANGED <<wrong, accepted>>
          \/ /\ found /\ IsActive(c) /\ Ends(worker[w])
             /\ stored' = [stored EXCEPT ![c] = NoFile]
             /\ At(w, "forget")
             /\ wrong' = [wrong EXCEPT ![c] = IF worker[w].code = "wrong" THEN @ + 1 ELSE @]
             /\ accepted' = [accepted EXCEPT ![c] = IF worker[w].code = "right" THEN @ + 1 ELSE @]
          \/ /\ found /\ IsActive(c) /\ ~Ends(worker[w])
             /\ stored' = [stored EXCEPT ![c] = TornFile]
             /\ At(w, "recount") /\ UNCHANGED <<wrong, accepted>>
       /\ UNCHANGED <<otpLock, active, issued, takenOver, halts>>

\* The rest of writeFile.
Recount(w) ==
    LET c == worker[w].for
    IN /\ worker[w].at = "recount"
       /\ stored' = [stored EXCEPT ![c] = worker[w].read - 1]
       /\ wrong' = [wrong EXCEPT ![c] = @ + 1]
       /\ At(w, "unlock")
       /\ UNCHANGED <<otpLock, active, accepted, issued, takenOver, halts>>

\* removeChallengeAndPointer: the pointer goes if it still names the challenge.
ForgetPointer(w) ==
    /\ worker[w].at = "forget"
    /\ active' = IF active = worker[w].for THEN NoChallenge ELSE active
    /\ At(w, "unlock")
    /\ UNCHANGED <<otpLock, stored, wrong, accepted, issued, takenOver, halts>>

\* finally: rm, of whatever lock file there is.
ReleaseOtpLock(w) ==
    /\ worker[w].at = "unlock"
    /\ otpLock' = NoLock
    /\ takenOver' = (takenOver \/ (otpLock # NoLock /\ otpLock.by # w))
    /\ Move(w, Resting)
    /\ UNCHANGED <<stored, active, wrong, accepted, issued, halts>>

\* The server dies; the lock file, and a file emptied but not written, stay.
Halt ==
    /\ halts < MaxHalts /\ halts' = halts + 1
    /\ worker' = [w \in Worker |-> Resting]
    /\ UNCHANGED <<otpLock, stored, active, wrong, accepted, issued, takenOver>>

\* Bound: what follows the removal of a lock file that was still in use.
OtpNext ==
    /\ ~takenOver
    /\ \/ \E w \in Worker, c \in Challenge : StartCreate(w, c) \/ \E code \in {"right", "wrong"} : StartVerify(w, c, code)
       \/ \E w \in Worker : \/ TakeOtpLock(w) \/ StatOtpLock(w) \/ RemoveOtpLock(w) \/ GiveUp(w)
                            \/ WriteChallenge(w) \/ PointTo(w) \/ DropPrevious(w)
                            \/ ReadAgain(w) \/ JudgeCode(w) \/ Recount(w) \/ ForgetPointer(w) \/ ReleaseOtpLock(w)
       \/ OtpLockAges \/ Halt

OtpSpec == OtpInit /\ [][OtpNext]_otpVars

(***************************************************************************)
(* Properties                                                               *)
(***************************************************************************)
Jobs ==
    [at : {"resting", "locking", "removing", "unlock", "write", "point", "drop", "check",
           "judge", "recount", "forget"},
     for : Challenge \cup {NoChallenge}, code : {"none", "right", "wrong"},
     before : Challenge \cup {NoChallenge}, read : Int]

OtpTypeOK ==
    /\ otpLock \in [by : Worker \cup {NoChallenge}, old : BOOLEAN]
    /\ stored \in [Challenge -> Contents]
    /\ active \in Challenge \cup {NoChallenge}
    /\ worker \in [Worker -> Jobs]
    /\ wrong \in [Challenge -> Nat] /\ accepted \in [Challenge -> Nat]
    /\ issued \subseteq Challenge /\ takenOver \in BOOLEAN /\ halts \in Nat

\* Unless a lock file was removed under a holder that was slow, or by a second
\* waiter that had looked at the one before, a challenge never gets more answers
\* than its attempts and is accepted once: neither overlapping verifications nor a
\* crash that cuts the counter's write off gives an attempt back.
AttemptsNeverGivenBack ==
    ~takenOver => \A c \in Challenge : accepted[c] <= 1 /\ Answered(c) <= Attempts
=============================================================================

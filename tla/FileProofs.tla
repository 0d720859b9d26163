------------------------------ MODULE FileProofs ------------------------------
(***************************************************************************)
(* What the server and the manager keep in files, for any number of         *)
(* operations, callers, workers and crashes: the store's snapshot, the      *)
(* session revocations, the one-time codes, the manager's lock, the site    *)
(* rules, the limiters' records and the audit log.                          *)
(***************************************************************************)
EXTENDS SnapshotFile, SessionRevocation, OtpFile, ManagerLock, SiteAccess, SignInLimiter,
        AuditLog, FiniteSetTheorems, TLAPS

(***************************************************************************)
(* The snapshot: only a synced file is renamed, the operation past the      *)
(* queue has read what the file still holds, and the file is ahead of the   *)
(* answers by the outages and by the operation that has just renamed.       *)
(***************************************************************************)
AwaitingAnswer == {o \in Operation : running[o].at = "renamed"}

OneAtATime == \A o, p \in Operation : running[o] # Queued /\ running[p] # Queued => o = p
ReadIsCurrent ==
    \A o \in Operation :
        /\ running[o].at \in {"changed", "written", "synced"} => running[o].read = snapshot.holds
        /\ running[o].at \in {"written", "synced"} => running[o].file.holds = running[o].read + 1
        /\ running[o].at = "synced" => running[o].file.synced
AheadOfAnswers ==
    /\ snapshot.synced /\ snapshot.holds \in Nat
    /\ AwaitingAnswer = {} =>
           acknowledged <= snapshot.holds /\ snapshot.holds <= acknowledged + outages
    /\ AwaitingAnswer # {} =>
           acknowledged + 1 <= snapshot.holds /\ snapshot.holds <= acknowledged + outages + 1

SnapshotInv == SnapshotTypeOK /\ OneAtATime /\ ReadIsCurrent /\ AheadOfAnswers

LEMMA QueuedAt == Queued.at = "queued"
BY DEF Queued, Running

LEMMA SnapshotInitInv == SnapshotInit => SnapshotInv
BY DEF SnapshotInit, SnapshotInv, SnapshotTypeOK, OneAtATime, ReadIsCurrent, AheadOfAnswers,
       AwaitingAnswer, Queued, Running, Whole, Torn

LEMMA SnapshotStepTyped ==
    ASSUME SnapshotTypeOK, [SnapshotNext]_snapshotVars, AheadOfAnswers PROVE SnapshotTypeOK'
<1> USE DEF SnapshotTypeOK, Queued, Running, Whole, Torn
<1>1. ASSUME NEW o \in Operation, ReadSnapshot(o) PROVE SnapshotTypeOK'
  BY <1>1 DEF ReadSnapshot
<1>2. ASSUME NEW o \in Operation, ReturnUnchanged(o) PROVE SnapshotTypeOK'
  BY <1>2 DEF ReturnUnchanged
<1>3. ASSUME NEW o \in Operation, WriteTemporary(o) PROVE SnapshotTypeOK'
  BY <1>3 DEF WriteTemporary
<1>4. ASSUME NEW o \in Operation, SyncTemporary(o) PROVE SnapshotTypeOK'
  BY <1>4 DEF SyncTemporary
<1>5. ASSUME NEW o \in Operation, RenameTemporary(o) PROVE SnapshotTypeOK'
  BY <1>5 DEF RenameTemporary
<1>6. ASSUME NEW o \in Operation, Return(o) PROVE SnapshotTypeOK'
  BY <1>6 DEF Return
<1>7. CASE Outage
  BY <1>7 DEF Outage, AheadOfAnswers
<1>8. CASE UNCHANGED snapshotVars
  BY <1>8 DEF snapshotVars
<1> QED BY <1>1, <1>2, <1>3, <1>4, <1>5, <1>6, <1>7, <1>8 DEF SnapshotNext

LEMMA SnapshotNextInv == SnapshotInv /\ [SnapshotNext]_snapshotVars => SnapshotInv'
<1> SUFFICES ASSUME SnapshotInv, [SnapshotNext]_snapshotVars PROVE SnapshotInv'
  OBVIOUS
<1>0. SnapshotTypeOK /\ SnapshotTypeOK' /\ OneAtATime /\ ReadIsCurrent /\ AheadOfAnswers
  BY SnapshotStepTyped DEF SnapshotInv
<1> USE <1>0, QueuedAt DEF SnapshotTypeOK, Running
<1>1. ASSUME NEW o \in Operation, ReadSnapshot(o) PROVE SnapshotInv'
  <2>1. \A p \in Operation \ {o} : running[p] = Queued /\ running'[p] = Queued
    BY <1>1 DEF ReadSnapshot, MyTurn
  <2>2. running'[o].at = "changed" /\ running'[o].read = snapshot.holds /\ snapshot' = snapshot
    BY <1>1 DEF ReadSnapshot, Queued
  <2>3. OneAtATime'
    BY <2>1 DEF OneAtATime
  <2>4. ReadIsCurrent'
    BY <2>1, <2>2 DEF ReadIsCurrent
  <2>5. AwaitingAnswer = {} /\ AwaitingAnswer' = {}
    <3>1. running[o] = Queued
      BY <1>1 DEF ReadSnapshot
    <3> QED BY <2>1, <2>2, <3>1 DEF AwaitingAnswer
  <2>6. AheadOfAnswers'
    BY <1>1, <2>5 DEF AheadOfAnswers, ReadSnapshot
  <2> QED BY <2>3, <2>4, <2>6 DEF SnapshotInv
<1>2. ASSUME NEW o \in Operation, ReturnUnchanged(o) PROVE SnapshotInv'
  <2>1. \A p \in Operation : running'[p] = Queued \/ (running'[p] = running[p])
    BY <1>2 DEF ReturnUnchanged
  <2>2. OneAtATime'
    BY <2>1 DEF OneAtATime
  <2>3. ReadIsCurrent'
    BY <1>2, <2>1 DEF ReadIsCurrent, ReturnUnchanged
  <2>4. AwaitingAnswer' = AwaitingAnswer
    BY <1>2 DEF AwaitingAnswer, ReturnUnchanged
  <2>5. AheadOfAnswers'
    BY <1>2, <2>4 DEF AheadOfAnswers, ReturnUnchanged
  <2> QED BY <2>2, <2>3, <2>5 DEF SnapshotInv
<1>3. ASSUME NEW o \in Operation, WriteTemporary(o) PROVE SnapshotInv'
  <2>1. \A p \in Operation : p # o => running'[p] = running[p]
    BY <1>3 DEF WriteTemporary
  <2>2. /\ running[o] # Queued /\ running'[o].at = "written" /\ running'[o].read = running[o].read
        /\ running'[o].file.holds = running[o].read + 1
    BY <1>3 DEF WriteTemporary, Whole
  <2>3. OneAtATime'
    BY <2>1, <2>2 DEF OneAtATime
  <2>4. ReadIsCurrent'
    BY <1>3, <2>1, <2>2 DEF ReadIsCurrent, WriteTemporary
  <2>5. AwaitingAnswer' = AwaitingAnswer
    BY <1>3, <2>1, <2>2 DEF AwaitingAnswer, WriteTemporary
  <2>6. AheadOfAnswers'
    BY <1>3, <2>5 DEF AheadOfAnswers, WriteTemporary
  <2> QED BY <2>3, <2>4, <2>6 DEF SnapshotInv
<1>4. ASSUME NEW o \in Operation, SyncTemporary(o) PROVE SnapshotInv'
  <2>1. \A p \in Operation : p # o => running'[p] = running[p]
    BY <1>4 DEF SyncTemporary, Whole
  <2>2. /\ running[o] # Queued /\ running'[o].at = "synced" /\ running'[o].read = running[o].read
        /\ running'[o].file.holds = running[o].file.holds /\ running'[o].file.synced
    BY <1>4 DEF SyncTemporary, Whole
  <2>3. OneAtATime'
    BY <2>1, <2>2 DEF OneAtATime
  <2>4. ReadIsCurrent'
    BY <1>4, <2>1, <2>2 DEF ReadIsCurrent, SyncTemporary
  <2>5. AwaitingAnswer' = AwaitingAnswer
    BY <1>4, <2>1, <2>2 DEF AwaitingAnswer, SyncTemporary
  <2>6. AheadOfAnswers'
    BY <1>4, <2>5 DEF AheadOfAnswers, SyncTemporary
  <2> QED BY <2>3, <2>4, <2>6 DEF SnapshotInv
<1>5. ASSUME NEW o \in Operation, RenameTemporary(o) PROVE SnapshotInv'
  <2>1. \A p \in Operation : p # o => running'[p] = running[p]
    BY <1>5 DEF RenameTemporary
  <2>2. running[o] # Queued /\ running'[o].at = "renamed"
    BY <1>5 DEF RenameTemporary
  <2>3. \A p \in Operation : p # o => running[p] = Queued
    BY <2>2 DEF OneAtATime
  <2>4. snapshot'.holds = snapshot.holds + 1 /\ snapshot'.synced
    BY <1>5 DEF RenameTemporary, ReadIsCurrent
  <2>5. OneAtATime'
    BY <2>1, <2>2 DEF OneAtATime
  <2>6. ReadIsCurrent'
    BY <2>1, <2>2, <2>3 DEF ReadIsCurrent
  <2>7. AwaitingAnswer = {} /\ AwaitingAnswer' # {}
    BY <1>5, <2>2, <2>3 DEF AwaitingAnswer, RenameTemporary
  <2>8. AheadOfAnswers'
    BY <1>5, <2>4, <2>7 DEF AheadOfAnswers, RenameTemporary
  <2> QED BY <2>5, <2>6, <2>8 DEF SnapshotInv
<1>6. ASSUME NEW o \in Operation, Return(o) PROVE SnapshotInv'
  <2>1. running[o] # Queued /\ running[o].at = "renamed"
    BY <1>6 DEF Return
  <2>2. \A p \in Operation : running'[p] = Queued
    BY <1>6, <2>1 DEF OneAtATime, Return
  <2>3. AwaitingAnswer # {} /\ AwaitingAnswer' = {}
    BY <2>1, <2>2 DEF AwaitingAnswer
  <2>4. AheadOfAnswers'
    BY <1>6, <2>3 DEF AheadOfAnswers, Return
  <2> QED BY <2>2, <2>4 DEF SnapshotInv, OneAtATime, ReadIsCurrent
<1>7. CASE Outage
  <2>1. snapshot' = snapshot /\ \A p \in Operation : running'[p] = Queued
    BY <1>7 DEF Outage, AheadOfAnswers
  <2>2. AwaitingAnswer' = {}
    BY <2>1 DEF AwaitingAnswer
  <2>3. AheadOfAnswers'
    BY <1>7, <2>1, <2>2 DEF AheadOfAnswers, Outage
  <2> QED BY <2>1, <2>3 DEF SnapshotInv, OneAtATime, ReadIsCurrent
<1>8. CASE UNCHANGED snapshotVars
  BY <1>8 DEF snapshotVars, SnapshotInv, OneAtATime, ReadIsCurrent, AheadOfAnswers, AwaitingAnswer
<1> QED BY <1>1, <1>2, <1>3, <1>4, <1>5, <1>6, <1>7, <1>8 DEF SnapshotNext

LEMMA SnapshotInvariantHolds == SnapshotSpec => []SnapshotInv
BY SnapshotInitInv, SnapshotNextInv, PTL DEF SnapshotSpec

\* What was answered is in the snapshot, for any number of operations, crashes and
\* power cuts.  (browserSsoFileStore.ts, run)
THEOREM ChangesSurvive == SnapshotSpec => []AnsweredChangesSurvive
<1>1. ASSUME SnapshotInv PROVE AnsweredChangesSurvive
  <2>1. CASE AwaitingAnswer = {}
    <3>1. Cardinality(AwaitingAnswer) = 0
      BY <2>1, FS_EmptySet
    <3> QED BY <1>1, <2>1, <3>1
            DEF SnapshotInv, SnapshotTypeOK, AheadOfAnswers, AnsweredChangesSurvive, AwaitingAnswer, Torn
  <2>2. CASE AwaitingAnswer # {}
    <3>1. PICK o \in Operation : o \in AwaitingAnswer
      BY <2>2 DEF AwaitingAnswer
    <3>2. AwaitingAnswer = {o}
      BY <1>1, <3>1, QueuedAt DEF AwaitingAnswer, SnapshotInv, OneAtATime
    <3>3. Cardinality(AwaitingAnswer) = 1
      BY <3>2, FS_Singleton
    <3> QED BY <1>1, <2>2, <3>3
            DEF SnapshotInv, SnapshotTypeOK, AheadOfAnswers, AnsweredChangesSurvive, AwaitingAnswer, Torn
  <2> QED BY <2>1, <2>2
<1> QED BY <1>1, SnapshotInvariantHolds, PTL

(***************************************************************************)
(* Session revocations: a file is removed only when it has expired, or when  *)
(* a check came upon it before its contents did.                            *)
(***************************************************************************)
RemovesRightly ==
    /\ \A c \in Caller : calls[c].at \in {"removing", "writingRemoved"} =>
           calls[c].jti \in disturbed \/ Expiry[calls[c].jti] <= now

RevocationInv == RevocationTypeOK /\ RemovesRightly /\ SignOutKept

LEMMA RevocationInitInv == RevocationInit => RevocationInv
BY RevocationAssumption DEF RevocationInit, RevocationInv, RevocationTypeOK, RemovesRightly,
   SignOutKept, Free, Serving, NoEntry, Empty

LEMMA RevocationStepTyped ==
    ASSUME RevocationTypeOK, [RevocationNext]_revocationVars PROVE RevocationTypeOK'
<1> USE RevocationAssumption DEF RevocationTypeOK, NoEntry, Empty, Serving, Free, Set
<1>1. ASSUME NEW c \in Caller, NEW j \in Jti, Revoke(c, j) PROVE RevocationTypeOK'
  BY <1>1 DEF Revoke
<1>2. ASSUME NEW c \in Caller, NEW j \in Jti, Check(c, j) PROVE RevocationTypeOK'
  <2>1. Pruned \in [Jti -> Int] /\ \A i \in Jti : Pruned[i] \in {-1, 0, Expiry[i]}
    BY DEF Pruned
  <2> QED BY <1>2, <2>1 DEF Check
<1>3. ASSUME NEW c \in Caller, WriteExpiry(c) PROVE RevocationTypeOK'
  BY <1>3 DEF WriteExpiry
<1>4. ASSUME NEW c \in Caller, ReadEntry(c) PROVE RevocationTypeOK'
  BY <1>4 DEF ReadEntry
<1>5. ASSUME NEW c \in Caller, RemoveEntry(c) PROVE RevocationTypeOK'
  BY <1>5 DEF RemoveEntry
<1>6. CASE RevocationTick
  BY <1>6 DEF RevocationTick
<1>7. CASE RevocationCrash
  BY <1>7 DEF RevocationCrash
<1>8. CASE UNCHANGED revocationVars
  BY <1>8 DEF revocationVars
<1> QED BY <1>1, <1>2, <1>3, <1>4, <1>5, <1>6, <1>7, <1>8 DEF RevocationNext

LEMMA RevocationNextInv == RevocationInv /\ [RevocationNext]_revocationVars => RevocationInv'
<1> SUFFICES ASSUME RevocationInv, [RevocationNext]_revocationVars PROVE RevocationInv'
  OBVIOUS
<1>0. RevocationTypeOK /\ RevocationTypeOK' /\ RemovesRightly /\ SignOutKept
  BY RevocationStepTyped DEF RevocationInv
<1> USE <1>0, RevocationAssumption DEF RevocationTypeOK, NoEntry, Empty, Serving, Free, Set
<1>1. ASSUME NEW c \in Caller, NEW j \in Jti, Revoke(c, j) PROVE RevocationInv'
  <2>1. RemovesRightly'
    BY <1>1 DEF Revoke, RemovesRightly
  <2>2. SignOutKept'
    BY <1>1 DEF Revoke, SignOutKept, BeingWritten
  <2> QED BY <2>1, <2>2 DEF RevocationInv
<1>2. ASSUME NEW c \in Caller, NEW j \in Jti, Check(c, j) PROVE RevocationInv'
  <2>1. RemovesRightly'
    BY <1>2 DEF Check, RemovesRightly
  <2>2. SignOutKept'
    BY <1>2 DEF Check, Pruned, Live, SignOutKept, BeingWritten
  <2> QED BY <2>1, <2>2 DEF RevocationInv
<1>3. ASSUME NEW c \in Caller, WriteExpiry(c) PROVE RevocationInv'
  <2>1. RemovesRightly'
    BY <1>3 DEF WriteExpiry, RemovesRightly
  <2>2. SignOutKept'
    BY <1>3 DEF WriteExpiry, SignOutKept, BeingWritten, RemovesRightly
  <2> QED BY <2>1, <2>2 DEF RevocationInv
<1>4. ASSUME NEW c \in Caller, ReadEntry(c) PROVE RevocationInv'
  <2>1. RemovesRightly'
    BY <1>4 DEF ReadEntry, RemovesRightly
  <2>2. SignOutKept'
    BY <1>4 DEF ReadEntry, SignOutKept, BeingWritten
  <2> QED BY <2>1, <2>2 DEF RevocationInv
<1>5. ASSUME NEW c \in Caller, RemoveEntry(c) PROVE RevocationInv'
  <2>1. RemovesRightly'
    BY <1>5 DEF RemoveEntry, RemovesRightly
  <2>2. SignOutKept'
    BY <1>5 DEF RemoveEntry, SignOutKept, BeingWritten, RemovesRightly
  <2> QED BY <2>1, <2>2 DEF RevocationInv
<1>6. CASE RevocationTick
  <2>1. RemovesRightly'
    BY <1>6 DEF RevocationTick, RemovesRightly
  <2>2. SignOutKept'
    BY <1>6 DEF RevocationTick, SignOutKept, BeingWritten
  <2> QED BY <2>1, <2>2 DEF RevocationInv
<1>7. CASE RevocationCrash
  <2>1. RemovesRightly'
    BY <1>7 DEF RevocationCrash, RemovesRightly
  <2>2. SignOutKept'
    BY <1>7 DEF RevocationCrash, SignOutKept, BeingWritten
  <2> QED BY <2>1, <2>2 DEF RevocationInv
<1>8. CASE UNCHANGED revocationVars
  BY <1>8 DEF revocationVars, RevocationInv, RemovesRightly, SignOutKept, BeingWritten
<1> QED BY <1>1, <1>2, <1>3, <1>4, <1>5, <1>6, <1>7, <1>8 DEF RevocationNext

\* An answered sign-out is in the store until its token expires, unless a check or a
\* crash came upon its file while it was written.  (sessionRevocationStore.ts)
THEOREM SignOutStays == RevocationSpec => []SignOutKept
<1>1. RevocationInv => SignOutKept
  BY DEF RevocationInv
<1> QED BY <1>1, RevocationInitInv, RevocationNextInv, PTL DEF RevocationSpec

(***************************************************************************)
(* One-time codes: until a lock file is removed under its holder, a worker   *)
(* past the lock is the one the lock file belongs to, so what it read is     *)
(* what is stored; and a stored counter is what the answers have left.       *)
(***************************************************************************)
Exclusive == \A w \in Worker : Held(w) => otpLock # NoLock /\ otpLock.by = w

Creating(w, c) ==
    worker[w].for = c /\ worker[w].code = "none" /\ worker[w].at \in {"locking", "removing", "write"}

Unanswered(c) == wrong[c] = 0 /\ accepted[c] = 0

Tasks ==
    \A w \in Worker :
        /\ worker[w].at # "resting" => worker[w].for \in issued
        /\ worker[w].at \in {"write", "point", "drop"} => worker[w].code = "none"
        /\ worker[w].at \in {"check", "judge", "recount", "forget"} => worker[w].code # "none"

Fresh ==
    /\ \A c \in Challenge \ issued : stored[c] = NoFile /\ Unanswered(c)
    /\ \A w \in Worker, c \in Challenge : Creating(w, c) =>
           /\ stored[c] = NoFile /\ Unanswered(c)
           /\ \A v \in Worker : Creating(v, c) => v = w

Counted ==
    /\ \A c \in Challenge :
           /\ accepted[c] <= 1 /\ wrong[c] + accepted[c] <= Attempts
           /\ stored[c] \in 1 .. Attempts => accepted[c] = 0 /\ wrong[c] + stored[c] = Attempts
    /\ \A w \in Worker :
           LET c == worker[w].for
           IN  /\ worker[w].at = "judge" => worker[w].read = stored[c]
               /\ worker[w].at = "recount" =>
                     /\ stored[c] = TornFile /\ accepted[c] = 0
                     /\ worker[w].read \in 2 .. Attempts /\ wrong[c] + worker[w].read = Attempts

OtpInv == OtpTypeOK /\ (~takenOver => Exclusive /\ Tasks /\ Fresh /\ Counted)

LEMMA RestingTyped == Resting \in Jobs /\ Resting.at = "resting"
BY DEF Resting, Work, Jobs

Ats == {"resting", "locking", "removing", "unlock", "write", "point", "drop", "check",
        "judge", "recount", "forget"}

LEMMA WorkTyped ==
    ASSUME NEW at \in Ats, NEW c \in Challenge \cup {NoChallenge}, NEW code \in {"none", "right", "wrong"},
           NEW before \in Challenge \cup {NoChallenge}, NEW read \in Int
    PROVE  Work(at, c, code, before, read) \in Jobs
BY DEF Work, Jobs, Ats

LEMMA FieldsTyped ==
    ASSUME OtpTypeOK, NEW w \in Worker
    PROVE  /\ worker[w].at \in Ats /\ worker[w].for \in Challenge \cup {NoChallenge}
           /\ worker[w].code \in {"none", "right", "wrong"}
           /\ worker[w].before \in Challenge \cup {NoChallenge} /\ worker[w].read \in Int
BY DEF OtpTypeOK, Jobs, Ats

LEMMA ZeroIsInteger == 0 \in Int
OBVIOUS

LEMMA LockingTyped ==
    ASSUME NEW c \in Challenge, NEW code \in {"none", "right", "wrong"}
    PROVE  Work("locking", c, code, NoChallenge, 0) \in Jobs
BY ZeroIsInteger, WorkTyped, Zenon DEF Ats

\* Wherever a call goes, it stays one.
LEMMA AtTyped ==
    ASSUME OtpTypeOK, NEW w \in Worker, NEW where \in Ats, At(w, where)
    PROVE  worker' \in [Worker -> Jobs]
<1>1. Work(where, worker[w].for, worker[w].code, worker[w].before, worker[w].read) \in Jobs
  BY FieldsTyped, WorkTyped
<1> QED BY <1>1 DEF At, Move, OtpTypeOK

LEMMA OtpInitInv == OtpInit => OtpInv
<1> SUFFICES ASSUME OtpInit PROVE OtpInv
  OBVIOUS
<1> USE OtpFileAssumption, RestingTyped
<1>1. OtpTypeOK
  BY DEF OtpInit, OtpTypeOK, NoLock, Contents
<1>2. Exclusive /\ Tasks
  BY DEF OtpInit, Exclusive, Tasks, Held
<1>3. Fresh
  BY DEF OtpInit, Fresh, Unanswered, Creating
<1>4. Counted
  BY DEF OtpInit, Counted, NoFile
<1> QED BY <1>1, <1>2, <1>3, <1>4 DEF OtpInv

LEMMA OtpStepTyped == ASSUME OtpTypeOK, ~takenOver => Tasks /\ Counted, [OtpNext]_otpVars PROVE OtpTypeOK'
<1> USE OtpFileAssumption, RestingTyped DEF OtpTypeOK
<1>1. ASSUME NEW w \in Worker, NEW c \in Challenge, StartCreate(w, c) PROVE OtpTypeOK'
  <2>1. Work("locking", c, "none", NoChallenge, 0) \in Jobs
    BY LockingTyped
  <2> QED BY <1>1, <2>1 DEF StartCreate, Move
<1>2. ASSUME NEW w \in Worker, NEW c \in Challenge, NEW code \in {"right", "wrong"},
             StartVerify(w, c, code)
      PROVE  OtpTypeOK'
  <2>1. Work("locking", c, code, NoChallenge, 0) \in Jobs
    BY LockingTyped
  <2> QED BY <1>2, <2>1 DEF StartVerify, Move
<1>3. ASSUME OtpLockAges PROVE OtpTypeOK'
  BY <1>3 DEF OtpLockAges
<1>4. ASSUME Halt PROVE OtpTypeOK'
  BY <1>4 DEF Halt
<1>5. CASE UNCHANGED otpVars
  BY <1>5 DEF otpVars
<1>6. ASSUME NEW w \in Worker, TakeOtpLock(w) PROVE OtpTypeOK'
  <2>1. Work(IF worker[w].code = "none" THEN "write" ELSE "check",
             worker[w].for, worker[w].code, active, worker[w].read) \in Jobs
    BY FieldsTyped, WorkTyped DEF Ats
  <2> QED BY <1>6, <2>1 DEF TakeOtpLock, Begins, Move
<1>7. ASSUME NEW w \in Worker, StatOtpLock(w) PROVE OtpTypeOK'
  <2>1. worker' \in [Worker -> Jobs]
    BY <1>7, AtTyped DEF StatOtpLock, Ats
  <2> QED BY <1>7, <2>1 DEF StatOtpLock
<1>8. ASSUME NEW w \in Worker, RemoveOtpLock(w) PROVE OtpTypeOK'
  <2>1. worker' \in [Worker -> Jobs]
    BY <1>8, AtTyped DEF RemoveOtpLock, Ats
  <2> QED BY <1>8, <2>1 DEF RemoveOtpLock, NoLock, Held
<1>9. ASSUME NEW w \in Worker, GiveUp(w) PROVE OtpTypeOK'
  BY <1>9 DEF GiveUp, Move
<1>10. ASSUME ~takenOver, NEW w \in Worker, WriteChallenge(w) PROVE OtpTypeOK'
  <2>1. worker' \in [Worker -> Jobs]
    BY <1>10, AtTyped DEF WriteChallenge, Ats
  <2>2. Attempts \in Contents
    BY DEF Contents
  <2> QED BY <1>10, <2>1, <2>2 DEF WriteChallenge, Tasks
<1>11. ASSUME ~takenOver, NEW w \in Worker, PointTo(w) PROVE OtpTypeOK'
  <2>1. worker' \in [Worker -> Jobs]
    BY <1>11, AtTyped DEF PointTo, Ats
  <2> QED BY <1>11, <2>1 DEF PointTo, Tasks
<1>12. ASSUME NEW w \in Worker, DropPrevious(w) PROVE OtpTypeOK'
  <2>1. worker' \in [Worker -> Jobs]
    BY <1>12, AtTyped DEF DropPrevious, Ats
  <2> QED BY <1>12, <2>1 DEF DropPrevious, Contents
<1>13. ASSUME ~takenOver, NEW w \in Worker, ReadAgain(w) PROVE OtpTypeOK'
  <2>1. stored[worker[w].for] \in Int
    <3>1. stored[worker[w].for] \in Contents
      BY <1>13 DEF ReadAgain, Tasks
    <3> QED BY <3>1 DEF Contents, NoFile, TornFile
  <2>2. Work("judge", worker[w].for, worker[w].code, worker[w].before, stored[worker[w].for]) \in Jobs
    BY FieldsTyped, WorkTyped, <2>1 DEF Ats
  <2> QED BY <1>13, <2>2 DEF ReadAgain, Move
<1>14. ASSUME ~takenOver, NEW w \in Worker, JudgeCode(w) PROVE OtpTypeOK'
  <2>1. worker' \in [Worker -> Jobs]
    BY <1>14, AtTyped DEF JudgeCode, Ats
  <2>2. worker[w].for \in Challenge
    BY <1>14 DEF JudgeCode, Tasks
  <2>3. stored' \in [Challenge -> Contents]
    BY <1>14, <2>2 DEF JudgeCode, Contents
  <2>4. wrong' \in [Challenge -> Nat] /\ accepted' \in [Challenge -> Nat]
    BY <1>14, <2>2 DEF JudgeCode
  <2> QED BY <1>14, <2>1, <2>3, <2>4 DEF JudgeCode
<1>15. ASSUME ~takenOver, Counted, NEW w \in Worker, Recount(w) PROVE OtpTypeOK'
  <2>1. worker' \in [Worker -> Jobs]
    BY <1>15, AtTyped DEF Recount, Ats
  <2>2. worker[w].for \in Challenge /\ worker[w].read - 1 \in Contents
    <3>1. worker[w].for \in Challenge /\ worker[w].read \in 2 .. Attempts
      BY <1>15 DEF Recount, Tasks, Counted
    <3> QED BY <3>1 DEF Contents
  <2> QED BY <1>15, <2>1, <2>2 DEF Recount
<1>16. ASSUME NEW w \in Worker, ForgetPointer(w) PROVE OtpTypeOK'
  <2>1. worker' \in [Worker -> Jobs]
    BY <1>16, AtTyped DEF ForgetPointer, Ats
  <2> QED BY <1>16, <2>1 DEF ForgetPointer
<1>17. ASSUME NEW w \in Worker, ReleaseOtpLock(w) PROVE OtpTypeOK'
  BY <1>17 DEF ReleaseOtpLock, Move, NoLock
<1> QED BY <1>1, <1>2, <1>3, <1>4, <1>5, <1>6, <1>7, <1>8, <1>9, <1>10, <1>11,
           <1>12, <1>13, <1>14, <1>15, <1>16, <1>17 DEF OtpNext

LEMMA OtpNextInv == OtpInv /\ [OtpNext]_otpVars => OtpInv'
<1> SUFFICES ASSUME OtpInv, [OtpNext]_otpVars, ~takenOver' PROVE (Exclusive /\ Tasks /\ Fresh /\ Counted)'
  BY OtpStepTyped DEF OtpInv
<1>0. OtpTypeOK /\ OtpTypeOK' /\ Exclusive /\ Tasks /\ Fresh /\ Counted
  <2>1. ~takenOver
    BY DEF OtpNext, otpVars
  <2> QED BY <2>1, OtpStepTyped DEF OtpInv
<1> USE <1>0, OtpFileAssumption DEF OtpTypeOK
<1>1. ASSUME NEW w \in Worker, NEW c \in Challenge, StartCreate(w, c)
      PROVE  (Exclusive /\ Tasks /\ Fresh /\ Counted)'
  <2>1. Exclusive'
    BY <1>1 DEF StartCreate, Move, At, Work, Resting, Exclusive, Held
  <2>2. Tasks'
    BY <1>1 DEF StartCreate, Move, At, Work, Resting, Tasks
  <2>3. Fresh'
    BY <1>1 DEF StartCreate, Move, At, Work, Resting, Fresh, Creating, Unanswered, Tasks
  <2>4. Counted'
    BY <1>1 DEF StartCreate, Move, At, Work, Resting, Counted
  <2> QED BY <2>1, <2>2, <2>3, <2>4
<1>2. ASSUME NEW w \in Worker, NEW c \in Challenge, NEW code \in {"right", "wrong"}, StartVerify(w, c, code)
      PROVE  (Exclusive /\ Tasks /\ Fresh /\ Counted)'
  <2>1. Exclusive'
    BY <1>2 DEF StartVerify, Move, At, Work, Resting, Exclusive, Held
  <2>2. Tasks'
    BY <1>2 DEF StartVerify, Move, At, Work, Resting, Tasks, Fresh
  <2>3. Fresh'
    BY <1>2 DEF StartVerify, Move, At, Work, Resting, Fresh, Creating, Unanswered
  <2>4. Counted'
    BY <1>2 DEF StartVerify, Move, At, Work, Resting, Counted
  <2> QED BY <2>1, <2>2, <2>3, <2>4
<1>3. ASSUME OtpLockAges
      PROVE  (Exclusive /\ Tasks /\ Fresh /\ Counted)'
  <2>1. Exclusive'
    BY <1>3 DEF OtpLockAges, Move, At, Work, Resting, Exclusive, Held, NoLock
  <2>2. Tasks'
    BY <1>3 DEF OtpLockAges, Move, At, Work, Resting, Tasks
  <2>3. Fresh'
    BY <1>3 DEF OtpLockAges, Move, At, Work, Resting, Fresh, Creating, Unanswered
  <2>4. Counted'
    BY <1>3 DEF OtpLockAges, Move, At, Work, Resting, Counted
  <2> QED BY <2>1, <2>2, <2>3, <2>4
<1>4. ASSUME Halt
      PROVE  (Exclusive /\ Tasks /\ Fresh /\ Counted)'
  <2>1. Exclusive'
    BY <1>4 DEF Halt, Move, At, Work, Resting, Exclusive, Held
  <2>2. Tasks'
    BY <1>4 DEF Halt, Move, At, Work, Resting, Tasks
  <2>3. Fresh'
    BY <1>4 DEF Halt, Move, At, Work, Resting, Fresh, Creating, Unanswered
  <2>4. Counted'
    BY <1>4 DEF Halt, Move, At, Work, Resting, Counted
  <2> QED BY <2>1, <2>2, <2>3, <2>4
<1>5. ASSUME UNCHANGED otpVars
      PROVE  (Exclusive /\ Tasks /\ Fresh /\ Counted)'
  <2>1. Exclusive'
    BY <1>5 DEF otpVars, Move, At, Work, Resting, Exclusive, Held
  <2>2. Tasks'
    BY <1>5 DEF otpVars, Move, At, Work, Resting, Tasks
  <2>3. Fresh'
    BY <1>5 DEF otpVars, Move, At, Work, Resting, Fresh, Creating, Unanswered
  <2>4. Counted'
    BY <1>5 DEF otpVars, Move, At, Work, Resting, Counted
  <2> QED BY <2>1, <2>2, <2>3, <2>4
<1>6. ASSUME NEW w \in Worker, TakeOtpLock(w)
      PROVE  (Exclusive /\ Tasks /\ Fresh /\ Counted)'
  <2>1. Exclusive'
    BY <1>6 DEF TakeOtpLock, Move, At, Work, Resting, Exclusive, Held, Begins, NoLock
  <2>2. Tasks'
    BY <1>6 DEF TakeOtpLock, Move, At, Work, Resting, Tasks, Begins, NoLock
  <2>3. Fresh'
    BY <1>6 DEF TakeOtpLock, Move, At, Work, Resting, Fresh, Creating, Unanswered, Begins, NoLock
  <2>4. Counted'
    BY <1>6 DEF TakeOtpLock, Move, At, Work, Resting, Counted, Begins, NoLock
  <2> QED BY <2>1, <2>2, <2>3, <2>4
<1>7. ASSUME NEW w \in Worker, StatOtpLock(w)
      PROVE  (Exclusive /\ Tasks /\ Fresh /\ Counted)'
  <2>1. Exclusive'
    BY <1>7 DEF StatOtpLock, Move, At, Work, Resting, Exclusive, Held
  <2>2. Tasks'
    BY <1>7 DEF StatOtpLock, Move, At, Work, Resting, Tasks
  <2>3. Fresh'
    BY <1>7 DEF StatOtpLock, Move, At, Work, Resting, Fresh, Creating, Unanswered
  <2>4. Counted'
    BY <1>7 DEF StatOtpLock, Move, At, Work, Resting, Counted
  <2> QED BY <2>1, <2>2, <2>3, <2>4
<1>8. ASSUME NEW w \in Worker, RemoveOtpLock(w)
      PROVE  (Exclusive /\ Tasks /\ Fresh /\ Counted)'
  <2>1. Exclusive'
    BY <1>8 DEF RemoveOtpLock, Move, At, Work, Resting, Exclusive, Held
  <2>2. Tasks'
    BY <1>8 DEF RemoveOtpLock, Move, At, Work, Resting, Tasks
  <2>3. Fresh'
    BY <1>8 DEF RemoveOtpLock, Move, At, Work, Resting, Fresh, Creating, Unanswered
  <2>4. Counted'
    BY <1>8 DEF RemoveOtpLock, Move, At, Work, Resting, Counted
  <2> QED BY <2>1, <2>2, <2>3, <2>4
<1>9. ASSUME NEW w \in Worker, GiveUp(w)
      PROVE  (Exclusive /\ Tasks /\ Fresh /\ Counted)'
  <2>1. Exclusive'
    BY <1>9 DEF GiveUp, Move, At, Work, Resting, Exclusive, Held
  <2>2. Tasks'
    BY <1>9 DEF GiveUp, Move, At, Work, Resting, Tasks
  <2>3. Fresh'
    BY <1>9 DEF GiveUp, Move, At, Work, Resting, Fresh, Creating, Unanswered
  <2>4. Counted'
    BY <1>9 DEF GiveUp, Move, At, Work, Resting, Counted
  <2> QED BY <2>1, <2>2, <2>3, <2>4
<1>10. ASSUME NEW w \in Worker, WriteChallenge(w)
      PROVE  (Exclusive /\ Tasks /\ Fresh /\ Counted)'
  <2>1. Exclusive'
    BY <1>10 DEF WriteChallenge, Move, At, Work, Resting, Exclusive, Held
  <2>2. Tasks'
    BY <1>10 DEF WriteChallenge, Move, At, Work, Resting, Tasks
  <2>3. Fresh'
    BY <1>10 DEF WriteChallenge, Move, At, Work, Resting, Fresh, Creating, Unanswered, Tasks
  <2>4. Counted'
    BY <1>10 DEF WriteChallenge, Move, At, Work, Resting, Counted, Tasks, Fresh, Creating, Unanswered, Exclusive, Held, NoFile, TornFile
  <2> QED BY <2>1, <2>2, <2>3, <2>4
<1>11. ASSUME NEW w \in Worker, PointTo(w)
      PROVE  (Exclusive /\ Tasks /\ Fresh /\ Counted)'
  <2>1. Exclusive'
    BY <1>11 DEF PointTo, Move, At, Work, Resting, Exclusive, Held
  <2>2. Tasks'
    BY <1>11 DEF PointTo, Move, At, Work, Resting, Tasks
  <2>3. Fresh'
    BY <1>11 DEF PointTo, Move, At, Work, Resting, Fresh, Creating, Unanswered
  <2>4. Counted'
    BY <1>11 DEF PointTo, Move, At, Work, Resting, Counted
  <2> QED BY <2>1, <2>2, <2>3, <2>4
<1>12. ASSUME NEW w \in Worker, DropPrevious(w)
      PROVE  (Exclusive /\ Tasks /\ Fresh /\ Counted)'
  <2>1. Exclusive'
    BY <1>12 DEF DropPrevious, Move, At, Work, Resting, Exclusive, Held
  <2>2. Tasks'
    BY <1>12 DEF DropPrevious, Move, At, Work, Resting, Tasks
  <2>3. Fresh'
    BY <1>12 DEF DropPrevious, Move, At, Work, Resting, Fresh, Creating, Unanswered
  <2>4. Counted'
    BY <1>12 DEF DropPrevious, Move, At, Work, Resting, Counted, Exclusive, Held, NoFile, TornFile
  <2> QED BY <2>1, <2>2, <2>3, <2>4
<1>13. ASSUME NEW w \in Worker, ReadAgain(w)
      PROVE  (Exclusive /\ Tasks /\ Fresh /\ Counted)'
  <2>1. Exclusive'
    BY <1>13 DEF ReadAgain, Move, At, Work, Resting, Exclusive, Held
  <2>2. Tasks'
    BY <1>13 DEF ReadAgain, Move, At, Work, Resting, Tasks
  <2>3. Fresh'
    BY <1>13 DEF ReadAgain, Move, At, Work, Resting, Fresh, Creating, Unanswered
  <2>4. Counted'
    BY <1>13 DEF ReadAgain, Move, At, Work, Resting, Counted
  <2> QED BY <2>1, <2>2, <2>3, <2>4
<1>14. ASSUME NEW w \in Worker, JudgeCode(w)
      PROVE  (Exclusive /\ Tasks /\ Fresh /\ Counted)'
  <2>1. Exclusive'
    BY <1>14 DEF JudgeCode, Move, At, Work, Resting, Exclusive, Held
  <2>2. Tasks'
    BY <1>14 DEF JudgeCode, Move, At, Work, Resting, Tasks
  <2>3. Fresh'
    <3>1. \A v \in Worker, c \in Challenge : Creating(v, c)' => Creating(v, c)
      BY <1>14 DEF JudgeCode, Move, At, Work, Creating
    <3>2. worker[w].for \in issued /\ worker[w].for \in Challenge /\ worker[w].read = stored[worker[w].for]
      BY <1>14 DEF JudgeCode, Tasks, Counted
    <3>3. \A c \in Challenge : c # worker[w].for =>
            stored'[c] = stored[c] /\ wrong'[c] = wrong[c] /\ accepted'[c] = accepted[c]
      BY <1>14, <3>2 DEF JudgeCode
    <3>4. CASE stored[worker[w].for] # NoFile
      <4>1. \A v \in Worker : ~Creating(v, worker[w].for)
        BY <3>4, <3>2 DEF Fresh
      <4> QED BY <1>14, <3>1, <3>2, <3>3, <4>1 DEF JudgeCode, Fresh, Unanswered
    <3>5. CASE stored[worker[w].for] = NoFile
      <4>1. stored' = stored /\ wrong' = wrong /\ accepted' = accepted /\ issued' = issued
        BY <1>14, <3>2, <3>5 DEF JudgeCode
      <4> QED BY <3>1, <4>1 DEF Fresh, Unanswered
    <3> QED BY <3>4, <3>5
  <2>4. Counted'
    BY <1>14 DEF JudgeCode, Move, At, Work, Resting, Counted, Exclusive, Held, NoFile, TornFile, Ends, Contents, Tasks
  <2> QED BY <2>1, <2>2, <2>3, <2>4
<1>15. ASSUME NEW w \in Worker, Recount(w)
      PROVE  (Exclusive /\ Tasks /\ Fresh /\ Counted)'
  <2>1. Exclusive'
    BY <1>15 DEF Recount, Move, At, Work, Resting, Exclusive, Held
  <2>2. Tasks'
    BY <1>15 DEF Recount, Move, At, Work, Resting, Tasks
  <2>3. Fresh'
    BY <1>15 DEF Recount, Move, At, Work, Resting, Fresh, Creating, Unanswered, Tasks, Counted, NoFile, TornFile
  <2>4. Counted'
    BY <1>15 DEF Recount, Move, At, Work, Resting, Counted, Exclusive, Held, NoFile, TornFile, Tasks
  <2> QED BY <2>1, <2>2, <2>3, <2>4
<1>16. ASSUME NEW w \in Worker, ForgetPointer(w)
      PROVE  (Exclusive /\ Tasks /\ Fresh /\ Counted)'
  <2>1. Exclusive'
    BY <1>16 DEF ForgetPointer, Move, At, Work, Resting, Exclusive, Held
  <2>2. Tasks'
    BY <1>16 DEF ForgetPointer, Move, At, Work, Resting, Tasks
  <2>3. Fresh'
    BY <1>16 DEF ForgetPointer, Move, At, Work, Resting, Fresh, Creating, Unanswered
  <2>4. Counted'
    BY <1>16 DEF ForgetPointer, Move, At, Work, Resting, Counted
  <2> QED BY <2>1, <2>2, <2>3, <2>4
<1>17. ASSUME NEW w \in Worker, ReleaseOtpLock(w)
      PROVE  (Exclusive /\ Tasks /\ Fresh /\ Counted)'
  <2>1. Exclusive'
    BY <1>17 DEF ReleaseOtpLock, Move, At, Work, Resting, Exclusive, Held
  <2>2. Tasks'
    BY <1>17 DEF ReleaseOtpLock, Move, At, Work, Resting, Tasks
  <2>3. Fresh'
    BY <1>17 DEF ReleaseOtpLock, Move, At, Work, Resting, Fresh, Creating, Unanswered
  <2>4. Counted'
    BY <1>17 DEF ReleaseOtpLock, Move, At, Work, Resting, Counted
  <2> QED BY <2>1, <2>2, <2>3, <2>4
<1> QED BY <1>1, <1>2, <1>3, <1>4, <1>5, <1>6, <1>7, <1>8, <1>9, <1>10, <1>11,
          <1>12, <1>13, <1>14, <1>15, <1>16, <1>17 DEF OtpNext

\* Unless a lock file was removed under its holder, a challenge never gets more answers
\* than its attempts and is accepted at most once, whatever crashes and overlapping
\* verifications leave of its file.  (otpChallengeStore.ts)
THEOREM AttemptsKept == OtpSpec => []AttemptsNeverGivenBack
<1>1. OtpInv => AttemptsNeverGivenBack
  BY DEF OtpInv, Counted, AttemptsNeverGivenBack, Answered, OtpTypeOK
<1> QED BY <1>1, OtpInitInv, OtpNextInv, PTL DEF OtpSpec


(***************************************************************************)
(* The manager's lock file, for any number of processes as long as none has *)
(* died, and for two whoever dies: three can recover one dead lock together, *)
(* see the run Lock_recovery_race.                                          *)
(***************************************************************************)
Inside(t) == pc[t] \in Holding \cup {"created"}

\* Nobody takes a lock file for stale, the file belongs to the one writer past
\* its creation, and what that writer loaded is current.
Orderly ==
    /\ \A t \in Task : pc[t] \notin {"stale", "retry"}
    /\ \A t \in Task : pc[t] = "read" => seenPid[t] \in Process
    /\ \A t \in Task : Inside(t) => lockFile # None /\ lockFile.by = t
    /\ HolderIsNamed
    /\ NoLostUpdate

LockInv == TypeOK /\ (alive = Process => Orderly)

LEMMA LockInitInv == Init => LockInv
<1> SUFFICES ASSUME Init PROVE LockInv
  OBVIOUS
<1>1. TypeOK
  BY LockAssumption DEF Init, TypeOK, Acquiring, Holding
<1>2. Orderly
  BY DEF Init, Orderly, Inside, Holding, HolderIsNamed, NoLostUpdate
<1> QED BY <1>1, <1>2 DEF LockInv

\* The steps of one task, one by one, while everybody lives.
LEMMA LockStepTyped == ASSUME TypeOK, NEW t \in Task, Step(t) PROVE TypeOK'
<1> USE LockAssumption DEF TypeOK, Goto, Acquiring, Holding
<1>1. CASE Create(t)
  <2>1. [by |-> t, pid |-> None] \in File
    BY DEF File
  <2>2. lockFile' \in File \cup {None}
    BY <1>1, <2>1 DEF Create
  <2>3. pc[t] \notin {"read", "loaded"} /\ pc' \in [Task -> Acquiring \cup Holding \cup {"idle", "dead"}]
    BY <1>1 DEF Create
  <2>4. \E where \in {"created", "exists"} : pc' = [pc EXCEPT ![t] = where]
    BY <1>1 DEF Create
  <2> QED BY <1>1, <2>2, <2>3, <2>4 DEF Create
<1>2. CASE ReadPid(t)
  <2>1. CASE lockFile # None /\ lockFile.pid # None
    <3>1. lockFile.pid \in Process
      BY <2>1 DEF File
    <3> QED BY <1>2, <2>1, <3>1 DEF ReadPid
  <2>2. CASE ~(lockFile # None /\ lockFile.pid # None)
    BY <1>2, <2>2 DEF ReadPid
  <2> QED BY <2>1, <2>2
<1>3. CASE CheckPid(t)
  BY <1>3 DEF CheckPid
<1>4. CASE RemoveStale(t)
  BY <1>4 DEF RemoveStale
<1>5. CASE WritePid(t)
  <2>1. lockFile' \in File \cup {None}
    BY <1>5 DEF WritePid, File
  <2> QED BY <1>5, <2>1 DEF WritePid
<1>6. CASE Load(t)
  BY <1>6 DEF Load
<1>7. CASE Save(t)
  BY <1>7 DEF Save
<1>8. CASE Refrain(t)
  BY <1>8 DEF Refrain
<1>9. CASE Release(t)
  BY <1>9 DEF Release
<1> QED BY <1>1, <1>2, <1>3, <1>4, <1>5, <1>6, <1>7, <1>8, <1>9 DEF Step

LEMMA LockStepOrderly ==
    ASSUME TypeOK, Orderly, alive = Process, NEW t \in Task, Step(t)
    PROVE  Orderly'
<1> USE LockAssumption DEF TypeOK, Orderly, Inside, Holding, Acquiring, HolderIsNamed, NoLostUpdate, Goto, File
<1>1. CASE Create(t)
  <2>1. CASE lockFile = None
    <3>1. lockFile' = [by |-> t, pid |-> None] /\ pc' = [pc EXCEPT ![t] = "created"]
      BY <1>1, <2>1 DEF Create
    <3>2. lockFile' # None /\ lockFile'.by = t
      BY <3>1
    <3>3. \A u \in Task : ~Inside(u)
      BY <2>1
    <3> QED BY <1>1, <3>1, <3>2, <3>3 DEF Create
  <2>2. CASE lockFile # None
    BY <1>1, <2>2 DEF Create
  <2> QED BY <2>1, <2>2
<1>2. CASE ReadPid(t)
  BY <1>2 DEF ReadPid
<1>3. CASE CheckPid(t)
  BY <1>3 DEF CheckPid, Stale
<1>4. CASE RemoveStale(t)
  BY <1>4 DEF RemoveStale
<1>5. CASE WritePid(t)
  <2>1. lockFile # None /\ lockFile \in File /\ lockFile.by = t
    BY <1>5 DEF WritePid
  <2>2. lockFile' = [lockFile EXCEPT !.pid = HomeOf[t]] /\ pc' = [pc EXCEPT ![t] = "holding"]
    BY <1>5, <2>1 DEF WritePid
  <2>3. lockFile'.by = t /\ lockFile'.pid = HomeOf[t] /\ lockFile' # None
    BY <2>1, <2>2
  <2>4. \A u \in Task \ {t} : ~Inside(u)
    BY <2>1
  <2>5. HolderIsNamed'
    BY <1>5, <2>2, <2>3, <2>4 DEF WritePid
  <2>6. (\A u \in Task : Inside(u) => lockFile # None /\ lockFile.by = u)'
    BY <1>5, <2>2, <2>3, <2>4 DEF WritePid
  <2> QED BY <1>5, <2>2, <2>5, <2>6 DEF WritePid
<1>6. CASE Load(t)
  BY <1>6 DEF Load
<1>7. CASE Save(t)
  BY <1>7 DEF Save
<1>8. CASE Refrain(t)
  BY <1>8 DEF Refrain
<1>9. CASE Release(t)
  BY <1>9 DEF Release
<1> QED BY <1>1, <1>2, <1>3, <1>4, <1>5, <1>6, <1>7, <1>8, <1>9 DEF Step

LEMMA LockNextInv == LockInv /\ [Next]_vars => LockInv'
<1> SUFFICES ASSUME LockInv, [Next]_vars PROVE LockInv'
  OBVIOUS
<1>1. ASSUME NEW t \in Task, Step(t) PROVE LockInv'
  <2>1. alive' = alive
    BY <1>1 DEF Step, Create, ReadPid, CheckPid, RemoveStale, WritePid, Load, Save, Refrain,
                Release
  <2> QED BY <1>1, <2>1, LockStepTyped, LockStepOrderly DEF LockInv
<1>2. ASSUME NEW p \in Process, Crash(p) PROVE LockInv'
  BY <1>2, LockAssumption DEF Crash, LockInv, TypeOK
<1>3. CASE UNCHANGED vars
  BY <1>3 DEF vars, LockInv, TypeOK, Orderly, Inside, HolderIsNamed, NoLostUpdate
<1> QED BY <1>1, <1>2, <1>3 DEF Next

LEMMA LockInvariantHolds == Spec => []LockInv
BY LockInitInv, LockNextInv, PTL DEF Spec

\* The lock file, the processes and the writers stay well typed, and only a writer
\* in its transaction holds a loaded version.
THEOREM TypeCorrect == Spec => []TypeOK
<1>1. LockInv => TypeOK
  BY DEF LockInv
<1> QED BY <1>1, LockInvariantHolds, PTL

\* Until a process dies, at most one writer is in its transaction.
THEOREM ExclusiveUntilCrash == Spec => [](alive = Process => MutualExclusion)
<1>1. LockInv => (alive = Process => MutualExclusion)
  BY DEF LockInv, Orderly, Inside, Holding, MutualExclusion
<1> QED BY <1>1, LockInvariantHolds, PTL

\* Until a process dies, no writer saves over a version it has not seen.
THEOREM NothingLostUntilCrash == Spec => [](alive = Process => NoLostUpdate)
<1>1. LockInv => (alive = Process => NoLostUpdate)
  BY DEF LockInv, Orderly
<1> QED BY <1>1, LockInvariantHolds, PTL

\* With two processes, as when one server and one command line are all there is,
\* no process can recover a lock while another one does, and a death changes
\* nothing.  What the one that lives on takes for stale is stale: its own writers
\* wait while one of them looks at the file, and nobody else touches it.
TwoProcesses == \A p, q, r \in Process : p = q \/ q = r \/ p = r

Together(t, u) == HomeOf[t] = HomeOf[u]

DeadStay   == \A t \in Task : HomeOf[t] \notin alive => pc[t] = "dead"
OneAcquires == \A t, u \in Task :
    Together(t, u) /\ pc[t] \in Acquiring /\ pc[u] \in Acquiring => t = u
OwnFile    == \A t \in Task : Inside(t) => lockFile # None /\ lockFile.by = t
ReadOther  == \A t \in Task : pc[t] = "read" /\ seenPid[t] # HomeOf[t] =>
    \A u \in Task : Together(t, u) => ~Inside(u)
TrulyStale == \A t \in Task : pc[t] = "stale" =>
    alive = {HomeOf[t]} /\ \A u \in Task : ~Inside(u)

TwoInv ==
    /\ TypeOK /\ DeadStay /\ OneAcquires /\ OwnFile /\ ReadOther /\ TrulyStale
    /\ HolderIsNamed /\ NoLostUpdate

LEMMA TwoInitInv == Init => TwoInv
<1> SUFFICES ASSUME Init PROVE TwoInv
  OBVIOUS
<1>1. TypeOK
  BY LockInitInv DEF LockInv
<1> QED BY <1>1, LockAssumption
     DEF Init, TwoInv, DeadStay, OneAcquires, OwnFile, ReadOther, TrulyStale, Inside, Holding,
         Acquiring, HolderIsNamed, NoLostUpdate

\* A writer that takes a lock file for stale is in the only process left.
LEMMA LastOne ==
    ASSUME TwoProcesses, TwoInv, NEW t \in Task, CheckPid(t), Stale(t)
    PROVE  alive = {HomeOf[t]} /\ \A u \in Task : ~Inside(u)
<1>1. /\ HomeOf[t] \in alive /\ pc[t] = "read"
      /\ seenPid[t] \in Process /\ seenPid[t] \notin alive
  BY LockAssumption DEF CheckPid, Runs, Stale, TwoInv, TypeOK
<1>2. \A u \in Task : Together(t, u) \/ HomeOf[u] \notin alive
  <2>1. \A u \in Task : HomeOf[u] \in Process
    BY LockAssumption
  <2>2. QED BY <1>1, <2>1 DEF TwoProcesses, Together, TwoInv, TypeOK
<1>3. \A u \in Task : Together(t, u) => ~Inside(u)
  BY <1>1 DEF TwoInv, ReadOther
<1>4. \A u \in Task : HomeOf[u] \notin alive => ~Inside(u)
  BY DEF TwoInv, DeadStay, Inside, Holding
<1>5. alive = {HomeOf[t]}
  BY <1>1, LockAssumption DEF TwoProcesses, TwoInv, TypeOK
<1>6. QED BY <1>2, <1>3, <1>4, <1>5

\* The step of one writer.
LEMMA TwoStepInv == ASSUME TwoProcesses, TwoInv, NEW t \in Task, Step(t) PROVE TwoInv'
<1>0. TypeOK /\ TypeOK'
  BY LockStepTyped DEF TwoInv
<1>1. /\ Runs(t) /\ alive' = alive
      /\ \A u \in Task \ {t} : pc'[u] = pc[u] /\ seenPid'[u] = seenPid[u]
      /\ pc[t] # "dead" /\ pc'[t] # "dead"
  BY <1>0 DEF Step, Create, ReadPid, CheckPid, RemoveStale, WritePid, Load, Save, Refrain,
              Release, Goto, TypeOK
<1>2. /\ HomeOf[t] \in alive
      /\ \A u \in Task \ {t} : Together(t, u) => pc[u] \notin Acquiring /\ pc'[u] = pc[u]
      /\ \A u \in Task \ {t} : pc[u] # "stale"
  <2>1. \A u \in Task \ {t} : Together(t, u) => pc[u] \notin Acquiring
    BY <1>1 DEF Runs, Together
  <2>2. \A u \in Task : pc[u] = "stale" => Together(t, u)
    BY <1>1 DEF Runs, Together, TwoInv, TrulyStale
  <2> QED BY <1>1, <2>1, <2>2 DEF Runs, Acquiring
<1>3. DeadStay' /\ OneAcquires'
  BY <1>1, <1>2 DEF TwoInv, DeadStay, OneAcquires, Together
<1> USE DEF TwoInv, OwnFile, ReadOther, TrulyStale, Inside, HolderIsNamed, NoLostUpdate, Goto
<1>4. CASE Create(t)
  <2>1. CASE lockFile = None
    <3>1. \A u \in Task : ~Inside(u)
      BY <2>1
    <3>2. /\ lockFile' = [by |-> t, pid |-> None] /\ lockFile' # None
          /\ pc' = [pc EXCEPT ![t] = "created"]
      BY <1>4, <2>1, LockAssumption DEF Create
    <3>3. \A u \in Task : pc'[u] # "stale"
      BY <1>0, <1>1, <1>2, <3>2 DEF TypeOK
    <3> QED BY <1>0, <1>1, <1>2, <1>3, <1>4, <3>1, <3>2, <3>3
         DEF Create, Holding, Acquiring, TypeOK, Together
  <2>2. CASE lockFile # None
    BY <1>0, <1>1, <1>3, <1>4, <2>2 DEF Create, Holding, TypeOK
  <2> QED BY <2>1, <2>2
<1>5. CASE ReadPid(t)
  <2>1. CASE lockFile # None /\ lockFile.pid # None
    <3>1. /\ pc' = [pc EXCEPT ![t] = "read"] /\ seenPid' = [seenPid EXCEPT ![t] = lockFile.pid]
          /\ pc[t] = "exists" /\ UNCHANGED <<lockFile, version, loaded>>
      BY <1>5, <2>1 DEF ReadPid
    <3>2. \A u \in Task : Inside(u)' <=> Inside(u)
      BY <1>0, <3>1 DEF Holding, TypeOK
    <3>3. ASSUME lockFile.pid # HomeOf[t], NEW u \in Task, Together(t, u) PROVE ~Inside(u)
      BY <1>0, <1>2, <3>1, <3>3 DEF Together, Holding, Acquiring
    <3>4. ReadOther'
      BY <1>0, <3>1, <3>2, <3>3 DEF Together, TypeOK
    <3>5. TrulyStale' /\ OwnFile' /\ HolderIsNamed' /\ NoLostUpdate'
      BY <1>0, <1>1, <3>1, <3>2 DEF TypeOK, Holding
    <3> QED BY <1>0, <1>3, <3>4, <3>5
  <2>2. CASE ~(lockFile # None /\ lockFile.pid # None)
    BY <1>0, <1>1, <1>3, <1>5, <2>2 DEF ReadPid, Holding, TypeOK, Together
  <2> QED BY <2>1, <2>2
<1>6. CASE CheckPid(t)
  <2>1. Stale(t) => alive = {HomeOf[t]} /\ \A u \in Task : ~Inside(u)
    BY <1>6, LastOne
  <2>2. /\ pc' = [pc EXCEPT ![t] = IF Stale(t) THEN "stale" ELSE "idle"] /\ pc[t] = "read"
        /\ UNCHANGED <<lockFile, version, loaded>>
    BY <1>6 DEF CheckPid
  <2>3. \A u \in Task : Inside(u)' <=> Inside(u)
    BY <1>0, <2>2 DEF Holding, TypeOK
  <2>4. TrulyStale'
    BY <1>0, <1>1, <2>1, <2>2, <2>3 DEF TypeOK
  <2>5. ReadOther'
    BY <1>0, <1>1, <2>2, <2>3 DEF TypeOK, Together
  <2>6. OwnFile' /\ HolderIsNamed' /\ NoLostUpdate'
    BY <1>0, <2>2, <2>3 DEF TypeOK, Holding
  <2> QED BY <1>0, <1>3, <2>4, <2>5, <2>6
<1>7. CASE RemoveStale(t)
  <2>1. \A u \in Task : ~Inside(u)
    BY <1>7 DEF RemoveStale
  <2>2. \A u \in Task : ~Inside(u)'
    BY <1>0, <1>7, <2>1 DEF RemoveStale, Holding, TypeOK
  <2>3. OwnFile' /\ HolderIsNamed' /\ NoLostUpdate' /\ ReadOther'
    BY <2>2 DEF Holding
  <2>4. TrulyStale'
    BY <1>0, <1>1, <1>2, <1>7, <2>2 DEF RemoveStale, TypeOK
  <2> QED BY <1>0, <1>3, <2>3, <2>4
<1>8. CASE WritePid(t)
  <2>1. /\ lockFile # None /\ lockFile \in File /\ lockFile.by = t
        /\ \A u \in Task \ {t} : ~Inside(u)
    BY <1>0, <1>8 DEF WritePid, TypeOK
  <2>2. lockFile' = [lockFile EXCEPT !.pid = HomeOf[t]] /\ pc' = [pc EXCEPT ![t] = "holding"]
    BY <1>8, <2>1 DEF WritePid
  <2>3. lockFile'.by = t /\ lockFile'.pid = HomeOf[t] /\ lockFile' # None
    BY <2>1, <2>2, LockAssumption DEF File
  <2>4. \A u \in Task : Inside(u)' <=> u = t
    BY <1>0, <2>1, <2>2 DEF Holding, TypeOK
  <2>5. HolderIsNamed' /\ OwnFile' /\ NoLostUpdate'
    BY <1>0, <1>8, <2>1, <2>2, <2>3, <2>4 DEF WritePid, TypeOK, Holding
  <2>6. TrulyStale' /\ ReadOther'
    BY <1>0, <1>1, <1>8, <2>1, <2>2, <2>4 DEF WritePid, TypeOK, Together, Acquiring
  <2> QED BY <1>0, <1>3, <2>5, <2>6
<1>9. CASE Load(t) \/ Save(t) \/ Refrain(t)
  <2>1. /\ pc[t] \in Holding /\ \E where \in Holding : pc' = [pc EXCEPT ![t] = where]
        /\ lockFile' = lockFile /\ seenPid' = seenPid
    BY <1>9 DEF Load, Save, Refrain, Holding
  <2>2. \A u \in Task : Inside(u)' <=> Inside(u)
    BY <1>0, <2>1 DEF Holding, TypeOK
  <2>3. OwnFile' /\ HolderIsNamed' /\ TrulyStale' /\ ReadOther'
    BY <1>0, <2>1, <2>2 DEF Holding, TypeOK, Together
  <2>4. \A u \in Task \ {t} : pc[u] \notin Holding
    BY <2>1
  <2>5. NoLostUpdate'
    BY <1>0, <1>1, <1>9, <2>4 DEF Load, Save, Refrain, Holding, TypeOK
  <2> QED BY <1>0, <1>3, <2>3, <2>5
<1>10. CASE Release(t)
  <2>1. \A u \in Task : ~Inside(u)'
    BY <1>0, <1>10 DEF Release, Holding, TypeOK
  <2>2. OwnFile' /\ HolderIsNamed' /\ NoLostUpdate' /\ ReadOther'
    BY <2>1 DEF Holding
  <2>3. TrulyStale'
    BY <1>0, <1>1, <1>2, <1>10, <2>1 DEF Release, TypeOK
  <2> QED BY <1>0, <1>3, <2>2, <2>3
<1> QED BY <1>4, <1>5, <1>6, <1>7, <1>8, <1>9, <1>10 DEF Step

LEMMA TwoNextInv == ASSUME TwoProcesses PROVE TwoInv /\ [Next]_vars => TwoInv'
<1> SUFFICES ASSUME TwoInv, [Next]_vars PROVE TwoInv'
  OBVIOUS
<1>1. ASSUME NEW t \in Task, Step(t) PROVE TwoInv'
  BY <1>1, TwoStepInv
<1>2. ASSUME NEW p \in Process, Crash(p) PROVE TwoInv'
  <2>1. TypeOK'
    BY <1>2, LockAssumption DEF Crash, TwoInv, TypeOK
  <2>2. \A t \in Task : IF HomeOf[t] = p THEN pc'[t] = "dead"
                        ELSE pc'[t] = pc[t] /\ seenPid'[t] = seenPid[t] /\ loaded'[t] = loaded[t]
    BY <1>2 DEF Crash
  <2>3. lockFile' = lockFile /\ version' = version /\ alive' = alive \ {p}
    BY <1>2 DEF Crash
  <2> QED BY <2>1, <2>2, <2>3
       DEF TwoInv, DeadStay, OneAcquires, OwnFile, ReadOther, TrulyStale, Inside, Holding,
           Acquiring, HolderIsNamed, NoLostUpdate, Together
<1>3. CASE UNCHANGED vars
  BY <1>3 DEF vars, TwoInv, TypeOK, DeadStay, OneAcquires, OwnFile, ReadOther, TrulyStale, Inside,
              HolderIsNamed, NoLostUpdate
<1> QED BY <1>1, <1>2, <1>3 DEF Next

LEMMA TwoInvariantHolds == ASSUME TwoProcesses PROVE Spec => []TwoInv
<1>1. TwoInv /\ [Next]_vars => TwoInv'
  BY TwoNextInv
<1> QED BY <1>1, TwoInitInv, PTL DEF Spec

\* With two processes no writer ever saves over a version it has not seen, whoever
\* of them dies, at any moment, and leaves a lock file behind.
THEOREM TwoLoseNothing == ASSUME TwoProcesses PROVE Spec => []NoLostUpdate
<1>1. TwoInv => NoLostUpdate
  BY DEF TwoInv
<1> QED BY <1>1, TwoInvariantHolds, PTL

\* Nor are two writers ever in their transactions together, and the lock file
\* names the process of the one that is.
THEOREM TwoExclude == ASSUME TwoProcesses PROVE Spec => [](MutualExclusion /\ HolderIsNamed)
<1>1. TwoInv => MutualExclusion /\ HolderIsNamed
  BY DEF TwoInv, OwnFile, Inside, MutualExclusion
<1> QED BY <1>1, TwoInvariantHolds, PTL

(***************************************************************************)
(* The rules of the sites: the server has those of the file it last took up, *)
(* and a sign-in carries a site the server has and an address of that site.  *)
(***************************************************************************)
\* The sites are those of the file last taken up, which was well formed, and a file the
\* manager published grants what it meant.
SitesTakenUp ==
    /\ Loads(takenUp.text) /\ sites = ParseSites(takenUp.text)
    /\ \A i \in DOMAIN file : file[i].id \in SiteId
    /\ \A i \in DOMAIN takenUp.text : takenUp.text[i].id \in SiteId

Grants(text, g) ==
    /\ Managed \in {text[i].id : i \in DOMAIN text}
    /\ g \in [Email -> GrantSets]
    /\ \A i \in DOMAIN text : text[i].id = Managed =>
          /\ text[i].allowedEmails = RenderSiteAccessRules(g).allowedEmails
          /\ text[i].accessRules = RenderSiteAccessRules(g).accessRules
PublishedAsMeant ==
    /\ grants # Nothing => Grants(file, grants)
    /\ takenUp.grants # Nothing => Grants(takenUp.text, takenUp.grants)

\* The site a sign-in is for is one of the list, and the address is one of its.
AtHome(list, id, url) == \E i \in DOMAIN list : list[i].id = id /\ url.origin \in list[i].origins

\* A mail is written for somebody a rule admitted, to lead back to the site it is for.
Rightful(list, mail) ==
    /\ mail \in SignIn /\ mail.could
    /\ mail.same /\ mail.to # Nothing => AtHome(list, mail.site, mail.to)
Leads(site, mail) == mail.to # Nothing => mail.to.origin \in site.origins

Asked(list, call) ==
    /\ call = [at |-> call.at, site |-> call.site, email |-> call.email, scope |-> call.scope,
               to |-> call.to, verify |-> call.verify, could |-> call.could]
    /\ call.site.id \in SiteId /\ call.email \in Email /\ call.scope \in Scope \union {Full}
    /\ {call.to, call.verify} \subseteq Url \union {Nothing} /\ call.could \in BOOLEAN
    /\ call.to # Nothing => AtHome(list, call.site.id, call.to)
Answering(list, box, call) ==
    \/ call = AtRest
    \/ /\ call.at = "limited" /\ Asked(list, call)
       /\ SiteAllows(call.site, call.email, call.scope) => call.could
    \/ call.at = "admitted" /\ Asked(list, call) /\ call.could
    \/ /\ call.at = "validated" /\ call = [at |-> call.at, mail |-> call.mail, site |-> call.site]
       /\ call.mail \in Mail \union Onward /\ box[call.mail] \in SignIn
       /\ Leads(call.site, box[call.mail])
    \/ /\ call.at = "coded" /\ call = [at |-> call.at, mail |-> call.mail]
       /\ call.mail \in Mail \union Onward /\ box[call.mail] \in SignIn
    \/ /\ call.at = "signing"
       /\ call = [at |-> call.at, mail |-> call.mail, site |-> call.site, by |-> call.by]
       /\ call.by \in {"link", "code"}
       /\ call.mail \in Mail \union Onward /\ box[call.mail] \in SignIn
       /\ call.by = "link" \/ box[call.mail].same => Leads(call.site, box[call.mail])

SiteInv ==
    /\ SitesTakenUp
    /\ PublishedAsMeant
    /\ DOMAIN mails = Mail \union Onward /\ DOMAIN busy = Call
    /\ \A m \in Mail \union Onward : mails[m] = Nothing \/ Rightful(sites, mails[m])
    /\ \A c \in Call : Answering(sites, mails, busy[c])
    /\ AdmittedWhenAsked /\ DeliveredAtHome

LEMMA ParsedSites ==
    ASSUME NEW text, NEW i \in DOMAIN text
    PROVE  /\ DOMAIN ParseSites(text) = DOMAIN text
           /\ ParseSites(text)[i].id = text[i].id
           /\ ParseSites(text)[i].rules = BuildSiteAccessRules(text[i])
           /\ ParseSites(text)[i].uris = ParseAllowedRedirectUris(text[i].uris)
           /\ ParseSites(text)[i].origins = ParseOrigins(text[i].origins)
BY DEF ParseSites, BuildConfiguredSite

\* Every line about a person counts, and no line about another.
LEMMA RulesAddUp ==
    ASSUME NEW text, Loads(text), NEW i \in DOMAIN text, NEW e \in Email,
           NEW scope \in Scope \union {Full}
    PROVE  SiteAllows(ParseSites(text)[i], e, scope) <=> Granted(text, text[i].id, e, scope)
<1> DEFINE rules == BuildSiteAccessRules(text[i])[e]
           site == text[i]
<1>1. \A j \in DOMAIN text : text[j].id = text[i].id => j = i
  BY ParsedSites DEF Loads, SitesAreConsistent
<1>2. SiteAllows(ParseSites(text)[i], e, scope) <=> Full \in rules \/ scope \in rules
  BY ParsedSites DEF SiteAllows
<1>3. rules = AddAccessRule(site.accessRules, e) \union IF e \in site.allowedEmails THEN {Full} ELSE {}
  BY DEF BuildSiteAccessRules
<1>4. \A x \in Scope \union {Full} : x \in AddAccessRule(site.accessRules, e) <=>
          \E rule \in site.accessRules : rule.email = e /\ x \in rule.scopes
  BY SiteAccessAssumption DEF AddAccessRule, NormaliseScopes
<1>5. Full \in rules \/ scope \in rules <=>
          \/ e \in site.allowedEmails
          \/ \E rule \in site.accessRules : rule.email = e /\ (Full \in rule.scopes \/ scope \in rule.scopes)
  BY <1>3, <1>4
<1>6. Granted(text, text[i].id, e, scope) <=>
          \/ e \in site.allowedEmails
          \/ \E rule \in site.accessRules : rule.email = e /\ (Full \in rule.scopes \/ scope \in rule.scopes)
  BY <1>1 DEF Granted
<1> QED BY <1>2, <1>5, <1>6

\* What the manager wrote for a site is what it granted.
LEMMA GrantsAddUp ==
    ASSUME NEW text, NEW g, Grants(text, g), NEW i \in DOMAIN text, text[i].id = Managed,
           NEW e \in Email, NEW scope \in Scope \union {Full}
    PROVE  Granted(text, Managed, e, scope) <=> Full \in g[e] \/ scope \in g[e]
<1>1. \A j \in DOMAIN text : text[j].id = Managed =>
          (e \in text[j].allowedEmails <=> Full \in g[e])
  BY DEF Grants, RenderSiteAccessRules
<1>2. ASSUME NEW j \in DOMAIN text, text[j].id = Managed
      PROVE  (\E rule \in text[j].accessRules : rule.email = e /\ (Full \in rule.scopes \/ scope \in rule.scopes))
                <=> Full \notin g[e] /\ scope \in g[e]
  <2>1. text[j].accessRules = {[email |-> x, scopes |-> g[x]] : x \in {y \in Email : g[y] # {} /\ Full \notin g[y]}}
    BY <1>2 DEF Grants, RenderSiteAccessRules
  <2>2. ASSUME NEW rule \in text[j].accessRules, rule.email = e
        PROVE  rule.scopes = g[e] /\ Full \notin g[e]
    BY <2>1, <2>2
  <2>3. ASSUME g[e] # {}, Full \notin g[e]
        PROVE  \E rule \in text[j].accessRules : rule.email = e /\ rule.scopes = g[e]
    <3>1. [email |-> e, scopes |-> g[e]] \in text[j].accessRules
      BY <2>1, <2>3
    <3> QED BY <3>1
  <2> QED BY <2>2, <2>3
<1> QED BY <1>1, <1>2 DEF Granted

LEMMA SitesFound ==
    ASSUME SitesTakenUp
    PROVE  /\ \A i \in DOMAIN sites : FindSiteById(sites[i].id) = sites[i]
           /\ \A id : FindSiteById(id) # Nothing =>
                 \E i \in DOMAIN sites : FindSiteById(id) = sites[i] /\ sites[i].id = id
           /\ \A origin : FindSiteByOrigin(origin) # Nothing =>
                 \E i \in DOMAIN sites : FindSiteByOrigin(origin) = sites[i] /\ origin \in sites[i].origins
<1>1. \A i, j \in DOMAIN sites : sites[i].id = sites[j].id => i = j
  BY DEF SitesTakenUp, Loads, SitesAreConsistent
<1>2. ASSUME NEW i \in DOMAIN sites PROVE FindSiteById(sites[i].id) = sites[i]
  <2>1. {j \in DOMAIN sites : sites[j].id = sites[i].id} = {i}
    BY <1>1
  <2> QED BY <2>1 DEF FindSiteById, FindSite
<1>3. ASSUME NEW matching \in SUBSET (DOMAIN sites), FindSite(matching) # Nothing
      PROVE  \E i \in matching : FindSite(matching) = sites[i]
  BY <1>3 DEF FindSite
<1>4. ASSUME NEW id, FindSiteById(id) # Nothing
      PROVE  \E i \in DOMAIN sites : FindSiteById(id) = sites[i] /\ sites[i].id = id
  BY <1>3, <1>4 DEF FindSiteById
<1>5. ASSUME NEW origin, FindSiteByOrigin(origin) # Nothing
      PROVE  \E i \in DOMAIN sites : FindSiteByOrigin(origin) = sites[i] /\ origin \in sites[i].origins
  <2> DEFINE matching == {i \in DOMAIN sites : origin \in sites[i].origins}
  <2>1. FindSiteByOrigin(origin) = FindSite(matching) /\ matching \in SUBSET (DOMAIN sites)
    BY DEF FindSiteByOrigin
  <2>2. \E i \in matching : FindSite(matching) = sites[i]
    BY <1>3, <1>5, <2>1
  <2> QED BY <2>1, <2>2
<1> QED BY <1>2, <1>4, <1>5

\* A site that lets a browser return to an address has the address's origin.
LEMMA ReturnsHome ==
    ASSUME SitesTakenUp, NEW i \in DOMAIN sites, NEW url, NormalisedForSite(sites[i], url) # Nothing
    PROVE  url.origin \in sites[i].origins
<1>1. PICK rule \in sites[i].uris : rule.origin = url.origin
  BY DEF NormalisedForSite, SiteAllowsRedirectUrl, MatchesRule
<1>2. \A u \in sites[i].uris : u.origin \in sites[i].origins
  BY DEF SitesTakenUp, Loads, SitesAreConsistent
<1> QED BY <1>1, <1>2

LEMMA RequestIsForItsSite ==
    ASSUME SitesTakenUp, NEW returnUrl, NEW verifyUrl, ResolveSignInRequest(returnUrl, verifyUrl) # Nothing
    PROVE  \E i \in DOMAIN sites :
              /\ ResolveSignInRequest(returnUrl, verifyUrl) = sites[i]
              /\ returnUrl # Nothing => returnUrl.origin \in sites[i].origins
<1>1. ASSUME NEW url, ResolveRedirectTarget(url, Nothing) # Nothing
      PROVE  \E i \in DOMAIN sites : ResolveRedirectTarget(url, Nothing) = sites[i] /\ url.origin \in sites[i].origins
  BY <1>1, SitesFound DEF ResolveRedirectTarget
<1>2. ASSUME NEW url, NEW known, known # Nothing, ResolveRedirectTarget(url, known) # Nothing
      PROVE  ResolveRedirectTarget(url, known) = known
  BY <1>2 DEF ResolveRedirectTarget
<1>3. CASE returnUrl # Nothing
  <2>1. ResolveRedirectTarget(returnUrl, Nothing) # Nothing
    BY <1>3 DEF ResolveSignInRequest
  <2>2. ResolveSignInRequest(returnUrl, verifyUrl) = ResolveRedirectTarget(returnUrl, Nothing)
    BY <1>2, <1>3, <2>1 DEF ResolveSignInRequest
  <2> QED BY <1>1, <2>1, <2>2
<1>4. CASE returnUrl = Nothing
  BY <1>1, <1>4 DEF ResolveSignInRequest
<1> QED BY <1>3, <1>4

LEMMA SiteInitInv == SiteInit => SiteInv
<1> SUFFICES ASSUME SiteInit PROVE SiteInv
  OBVIOUS
<1>1. \A i \in DOMAIN FirstText : FirstText[i].id \in SiteId
  BY SiteAccessAssumption DEF SiteId
<1>2. SitesTakenUp
  BY <1>1, SiteAccessAssumption DEF SitesTakenUp, SiteInit
<1> QED BY <1>2 DEF SiteInv, SiteInit, PublishedAsMeant, Answering, AdmittedWhenAsked, DeliveredAtHome

\* A mail keeps what it says and where it leads.
Kept(mail, next) ==
    mail \in SignIn =>
        next \in SignIn /\ next.site = mail.site /\ next.to = mail.to /\ next.same = mail.same

LEMMA StillAnswering ==
    ASSUME NEW list, NEW box, NEW next, NEW call, Answering(list, box, call),
           \A m \in Mail \union Onward : Kept(box[m], next[m])
    PROVE  Answering(list, next, call)
BY DEF Answering, Kept, Leads

\* A handler goes on, and may write a mail or deliver a token.
LEMMA WatchingInv ==
    ASSUME SiteInv, Watching, NEW c \in Call, NEW call, Turn(c, call),
           DOMAIN mails' = Mail \union Onward,
           \A m \in Mail \union Onward :
              Kept(mails[m], mails'[m]) /\ (mails'[m] = Nothing \/ Rightful(sites, mails'[m])),
           Answering(sites, mails', call),
           delivered' = delivered \/ (AdmittedWhenAsked' /\ DeliveredAtHome')
    PROVE  SiteInv'
<1>1. UNCHANGED <<file, grants, sites, takenUp>>
  BY DEF Watching
<1>2. DOMAIN busy' = Call /\ busy'[c] = call /\ \A d \in Call \ {c} : busy'[d] = busy[d]
  BY DEF SiteInv, Turn
<1>3. \A d \in Call : Answering(sites, mails', busy'[d])
  BY <1>2, StillAnswering DEF SiteInv
<1>4. (\A d \in Call : Answering(sites, mails, busy[d]))'
  BY <1>1, <1>3
<1>5. SitesTakenUp' /\ PublishedAsMeant'
  BY <1>1 DEF SiteInv, SitesTakenUp, PublishedAsMeant
<1>6. (\A m \in Mail \union Onward : mails[m] = Nothing \/ Rightful(sites, mails[m]))'
  BY <1>1
<1>7. AdmittedWhenAsked' /\ DeliveredAtHome'
  BY DEF SiteInv, AdmittedWhenAsked, DeliveredAtHome
<1> QED BY <1>2, <1>4, <1>5, <1>6, <1>7 DEF SiteInv

LEMMA MailsKept ==
    ASSUME SiteInv
    PROVE  \A m \in Mail \union Onward :
              Kept(mails[m], mails[m]) /\ (mails[m] = Nothing \/ Rightful(sites, mails[m]))
BY DEF SiteInv, Kept

LEMMA SignInArrivesInv ==
    ASSUME SiteInv, NEW c \in Call, NEW e \in Email, NEW scope \in Scope \union {Full},
           NEW returnUrl \in Url \union {Nothing}, NEW verifyUrl \in Url \union {Nothing},
           SignInArrives(c, e, scope, returnUrl, verifyUrl)
    PROVE  SiteInv'
<1> DEFINE site == ResolveSignInRequest(returnUrl, verifyUrl)
           could == Granted(takenUp.text, site.id, e, scope)
           call == [at |-> "limited", site |-> site, email |-> e, scope |-> scope,
                    to |-> returnUrl, verify |-> verifyUrl, could |-> could]
<1>1. site # Nothing /\ Turn(c, call) /\ Watching /\ UNCHANGED <<mails, delivered>>
  BY DEF SignInArrives
<1>2. PICK i \in DOMAIN sites : site = sites[i] /\ (returnUrl # Nothing => returnUrl.origin \in sites[i].origins)
  BY <1>1, RequestIsForItsSite DEF SiteInv
<1>3. /\ i \in DOMAIN takenUp.text /\ sites = ParseSites(takenUp.text) /\ Loads(takenUp.text)
      /\ sites[i].id = takenUp.text[i].id /\ sites[i].id \in SiteId
  BY <1>2, ParsedSites DEF SiteInv, SitesTakenUp, ParseSites
<1>4. SiteAllows(site, e, scope) <=> could
  BY <1>2, <1>3, RulesAddUp
<1>5. could \in BOOLEAN
  BY DEF Granted
<1>6. returnUrl # Nothing => AtHome(sites, site.id, returnUrl)
  BY <1>2 DEF AtHome
<1> HIDE DEF site, could
<1>7. Answering(sites, mails, call)
  BY <1>2, <1>3, <1>4, <1>5, <1>6 DEF Answering, Asked
<1> QED BY <1>1, <1>7, MailsKept, WatchingInv DEF SiteInv

LEMMA RestIsAnswering == \A list, box : Answering(list, box, AtRest)
BY DEF Answering

LEMMA AdmitInv == ASSUME SiteInv, NEW c \in Call, Admit(c) \/ Refuse(c) PROVE SiteInv'
<1>1. Watching /\ UNCHANGED <<mails, delivered>>
  BY DEF Admit, Refuse
<1>2. CASE Handled(c)
  BY <1>1, <1>2, MailsKept, RestIsAnswering, WatchingInv DEF Handled, SiteInv
<1>3. CASE busy[c].at = "limited" /\ IsAllowed(busy[c]) /\ Turn(c, [busy[c] EXCEPT !.at = "admitted"])
  <2> DEFINE old == busy[c]
             call == [old EXCEPT !.at = "admitted"]
  <2>1. Asked(sites, old) /\ old.could
    BY <1>3 DEF SiteInv, Answering, IsAllowed, AtRest
  <2>2. call = [at |-> "admitted", site |-> old.site, email |-> old.email, scope |-> old.scope,
                to |-> old.to, verify |-> old.verify, could |-> old.could]
    <3>1. old = [at |-> old.at, site |-> old.site, email |-> old.email, scope |-> old.scope,
                 to |-> old.to, verify |-> old.verify, could |-> old.could]
      BY <2>1 DEF Asked
    <3>2. \A at, site, e, scope, to, verify, could :
            [[at |-> at, site |-> site, email |-> e, scope |-> scope, to |-> to, verify |-> verify,
              could |-> could] EXCEPT !.at = "admitted"]
              = [at |-> "admitted", site |-> site, email |-> e, scope |-> scope, to |-> to,
                 verify |-> verify, could |-> could]
      OBVIOUS
    <3> QED BY <3>1, <3>2
  <2> HIDE DEF call
  <2>3. Answering(sites, mails, call)
    BY <2>1, <2>2 DEF Answering, Asked
  <2> QED BY <1>1, <1>3, <2>3, MailsKept, WatchingInv DEF SiteInv, call
<1> QED BY <1>2, <1>3 DEF Admit, Refuse

\* A handler writes one mail, and leaves its predecessor's place and addressee alone.
LEMMA WrittenKept ==
    ASSUME SiteInv, NEW m \in Mail \union Onward, NEW r, Written(m, r), Rightful(sites, r),
           mails[m] = Nothing \/ (r.site = mails[m].site /\ r.to = mails[m].to /\ r.same = mails[m].same)
    PROVE  /\ DOMAIN mails' = Mail \union Onward /\ mails'[m] = r
           /\ \A n \in Mail \union Onward :
                 Kept(mails[n], mails'[n]) /\ (mails'[n] = Nothing \/ Rightful(sites, mails'[n]))
<1>1. /\ DOMAIN mails' = Mail \union Onward /\ mails'[m] = r
      /\ \A n \in (Mail \union Onward) \ {m} : mails'[n] = mails[n]
  BY DEF Written, SiteInv
<1>2. Kept(mails[m], r)
  BY SiteAccessAssumption DEF Kept, Rightful
<1> QED BY <1>1, <1>2, MailsKept

LEMMA SendMailInv == ASSUME SiteInv, NEW c \in Call, NEW m \in Mail, SendMail(c, m) PROVE SiteInv'
<1> DEFINE call == busy[c]
           r == [site |-> call.site.id, email |-> call.email, scope |-> call.scope, to |-> call.to,
                 verify |-> call.verify, could |-> call.could, spent |-> FALSE, coded |-> TRUE, same |-> TRUE]
<1>1. /\ call.at = "admitted" /\ mails[m] = Nothing /\ Written(m, r)
      /\ Handled(c) /\ Watching /\ UNCHANGED delivered
  BY DEF SendMail
<1>2. Asked(sites, call) /\ call.could
  BY <1>1 DEF SiteInv, Answering, AtRest
<1>3. Rightful(sites, r)
  BY <1>2 DEF Rightful, Asked, SignIn
<1> HIDE DEF r
<1> QED BY <1>1, <1>3, WrittenKept, RestIsAnswering, WatchingInv DEF Handled

LEMMA FollowLinkInv ==
    ASSUME SiteInv, NEW c \in Call, NEW m \in Mail \union Onward, FollowLink(c, m) PROVE SiteInv'
<1> DEFINE site == FindSiteById(mails[m].site)
           call == [at |-> "validated", mail |-> m, site |-> site]
<1>1. /\ mails[m] # Nothing /\ site # Nothing /\ Turn(c, call)
      /\ mails[m].to # Nothing => NormalisedForSite(site, mails[m].to) # Nothing
      /\ Watching /\ UNCHANGED <<mails, delivered>>
  BY DEF FollowLink
<1>2. PICK i \in DOMAIN sites : site = sites[i]
  BY <1>1, SitesFound DEF SiteInv
<1>3. Leads(site, mails[m])
  BY <1>1, <1>2, ReturnsHome DEF Leads, SiteInv
<1>4. mails[m] \in SignIn
  BY <1>1 DEF SiteInv, Rightful
<1> HIDE DEF site
<1>5. Answering(sites, mails, call)
  BY <1>3, <1>4 DEF Answering
<1> QED BY <1>1, <1>5, MailsKept, WatchingInv DEF SiteInv

LEMMA EnterCodeInv == ASSUME SiteInv, NEW c \in Call, NEW m \in Mail, EnterCode(c, m) PROVE SiteInv'
<1> DEFINE r == [mails[m] EXCEPT !.coded = FALSE]
           call == [at |-> "coded", mail |-> m]
<1>1. /\ mails[m] # Nothing /\ Written(m, r) /\ Turn(c, call) /\ Watching /\ UNCHANGED delivered
  BY DEF EnterCode
<1>2. Rightful(sites, mails[m])
  BY <1>1 DEF SiteInv
<1>3. Rightful(sites, r) /\ r \in SignIn /\ r.site = mails[m].site /\ r.to = mails[m].to /\ r.same = mails[m].same
  BY <1>2 DEF Rightful, SignIn
<1> HIDE DEF r
<1>4. mails'[m] = r
  BY <1>1, <1>3, WrittenKept
<1>5. Answering(sites, mails', call)
  BY <1>3, <1>4 DEF Answering
<1> QED BY <1>1, <1>3, <1>5, WrittenKept, WatchingInv

LEMMA SpendGrantInv == ASSUME SiteInv, NEW c \in Call, SpendGrant(c) PROVE SiteInv'
<1> DEFINE m == busy[c].mail
           site == IF busy[c].at = "validated" THEN busy[c].site ELSE FindSiteById(mails[m].site)
           by == IF busy[c].at = "validated" THEN "link" ELSE "code"
           r == [mails[m] EXCEPT !.spent = TRUE]
           call == [at |-> "signing", mail |-> m, site |-> site, by |-> by]
<1>1. /\ busy[c].at \in {"validated", "coded"} /\ Watching /\ UNCHANGED delivered
      /\ \/ Handled(c) /\ UNCHANGED mails
         \/ Written(m, r) /\ (Handled(c) \/ (site # Nothing /\ Turn(c, call)))
  BY DEF SpendGrant
<1>2. /\ m \in Mail \union Onward /\ mails[m] \in SignIn
      /\ busy[c].at = "validated" => Leads(busy[c].site, mails[m])
  BY <1>1 DEF SiteInv, Answering, AtRest
<1>3. Rightful(sites, mails[m])
  BY <1>2, SiteAccessAssumption DEF SiteInv
<1>4. Rightful(sites, r) /\ r \in SignIn /\ r.site = mails[m].site /\ r.to = mails[m].to /\ r.same = mails[m].same
  BY <1>3 DEF Rightful, SignIn
<1> HIDE DEF r
<1>5. CASE Handled(c) /\ UNCHANGED mails
  BY <1>1, <1>5, MailsKept, RestIsAnswering, WatchingInv DEF Handled, SiteInv
<1>6. CASE Written(m, r) /\ Handled(c)
  BY <1>1, <1>2, <1>4, <1>6, WrittenKept, RestIsAnswering, WatchingInv DEF Handled
<1>7. CASE Written(m, r) /\ site # Nothing /\ Turn(c, call)
  <2>1. mails'[m] = r
    BY <1>2, <1>4, <1>7, WrittenKept
  <2>2. by = "link" \/ r.same => Leads(site, r)
    <3>1. CASE busy[c].at = "validated"
      BY <1>2, <1>4, <3>1 DEF Leads
    <3>2. CASE busy[c].at = "coded"
      <4> SUFFICES ASSUME mails[m].same, mails[m].to # Nothing PROVE mails[m].to.origin \in site.origins
        BY <1>4, <3>2 DEF Leads
      <4>1. PICK i \in DOMAIN sites : sites[i].id = mails[m].site /\ mails[m].to.origin \in sites[i].origins
        BY <1>3 DEF Rightful, AtHome
      <4>2. site = sites[i]
        BY <3>2, <4>1, SitesFound DEF SiteInv
      <4> QED BY <4>1, <4>2
    <3> QED BY <1>1, <3>1, <3>2
  <2>3. by \in {"link", "code"}
    OBVIOUS
  <2> HIDE DEF by, site
  <2>4. Answering(sites, mails', call)
    BY <1>2, <1>4, <2>1, <2>2, <2>3 DEF Answering
  <2> QED BY <1>1, <1>2, <1>4, <1>7, <2>4, WrittenKept, WatchingInv
<1> QED BY <1>1, <1>5, <1>6, <1>7

LEMMA DeliverInv == ASSUME SiteInv, NEW c \in Call, Deliver(c) PROVE SiteInv'
<1> DEFINE call == busy[c]
           mail == mails[call.mail]
<1>1. /\ call.at = "signing" /\ Handled(c) /\ Watching /\ UNCHANGED mails
      /\ delivered' = [audience |-> call.site.origins, to |-> mail.to, by |-> call.by,
                       same |-> mail.same, could |-> mail.could]
  BY DEF Deliver
<1>2. /\ call.mail \in Mail \union Onward /\ mail \in SignIn
      /\ call.by = "link" \/ mail.same => Leads(call.site, mail)
  BY <1>1 DEF SiteInv, Answering, AtRest
<1>3. mail.could
  BY <1>2, SiteAccessAssumption DEF SiteInv, Rightful
<1>4. AdmittedWhenAsked' /\ DeliveredAtHome'
  BY <1>1, <1>2, <1>3 DEF AdmittedWhenAsked, DeliveredAtHome, Leads
<1> QED BY <1>1, <1>4, MailsKept, RestIsAnswering, WatchingInv DEF Handled, SiteInv

LEMMA SendToVerifyUrlInv ==
    ASSUME SiteInv, NEW c \in Call, NEW m \in Onward, SendToVerifyUrl(c, m) PROVE SiteInv'
<1> DEFINE old == mails[busy[c].mail]
           r == [old EXCEPT !.spent = FALSE]
<1>1. /\ busy[c].at = "signing" /\ mails[m] = Nothing /\ Written(m, r)
      /\ Handled(c) /\ Watching /\ UNCHANGED delivered
  BY DEF SendToVerifyUrl
<1>2. busy[c].mail \in Mail \union Onward /\ old \in SignIn
  BY <1>1 DEF SiteInv, Answering, AtRest
<1>3. Rightful(sites, old)
  BY <1>2, SiteAccessAssumption DEF SiteInv
<1>4. Rightful(sites, r)
  BY <1>3 DEF Rightful, SignIn
<1> HIDE DEF r
<1> QED BY <1>1, <1>4, WrittenKept, RestIsAnswering, WatchingInv DEF Handled

\* The file changes, and the server does not know.
LEMMA FileWrittenInv ==
    ASSUME SiteInv, EditFile \/ (\E g \in [Email -> GrantSets] : Publish(g)) PROVE SiteInv'
<1>1. UNCHANGED <<sites, takenUp, busy, mails, delivered>>
  BY DEF EditFile, Publish
<1>2. (\A i \in DOMAIN file : file[i].id \in SiteId)' /\ (grants # Nothing => Grants(file, grants))'
  <2>1. CASE EditFile
    BY <2>1 DEF EditFile, SiteId
  <2>2. ASSUME NEW g \in [Email -> GrantSets], Publish(g)
        PROVE  (\A i \in DOMAIN file : file[i].id \in SiteId)' /\ (grants # Nothing => Grants(file, grants))'
    <3>1. /\ Managed \in {file[i].id : i \in DOMAIN file} /\ grants' = g
          /\ file' = [i \in DOMAIN file |-> IF file[i].id = Managed THEN RenderManagedSite(file[i], g)
                                            ELSE file[i]]
      BY <2>2 DEF Publish
    <3>2. /\ DOMAIN file' = DOMAIN file
          /\ \A i \in DOMAIN file : file'[i].id = file[i].id
          /\ \A i \in DOMAIN file : file[i].id = Managed =>
                /\ file'[i].allowedEmails = RenderSiteAccessRules(g).allowedEmails
                /\ file'[i].accessRules = RenderSiteAccessRules(g).accessRules
      BY <3>1 DEF RenderManagedSite
    <3>3. Grants(file', g)
      BY <3>1, <3>2 DEF Grants
    <3> QED BY <3>1, <3>2, <3>3 DEF SiteInv, SitesTakenUp
  <2> QED BY <2>1, <2>2
<1>3. SitesTakenUp' /\ PublishedAsMeant'
  BY <1>1, <1>2 DEF SiteInv, SitesTakenUp, PublishedAsMeant
<1> QED BY <1>1, <1>3 DEF SiteInv, AdmittedWhenAsked, DeliveredAtHome

\* The sites of a reload are the sites there were.
LEMMA HomeStays ==
    ASSUME NEW list, NEW next, Invariant(next) = Invariant(list), NEW id, NEW url, AtHome(list, id, url)
    PROVE  AtHome(next, id, url)
<1>1. PICK i \in DOMAIN list : list[i].id = id /\ url.origin \in list[i].origins
  BY DEF AtHome
<1>2. [id |-> list[i].id, origins |-> list[i].origins, uris |-> list[i].uris] \in Invariant(next)
  BY DEF Invariant
<1>3. PICK j \in DOMAIN next : [id |-> list[i].id, origins |-> list[i].origins, uris |-> list[i].uris]
          = [id |-> next[j].id, origins |-> next[j].origins, uris |-> next[j].uris]
  BY <1>2 DEF Invariant
<1>4. next[j].id = list[i].id /\ next[j].origins = list[i].origins
  BY <1>3
<1> QED BY <1>1, <1>4 DEF AtHome

LEMMA TakenUpInv ==
    ASSUME SiteInv, Loads(file), TakeUp(ParseSites(file)), UNCHANGED <<file, grants>>
    PROVE  SitesTakenUp' /\ PublishedAsMeant'
<1>1. sites' = ParseSites(file) /\ takenUp' = [text |-> file, grants |-> grants]
  BY DEF TakeUp
<1>2. takenUp'.text = file /\ takenUp'.grants = grants
  BY <1>1
<1> QED BY <1>1, <1>2 DEF SiteInv, SitesTakenUp, PublishedAsMeant

LEMMA ReloadInv == ASSUME SiteInv, Reload PROVE SiteInv'
<1>1. /\ Loads(file) /\ Invariant(sites') = Invariant(sites) /\ TakeUp(ParseSites(file))
      /\ busy' = StillCould(file) /\ UNCHANGED <<file, grants, mails, delivered>>
  BY DEF Reload, TakeUp
<1>2. \A id, url : AtHome(sites, id, url) => AtHome(sites', id, url)
  BY <1>1, HomeStays
<1>3. \A m \in Mail \union Onward : mails[m] = Nothing \/ Rightful(sites', mails[m])
  BY <1>2 DEF SiteInv, Rightful
<1>4. DOMAIN busy' = Call
  BY <1>1 DEF StillCould
<1>5. ASSUME NEW c \in Call PROVE Answering(sites', mails, busy'[c])
  <2> DEFINE old == busy[c]
             could == old.could \/ Granted(file, old.site.id, old.email, old.scope)
             call == [at |-> old.at, site |-> old.site, email |-> old.email, scope |-> old.scope,
                      to |-> old.to, verify |-> old.verify, could |-> could]
  <2>1. Answering(sites, mails, old)
    BY DEF SiteInv
  <2>2. CASE old.at \in {"limited", "admitted"}
    <3>1. Asked(sites, old) /\ (old.at = "admitted" => old.could)
          /\ (old.at = "limited" /\ SiteAllows(old.site, old.email, old.scope) => old.could)
      BY <2>1, <2>2 DEF Answering, AtRest
    <3>2. busy'[c] = [old EXCEPT !.could = could]
      BY <1>1, <2>2 DEF StillCould
    <3>3. old = [at |-> old.at, site |-> old.site, email |-> old.email, scope |-> old.scope,
                 to |-> old.to, verify |-> old.verify, could |-> old.could]
      BY <3>1 DEF Asked
    <3>4. could \in BOOLEAN
      BY <3>1 DEF Granted, Asked
    <3> HIDE DEF could
    <3>5. \A at, site, e, scope, to, verify, was :
            [[at |-> at, site |-> site, email |-> e, scope |-> scope, to |-> to, verify |-> verify,
              could |-> was] EXCEPT !.could = could]
              = [at |-> at, site |-> site, email |-> e, scope |-> scope, to |-> to,
                 verify |-> verify, could |-> could]
      OBVIOUS
    <3>6. busy'[c] = call
      BY <3>2, <3>3, <3>5
    <3>7. Asked(sites', call)
      BY <1>2, <3>1, <3>4 DEF Asked
    <3>8. old.could => could
      BY DEF could
    <3> QED BY <2>2, <3>1, <3>6, <3>7, <3>8 DEF Answering
  <2>3. CASE old.at \notin {"limited", "admitted"}
    <3>1. busy'[c] = old
      BY <1>1, <2>3 DEF StillCould
    <3> QED BY <2>1, <2>3, <3>1 DEF Answering
  <2> QED BY <2>2, <2>3
<1>6. (\A c \in Call : Answering(sites, mails, busy[c]))'
  BY <1>1, <1>5
<1>7. (\A m \in Mail \union Onward : mails[m] = Nothing \/ Rightful(sites, mails[m]))'
  BY <1>1, <1>3
<1> QED BY <1>1, <1>4, <1>6, <1>7, TakenUpInv DEF SiteInv, AdmittedWhenAsked, DeliveredAtHome

LEMMA RestartInv == ASSUME SiteInv, Restart PROVE SiteInv'
<1> DEFINE as == Invariant(sites') = Invariant(sites)
<1>1. /\ Loads(file) /\ TakeUp(ParseSites(file)) /\ busy' = [c \in Call |-> AtRest]
      /\ mails' = [m \in DOMAIN mails |-> IF mails[m] = Nothing THEN Nothing
                                          ELSE [mails[m] EXCEPT !.same = @ /\ as]]
      /\ UNCHANGED <<file, grants, delivered>>
  BY DEF Restart
<1>2. as => \A id, url : AtHome(sites, id, url) => AtHome(sites', id, url)
  BY HomeStays
<1>3. as \in BOOLEAN
  OBVIOUS
<1> HIDE DEF as
<1>4. DOMAIN mails' = Mail \union Onward /\ DOMAIN busy' = Call
  BY <1>1 DEF SiteInv
<1>5. ASSUME NEW m \in Mail \union Onward PROVE mails'[m] = Nothing \/ Rightful(sites', mails'[m])
  <2>1. CASE mails[m] = Nothing
    BY <1>1, <2>1 DEF SiteInv
  <2>2. CASE mails[m] # Nothing
    <3> DEFINE old == mails[m]
               r == [old EXCEPT !.same = old.same /\ as]
    <3>1. Rightful(sites, old) /\ mails'[m] = r
      BY <1>1, <2>2 DEF SiteInv
    <3>2. r \in SignIn /\ r.could = old.could /\ r.site = old.site /\ r.to = old.to
          /\ (r.same => old.same /\ as)
      BY <1>3, <3>1 DEF Rightful, SignIn
    <3> HIDE DEF r
    <3> QED BY <1>2, <3>1, <3>2 DEF Rightful
  <2> QED BY <2>1, <2>2
<1>6. (\A c \in Call : Answering(sites, mails, busy[c]))'
  BY <1>1, RestIsAnswering
<1>7. (\A m \in Mail \union Onward : mails[m] = Nothing \/ Rightful(sites, mails[m]))'
  BY <1>5
<1> QED BY <1>1, <1>4, <1>6, <1>7, TakenUpInv DEF SiteInv, AdmittedWhenAsked, DeliveredAtHome

LEMMA SiteNextInv == SiteInv /\ [SiteNext]_siteVars => SiteInv'
<1> SUFFICES ASSUME SiteInv, [SiteNext]_siteVars PROVE SiteInv'
  OBVIOUS
<1>1. ASSUME NEW c \in Call, NEW e \in Email, NEW scope \in Scope \union {Full},
             NEW returnUrl \in Url \union {Nothing}, NEW verifyUrl \in Url \union {Nothing},
             SignInArrives(c, e, scope, returnUrl, verifyUrl)
      PROVE  SiteInv'
  BY <1>1, SignInArrivesInv
<1>2. ASSUME NEW c \in Call, Admit(c) \/ Refuse(c) \/ SpendGrant(c) \/ Deliver(c) PROVE SiteInv'
  BY <1>2, AdmitInv, SpendGrantInv, DeliverInv
<1>3. ASSUME NEW c \in Call, NEW m \in Mail, SendMail(c, m) \/ EnterCode(c, m) PROVE SiteInv'
  BY <1>3, SendMailInv, EnterCodeInv
<1>4. ASSUME NEW c \in Call, NEW m \in Mail \union Onward, FollowLink(c, m) PROVE SiteInv'
  BY <1>4, FollowLinkInv
<1>5. ASSUME NEW c \in Call, NEW m \in Onward, SendToVerifyUrl(c, m) PROVE SiteInv'
  BY <1>5, SendToVerifyUrlInv
<1>6. CASE UNCHANGED siteVars
  BY <1>6 DEF siteVars, SiteInv, SitesTakenUp, PublishedAsMeant, AdmittedWhenAsked, DeliveredAtHome
<1> QED BY <1>1, <1>2, <1>3, <1>4, <1>5, <1>6, FileWrittenInv, ReloadInv, RestartInv DEF SiteNext

LEMMA SiteInvariantHolds == SiteSpec => []SiteInv
BY SiteInitInv, SiteNextInv, PTL DEF SiteSpec

\* Every line of the file that was last taken up counts, those the manager published as
\* it meant them, for any sites, lines, people and scopes.  (config-core, app.ts)
THEOREM RulesAreServedAsWritten == SiteSpec => []AdmitsAsWritten
<1>1. ASSUME SiteInv PROVE AdmitsAsTheFileSays
  <2>1. /\ sites = ParseSites(takenUp.text) /\ Loads(takenUp.text) /\ DOMAIN sites = DOMAIN takenUp.text
        /\ \A i \in DOMAIN sites : sites[i].id = takenUp.text[i].id
    BY <1>1, ParsedSites DEF SiteInv, SitesTakenUp, ParseSites
  <2> QED BY <2>1, RulesAddUp DEF AdmitsAsTheFileSays
<1>2. ASSUME SiteInv PROVE GrantsAreServed
  <2> SUFFICES ASSUME takenUp.grants # Nothing, NEW e \in Email, NEW scope \in Scope \union {Full}
               PROVE  SiteAllows(FindSiteById(Managed), e, scope)
                         <=> Full \in takenUp.grants[e] \/ scope \in takenUp.grants[e]
    BY DEF GrantsAreServed
  <2> DEFINE text == takenUp.text
             g == takenUp.grants
  <2>1. Grants(text, g) /\ sites = ParseSites(text) /\ Loads(text)
    BY <1>2 DEF SiteInv, PublishedAsMeant, SitesTakenUp
  <2>2. PICK i \in DOMAIN text : text[i].id = Managed
    BY <2>1 DEF Grants
  <2>3. i \in DOMAIN sites /\ sites[i].id = Managed
    BY <2>1, <2>2, ParsedSites DEF ParseSites
  <2>4. FindSiteById(Managed) = sites[i]
    BY <1>2, <2>3, SitesFound DEF SiteInv
  <2>5. SiteAllows(sites[i], e, scope) <=> Granted(text, Managed, e, scope)
    BY <2>1, <2>2, RulesAddUp
  <2> QED BY <2>1, <2>2, <2>4, <2>5, GrantsAddUp
<1>3. SiteInv => AdmitsAsWritten
  BY <1>1, <1>2 DEF AdmitsAsWritten
<1> QED BY <1>3, SiteInvariantHolds, PTL

\* Nobody gets an access token whom no rule admitted while the request was answered,
\* however the file is edited, published, reloaded or read again in between.
THEOREM OnlyTheAdmittedAreServed == SiteSpec => []AdmittedWhenAsked
<1>1. SiteInv => AdmittedWhenAsked
  BY DEF SiteInv
<1> QED BY <1>1, SiteInvariantHolds, PTL

\* The browser goes with its token only to an origin of the site the token is for; after
\* a code, unless the server was started again with other sites since.
THEOREM TokensGoHome == SiteSpec => []DeliveredAtHome
<1>1. SiteInv => DeliveredAtHome
  BY DEF SiteInv
<1> QED BY <1>1, SiteInvariantHolds, PTL

(***************************************************************************)
(* The limiters: whatever is let through stays recorded while it is recent, *)
(* as seen from the clock and from every call under way; so the attempts    *)
(* counted bound the ones let through.                                      *)
(***************************************************************************)
Attempt == [number : 1..MaxAttempts, time : Nat \cup {NotANumber}]
LimiterTypeOK ==
    /\ limiter \in {"file", "memory", "redis", "gate"}
    /\ records \in SUBSET Attempt /\ IsFiniteSet(records)
    /\ gateWindow \in [windowStartMs : Nat \cup {NotANumber}, count : Nat]
    /\ consume \in [Request -> [at : {"none", "asking", "asking again", "sweeping", "passing", "writing"},
                                nowMs : Nat, seen : SUBSET Attempt, number : 0..MaxAttempts]]
    /\ \A r \in Request : IsFiniteSet(consume[r].seen)
    /\ passed \in SUBSET [number : 1..MaxAttempts, time : Nat] /\ IsFiniteSet(passed)
    /\ disordered \in BOOLEAN /\ clock \in Nat

UnderWay(r) == consume[r].at # "none"
CallsOfTheirLimiter ==
    \A r \in Request : UnderWay(r) =>
        /\ consume[r].nowMs <= clock
        /\ \/ limiter = "redis" /\ consume[r].at \in {"asking", "asking again"}
           \/ limiter = "file" /\ consume[r].at \in {"sweeping", "passing", "writing"}
        /\ consume[r].at \in {"asking again", "writing"} => consume[r].number # 0

PassedSince(t) == {q \in passed : q.time > t - RateLimitWindow}
WindowUpTo(t) == {q \in passed : q.time <= t /\ q.time > t - RateLimitWindow}

PassedBefore == \A q \in passed :
    q.time <= clock /\ \A r \in Request : UnderWay(r) => q.time <= consume[r].nowMs
RecordedWhileRecent == \A q \in passed \ records :
    /\ q.time <= clock - RateLimitWindow
    /\ \A r \in Request : UnderWay(r) => q.time <= consume[r].nowMs - RateLimitWindow
WithinLimit == \A p \in passed : Cardinality(WindowUpTo(p.time)) <= SignInEmailRateLimitMax

NumbersUnique == \A a, b \in records : a.number = b.number => a = b
OneCallOfTheFile ==
    /\ \A r, s \in Request : UnderWay(r) /\ UnderWay(s) => r = s
    /\ \A r \in Request :
        /\ consume[r].at = "sweeping" => consume[r].seen = records
        /\ consume[r].at \in {"passing", "writing"} =>
               Cardinality(PassedSince(consume[r].nowMs)) < SignInEmailRateLimitMax
        /\ consume[r].at = "writing" =>
               [number |-> consume[r].number, time |-> NotANumber] \in records

SlidingInv ==
    /\ limiter = "file" => NumbersUnique
    /\ limiter = "file" /\ ~disordered => OneCallOfTheFile
    /\ limiter # "gate" /\ ~disordered => PassedBefore /\ RecordedWhileRecent /\ WithinLimit

GateBegan == gateWindow.windowStartMs
InGateWindow == {q \in passed : q.time >= GateBegan}
BeforeGateWindow == {q \in passed : q.time < GateBegan /\ q.time > GateBegan - RateLimitWindow}
GateInv == limiter = "gate" =>
    /\ gateWindow = NoWindow => passed = {}
    /\ \A q \in passed : q.time <= clock
    /\ gateWindow # NoWindow =>
           /\ GateBegan \in Nat /\ GateBegan <= clock /\ gateWindow.count <= SignInEmailRateLimitMax
           /\ \A q \in passed : q.time < GateBegan + RateLimitWindow
           /\ Cardinality(InGateWindow) <= gateWindow.count
           /\ Cardinality(BeforeGateWindow) <= SignInEmailRateLimitMax
    /\ \A p \in passed : Cardinality(WindowUpTo(p.time)) <= SignInEmailRateLimitMax * 2

LimiterInv == LimiterTypeOK /\ CallsOfTheirLimiter /\ SlidingInv /\ GateInv

LEMMA LimiterInit_ == LimiterInit => LimiterInv
  <1> SUFFICES ASSUME LimiterInit PROVE LimiterInv OBVIOUS
  <1> USE DEF LimiterInit, Waiting, NoWindow, NotANumber
  <1>1. IsFiniteSet({}) BY FS_EmptySet
  <1>2. \A r \in Request : consume[r].at = "none" /\ consume[r].seen = {} OBVIOUS
  <1>3. LimiterTypeOK
    <2>1. consume \in [Request -> [at : {"none", "asking", "asking again", "sweeping", "passing", "writing"},
                                nowMs : Nat, seen : SUBSET Attempt, number : 0..MaxAttempts]]
      BY LimiterAssumption
    <2>2. QED BY <1>1, <1>2, <2>1 DEF LimiterTypeOK
  <1>4. CallsOfTheirLimiter BY <1>2 DEF CallsOfTheirLimiter, UnderWay
  <1>5. SlidingInv
    BY <1>2 DEF SlidingInv, NumbersUnique, OneCallOfTheFile, UnderWay, PassedBefore, RecordedWhileRecent, WithinLimit
  <1>6. GateInv BY DEF GateInv
  <1>7. QED BY <1>3, <1>4, <1>5, <1>6 DEF LimiterInv

LEMMA FreshNumber ==
  Unused # {} =>
      /\ NextNumber \in 1..MaxAttempts
      /\ \A a \in records : a.number # NextNumber
      /\ \A r \in Request : consume[r].number # NextNumber
  <1> SUFFICES ASSUME Unused # {} PROVE NextNumber \in Unused BY DEF Unused
  <1> QED BY DEF NextNumber

LEMMA OneMore ==
  ASSUME NEW S, IsFiniteSet(S), NEW x
  PROVE  /\ IsFiniteSet(S \cup {x}) /\ Cardinality(S) \in Nat /\ Cardinality(S \cup {x}) \in Nat
         /\ Cardinality(S \cup {x}) <= Cardinality(S) + 1
  <1>1. Cardinality(S) \in Nat BY FS_CardinalityType
  <1>2. IsFiniteSet(S \cup {x})
        /\ Cardinality(S \cup {x}) = IF x \in S THEN Cardinality(S) ELSE Cardinality(S) + 1
    BY FS_AddElement
  <1>3. QED BY <1>1, <1>2

LEMMA Fewer ==
  ASSUME NEW S, IsFiniteSet(S), NEW T, T \subseteq S
  PROVE  /\ IsFiniteSet(T) /\ Cardinality(T) \in Nat /\ Cardinality(S) \in Nat
         /\ Cardinality(T) <= Cardinality(S)
  <1>1. IsFiniteSet(T) /\ Cardinality(T) <= Cardinality(S) BY FS_Subset
  <1>2. QED BY <1>1, FS_CardinalityType

\* One more attempt at the end of a window that had room for it.
LEMMA RoomForOne ==
  ASSUME NEW t \in Nat, NEW n \in 1..MaxAttempts, LimiterTypeOK,
         \A q \in passed : q.time <= t, WithinLimit,
         Cardinality(PassedSince(t)) < SignInEmailRateLimitMax, Passed(n, t)
  PROVE  WithinLimit' /\ IsFiniteSet(passed') /\ passed' \in SUBSET [number : 1..MaxAttempts, time : Nat]
  <1> DEFINE new == [number |-> n, time |-> t]
  <1>1. passed' = passed \cup {new} /\ new.time = t /\ new \in [number : 1..MaxAttempts, time : Nat]
    BY DEF Passed
  <1>2. passed \in SUBSET [number : 1..MaxAttempts, time : Nat] /\ IsFiniteSet(passed) BY DEF LimiterTypeOK
  <1>3. IsFiniteSet(passed') BY <1>1, <1>2, FS_AddElement
  <1> HIDE DEF new
  <1>4. ASSUME NEW p \in passed' PROVE Cardinality(WindowUpTo(p.time)') <= SignInEmailRateLimitMax
    <2>1. CASE p.time # t
      <3>1. p \in passed /\ p.time < t BY <2>1, <1>1, <1>2
      <3>2. new \notin WindowUpTo(p.time)' BY <3>1, <1>1, <1>2 DEF WindowUpTo
      <3>3. WindowUpTo(p.time)' = WindowUpTo(p.time) BY <3>2, <1>1 DEF WindowUpTo
      <3>4. QED BY <3>1, <3>3 DEF WithinLimit
    <2>2. CASE p.time = t
      <3>1. WindowUpTo(p.time)' = PassedSince(t) \cup {new}
        BY <2>2, <1>1, <1>2, LimiterAssumption DEF WindowUpTo, PassedSince
      <3>2. PassedSince(t) \subseteq passed BY DEF PassedSince
      <3>3. IsFiniteSet(PassedSince(t)) BY <3>2, <1>2, Fewer
      <3>4. QED BY <3>1, <3>3, OneMore, LimiterAssumption
    <2>3. QED BY <2>1, <2>2
  <1>5. QED BY <1>1, <1>2, <1>3, <1>4 DEF WithinLimit

\* What is let through and still recent is among the attempts counted.
LEMMA CountedBoundsPassed ==
  ASSUME NEW t \in Nat, LimiterTypeOK,
         \A q \in passed \ records : q.time <= t - RateLimitWindow,
         Cardinality(RecentAttempts(t)) < SignInEmailRateLimitMax
  PROVE  Cardinality(PassedSince(t)) < SignInEmailRateLimitMax
  <1>1. ASSUME NEW q \in PassedSince(t) PROVE q \in RecentAttempts(t)
    <2>1. q \in passed /\ q.time \in Nat /\ q.time > t - RateLimitWindow
      BY DEF PassedSince, LimiterTypeOK
    <2>2. q \in records BY <2>1, LimiterAssumption
    <2>3. QED BY <2>1, <2>2 DEF RecentAttempts, Recent, NotANumber
  <1>2. RecentAttempts(t) \subseteq records /\ IsFiniteSet(records) BY DEF RecentAttempts, LimiterTypeOK
  <1>3. IsFiniteSet(RecentAttempts(t)) BY <1>2, Fewer
  <1>4. PassedSince(t) \subseteq RecentAttempts(t) BY <1>1
  <1>5. QED BY <1>3, <1>4, Fewer, LimiterAssumption

LEMMA ConsumeAtOnceKeeps == LimiterInv /\ ConsumeAtOnce => LimiterInv'
  <1> SUFFICES ASSUME LimiterInv, ConsumeAtOnce PROVE LimiterInv' OBVIOUS
  <1>1. /\ limiter = "memory" /\ limiter' = limiter /\ clock' = clock /\ consume' = consume
        /\ gateWindow' = gateWindow /\ disordered' = disordered /\ Unused # {}
    BY DEF ConsumeAtOnce
  <1>2. LimiterTypeOK /\ CallsOfTheirLimiter /\ SlidingInv BY DEF LimiterInv
  <1>3. clock \in Nat BY <1>2 DEF LimiterTypeOK
  <1>4. \A r \in Request : ~UnderWay(r) BY <1>1, <1>2 DEF CallsOfTheirLimiter
  <1>5. RecentAttempts(clock) \subseteq records /\ records \in SUBSET Attempt /\ IsFiniteSet(records)
    BY <1>2 DEF RecentAttempts, LimiterTypeOK
  <1>6. IsFiniteSet(RecentAttempts(clock)) BY <1>5, Fewer
  <1>7. NextNumber \in 1..MaxAttempts BY <1>1, FreshNumber
  <1>8. CallsOfTheirLimiter' BY <1>1, <1>4 DEF CallsOfTheirLimiter, UnderWay
  <1>9. ASSUME NEW q \in passed, q \notin RecentAttempts(clock), ~disordered
        PROVE  q.time <= clock - RateLimitWindow
    <2>1. q.time \in Nat BY <1>2 DEF LimiterTypeOK
    <2>2. CASE q \in records
      BY <2>1, <2>2, <1>3, <1>9, LimiterAssumption DEF RecentAttempts, Recent, NotANumber
    <2>3. CASE q \notin records BY <2>3, <1>1, <1>2, <1>9 DEF SlidingInv, RecordedWhileRecent
    <2>4. QED BY <2>2, <2>3
  <1>10. CASE Cardinality(RecentAttempts(clock)) >= SignInEmailRateLimitMax
    <2>1. records' = RecentAttempts(clock) /\ passed' = passed BY <1>10 DEF ConsumeAtOnce
    <2>2. LimiterTypeOK' BY <2>1, <1>1, <1>2, <1>5, <1>6 DEF LimiterTypeOK
    <2>3. SlidingInv'
      BY <2>1, <1>1, <1>2, <1>4, <1>9
      DEF SlidingInv, UnderWay, PassedBefore, RecordedWhileRecent, WithinLimit, WindowUpTo
    <2>4. QED BY <2>2, <2>3, <1>1, <1>8 DEF LimiterInv, GateInv
  <1>11. CASE ~(Cardinality(RecentAttempts(clock)) >= SignInEmailRateLimitMax)
    <2> DEFINE new == [number |-> NextNumber, time |-> clock]
    <2>1. records' = RecentAttempts(clock) \cup {new} /\ Passed(NextNumber, clock)
      BY <1>11 DEF ConsumeAtOnce
    <2>2. passed' = passed \cup {new} BY <2>1 DEF Passed
    <2>3. new \in Attempt /\ new \in [number : 1..MaxAttempts, time : Nat]
      BY <1>3, <1>7 DEF Attempt
    <2>4. IsFiniteSet(records') BY <2>1, <1>6, FS_AddElement
    <2>5. IsFiniteSet(passed') BY <2>2, <1>2, FS_AddElement DEF LimiterTypeOK
    <2>6. LimiterTypeOK' BY <2>1, <2>2, <2>3, <2>4, <2>5, <1>1, <1>2, <1>5 DEF LimiterTypeOK
    <2>7. SlidingInv'
      <3>1. SUFFICES ASSUME ~disordered PROVE (PassedBefore /\ RecordedWhileRecent /\ WithinLimit)'
        BY <1>1 DEF SlidingInv
      <3>2. PassedBefore /\ RecordedWhileRecent /\ WithinLimit BY <3>1, <1>1, <1>2 DEF SlidingInv
      <3>3. PassedBefore' BY <3>2, <2>2, <1>1, <1>3, <1>4 DEF PassedBefore, UnderWay
      <3>4. RecordedWhileRecent'
        BY <3>1, <2>1, <2>2, <1>1, <1>4, <1>9 DEF RecordedWhileRecent, UnderWay
      <3>5. \A q \in passed \ records : q.time <= clock - RateLimitWindow
        BY <3>2 DEF RecordedWhileRecent
      <3>6. Cardinality(RecentAttempts(clock)) < SignInEmailRateLimitMax
        BY <1>6, <1>11, FS_CardinalityType, LimiterAssumption
      <3>7. Cardinality(PassedSince(clock)) < SignInEmailRateLimitMax
        BY <3>5, <3>6, <1>2, <1>3, CountedBoundsPassed
      <3>8. \A q \in passed : q.time <= clock BY <3>2 DEF PassedBefore
      <3>9. WithinLimit' BY <3>2, <3>7, <3>8, <2>1, <1>2, <1>3, <1>7, RoomForOne
      <3>10. QED BY <3>3, <3>4, <3>9
    <2>8. QED BY <2>6, <2>7, <1>1, <1>8 DEF LimiterInv, GateInv
  <1>12. QED BY <1>10, <1>11

LEMMA ConsumeInGateKeeps == LimiterInv /\ ConsumeInGate => LimiterInv'
  <1> SUFFICES ASSUME LimiterInv, ConsumeInGate PROVE LimiterInv' OBVIOUS
  <1> DEFINE pruned == PruneExpiredEntries
             max == SignInEmailRateLimitMax
             new == [number |-> NextNumber, time |-> clock]
  <1>1. /\ limiter = "gate" /\ limiter' = limiter /\ clock' = clock /\ consume' = consume
        /\ records' = records /\ disordered' = disordered /\ Unused # {}
    BY DEF ConsumeInGate
  <1>2. LimiterTypeOK /\ CallsOfTheirLimiter BY DEF LimiterInv
  <1>3. /\ clock \in Nat /\ IsFiniteSet(passed) /\ passed \in SUBSET [number : 1..MaxAttempts, time : Nat]
        /\ gateWindow \in [windowStartMs : Nat \cup {NotANumber}, count : Nat]
        /\ max \in Nat \ {0} /\ RateLimitWindow \in Nat \ {0}
    BY <1>2, LimiterAssumption DEF LimiterTypeOK
  <1>4. NextNumber \in 1..MaxAttempts BY <1>1, FreshNumber
  <1>5. CallsOfTheirLimiter' BY <1>1, <1>2 DEF CallsOfTheirLimiter, UnderWay
  <1>6. SlidingInv' BY <1>1 DEF SlidingInv
  <1>7. /\ gateWindow = NoWindow => passed = {}
        /\ \A q \in passed : q.time <= clock
        /\ gateWindow # NoWindow =>
           /\ GateBegan \in Nat /\ GateBegan <= clock /\ gateWindow.count <= max
           /\ \A q \in passed : q.time < GateBegan + RateLimitWindow
           /\ Cardinality(InGateWindow) <= gateWindow.count /\ Cardinality(BeforeGateWindow) <= max
        /\ \A p \in passed : Cardinality(WindowUpTo(p.time)) <= max * 2
    BY <1>1 DEF LimiterInv, GateInv
  <1>8. \A q \in passed : q.time \in Nat BY <1>3
  <1>9. CASE pruned # NoWindow /\ pruned.count >= max /\ gateWindow' = pruned /\ UNCHANGED passed
    <2>1. gateWindow' = gateWindow BY <1>9 DEF PruneExpiredEntries
    <2>2. GateInv' BY <2>1, <1>1, <1>9, <1>7 DEF GateInv, GateBegan, InGateWindow, BeforeGateWindow, WindowUpTo
    <2>3. LimiterTypeOK' BY <2>1, <1>1, <1>2, <1>9 DEF LimiterTypeOK
    <2>4. QED BY <2>2, <2>3, <1>5, <1>6 DEF LimiterInv
  <1>10. ASSUME Passed(NextNumber, clock), gateWindow' \in [windowStartMs : Nat, count : Nat],
                Cardinality(PassedSince(clock)) <= max * 2 - 1
         PROVE  /\ LimiterTypeOK' /\ passed' = passed \cup {new} /\ new.time = clock
                /\ \A p \in passed' : Cardinality(WindowUpTo(p.time)') <= max * 2
                /\ \A q \in passed' : q.time <= clock'
    <2>1. passed' = passed \cup {new} /\ new.time = clock /\ new \in [number : 1..MaxAttempts, time : Nat]
      BY <1>10, <1>3, <1>4 DEF Passed
    <2>2. IsFiniteSet(passed') BY <2>1, <1>3, OneMore
    <2>3. LimiterTypeOK' BY <2>1, <2>2, <1>1, <1>2, <1>10 DEF LimiterTypeOK
    <2> HIDE DEF new
    <2>4. ASSUME NEW p \in passed' PROVE Cardinality(WindowUpTo(p.time)') <= max * 2
      <3>1. CASE p.time # clock
        <4>1. p \in passed /\ p.time < clock BY <3>1, <2>1, <1>3, <1>7, <1>8
        <4>2. WindowUpTo(p.time)' = WindowUpTo(p.time) BY <4>1, <2>1, <1>3, <1>8 DEF WindowUpTo
        <4>3. QED BY <4>1, <4>2, <1>7
      <3>2. CASE p.time = clock
        <4>1. WindowUpTo(p.time)' = PassedSince(clock) \cup {new}
          BY <3>2, <2>1, <1>3, <1>7, <1>8 DEF WindowUpTo, PassedSince
        <4>2. PassedSince(clock) \subseteq passed BY DEF PassedSince
        <4>3. IsFiniteSet(PassedSince(clock)) BY <4>2, <1>3, Fewer
        <4>4. /\ Cardinality(PassedSince(clock)) \in Nat /\ Cardinality(PassedSince(clock) \cup {new}) \in Nat
              /\ Cardinality(PassedSince(clock) \cup {new}) <= Cardinality(PassedSince(clock)) + 1
          BY <4>3, OneMore
        <4>5. QED BY <4>1, <4>4, <1>3, <1>10
      <3>3. QED BY <3>1, <3>2
    <2>5. \A q \in passed' : q.time <= clock' BY <2>1, <1>1, <1>3, <1>7
    <2>6. QED BY <2>1, <2>3, <2>4, <2>5
  <1>11. CASE /\ pruned = NoWindow
              /\ gateWindow' = [windowStartMs |-> clock, count |-> 1] /\ Passed(NextNumber, clock)
    <2>1. gateWindow # NoWindow => clock >= GateBegan + RateLimitWindow
      BY <1>3, <1>7, <1>11 DEF PruneExpiredEntries, GateBegan
    <2>2. Cardinality(PassedSince(clock)) \in Nat /\ Cardinality(PassedSince(clock)) <= max
      <3>1. CASE passed = {}
        <4>1. PassedSince(clock) = {} BY <3>1 DEF PassedSince
        <4>2. QED BY <4>1, FS_EmptySet, <1>3
      <3>2. CASE passed # {}
        <4> DEFINE S == InGateWindow
        <4>1. gateWindow # NoWindow BY <3>2, <1>7
        <4>2. S \subseteq passed BY DEF InGateWindow
        <4>3. IsFiniteSet(S) BY <4>2, <1>3, Fewer
        <4>4. PassedSince(clock) \subseteq S BY <4>1, <2>1, <1>3, <1>7, <1>8 DEF PassedSince, InGateWindow
        <4>5. Cardinality(S) <= gateWindow.count BY <4>1, <1>7
        <4> HIDE DEF S
        <4>6. QED BY <4>1, <4>3, <4>4, <4>5, <1>3, <1>7, Fewer
      <3>3. QED BY <3>1, <3>2
    <2>3. gateWindow' \in [windowStartMs : Nat, count : Nat] BY <1>3, <1>11
    <2>4. Cardinality(PassedSince(clock)) <= max * 2 - 1 BY <2>2, <1>3
    <2>5. /\ LimiterTypeOK' /\ passed' = passed \cup {new} /\ new.time = clock
          /\ \A p \in passed' : Cardinality(WindowUpTo(p.time)') <= max * 2
          /\ \A q \in passed' : q.time <= clock'
      BY <2>3, <2>4, <1>10, <1>11
    <2>6. GateBegan' = clock /\ gateWindow'.count = 1 BY <1>11 DEF GateBegan
    <2> HIDE DEF new
    <2>7. \A q \in passed : q.time < clock
      BY <2>1, <1>3, <1>7, <1>8
    <2>8. InGateWindow' = {new} BY <2>5, <2>6, <2>7, <1>3, <1>8 DEF InGateWindow
    <2>9. Cardinality(InGateWindow') <= 1 BY <2>8, FS_Singleton
    <2>10. BeforeGateWindow' \subseteq PassedSince(clock)
      BY <2>5, <2>6, <1>3 DEF PassedSince, BeforeGateWindow
    <2>11. PassedSince(clock) \subseteq passed BY DEF PassedSince
    <2>12. IsFiniteSet(PassedSince(clock)) BY <2>11, <1>3, Fewer
    <2>13. Cardinality(BeforeGateWindow') <= max
      BY <2>2, <2>10, <2>12, Fewer, <1>3
    <2>14. \A q \in passed' : q.time < clock + RateLimitWindow BY <2>5, <2>7, <1>3, <1>8
    <2>15. gateWindow' # NoWindow BY <1>3, <1>11 DEF NoWindow, NotANumber
    <2>16. GateInv' BY <2>5, <2>6, <2>9, <2>13, <2>14, <2>15, <1>1, <1>3 DEF GateInv
    <2>17. QED BY <2>5, <2>16, <1>5, <1>6 DEF LimiterInv
  <1>12. CASE /\ pruned # NoWindow /\ pruned.count < max
              /\ gateWindow' = [pruned EXCEPT !.count = @ + 1] /\ Passed(NextNumber, clock)
    <2> DEFINE S == InGateWindow
               T == BeforeGateWindow
    <2>1. pruned = gateWindow /\ gateWindow # NoWindow /\ clock < GateBegan + RateLimitWindow
      BY <1>3, <1>7, <1>12 DEF PruneExpiredEntries, GateBegan
    <2>2. /\ gateWindow'.count = gateWindow.count + 1 /\ GateBegan' = GateBegan
          /\ gateWindow' \in [windowStartMs : Nat, count : Nat]
      BY <2>1, <1>3, <1>7, <1>12 DEF GateBegan
    <2>3. S \subseteq passed /\ T \subseteq passed BY DEF InGateWindow, BeforeGateWindow
    <2>4. /\ IsFiniteSet(S) /\ IsFiniteSet(T) /\ Cardinality(S) \in Nat /\ Cardinality(T) \in Nat
      BY <2>3, <1>3, Fewer
    <2>5. Cardinality(S) <= gateWindow.count /\ Cardinality(T) <= max /\ gateWindow.count < max
      BY <2>1, <1>7, <1>12
    <2>6. PassedSince(clock) \subseteq S \cup T BY <2>1, <1>3, <1>7, <1>8 DEF PassedSince, InGateWindow, BeforeGateWindow
    <2>7. IsFiniteSet(S \cup T) /\ Cardinality(S \cup T) <= Cardinality(S) + Cardinality(T)
      <3> HIDE DEF S, T
      <3>1. IsFiniteSet(S \cap T) /\ IsFiniteSet(S \cup T) BY <2>4, Fewer, FS_Union
      <3>2. Cardinality(S \cap T) \in Nat BY <3>1, FS_CardinalityType
      <3>3. Cardinality(S \cup T) = Cardinality(S) + Cardinality(T) - Cardinality(S \cap T)
        BY <2>4, FS_Union
      <3>4. QED BY <3>1, <3>2, <3>3, <2>4
    <2>8. Cardinality(PassedSince(clock)) \in Nat /\ Cardinality(PassedSince(clock)) <= Cardinality(S \cup T)
          /\ Cardinality(S \cup T) \in Nat
      BY <2>6, <2>7, Fewer
    <2>9. Cardinality(PassedSince(clock)) <= max * 2 - 1
      <3> HIDE DEF S, T
      <3> QED BY <2>4, <2>5, <2>7, <2>8, <1>3
    <2>10. /\ LimiterTypeOK' /\ passed' = passed \cup {new} /\ new.time = clock
           /\ \A p \in passed' : Cardinality(WindowUpTo(p.time)') <= max * 2
           /\ \A q \in passed' : q.time <= clock'
      BY <2>2, <2>9, <1>10, <1>12
    <2> HIDE DEF new
    <2>11. InGateWindow' = S \cup {new} BY <2>1, <2>2, <2>10, <1>7 DEF InGateWindow
    <2>12. Cardinality(InGateWindow') <= gateWindow.count + 1
      <3> HIDE DEF S
      <3>1. Cardinality(S \cup {new}) <= Cardinality(S) + 1 /\ Cardinality(S \cup {new}) \in Nat
        BY <2>4, OneMore
      <3>2. gateWindow.count \in Nat BY <1>3
      <3>3. QED BY <3>1, <3>2, <2>4, <2>5, <2>11
    <2>13. BeforeGateWindow' = T BY <2>1, <2>2, <2>10, <1>3, <1>7 DEF BeforeGateWindow
    <2>14. \A q \in passed' : q.time < GateBegan + RateLimitWindow BY <2>1, <2>10, <1>7
    <2>15. gateWindow' # NoWindow BY <2>2 DEF NoWindow, NotANumber
    <2>16. GateInv'
      BY <2>1, <2>2, <2>5, <2>10, <2>12, <2>13, <2>14, <2>15, <1>1, <1>3, <1>7 DEF GateInv
    <2>17. QED BY <2>10, <2>16, <1>5, <1>6 DEF LimiterInv
  <1>13. QED BY <1>9, <1>11, <1>12 DEF ConsumeInGate

CallState == [at : {"none", "asking", "asking again", "sweeping", "passing", "writing"},
              nowMs : Nat, seen : SUBSET Attempt, number : 0..MaxAttempts]

LEMMA WaitingFacts ==
  Waiting \in CallState /\ Waiting.at = "none" /\ Waiting.seen = {} /\ IsFiniteSet(Waiting.seen)
  <1>1. Waiting.seen = {} BY DEF Waiting
  <1>2. IsFiniteSet(Waiting.seen) BY <1>1, FS_EmptySet
  <1>3. QED BY <1>1, <1>2, LimiterAssumption DEF Waiting, CallState

LEMMA SendScriptKeeps ==
  ASSUME LimiterInv, NEW r \in Request, SendScript(r) PROVE LimiterInv'
  <1>1. /\ limiter = "redis" /\ limiter' = limiter /\ clock' = clock /\ records' = records
        /\ gateWindow' = gateWindow /\ disordered' = disordered /\ passed' = passed
        /\ consume' = [consume EXCEPT ![r] = [Waiting EXCEPT !.at = "asking", !.nowMs = clock]]
    BY DEF SendScript
  <1>2. LimiterTypeOK /\ CallsOfTheirLimiter /\ SlidingInv BY DEF LimiterInv
  <1>3. clock \in Nat /\ consume \in [Request -> CallState] BY <1>2 DEF LimiterTypeOK, CallState
  <1> DEFINE sent == [Waiting EXCEPT !.at = "asking", !.nowMs = clock]
  <1>a. sent.at = "asking" /\ sent.nowMs = clock /\ sent.seen = {} /\ sent \in CallState
    BY <1>3, WaitingFacts DEF CallState
  <1> HIDE DEF sent
  <1>4. consume'[r] = sent /\ \A s \in Request : s # r => consume'[s] = consume[s]
    BY <1>1, <1>3 DEF sent
  <1>5. consume' \in [Request -> CallState]
    <2>1. consume' = [consume EXCEPT ![r] = sent] BY <1>1 DEF sent
    <2>2. QED BY <2>1, <1>3, <1>a
  <1>6. LimiterTypeOK'
    <2>1. consume'[r].seen = {} BY <1>4, <1>a
    <2>2. \A s \in Request : IsFiniteSet(consume'[s].seen)
      BY <2>1, <1>2, <1>4, FS_EmptySet DEF LimiterTypeOK
    <2>3. QED BY <2>2, <1>1, <1>2, <1>5 DEF LimiterTypeOK, CallState
  <1>7. CallsOfTheirLimiter'
    <2>1. consume'[r].at = "asking" /\ consume'[r].nowMs = clock BY <1>4, <1>a
    <2>2. SUFFICES ASSUME NEW s \in Request, UnderWay(s)'
                   PROVE  /\ consume'[s].nowMs <= clock /\ consume'[s].at \in {"asking", "asking again"}
                          /\ consume'[s].at = "asking again" => consume'[s].number # 0
      BY <1>1 DEF CallsOfTheirLimiter
    <2>3. CASE s = r
      <3>1. consume'[s].nowMs = clock /\ consume'[s].at = "asking" BY <2>1, <2>3
      <3>2. clock <= clock BY <1>3
      <3>3. QED BY <3>1, <3>2
    <2>4. CASE s # r BY <2>2, <2>4, <1>1, <1>2, <1>4 DEF UnderWay, CallsOfTheirLimiter
    <2>5. QED BY <2>3, <2>4
  <1>8. SlidingInv'
    <2>1. SUFFICES ASSUME ~disordered PROVE (PassedBefore /\ RecordedWhileRecent /\ WithinLimit)'
      BY <1>1 DEF SlidingInv
    <2>2. PassedBefore /\ RecordedWhileRecent /\ WithinLimit BY <2>1, <1>1, <1>2 DEF SlidingInv
    <2>3. PassedBefore' BY <2>2, <1>1, <1>4 DEF PassedBefore, UnderWay
    <2>4. RecordedWhileRecent' BY <2>2, <1>1, <1>4 DEF RecordedWhileRecent, UnderWay
    <2>5. WithinLimit' BY <2>2, <1>1 DEF WithinLimit, WindowUpTo
    <2>6. QED BY <2>3, <2>4, <2>5
  <1>9. QED BY <1>1, <1>6, <1>7, <1>8 DEF LimiterInv, GateInv

LEMMA RunScriptKeeps ==
  ASSUME LimiterInv, NEW r \in Request, RunScript(r) PROVE LimiterInv'
  <1> DEFINE t == consume[r].nowMs
             number == IF consume[r].at = "asking" THEN NextNumber ELSE consume[r].number
             new == [number |-> number, time |-> t]
  <1>1. LimiterTypeOK /\ CallsOfTheirLimiter /\ SlidingInv BY DEF LimiterInv
  <1>2. clock \in Nat /\ consume \in [Request -> CallState] BY <1>1 DEF LimiterTypeOK, CallState
  <1>3. /\ consume[r].at \in {"asking", "asking again"} /\ UnderWay(r) /\ limiter = "redis"
        /\ limiter' = limiter /\ clock' = clock /\ gateWindow' = gateWindow
        /\ disordered' = (disordered \/ \E s \in Request : consume[s] # Waiting /\ consume[s].nowMs < t)
        /\ ~disordered' => /\ ~disordered
                            /\ \A s \in Request : consume[s] # Waiting => ~(consume[s].nowMs < t)
    BY <1>1 DEF RunScript, CallsOfTheirLimiter, UnderWay
  <1>4. t \in Nat /\ t <= clock BY <1>1, <1>2, <1>3 DEF CallState, CallsOfTheirLimiter
  <1>5. number \in 1..MaxAttempts
    <2>1. CASE consume[r].at = "asking" BY <2>1, FreshNumber DEF RunScript
    <2>2. CASE consume[r].at = "asking again"
      <3>1. consume[r].number \in 0..MaxAttempts BY <1>2 DEF CallState
      <3>2. consume[r].number # 0 BY <2>2, <1>1, <1>3 DEF CallsOfTheirLimiter
      <3>3. number = consume[r].number BY <2>2
      <3>4. QED BY <3>1, <3>2, <3>3, LimiterAssumption
    <2>3. QED BY <2>1, <2>2, <1>3
  <1>6. /\ \/ ScriptAllows(t) /\ records' = RecentAttempts(t) \cup {new}
           \/ ~ScriptAllows(t) /\ records' = RecentAttempts(t)
        /\ \/ passed' = passed /\ consume' = [consume EXCEPT ![r] = Waiting] /\ ~ScriptAllows(t)
           \/ /\ passed' = passed /\ ScriptAllows(t)
              /\ consume' = [consume EXCEPT ![r].at = "asking again", ![r].number = number]
           \/ /\ Passed(number, t) /\ consume' = [consume EXCEPT ![r] = Waiting] /\ ScriptAllows(t)
    BY DEF RunScript, LetThrough
  <1>7. /\ \/ consume'[r] = Waiting
           \/ consume'[r] = [consume[r] EXCEPT !.at = "asking again", !.number = number]
        /\ \A s \in Request : s # r => consume'[s] = consume[s]
        /\ consume' \in [Request -> CallState]
    <2>1. Waiting \in CallState BY WaitingFacts
    <2>2. CASE consume' = [consume EXCEPT ![r] = Waiting] BY <2>1, <2>2, <1>2
    <2>3. CASE consume' = [consume EXCEPT ![r].at = "asking again", ![r].number = number]
      <3>1. number \in 0..MaxAttempts BY <1>5, LimiterAssumption
      <3> HIDE DEF number
      <3>2. consume'[r] = [consume[r] EXCEPT !.at = "asking again", !.number = number]
            /\ \A s \in Request : s # r => consume'[s] = consume[s]
        BY <2>3, <1>2
      <3>3. consume[r] \in CallState BY <1>2
      <3>4. consume'[r] \in CallState BY <3>1, <3>2, <3>3 DEF CallState
      <3>5. consume' \in [Request -> CallState] BY <2>3, <3>2, <3>4, <1>2
      <3>6. QED BY <3>2, <3>5
    <2>4. QED BY <2>2, <2>3, <1>6
  <1> HIDE DEF number
  <1>8. RecentAttempts(t) \subseteq records /\ IsFiniteSet(records) /\ records \in SUBSET Attempt
    BY <1>1 DEF RecentAttempts, LimiterTypeOK
  <1>9. IsFiniteSet(RecentAttempts(t)) BY <1>8, Fewer
  <1>10. new \in Attempt /\ new \in [number : 1..MaxAttempts, time : Nat] BY <1>4, <1>5 DEF Attempt
  <1>11. records' \in SUBSET Attempt /\ IsFiniteSet(records')
    <2> HIDE DEF new
    <2>1. IsFiniteSet(RecentAttempts(t) \cup {new}) BY <1>9, OneMore
    <2>2. QED BY <2>1, <1>6, <1>8, <1>9, <1>10
  <1>12. passed' \in SUBSET [number : 1..MaxAttempts, time : Nat] /\ IsFiniteSet(passed')
    <2>1. passed' = passed \/ passed' = passed \cup {new} BY <1>6 DEF Passed
    <2>2. passed \in SUBSET [number : 1..MaxAttempts, time : Nat] /\ IsFiniteSet(passed)
      BY <1>1 DEF LimiterTypeOK
    <2> HIDE DEF new
    <2>3. IsFiniteSet(passed \cup {new}) BY <2>2, OneMore
    <2>4. QED BY <2>1, <2>2, <2>3, <1>10
  <1>13. LimiterTypeOK'
    <2>1. \A s \in Request : IsFiniteSet(consume'[s].seen)
      <3>1. consume'[r].seen = {} \/ consume'[r].seen = consume[r].seen BY <1>2, <1>7, WaitingFacts DEF CallState
      <3>2. QED BY <3>1, <1>1, <1>7, FS_EmptySet DEF LimiterTypeOK
    <2>2. disordered' \in BOOLEAN BY <1>1, <1>3 DEF LimiterTypeOK
    <2>3. QED BY <2>1, <2>2, <1>1, <1>3, <1>7, <1>11, <1>12 DEF LimiterTypeOK, CallState
  <1>14. consume'[r] # Waiting =>
            consume'[r].at = "asking again" /\ consume'[r].nowMs = t /\ consume'[r].number = number
    BY <1>2, <1>7 DEF CallState
  <1>15. CallsOfTheirLimiter'
    <2>1. SUFFICES ASSUME NEW s \in Request, UnderWay(s)'
                   PROVE  /\ consume'[s].nowMs <= clock /\ consume'[s].at \in {"asking", "asking again"}
                          /\ consume'[s].at = "asking again" => consume'[s].number # 0
      BY <1>3 DEF CallsOfTheirLimiter
    <2>2. CASE s = r
      <3>1. consume'[r] # Waiting BY <2>1, <2>2, WaitingFacts DEF UnderWay
      <3>2. number # 0 BY <1>5, LimiterAssumption
      <3>3. consume'[r].at = "asking again" /\ consume'[r].nowMs = t /\ consume'[r].number = number
        BY <3>1, <1>14
      <3>4. QED BY <3>2, <3>3, <2>2, <1>4
    <2>3. CASE s # r BY <2>1, <2>3, <1>1, <1>3, <1>7 DEF UnderWay, CallsOfTheirLimiter
    <2>4. QED BY <2>2, <2>3
  <1>16. SlidingInv'
    <2>1. SUFFICES ASSUME ~disordered' PROVE (PassedBefore /\ RecordedWhileRecent /\ WithinLimit)'
      BY <1>3 DEF SlidingInv
    <2>2. ~disordered /\ \A s \in Request : UnderWay(s) => consume[s].nowMs >= t
      <3>1. ASSUME NEW s \in Request, UnderWay(s) PROVE consume[s].nowMs >= t
        <4>1. consume[s] # Waiting BY <3>1, WaitingFacts DEF UnderWay
        <4>2. consume[s].nowMs \in Nat BY <1>2 DEF CallState
        <4>3. ~(consume[s].nowMs < t) BY <4>1, <2>1, <1>3
        <4>4. QED BY <4>2, <4>3, <1>4
      <3>2. QED BY <3>1, <2>1, <1>3
    <2>3. PassedBefore /\ RecordedWhileRecent /\ WithinLimit BY <2>2, <1>1, <1>3 DEF SlidingInv
    <2>4. \A s \in Request : UnderWay(s)' => consume'[s].nowMs \in Nat /\ consume'[s].nowMs >= t
                                             /\ UnderWay(s) /\ consume'[s].nowMs = consume[s].nowMs
      <3>1. SUFFICES ASSUME NEW s \in Request, UnderWay(s)'
                     PROVE  UnderWay(s) /\ consume'[s].nowMs = consume[s].nowMs
        BY <2>2, <1>2 DEF CallState
      <3>2. CASE s = r
        <4>1. consume'[r] # Waiting BY <3>1, <3>2, WaitingFacts DEF UnderWay
        <4>2. QED BY <4>1, <3>2, <1>3, <1>14
      <3>3. CASE s # r BY <3>1, <3>3, <1>7 DEF UnderWay
      <3>4. QED BY <3>2, <3>3
    <2>5. \A q \in passed : q.time \in Nat /\ q.time <= t
      BY <2>3, <1>1, <1>3 DEF PassedBefore, LimiterTypeOK
    <2>6. \/ passed' = passed
          \/ passed' = passed \cup {new} /\ new \in records' /\ new.time = t
      <3>1. CASE passed' = passed BY <3>1
      <3>2. CASE Passed(number, t) /\ ScriptAllows(t) BY <3>2, <1>6 DEF Passed
      <3>3. QED BY <3>1, <3>2, <1>6
    <2>7. PassedBefore'
      <3> HIDE DEF new
      <3> QED BY <2>3, <2>4, <2>6, <1>3, <1>4 DEF PassedBefore
    <2>8. RecordedWhileRecent'
      <3>1. SUFFICES ASSUME NEW q \in passed, q \notin records'
                     PROVE  /\ q.time <= clock - RateLimitWindow
                            /\ \A s \in Request : UnderWay(s)' => q.time <= consume'[s].nowMs - RateLimitWindow
        BY <2>6, <1>3 DEF RecordedWhileRecent
      <3>2. CASE q \notin records BY <3>1, <3>2, <2>3, <2>4 DEF RecordedWhileRecent
      <3>3. CASE q \in records
        <4>1. q \notin RecentAttempts(t) BY <3>1, <1>6
        <4>2. q.time <= t - RateLimitWindow
          BY <4>1, <3>3, <2>5, <1>4, LimiterAssumption DEF RecentAttempts, Recent, NotANumber
        <4>3. QED BY <4>2, <2>4, <2>5, <1>2, <1>4, LimiterAssumption
      <3>4. QED BY <3>2, <3>3
    <2>9. WithinLimit'
      <3>1. CASE passed' = passed BY <3>1, <2>3 DEF WithinLimit, WindowUpTo
      <3>2. CASE Passed(number, t) /\ ScriptAllows(t)
        <4>1. \A q \in passed \ records : q.time <= t - RateLimitWindow
          BY <2>3, <1>3 DEF RecordedWhileRecent
        <4>2. Cardinality(PassedSince(t)) < SignInEmailRateLimitMax
          BY <4>1, <3>2, <1>1, <1>4, CountedBoundsPassed DEF ScriptAllows
        <4>3. QED BY <4>2, <3>2, <2>3, <2>5, <1>1, <1>4, <1>5, RoomForOne
      <3>3. QED BY <3>1, <3>2, <1>6
    <2>10. QED BY <2>7, <2>8, <2>9
  <1>17. QED BY <1>3, <1>13, <1>15, <1>16 DEF LimiterInv, GateInv

\* Replacing the state of one call keeps the types of all.
LEMMA OtherCallsStay ==
  ASSUME LimiterInv, NEW r \in Request, NEW c \in CallState, IsFiniteSet(c.seen),
         consume' = [consume EXCEPT ![r] = c]
  PROVE  /\ consume' \in [Request -> CallState] /\ \A s \in Request : IsFiniteSet(consume'[s].seen)
         /\ consume'[r] = c /\ \A s \in Request : s # r => consume'[s] = consume[s]
  <1>1. consume \in [Request -> CallState] /\ \A s \in Request : IsFiniteSet(consume[s].seen)
    BY DEF LimiterInv, LimiterTypeOK, CallState
  <1>2. QED BY <1>1

LEMMA CountRecordsKeeps ==
  ASSUME LimiterInv, NEW r \in Request, CountRecords(r) PROVE LimiterInv'
  <1> DEFINE c == [Waiting EXCEPT !.at = "sweeping", !.nowMs = clock, !.seen = records]
  <1>1. /\ limiter = "file" /\ limiter' = limiter /\ clock' = clock /\ records' = records
        /\ gateWindow' = gateWindow /\ passed' = passed /\ consume' = [consume EXCEPT ![r] = c]
        /\ disordered' = (disordered \/ \E s \in Request : consume[s] # Waiting)
        /\ ~disordered' => ~disordered /\ \A s \in Request : consume[s] = Waiting
    BY DEF CountRecords
  <1>2. LimiterTypeOK /\ CallsOfTheirLimiter /\ SlidingInv BY DEF LimiterInv
  <1>3. clock \in Nat /\ records \in SUBSET Attempt /\ IsFiniteSet(records) BY <1>2 DEF LimiterTypeOK
  <1>4. c.at = "sweeping" /\ c.nowMs = clock /\ c.seen = records /\ c \in CallState
    BY <1>3, WaitingFacts DEF CallState
  <1> HIDE DEF c
  <1>5. /\ consume' \in [Request -> CallState] /\ \A s \in Request : IsFiniteSet(consume'[s].seen)
        /\ consume'[r] = c /\ \A s \in Request : s # r => consume'[s] = consume[s]
    BY <1>1, <1>3, <1>4, OtherCallsStay
  <1>6. LimiterTypeOK' BY <1>1, <1>2, <1>5 DEF LimiterTypeOK, CallState
  <1>7. CallsOfTheirLimiter'
    <2>1. SUFFICES ASSUME NEW s \in Request, UnderWay(s)'
                   PROVE  /\ consume'[s].nowMs <= clock
                          /\ consume'[s].at \in {"sweeping", "passing", "writing"}
                          /\ consume'[s].at \in {"asking again", "writing"} => consume'[s].number # 0
      BY <1>1 DEF CallsOfTheirLimiter
    <2>2. CASE s = r
      <3>1. consume'[s].nowMs = clock /\ consume'[s].at = "sweeping" BY <2>2, <1>4, <1>5
      <3>2. clock <= clock BY <1>3
      <3>3. QED BY <3>1, <3>2
    <2>3. CASE s # r BY <2>1, <2>3, <1>1, <1>2, <1>5 DEF UnderWay, CallsOfTheirLimiter
    <2>4. QED BY <2>2, <2>3
  <1>8. SlidingInv'
    <2>1. NumbersUnique' BY <1>1, <1>2 DEF SlidingInv, NumbersUnique
    <2>2. SUFFICES ASSUME ~disordered'
                   PROVE  (OneCallOfTheFile /\ PassedBefore /\ RecordedWhileRecent /\ WithinLimit)'
      BY <2>1, <1>1 DEF SlidingInv
    <2>3. ~disordered /\ \A s \in Request : consume[s].at = "none" BY <2>2, <1>1, WaitingFacts
    <2>4. PassedBefore /\ RecordedWhileRecent /\ WithinLimit BY <2>3, <1>1, <1>2 DEF SlidingInv
    <2>5. \A s \in Request : UnderWay(s)' => s = r BY <2>3, <1>5 DEF UnderWay
    <2>6. \A s \in Request : s # r => consume'[s].at = "none" BY <2>3, <1>5
    <2>7. OneCallOfTheFile' BY <2>5, <2>6, <1>1, <1>4, <1>5 DEF OneCallOfTheFile
    <2>8. PassedBefore' BY <2>4, <2>5, <1>1, <1>4, <1>5 DEF PassedBefore
    <2>9. RecordedWhileRecent' BY <2>4, <2>5, <1>1, <1>4, <1>5 DEF RecordedWhileRecent
    <2>10. WithinLimit' BY <2>4, <1>1 DEF WithinLimit, WindowUpTo
    <2>11. QED BY <2>7, <2>8, <2>9, <2>10
  <1>9. QED BY <1>1, <1>6, <1>7, <1>8 DEF LimiterInv, GateInv

\* While one call is under way, no other is.
LEMMA AloneUnderWay ==
  ASSUME LimiterInv, NEW r \in Request, limiter = "file", ~disordered, UnderWay(r)
  PROVE  /\ OneCallOfTheFile /\ PassedBefore /\ RecordedWhileRecent /\ WithinLimit
         /\ \A s \in Request : s # r => consume[s].at = "none"
         /\ consume[r].nowMs \in Nat /\ consume[r].nowMs <= clock /\ clock \in Nat
         /\ \A q \in passed : q.time \in Nat /\ q.time <= consume[r].nowMs
         /\ \A q \in passed \ records : q.time <= consume[r].nowMs - RateLimitWindow
  <1>1. OneCallOfTheFile /\ PassedBefore /\ RecordedWhileRecent /\ WithinLimit
    BY DEF LimiterInv, SlidingInv
  <1>2. \A s \in Request : s # r => consume[s].at = "none" BY <1>1 DEF OneCallOfTheFile, UnderWay
  <1>3. consume[r].nowMs \in Nat /\ clock \in Nat BY DEF LimiterInv, LimiterTypeOK
  <1>4. consume[r].nowMs <= clock BY DEF LimiterInv, CallsOfTheirLimiter
  <1>5. \A q \in passed : q.time \in Nat BY DEF LimiterInv, LimiterTypeOK
  <1>6. QED BY <1>1, <1>2, <1>3, <1>4, <1>5 DEF PassedBefore, RecordedWhileRecent

LEMMA SweepRecordsKeeps ==
  ASSUME LimiterInv, NEW r \in Request, SweepRecords(r) PROVE LimiterInv'
  <1> DEFINE t == consume[r].nowMs
             recent == {a \in consume[r].seen : Recent(a, t)}
             swept == {b.number : b \in consume[r].seen \ recent}
             passing == [consume[r] EXCEPT !.at = "passing"]
  <1>1. LimiterTypeOK /\ CallsOfTheirLimiter /\ SlidingInv BY DEF LimiterInv
  <1>2. clock \in Nat /\ consume \in [Request -> CallState] BY <1>1 DEF LimiterTypeOK, CallState
  <1>3. /\ consume[r].at = "sweeping" /\ UnderWay(r) /\ limiter = "file"
        /\ limiter' = limiter /\ clock' = clock /\ gateWindow' = gateWindow
        /\ disordered' = disordered /\ passed' = passed
        /\ records' = {a \in records : a.number \notin swept}
    BY <1>1 DEF SweepRecords, CallsOfTheirLimiter, UnderWay
  <1>4. \/ Cardinality(recent) >= SignInEmailRateLimitMax /\ consume' = [consume EXCEPT ![r] = Waiting]
        \/ ~(Cardinality(recent) >= SignInEmailRateLimitMax) /\ consume' = [consume EXCEPT ![r] = passing]
    <2>1. [consume EXCEPT ![r].at = "passing"] = [consume EXCEPT ![r] = passing] BY <1>2
    <2>2. QED BY <2>1 DEF SweepRecords
  <1>5. /\ passing \in CallState /\ passing.at = "passing" /\ passing.nowMs = t
        /\ passing.seen = consume[r].seen /\ IsFiniteSet(passing.seen)
    <2>1. consume[r] \in CallState /\ IsFiniteSet(consume[r].seen) BY <1>1, <1>2 DEF LimiterTypeOK
    <2>2. QED BY <2>1 DEF CallState
  <1> HIDE DEF recent, swept, passing
  <1>6. /\ consume' \in [Request -> CallState] /\ \A s \in Request : IsFiniteSet(consume'[s].seen)
        /\ \/ consume'[r] = Waiting
           \/ consume'[r] = passing /\ ~(Cardinality(recent) >= SignInEmailRateLimitMax)
        /\ \A s \in Request : s # r => consume'[s] = consume[s]
    <2>1. CASE consume' = [consume EXCEPT ![r] = Waiting] BY <2>1, WaitingFacts, OtherCallsStay
    <2>2. CASE /\ consume' = [consume EXCEPT ![r] = passing]
               /\ ~(Cardinality(recent) >= SignInEmailRateLimitMax)
      BY <2>2, <1>5, OtherCallsStay
    <2>3. QED BY <2>1, <2>2, <1>4
  <1>7. records' \subseteq records /\ IsFiniteSet(records)  /\ records \in SUBSET Attempt
    BY <1>1, <1>3 DEF LimiterTypeOK
  <1>8. IsFiniteSet(records') BY <1>7, Fewer
  <1>9. LimiterTypeOK' BY <1>1, <1>3, <1>6, <1>7, <1>8 DEF LimiterTypeOK, CallState
  <1>10. UnderWay(r)' => consume'[r] = passing /\ consume'[r].at = "passing" /\ consume'[r].nowMs = t
    BY <1>5, <1>6, WaitingFacts DEF UnderWay
  <1>11. CallsOfTheirLimiter'
    <2>1. SUFFICES ASSUME NEW s \in Request, UnderWay(s)'
                   PROVE  /\ consume'[s].nowMs <= clock
                          /\ consume'[s].at \in {"sweeping", "passing", "writing"}
                          /\ consume'[s].at \in {"asking again", "writing"} => consume'[s].number # 0
      BY <1>3 DEF CallsOfTheirLimiter
    <2>2. CASE s = r BY <2>1, <2>2, <1>1, <1>3, <1>10 DEF CallsOfTheirLimiter
    <2>3. CASE s # r BY <2>1, <2>3, <1>1, <1>3, <1>6 DEF UnderWay, CallsOfTheirLimiter
    <2>4. QED BY <2>2, <2>3
  <1>12. SlidingInv'
    <2>1. NumbersUnique /\ NumbersUnique' BY <1>1, <1>3, <1>7 DEF SlidingInv, NumbersUnique
    <2>2. SUFFICES ASSUME ~disordered
                   PROVE  (OneCallOfTheFile /\ PassedBefore /\ RecordedWhileRecent /\ WithinLimit)'
      BY <2>1, <1>3 DEF SlidingInv
    <2>3. /\ OneCallOfTheFile /\ PassedBefore /\ RecordedWhileRecent /\ WithinLimit
          /\ \A s \in Request : s # r => consume[s].at = "none"
          /\ t \in Nat /\ t <= clock /\ clock \in Nat
          /\ \A q \in passed : q.time \in Nat /\ q.time <= t
          /\ \A q \in passed \ records : q.time <= t - RateLimitWindow
      BY <2>2, <1>3, AloneUnderWay
    <2>4. consume[r].seen = records BY <2>3, <1>3 DEF OneCallOfTheFile
    <2>5. \A s \in Request : s # r => consume'[s].at = "none" BY <2>3, <1>6
    <2>6. recent = RecentAttempts(t) BY <2>4 DEF recent, RecentAttempts
    <2>7. consume'[r] = passing => Cardinality(PassedSince(t)) < SignInEmailRateLimitMax
      <3>1. SUFFICES ASSUME consume'[r] = passing PROVE Cardinality(PassedSince(t)) < SignInEmailRateLimitMax
        OBVIOUS
      <3>2. passing # Waiting BY <1>5, WaitingFacts
      <3>3. ~(Cardinality(recent) >= SignInEmailRateLimitMax) BY <3>1, <3>2, <1>6
      <3>4. RecentAttempts(t) \subseteq records BY DEF RecentAttempts
      <3>5. Cardinality(RecentAttempts(t)) \in Nat BY <3>4, <1>7, Fewer
      <3>6. Cardinality(RecentAttempts(t)) < SignInEmailRateLimitMax
        BY <3>3, <3>5, <2>6, LimiterAssumption
      <3>7. QED BY <3>6, <2>3, <1>1, CountedBoundsPassed
    <2>8. \A u : {q \in passed' : q.time > u - RateLimitWindow} = PassedSince(u)
      BY <1>3 DEF PassedSince
    <2>9. OneCallOfTheFile'
      <3>1. \A s1, s2 \in Request : UnderWay(s1)' /\ UnderWay(s2)' => s1 = s2 BY <2>5 DEF UnderWay
      <3>2. ASSUME NEW s \in Request, UnderWay(s)'
            PROVE  s = r /\ consume'[s].at = "passing" /\ consume'[s].nowMs = t
                   /\ Cardinality({q \in passed' : q.time > consume'[s].nowMs - RateLimitWindow})
                          < SignInEmailRateLimitMax
        BY <3>2, <2>5, <2>7, <2>8, <1>3, <1>10 DEF UnderWay, PassedSince
      <3>3. QED BY <3>1, <3>2 DEF OneCallOfTheFile, PassedSince, UnderWay
    <2>10. \A s \in Request : UnderWay(s)' => s = r /\ consume'[s].nowMs = t
      BY <2>5, <1>10 DEF UnderWay
    <2>11. PassedBefore' BY <2>3, <2>10, <1>3 DEF PassedBefore
    <2>12. \A q \in passed' \ records' : q.time <= t - RateLimitWindow
      <3>1. SUFFICES ASSUME NEW q \in passed, q \in records, q \notin records'
                     PROVE  q.time <= t - RateLimitWindow
        BY <2>3, <1>3
      <3>2. q.number \in swept BY <3>1, <1>3
      <3>3. PICK b \in records \ recent : b.number = q.number BY <3>2, <2>4 DEF swept
      <3>4. b = q BY <3>1, <3>3, <2>1 DEF NumbersUnique
      <3>5. ~Recent(q, t) BY <3>1, <3>3, <3>4, <2>6 DEF RecentAttempts
      <3>6. QED BY <3>5, <2>3, LimiterAssumption DEF Recent, NotANumber
    <2>13. RecordedWhileRecent'
      BY <2>3, <2>10, <2>12, <1>3, LimiterAssumption DEF RecordedWhileRecent
    <2>14. WithinLimit' BY <2>3, <1>3 DEF WithinLimit, WindowUpTo
    <2>15. QED BY <2>9, <2>11, <2>13, <2>14
  <1>13. QED BY <1>3, <1>9, <1>11, <1>12 DEF LimiterInv, GateInv

LEMMA CreateRecordKeeps ==
  ASSUME LimiterInv, NEW r \in Request, CreateRecord(r) PROVE LimiterInv'
  <1> DEFINE t == consume[r].nowMs
             empty == [number |-> NextNumber, time |-> NotANumber]
             writing == [consume[r] EXCEPT !.at = "writing", !.number = NextNumber]
  <1>1. LimiterTypeOK /\ CallsOfTheirLimiter /\ SlidingInv BY DEF LimiterInv
  <1>2. clock \in Nat /\ consume \in [Request -> CallState] BY <1>1 DEF LimiterTypeOK, CallState
  <1>3. /\ consume[r].at = "passing" /\ UnderWay(r) /\ limiter = "file" /\ Unused # {}
        /\ limiter' = limiter /\ clock' = clock /\ gateWindow' = gateWindow
        /\ disordered' = disordered /\ passed' = passed /\ records' = records \cup {empty}
        /\ consume' = [consume EXCEPT ![r].at = "writing", ![r].number = NextNumber]
    BY <1>1 DEF CreateRecord, CallsOfTheirLimiter, UnderWay
  <1>4. /\ NextNumber \in 1..MaxAttempts /\ \A a \in records : a.number # NextNumber
    BY <1>3, FreshNumber
  <1>5. NextNumber \in 0..MaxAttempts /\ NextNumber # 0 BY <1>4, LimiterAssumption
  <1>6. /\ writing \in CallState /\ writing.at = "writing" /\ writing.nowMs = t
        /\ writing.number = NextNumber /\ IsFiniteSet(writing.seen)
    <2>1. consume[r] \in CallState /\ IsFiniteSet(consume[r].seen) BY <1>1, <1>2 DEF LimiterTypeOK
    <2>2. QED BY <2>1, <1>5 DEF CallState
  <1>7. consume' = [consume EXCEPT ![r] = writing] BY <1>2, <1>3
  <1>8. empty \in Attempt /\ empty.number = NextNumber /\ empty.time = NotANumber
    BY <1>4 DEF Attempt
  <1>9. empty = [number |-> consume'[r].number, time |-> NotANumber]
    <2>1. consume'[r] = writing BY <1>2, <1>7
    <2>2. consume'[r].number = NextNumber BY <2>1, <1>6
    <2>3. QED BY <2>2
  <1> HIDE DEF writing, empty
  <1>10. /\ consume' \in [Request -> CallState] /\ \A s \in Request : IsFiniteSet(consume'[s].seen)
         /\ consume'[r] = writing /\ \A s \in Request : s # r => consume'[s] = consume[s]
    BY <1>6, <1>7, OtherCallsStay
  <1>11. records \in SUBSET Attempt /\ IsFiniteSet(records) BY <1>1 DEF LimiterTypeOK
  <1>12. records' \in SUBSET Attempt /\ IsFiniteSet(records') BY <1>3, <1>8, <1>11, OneMore
  <1>13. LimiterTypeOK' BY <1>1, <1>3, <1>10, <1>12 DEF LimiterTypeOK, CallState
  <1>14. CallsOfTheirLimiter'
    <2>1. SUFFICES ASSUME NEW s \in Request, UnderWay(s)'
                   PROVE  /\ consume'[s].nowMs <= clock
                          /\ consume'[s].at \in {"sweeping", "passing", "writing"}
                          /\ consume'[s].at \in {"asking again", "writing"} => consume'[s].number # 0
      BY <1>3 DEF CallsOfTheirLimiter
    <2>2. CASE s = r BY <2>1, <2>2, <1>1, <1>3, <1>5, <1>6, <1>10 DEF CallsOfTheirLimiter
    <2>3. CASE s # r BY <2>1, <2>3, <1>1, <1>3, <1>10 DEF UnderWay, CallsOfTheirLimiter
    <2>4. QED BY <2>2, <2>3
  <1>15. SlidingInv'
    <2>1. NumbersUnique' BY <1>1, <1>3, <1>4, <1>8 DEF SlidingInv, NumbersUnique
    <2>2. SUFFICES ASSUME ~disordered
                   PROVE  (OneCallOfTheFile /\ PassedBefore /\ RecordedWhileRecent /\ WithinLimit)'
      BY <2>1, <1>3 DEF SlidingInv
    <2>3. /\ OneCallOfTheFile /\ PassedBefore /\ RecordedWhileRecent /\ WithinLimit
          /\ \A s \in Request : s # r => consume[s].at = "none"
          /\ t \in Nat /\ t <= clock /\ clock \in Nat
          /\ \A q \in passed : q.time \in Nat /\ q.time <= t
          /\ \A q \in passed \ records : q.time <= t - RateLimitWindow
      BY <2>2, <1>3, AloneUnderWay
    <2>4. \A s \in Request : UnderWay(s)' => s = r BY <2>3, <1>10 DEF UnderWay
    <2>5. \A u : {q \in passed' : q.time > u - RateLimitWindow} = PassedSince(u)
      BY <1>3 DEF PassedSince
    <2>6. Cardinality(PassedSince(t)) < SignInEmailRateLimitMax BY <2>3, <1>3 DEF OneCallOfTheFile
    <2>7. ASSUME NEW s \in Request, UnderWay(s)'
          PROVE  s = r /\ consume'[s].at = "writing" /\ consume'[s].nowMs = t
                 /\ Cardinality({q \in passed' : q.time > consume'[s].nowMs - RateLimitWindow})
                        < SignInEmailRateLimitMax
      BY <2>4, <2>5, <2>6, <2>7, <1>6, <1>10
    <2>8. OneCallOfTheFile'
      <3>1. \A s1, s2 \in Request : UnderWay(s1)' /\ UnderWay(s2)' => s1 = s2 BY <2>4
      <3>2. empty \in records' BY <1>3
      <3>3. QED BY <3>1, <3>2, <2>7, <1>9 DEF OneCallOfTheFile, PassedSince, UnderWay
    <2>9. PassedBefore' BY <2>3, <2>7, <1>3 DEF PassedBefore
    <2>10. RecordedWhileRecent' BY <2>3, <2>7, <1>3, LimiterAssumption DEF RecordedWhileRecent
    <2>11. WithinLimit' BY <2>3, <1>3 DEF WithinLimit, WindowUpTo
    <2>12. QED BY <2>8, <2>9, <2>10, <2>11
  <1>16. QED BY <1>3, <1>13, <1>14, <1>15 DEF LimiterInv, GateInv

LEMMA WriteRecordKeeps ==
  ASSUME LimiterInv, NEW r \in Request, WriteRecord(r) PROVE LimiterInv'
  <1> DEFINE t == consume[r].nowMs
             n == consume[r].number
             empty == [number |-> n, time |-> NotANumber]
             new == [empty EXCEPT !.time = t]
  <1>1. LimiterTypeOK /\ CallsOfTheirLimiter /\ SlidingInv BY DEF LimiterInv
  <1>2. clock \in Nat /\ consume \in [Request -> CallState] BY <1>1 DEF LimiterTypeOK, CallState
  <1>3. /\ consume[r].at = "writing" /\ UnderWay(r) /\ limiter = "file"
        /\ limiter' = limiter /\ clock' = clock /\ gateWindow' = gateWindow
        /\ disordered' = disordered /\ Passed(n, t) /\ consume' = [consume EXCEPT ![r] = Waiting]
        /\ records' = IF empty \in records THEN (records \ {empty}) \cup {new} ELSE records
    BY <1>1 DEF WriteRecord, CallsOfTheirLimiter, UnderWay
  <1>4. t \in Nat /\ n \in 1..MaxAttempts
    <2>1. n \in 0..MaxAttempts /\ t \in Nat BY <1>2 DEF CallState
    <2>2. n # 0 BY <1>1, <1>3 DEF CallsOfTheirLimiter
    <2>3. QED BY <2>1, <2>2, LimiterAssumption
  <1>5. /\ new = [number |-> n, time |-> t] /\ new.number = n /\ new.time = t
        /\ empty.number = n /\ empty.time = NotANumber
        /\ new \in Attempt /\ new \in [number : 1..MaxAttempts, time : Nat]
    BY <1>4 DEF Attempt
  <1>6. passed' = passed \cup {new} BY <1>3, <1>5 DEF Passed
  <1> HIDE DEF new, empty
  <1>7. /\ consume' \in [Request -> CallState] /\ \A s \in Request : IsFiniteSet(consume'[s].seen)
        /\ consume'[r] = Waiting /\ \A s \in Request : s # r => consume'[s] = consume[s]
    BY <1>3, WaitingFacts, OtherCallsStay
  <1>8. /\ records \in SUBSET Attempt /\ IsFiniteSet(records)
        /\ passed \in SUBSET [number : 1..MaxAttempts, time : Nat] /\ IsFiniteSet(passed)
    BY <1>1 DEF LimiterTypeOK
  <1>9. records' \in SUBSET Attempt /\ IsFiniteSet(records')
    <2>1. IsFiniteSet(records \ {empty}) BY <1>8, Fewer
    <2>2. IsFiniteSet((records \ {empty}) \cup {new}) BY <2>1, OneMore
    <2>3. QED BY <2>2, <1>3, <1>5, <1>8
  <1>10. passed' \in SUBSET [number : 1..MaxAttempts, time : Nat] /\ IsFiniteSet(passed')
    BY <1>5, <1>6, <1>8, OneMore
  <1>11. LimiterTypeOK' BY <1>1, <1>3, <1>7, <1>9, <1>10 DEF LimiterTypeOK, CallState
  <1>12. \A s \in Request : UnderWay(s)' => s # r /\ consume'[s] = consume[s] /\ UnderWay(s)
    BY <1>7, WaitingFacts DEF UnderWay
  <1>13. CallsOfTheirLimiter' BY <1>1, <1>3, <1>12 DEF CallsOfTheirLimiter
  <1>14. SlidingInv'
    <2>1. NumbersUnique' BY <1>1, <1>3, <1>5 DEF SlidingInv, NumbersUnique
    <2>2. SUFFICES ASSUME ~disordered
                   PROVE  (OneCallOfTheFile /\ PassedBefore /\ RecordedWhileRecent /\ WithinLimit)'
      BY <2>1, <1>3 DEF SlidingInv
    <2>3. /\ OneCallOfTheFile /\ PassedBefore /\ RecordedWhileRecent /\ WithinLimit
          /\ \A s \in Request : s # r => consume[s].at = "none"
          /\ t \in Nat /\ t <= clock /\ clock \in Nat
          /\ \A q \in passed : q.time \in Nat /\ q.time <= t
          /\ \A q \in passed \ records : q.time <= t - RateLimitWindow
      BY <2>2, <1>3, AloneUnderWay
    <2>4. empty \in records /\ Cardinality(PassedSince(t)) < SignInEmailRateLimitMax
      BY <2>3, <1>3 DEF OneCallOfTheFile, empty
    <2>5. \A s \in Request : consume'[s].at = "none" /\ ~UnderWay(s)'
      BY <2>3, <1>7, WaitingFacts DEF UnderWay
    <2>6. OneCallOfTheFile' BY <2>5 DEF OneCallOfTheFile
    <2>7. PassedBefore' BY <2>3, <2>5, <1>3, <1>5, <1>6 DEF PassedBefore
    <2>8. RecordedWhileRecent'
      <3>1. SUFFICES ASSUME NEW q \in passed', q \notin records' PROVE q.time <= clock - RateLimitWindow
        BY <2>5, <1>3 DEF RecordedWhileRecent
      <3>2. q \in passed BY <3>1, <2>4, <1>3, <1>6
      <3>3. q # empty BY <3>2, <2>3, <1>5 DEF NotANumber
      <3>4. q \notin records BY <3>1, <3>3, <2>4, <1>3
      <3>5. QED BY <3>2, <3>4, <2>3 DEF RecordedWhileRecent
    <2>9. WithinLimit' BY <2>3, <2>4, <1>1, <1>3, <1>4, RoomForOne
    <2>10. QED BY <2>6, <2>7, <2>8, <2>9
  <1>15. QED BY <1>3, <1>11, <1>13, <1>14 DEF LimiterInv, GateInv

LEMMA LimiterTickKeeps == LimiterInv /\ LimiterTick => LimiterInv'
  <1> SUFFICES ASSUME LimiterInv, LimiterTick PROVE LimiterInv' OBVIOUS
  <1>1. /\ clock' = clock + 1 /\ limiter' = limiter /\ records' = records /\ gateWindow' = gateWindow
        /\ consume' = consume /\ passed' = passed /\ disordered' = disordered
    BY DEF LimiterTick
  <1>2. LimiterTypeOK /\ CallsOfTheirLimiter /\ SlidingInv /\ GateInv BY DEF LimiterInv
  <1>3. /\ clock \in Nat /\ \A q \in passed : q.time \in Nat
        /\ \A r \in Request : consume[r].nowMs \in Nat
        /\ gateWindow \in [windowStartMs : Nat \cup {NotANumber}, count : Nat]
    BY <1>2 DEF LimiterTypeOK
  <1>4. LimiterTypeOK'
    <2>1. clock' \in Nat BY <1>1, <1>3
    <2>2. QED BY <2>1, <1>1, <1>2 DEF LimiterTypeOK
  <1>5. CallsOfTheirLimiter'
    <2>1. \A r \in Request : consume[r].nowMs <= clock => consume'[r].nowMs <= clock' BY <1>1, <1>3
    <2>2. QED BY <2>1, <1>1, <1>2 DEF CallsOfTheirLimiter, UnderWay
  <1>6. SlidingInv'
    <2>1. NumbersUnique => NumbersUnique' BY <1>1 DEF NumbersUnique
    <2>2. OneCallOfTheFile => OneCallOfTheFile'
      BY <1>1 DEF OneCallOfTheFile, UnderWay, PassedSince
    <2>3. PassedBefore => PassedBefore' BY <1>1, <1>3 DEF PassedBefore, UnderWay
    <2>4. RecordedWhileRecent => RecordedWhileRecent'
      BY <1>1, <1>3, LimiterAssumption DEF RecordedWhileRecent, UnderWay
    <2>5. WithinLimit => WithinLimit' BY <1>1 DEF WithinLimit, WindowUpTo
    <2>6. QED BY <2>1, <2>2, <2>3, <2>4, <2>5, <1>1, <1>2 DEF SlidingInv
  <1>7. GateInv'
    <2>1. InGateWindow' = InGateWindow /\ BeforeGateWindow' = BeforeGateWindow /\ GateBegan' = GateBegan
      BY <1>1 DEF InGateWindow, BeforeGateWindow, GateBegan
    <2>2. \A t : WindowUpTo(t)' = WindowUpTo(t) BY <1>1 DEF WindowUpTo
    <2>3. QED BY <2>1, <2>2, <1>1, <1>2, <1>3 DEF GateInv
  <1>8. QED BY <1>4, <1>5, <1>6, <1>7 DEF LimiterInv

LEMMA LimiterStep == LimiterInv /\ [LimiterNext]_limiterVars => LimiterInv'
  <1> SUFFICES ASSUME LimiterInv, [LimiterNext]_limiterVars PROVE LimiterInv' OBVIOUS
  <1>1. CASE UNCHANGED limiterVars
    <2>1. LimiterTypeOK' BY <1>1 DEF limiterVars, LimiterInv, LimiterTypeOK
    <2>2. CallsOfTheirLimiter'
      BY <1>1 DEF limiterVars, LimiterInv, CallsOfTheirLimiter, UnderWay
    <2>3. SlidingInv'
      BY <1>1 DEF limiterVars, LimiterInv, SlidingInv, NumbersUnique, OneCallOfTheFile, UnderWay,
          PassedSince, PassedBefore, RecordedWhileRecent, WithinLimit, WindowUpTo
    <2>4. GateInv'
      BY <1>1 DEF limiterVars, LimiterInv, GateInv, GateBegan, InGateWindow, BeforeGateWindow, WindowUpTo
    <2>5. QED BY <2>1, <2>2, <2>3, <2>4 DEF LimiterInv
  <1>2. CASE ConsumeAtOnce BY <1>2, ConsumeAtOnceKeeps
  <1>3. CASE ConsumeInGate BY <1>3, ConsumeInGateKeeps
  <1>4. CASE LimiterTick BY <1>4, LimiterTickKeeps
  <1>5. ASSUME NEW r \in Request, SendScript(r) PROVE LimiterInv' BY <1>5, SendScriptKeeps
  <1>6. ASSUME NEW r \in Request, RunScript(r) PROVE LimiterInv' BY <1>6, RunScriptKeeps
  <1>7. ASSUME NEW r \in Request, CountRecords(r) PROVE LimiterInv' BY <1>7, CountRecordsKeeps
  <1>8. ASSUME NEW r \in Request, SweepRecords(r) PROVE LimiterInv' BY <1>8, SweepRecordsKeeps
  <1>9. ASSUME NEW r \in Request, CreateRecord(r) PROVE LimiterInv' BY <1>9, CreateRecordKeeps
  <1>10. ASSUME NEW r \in Request, WriteRecord(r) PROVE LimiterInv' BY <1>10, WriteRecordKeeps
  <1>11. QED
    BY <1>1, <1>2, <1>3, <1>4, <1>5, <1>6, <1>7, <1>8, <1>9, <1>10 DEF LimiterNext

\* For any limit, any window and any number of calls: whichever limiter it is, as
\* long as its calls stay in order no window of time holds more attempts than the
\* limit, and in the gate's windows, which do not slide, no more than twice as many.
THEOREM LimitHolds == LimiterSpec => []LimitHoldsInEveryWindow
  <1>1. LimiterInv => LimitHoldsInEveryWindow
    <2>1. SUFFICES ASSUME LimiterInv, ~disordered, NEW p \in passed
                   PROVE  Cardinality(WindowUpTo(p.time))
                              <= SignInEmailRateLimitMax * (IF limiter = "gate" THEN 2 ELSE 1)
      BY DEF LimitHoldsInEveryWindow, WindowUpTo
    <2>2. CASE limiter = "gate" BY <2>1, <2>2 DEF LimiterInv, GateInv
    <2>3. CASE limiter # "gate"
      <3>1. Cardinality(WindowUpTo(p.time)) <= SignInEmailRateLimitMax
        BY <2>1, <2>3 DEF LimiterInv, SlidingInv, WithinLimit
      <3>2. QED BY <3>1, <2>3, LimiterAssumption
    <2>4. QED BY <2>2, <2>3
  <1>2. QED BY <1>1, LimiterInit_, LimiterStep, PTL DEF LimiterSpec

(***************************************************************************)
(* The audit log: rotation moves whole files towards the older numbers into *)
(* places that are free, so the entries stay in order wherever it is cut    *)
(* short, and the newest of them is the last one recorded.                  *)
(***************************************************************************)
EntryRecord == [n : Nat \ {0}, prev : Nat, signed : BOOLEAN]
AuditFile == [there : BOOLEAN, lines : Seq(EntryRecord), ending : {"ended", "torn", "unended"}]
AuditTypeOK ==
    /\ files \in [Number -> AuditFile]
    /\ appender \in [at : {"idle", "rotating"}, entry : Nat, prev : Nat, steps : Seq(Number)]
    /\ recorded \in Nat /\ cuts \in Nat
    /\ reader \in [at : {"idle", "listing", "reading", "read", "failed"}, number : Number,
                   paths : SUBSET Number, seen : Seq(EntryRecord), last : Nat]

Here(f) == DOMAIN files[f].lines
Stored(f, i) == files[f].lines[i]

\* An unsigned entry is the first of all, alone in its file; a signed one names the
\* entry before it or none.
WellFormed(lines) == \A i \in DOMAIN lines :
    /\ lines[i].signed => lines[i].prev = Undefined \/ lines[i].prev + 1 = lines[i].n
    /\ ~lines[i].signed => Len(lines) = 1 /\ lines[i].n = 1

FilesWellFormed == \A f \in Number :
    /\ WellFormed(files[f].lines)
    /\ ~files[f].there => files[f].lines = <<>> /\ files[f].ending = "ended"
    /\ ~Parses(files[f]) => f = 0 /\ appender = Idle
InOrder == \A f, g \in Number : \A i \in Here(f), j \in Here(g) :
    Earlier(f, i, g, j) => Stored(f, i).n < Stored(g, j).n
Chained == \A f, g \in Number : \A i \in Here(f), j \in Here(g) :
    /\ Stored(f, i).signed /\ Stored(g, j).signed /\ Stored(g, j).n = Stored(f, i).n + 1
           => Stored(g, j).prev = Stored(f, i).n
    /\ Stored(f, i).n <= recorded
NoneMissing == Parses(files[0]) =>
    \A f \in Number : \A i \in Here(f) : \A number \in Stored(f, i).n..recorded :
        \E g \in Number : \E j \in Here(g) : Stored(g, j).n = number

StepsFrom(left) == [i \in 1..left |-> left - i]
Appending == appender.at = "rotating" =>
    /\ Parses(files[0]) /\ appender.entry = recorded + 1
    /\ appender.prev = Undefined \/ appender.prev = recorded
    /\ \A f \in Number : \A i \in Here(f) :
           Stored(f, i).signed /\ Stored(f, i).n = recorded => appender.prev = recorded
    /\ \E left \in 0..(MaxArchived + 1) :
           /\ appender.steps = StepsFrom(left)
           /\ 0 < left /\ left <= MaxArchived => ~files[left].there
           /\ left = 0 => ~HasLegacyEvents

Reading == reader.at \in {"reading", "read"} =>
    /\ \A i, j \in DOMAIN reader.seen : NextSigned(i, j) => reader.seen[j].n = reader.seen[i].n + 1
    /\ reader.last = Undefined => \A i \in DOMAIN reader.seen : ~reader.seen[i].signed
    /\ reader.last # Undefined =>
           \E i \in DOMAIN reader.seen :
               /\ reader.seen[i].signed /\ reader.seen[i].n = reader.last
               /\ \A j \in DOMAIN reader.seen : i < j => ~reader.seen[j].signed
IdleOrRotating == appender.at = "idle" => appender = Idle
BeforeReading == reader.at = "listing" => reader.seen = <<>> /\ reader.last = Undefined

AuditInv ==
    /\ AuditTypeOK /\ FilesWellFormed /\ InOrder /\ Chained /\ NoneMissing /\ Appending
    /\ IdleOrRotating /\ Reading /\ BeforeReading

LEMMA AuditInit_ == AuditInit => AuditInv
  <1> SUFFICES ASSUME AuditInit PROVE AuditInv OBVIOUS
  <1> DEFINE legacy == [n |-> 1, prev |-> 0, signed |-> FALSE]
             file0 == [there |-> TRUE, lines |-> <<legacy>>, ending |-> "ended"]
             absent == [there |-> FALSE, lines |-> <<>>, ending |-> "ended"]
  <1>1. 0 \in Number /\ MaxArchived \in Number BY AuditAssumption DEF Number
  <1>2. \/ files = [f \in Number |-> absent] /\ recorded = 0
        \/ files = [f \in Number |-> IF f = 0 THEN file0 ELSE absent] /\ recorded = 1
    BY <1>1 DEF AuditInit, FileOf, Absent, Undefined
  <1>3. /\ appender = Idle /\ cuts = 0 /\ reader = NotReading BY DEF AuditInit
  <1>4. legacy \in EntryRecord BY DEF EntryRecord
  <1>5. absent \in AuditFile /\ file0 \in AuditFile BY <1>4 DEF AuditFile
  <1>6. AuditTypeOK
    <2>1. files \in [Number -> AuditFile] /\ recorded \in Nat
      <3> HIDE DEF absent, file0
      <3>1. CASE files = [f \in Number |-> absent] /\ recorded = 0 BY <3>1, <1>5
      <3>2. CASE files = [f \in Number |-> IF f = 0 THEN file0 ELSE absent] /\ recorded = 1
        BY <3>2, <1>5
      <3>3. QED BY <3>1, <3>2, <1>2
    <2>2. appender \in [at : {"idle", "rotating"}, entry : Nat, prev : Nat, steps : Seq(Number)]
      BY <1>3 DEF Idle, Undefined
    <2>3. reader \in [at : {"idle", "listing", "reading", "read", "failed"}, number : Number,
                   paths : SUBSET Number, seen : Seq(EntryRecord), last : Nat]
      BY <1>1, <1>3 DEF NotReading, Undefined
    <2>4. QED BY <2>1, <2>2, <2>3, <1>3 DEF AuditTypeOK
  <1>7. appender.at = "idle" /\ reader.at = "idle" BY <1>3 DEF Idle, NotReading
  <1>8. \A f \in Number : \/ files[f] = absent
                          \/ f = 0 /\ files[f] = file0 /\ recorded = 1
    BY <1>2
  <1>9. \A f \in Number : \A i \in Here(f) : f = 0 /\ i = 1 /\ Stored(f, i) = legacy /\ recorded = 1
    <2>1. SUFFICES ASSUME NEW f \in Number, NEW i \in DOMAIN files[f].lines
                   PROVE  f = 0 /\ i = 1 /\ files[f].lines[i] = legacy /\ recorded = 1
      BY DEF Here, Stored
    <2>2. files[f] # absent
      <3>1. DOMAIN absent.lines = {} OBVIOUS
      <3>2. QED BY <2>1, <3>1
    <2>3. f = 0 /\ recorded = 1 /\ files[f].lines = <<legacy>>
      <3>1. file0.lines = <<legacy>> OBVIOUS
      <3> HIDE DEF file0, absent, legacy
      <3>2. QED BY <3>1, <2>2, <1>8
    <2>4. DOMAIN <<legacy>> = 1..1 /\ <<legacy>>[1] = legacy OBVIOUS
    <2> HIDE DEF legacy
    <2>5. QED BY <2>1, <2>3, <2>4
  <1>10. FilesWellFormed
    <2>1. \A f \in Number : Parses(files[f]) BY <1>8 DEF Parses
    <2>2. \A f \in Number : WellFormed(files[f].lines) BY <1>8 DEF WellFormed
    <2>3. \A f \in Number : ~files[f].there => files[f].lines = <<>> /\ files[f].ending = "ended"
      BY <1>8
    <2>4. QED BY <2>1, <2>2, <2>3 DEF FilesWellFormed
  <1>11. InOrder BY <1>9 DEF InOrder, Earlier
  <1>12. Chained BY <1>9 DEF Chained
  <1>13. NoneMissing BY <1>9 DEF NoneMissing
  <1>14. QED BY <1>3, <1>6, <1>7, <1>10, <1>11, <1>12, <1>13
           DEF AuditInv, IdleOrRotating, Appending, Reading, BeforeReading

\* The newest entry is signed and recorded last, or there is none with a hash to name.
LEMMA HashOfTheLast ==
  ASSUME AuditInv, Parses(files[0]), ~HasLegacyEvents
  PROVE  /\ LatestSignedEntryHash \in {Undefined, recorded}
         /\ \A f \in Number : \A i \in Here(f) :
                Stored(f, i).signed /\ Stored(f, i).n = recorded => LatestSignedEntryHash = recorded
  <1>1. /\ \A f \in Number : files[f].lines \in Seq(EntryRecord) /\ WellFormed(files[f].lines)
        /\ InOrder /\ Chained /\ NoneMissing /\ recorded \in Nat
    BY DEF AuditInv, AuditTypeOK, AuditFile, FilesWellFormed
  <1>2. \A f \in Number : \A i \in Here(f) : Stored(f, i) \in EntryRecord /\ Stored(f, i).n \in Nat \ {0}
    <2>1. \A s \in Seq(EntryRecord) : \A i \in DOMAIN s : s[i] \in EntryRecord OBVIOUS
    <2>2. \A f \in Number : files[f].lines \in Seq(EntryRecord) BY <1>1
    <2>3. \A f \in Number : \A i \in Here(f) : Stored(f, i) \in EntryRecord
      BY <2>1, <2>2 DEF Here, Stored
    <2>4. QED BY <2>3 DEF EntryRecord
  <1>3. ASSUME NEW f \in Number, NEW i \in Here(f), Stored(f, i).signed, Stored(f, i).n = recorded
        PROVE  LatestSignedEntryHash = recorded
    <2>1. Len(files[f].lines) \in Here(f) /\ i \in 1..Len(files[f].lines) BY <1>1, <1>3 DEF Here
    <2>2. i = Len(files[f].lines)
      <3>1. Stored(f, Len(files[f].lines)).n <= recorded BY <2>1, <1>1, <1>3 DEF Chained
      <3>2. i < Len(files[f].lines) => Stored(f, i).n < Stored(f, Len(files[f].lines)).n
        BY <2>1, <1>1, <1>3 DEF InOrder, Earlier
      <3>3. QED BY <2>1, <3>1, <3>2, <1>1, <1>2, <1>3
    <2>3. Last(files[f].lines) = Stored(f, i) /\ files[f].lines # <<>>
      BY <2>1, <2>2, <1>1 DEF Stored, Last
    <2>4. f \in SignedFiles BY <2>3, <1>3 DEF SignedFiles
    <2>5. ASSUME NEW g \in SignedFiles PROVE f <= g
      <3>1. g \in Number /\ files[g].lines # <<>> BY DEF SignedFiles
      <3>2. Len(files[g].lines) \in Here(g) BY <3>1, <1>1 DEF Here
      <3>3. f > g => Stored(f, i).n < Stored(g, Len(files[g].lines)).n
        BY <3>1, <3>2, <1>1, <1>3 DEF InOrder, Earlier
      <3>4. Stored(g, Len(files[g].lines)).n <= recorded BY <3>1, <3>2, <1>1, <1>3 DEF Chained
      <3>5. f \in Int /\ g \in Int BY <3>1 DEF Number
      <3>6. QED BY <3>1, <3>2, <3>3, <3>4, <3>5, <1>1, <1>2, <1>3
    <2> DEFINE newest == CHOOSE h \in SignedFiles : \A g \in SignedFiles : h <= g
    <2>6. newest \in SignedFiles /\ \A g \in SignedFiles : newest <= g BY <2>4, <2>5
    <2>7. newest = f
      <3>1. newest \in Number BY <2>6 DEF SignedFiles
      <3> HIDE DEF newest
      <3>2. newest <= f /\ f <= newest BY <2>4, <2>5, <2>6
      <3>3. QED BY <3>1, <3>2 DEF Number
    <2>8. LatestSignedEntryHash = Last(files[newest].lines).n BY <2>4 DEF LatestSignedEntryHash
    <2> HIDE DEF newest
    <2>9. QED BY <2>3, <2>7, <2>8, <1>3
  <1>4. LatestSignedEntryHash \in {Undefined, recorded}
    <2>1. CASE SignedFiles = {} BY <2>1 DEF LatestSignedEntryHash
    <2>2. CASE SignedFiles # {}
      <3>1. PICK h \in SignedFiles : TRUE BY <2>2
      <3>2. h \in Number /\ files[h].lines # <<>> /\ Last(files[h].lines).signed BY DEF SignedFiles
      <3> DEFINE m == Len(files[h].lines)
      <3>3. m \in Here(h) /\ Stored(h, m) = Last(files[h].lines) BY <3>2, <1>1 DEF Here, Stored, Last
      <3>4. Stored(h, m).signed /\ Stored(h, m).n \in Nat \ {0} /\ Stored(h, m).n <= recorded
        BY <3>2, <3>3, <1>1, <1>2 DEF Chained
      <3>5. recorded \in Stored(h, m).n..recorded BY <3>4, <1>1
      <3> HIDE DEF m
      <3>6. PICK f \in Number : \E i \in Here(f) : Stored(f, i).n = recorded
        <4>1. \A number \in Stored(h, m).n..recorded :
                  \E g \in Number : \E j \in Here(g) : Stored(g, j).n = number
          BY <3>2, <3>3, <1>1 DEF NoneMissing
        <4>2. \E g \in Number : \E j \in Here(g) : Stored(g, j).n = recorded BY <4>1, <3>5
        <4>3. QED BY <4>2
      <3>a. PICK i \in Here(f) : Stored(f, i).n = recorded BY <3>6
      <3>7. CASE Stored(f, i).signed BY <3>a, <3>7, <1>3
      <3>8. CASE ~Stored(f, i).signed
        <4>1. Len(files[f].lines) = 1 /\ recorded = 1 /\ i \in DOMAIN files[f].lines
          BY <3>a, <3>8, <1>1 DEF WellFormed, Here, Stored
        <4>2. Stored(h, m).n = 1 BY <4>1, <3>4
        <4>3. QED BY <4>1, <4>2, <3>2, <3>3, <3>4, <1>3
      <3>9. QED BY <3>7, <3>8
    <2>3. QED BY <2>1, <2>2
  <1>5. QED BY <1>3, <1>4

LEMMA StepsFacts ==
  ASSUME NEW left \in 0..(MaxArchived + 1)
  PROVE  /\ StepsFrom(left) \in Seq(Number) /\ Len(StepsFrom(left)) = left
         /\ left = 0 => StepsFrom(left) = <<>>
         /\ left > 0 => /\ StepsFrom(left) # <<>> /\ Head(StepsFrom(left)) = left - 1
                        /\ Tail(StepsFrom(left)) = StepsFrom(left - 1) /\ left - 1 \in Number
  <1>1. left \in Nat /\ MaxArchived \in Nat BY AuditAssumption
  <1>2. \A i \in 1..left : left - i \in Number BY <1>1, AuditAssumption DEF Number
  <1>3. StepsFrom(left) \in Seq(Number) /\ Len(StepsFrom(left)) = left
    BY <1>1, <1>2 DEF StepsFrom
  <1>4. ASSUME left = 0 PROVE StepsFrom(left) = <<>> BY <1>3, <1>4
  <1>5. ASSUME left > 0
        PROVE  /\ StepsFrom(left) # <<>> /\ Head(StepsFrom(left)) = left - 1
               /\ Tail(StepsFrom(left)) = StepsFrom(left - 1) /\ left - 1 \in Number
    <2>1. StepsFrom(left) # <<>> /\ StepsFrom(left)[1] = left - 1 BY <1>1, <1>3, <1>5 DEF StepsFrom
    <2>2. /\ Tail(StepsFrom(left)) \in Seq(Number) /\ Len(Tail(StepsFrom(left))) = left - 1
          /\ \A i \in 1..(left - 1) : Tail(StepsFrom(left))[i] = StepsFrom(left)[i + 1]
      BY <2>1, <1>1, <1>3
    <2>3. \A i \in 1..(left - 1) : StepsFrom(left)[i + 1] = (left - 1) - i BY <1>1 DEF StepsFrom
    <2>4. Tail(StepsFrom(left)) = StepsFrom(left - 1)
      <3>1. Tail(StepsFrom(left)) = [i \in 1..(left - 1) |-> Tail(StepsFrom(left))[i]]
        <4>1. \A s \in Seq(Number) : s = [i \in 1..Len(s) |-> s[i]] OBVIOUS
        <4>2. QED BY <4>1, <2>2
      <3>2. QED BY <3>1, <2>2, <2>3 DEF StepsFrom
    <2>5. QED BY <2>1, <2>4, <1>1, <1>3, <1>5, AuditAssumption DEF Number
  <1>6. QED BY <1>3, <1>4, <1>5

\* What every action may use of the invariant.
LEMMA AuditFacts ==
  ASSUME AuditInv
  PROVE  /\ \A f \in Number : /\ files[f] \in AuditFile /\ files[f].lines \in Seq(EntryRecord)
                              /\ Here(f) = 1..Len(files[f].lines) /\ Len(files[f].lines) \in Nat
                              /\ \A i \in Here(f) : Stored(f, i) \in EntryRecord /\ Stored(f, i).n \in Nat \ {0}
         /\ recorded \in Nat /\ 0 \in Number /\ \A f \in Number : f \in Nat
  <1>1. \A s \in Seq(EntryRecord) :
            /\ DOMAIN s = 1..Len(s) /\ Len(s) \in Nat
            /\ \A i \in DOMAIN s : s[i] \in EntryRecord /\ s[i].n \in Nat \ {0}
    <2>1. \A e \in EntryRecord : e.n \in Nat \ {0} BY DEF EntryRecord
    <2>2. QED BY <2>1
  <1>2. \A f \in Number : files[f] \in AuditFile BY DEF AuditInv, AuditTypeOK
  <1>3. \A f \in Number : files[f].lines \in Seq(EntryRecord) BY <1>2 DEF AuditFile
  <1>4. recorded \in Nat BY DEF AuditInv, AuditTypeOK
  <1>5. 0 \in Number /\ \A f \in Number : f \in Nat BY AuditAssumption DEF Number
  <1>6. ASSUME NEW f \in Number
        PROVE  /\ Here(f) = 1..Len(files[f].lines) /\ Len(files[f].lines) \in Nat
               /\ \A i \in Here(f) : Stored(f, i) \in EntryRecord /\ Stored(f, i).n \in Nat \ {0}
    BY <1>1, <1>3 DEF Here, Stored
  <1>7. QED BY <1>2, <1>3, <1>4, <1>5, <1>6

\* An unsigned entry in the active file is the only one there is.
LEMMA LegacyIsTheLast ==
  ASSUME AuditInv, Parses(files[0]), HasLegacyEvents
  PROVE  \A f \in Number : \A i \in Here(f) : ~(Stored(f, i).signed /\ Stored(f, i).n = recorded)
  <1>1. PICK u \in Here(0) : ~Stored(0, u).signed BY DEF HasLegacyEvents, Here, Stored
  <1>2. 0 \in Number /\ recorded \in Nat BY AuditFacts
  <1>3. Len(files[0].lines) = 1 /\ Stored(0, u).n = 1
    BY <1>1, <1>2 DEF AuditInv, FilesWellFormed, WellFormed, Here, Stored
  <1>4. Here(0) = {1} /\ u = 1 BY <1>1, <1>2, <1>3, AuditFacts
  <1>5. ASSUME NEW g \in Number, NEW j \in Here(g) PROVE Stored(g, j).n = 1 => g = 0 /\ j = 1
    <2>1. g > 0 => Stored(g, j).n < Stored(0, 1).n
      BY <1>1, <1>2, <1>4 DEF AuditInv, InOrder, Earlier
    <2>2. g \in Nat /\ Stored(g, j).n \in Nat BY AuditFacts
    <2>3. QED BY <2>1, <2>2, <1>3, <1>4
  <1>6. recorded = 1
    <2>1. 1 <= recorded BY <1>1, <1>2, <1>3 DEF AuditInv, Chained
    <2>2. SUFFICES ASSUME recorded > 1 PROVE FALSE BY <2>1, <1>2
    <2>3. 2 \in Stored(0, u).n..recorded BY <2>2, <1>2, <1>3
    <2>4. PICK g \in Number : \E j \in Here(g) : Stored(g, j).n = 2
      BY <2>3, <1>1, <1>2 DEF AuditInv, NoneMissing
    <2>5. PICK j \in Here(g) : Stored(g, j).n = 2 BY <2>4
    <2>6. g > 0 => Stored(g, j).n < Stored(0, 1).n
      BY <1>1, <1>2, <1>4 DEF AuditInv, InOrder, Earlier
    <2>7. g = 0 BY <2>5, <2>6, <1>3, <1>4, AuditFacts
    <2>8. QED BY <2>5, <2>7, <1>3, <1>4
  <1>7. QED BY <1>1, <1>4, <1>5, <1>6

LEMMA BeginAppendKeeps == AuditInv /\ BeginAppend => AuditInv'
  <1> SUFFICES ASSUME AuditInv, BeginAppend PROVE AuditInv' OBVIOUS
  <1> DEFINE steps == IF HasLegacyEvents \/ IsFull THEN RotateAuditFiles ELSE <<>>
  <1>1. /\ files' = files /\ recorded' = recorded /\ cuts' = cuts /\ reader' = reader
        /\ appender = Idle /\ Parses(files[0])
        /\ appender' = [at |-> "rotating", entry |-> recorded + 1, prev |-> PreviousHash, steps |-> steps]
    BY DEF BeginAppend
  <1>2. recorded \in Nat /\ 0 \in Number BY AuditFacts
  <1>3. PICK left \in 0..(MaxArchived + 1) :
            /\ steps = StepsFrom(left) /\ (left = 0 \/ left = MaxArchived + 1)
            /\ left = 0 => ~HasLegacyEvents
    <2>1. CASE HasLegacyEvents \/ IsFull
      <3>1. RotateAuditFiles = StepsFrom(MaxArchived + 1) BY AuditAssumption DEF StepsFrom, RotateAuditFiles
      <3>2. steps = StepsFrom(MaxArchived + 1) BY <2>1, <3>1
      <3>3. MaxArchived + 1 \in 0..(MaxArchived + 1) /\ MaxArchived + 1 # 0 BY AuditAssumption
      <3> HIDE DEF steps
      <3>4. QED BY <3>2, <3>3
    <2>2. CASE ~(HasLegacyEvents \/ IsFull)
      <3>1. 0 \in 0..(MaxArchived + 1) BY AuditAssumption
      <3>2. steps = StepsFrom(0) BY <2>2, <3>1, StepsFacts
      <3>3. QED BY <2>2, <3>1, <3>2
    <2>3. QED BY <2>1, <2>2
  <1> HIDE DEF steps
  <1>4. steps \in Seq(Number) BY <1>3, StepsFacts
  <1>5. /\ PreviousHash \in {Undefined, recorded}
        /\ \A f \in Number : \A i \in Here(f) :
               Stored(f, i).signed /\ Stored(f, i).n = recorded => PreviousHash = recorded
    <2>1. CASE HasLegacyEvents BY <2>1, <1>1, LegacyIsTheLast DEF PreviousHash
    <2>2. CASE ~HasLegacyEvents BY <2>2, <1>1, HashOfTheLast DEF PreviousHash
    <2>3. QED BY <2>1, <2>2
  <1>6. /\ appender'.at = "rotating" /\ appender'.entry = recorded + 1
        /\ appender'.prev = PreviousHash /\ appender'.steps = steps
        /\ appender' \in [at : {"idle", "rotating"}, entry : Nat, prev : Nat, steps : Seq(Number)]
    BY <1>1, <1>2, <1>4, <1>5 DEF Undefined
  <1>7. AuditTypeOK' BY <1>1, <1>6 DEF AuditInv, AuditTypeOK
  <1>8. FilesWellFormed' BY <1>1 DEF AuditInv, FilesWellFormed
  <1>9. (InOrder /\ Chained /\ NoneMissing /\ Reading /\ BeforeReading)'
    BY <1>1 DEF AuditInv, InOrder, Chained, NoneMissing, Reading, BeforeReading, Here, Stored, NextSigned
  <1>10. Appending'
    BY <1>1, <1>3, <1>5, <1>6, AuditAssumption DEF Appending, Here, Stored, HasLegacyEvents
  <1>11. QED BY <1>6, <1>7, <1>8, <1>9, <1>10 DEF AuditInv, IdleOrRotating

\* Moving whole files without changing their order keeps the entries in order.
LEMMA MovedFiles ==
  ASSUME AuditInv, NEW from \in [Number -> Number], recorded' = recorded,
         \A f \in Number : files'[f].lines # <<>> => files'[f].lines = files[from[f]].lines,
         \A f, g \in Number : /\ files'[f].lines # <<>> /\ files'[g].lines # <<>> /\ f > g
                              => from[f] > from[g]
  PROVE  /\ InOrder' /\ Chained' /\ \A f \in Number : WellFormed(files'[f].lines)
         /\ \A f \in Number : \A i \in Here(f)' : i \in Here(from[f]) /\ Stored(f, i)' = Stored(from[f], i)
  <1>1. ASSUME NEW f \in Number, NEW i \in Here(f)'
        PROVE  /\ files'[f].lines # <<>> /\ i \in Here(from[f])
               /\ Stored(f, i)' = Stored(from[f], i) /\ from[f] \in Number
    BY DEF Here, Stored
  <1>2. InOrder'
    <2>1. SUFFICES ASSUME NEW f \in Number, NEW g \in Number, NEW i \in Here(f)', NEW j \in Here(g)',
                          Earlier(f, i, g, j)
                   PROVE  Stored(f, i)'.n < Stored(g, j)'.n
      BY DEF InOrder, Earlier
    <2>2. Earlier(from[f], i, from[g], j) BY <2>1, <1>1 DEF Earlier
    <2>3. QED BY <2>2, <1>1 DEF AuditInv, InOrder
  <1>3. Chained' BY <1>1 DEF AuditInv, Chained
  <1>4. ASSUME NEW f \in Number PROVE WellFormed(files'[f].lines)
    <2>1. CASE files'[f].lines = <<>> BY <2>1 DEF WellFormed
    <2>2. CASE files'[f].lines # <<>> BY <2>2 DEF AuditInv, FilesWellFormed
    <2>3. QED BY <2>1, <2>2
  <1>5. QED BY <1>1, <1>2, <1>3, <1>4

LEMMA RotateStepKeeps == AuditInv /\ RotateStep => AuditInv'
  <1> SUFFICES ASSUME AuditInv, RotateStep PROVE AuditInv' OBVIOUS
  <1>1. /\ appender.at = "rotating" /\ appender.steps # <<>> /\ files' = Renamed(Head(appender.steps))
        /\ appender' = [appender EXCEPT !.steps = Tail(@)]
        /\ recorded' = recorded /\ cuts' = cuts /\ reader' = reader
    BY DEF RotateStep
  <1>2. /\ AuditTypeOK /\ FilesWellFormed /\ InOrder /\ Chained /\ NoneMissing /\ Appending
    BY DEF AuditInv
  <1>3. PICK left \in 0..(MaxArchived + 1) :
           /\ appender.steps = StepsFrom(left)
           /\ 0 < left /\ left <= MaxArchived => ~files[left].there
    BY <1>1, <1>2 DEF Appending
  <1> DEFINE h == left - 1
  <1>4. left > 0 /\ h \in Number /\ Head(appender.steps) = h /\ Tail(appender.steps) = StepsFrom(h)
    BY <1>1, <1>3, StepsFacts
  <1>5. /\ MaxArchived \in Number /\ 0 \in Number /\ h \in Nat /\ h <= MaxArchived /\ left = h + 1
        /\ MaxArchived \in Nat /\ h \in 0..(MaxArchived + 1)
    BY <1>4, AuditAssumption DEF Number
  <1> HIDE DEF h
  <1>6. files \in [Number -> AuditFile] /\ Absent \in AuditFile /\ Absent.lines = <<>> /\ ~Absent.there
        /\ Absent.ending = "ended" /\ Parses(Absent)
    BY <1>2 DEF AuditTypeOK, Absent, AuditFile, Parses
  <1>7. StepsFrom(h) \in Seq(Number) BY <1>5, StepsFacts
  <1>8. /\ appender'.at = "rotating" /\ appender'.entry = appender.entry /\ appender'.prev = appender.prev
        /\ appender'.steps = StepsFrom(h)
        /\ appender' \in [at : {"idle", "rotating"}, entry : Nat, prev : Nat, steps : Seq(Number)]
    BY <1>1, <1>2, <1>4, <1>7 DEF AuditTypeOK
  <1>9. \A f \in Number : ~files[f].there => files[f].lines = <<>> /\ files[f].ending = "ended"
    BY <1>2 DEF FilesWellFormed
  <1>10. \A f \in Number : Parses(files[f]) BY <1>1, <1>2 DEF FilesWellFormed, Appending, Idle
  \* What is left to show for each of the three ways in which a file is moved.
  <1>11. ASSUME files' \in [Number -> AuditFile], NEW from \in [Number -> Number],
                \A f \in Number : files'[f] = Absent \/ files'[f] = files[from[f]],
                \A f, g \in Number : /\ files'[f].lines # <<>> /\ files'[g].lines # <<>> /\ f > g
                                     => from[f] > from[g],
                \A g \in Number : \A j \in Here(g) :
                    \/ g = MaxArchived /\ \A f \in Number : files'[f].lines # <<>> => from[f] # MaxArchived
                    \/ \E f \in Number : from[f] = g /\ j \in Here(f)' /\ Stored(f, j)' = Stored(g, j),
                ~files'[h].there
         PROVE  AuditInv'
    <2>1. \A f \in Number : files'[f].lines # <<>> => files'[f].lines = files[from[f]].lines
      BY <1>6, <1>11
    <2>2. /\ InOrder' /\ Chained' /\ \A f \in Number : WellFormed(files'[f].lines)
          /\ \A f \in Number : \A i \in Here(f)' : i \in Here(from[f]) /\ Stored(f, i)' = Stored(from[f], i)
      BY <2>1, <1>1, <1>11, MovedFiles
    <2>3. AuditTypeOK' BY <1>1, <1>2, <1>8, <1>11 DEF AuditTypeOK
    <2>4. \A f \in Number : Parses(files'[f]) BY <1>6, <1>10, <1>11
    <2>5. \A f \in Number : ~files'[f].there => files'[f].lines = <<>> /\ files'[f].ending = "ended"
      <3>1. SUFFICES ASSUME NEW f \in Number, ~files'[f].there
                     PROVE  files'[f].lines = <<>> /\ files'[f].ending = "ended"
        OBVIOUS
      <3>2. CASE files'[f] = Absent BY <3>2, <1>6
      <3>3. CASE files'[f] = files[from[f]] /\ from[f] \in Number BY <3>1, <3>3, <1>9
      <3>4. QED BY <3>2, <3>3, <1>11
    <2>6. FilesWellFormed' BY <2>2, <2>4, <2>5 DEF FilesWellFormed
    <2>7. NoneMissing'
      <3>1. SUFFICES ASSUME NEW f \in Number, NEW i \in Here(f)', NEW number \in Stored(f, i)'.n..recorded
                     PROVE  \E g \in Number : \E j \in Here(g)' : Stored(g, j)'.n = number
        BY <1>1 DEF NoneMissing
      <3>2. from[f] \in Number /\ i \in Here(from[f]) /\ Stored(f, i)' = Stored(from[f], i)
        BY <2>2
      <3>3. \A m \in Stored(from[f], i).n..recorded :
                \E g \in Number : \E j \in Here(g) : Stored(g, j).n = m
        BY <3>2, <1>1, <1>2 DEF NoneMissing, Appending
      <3>4. PICK g \in Number : \E j \in Here(g) : Stored(g, j).n = number BY <3>1, <3>2, <3>3
      <3>5. PICK j \in Here(g) : Stored(g, j).n = number BY <3>4
      <3>6. CASE g = MaxArchived /\ \A k \in Number : files'[k].lines # <<>> => from[k] # MaxArchived
        <4>1. files'[f].lines # <<>> BY <3>1 DEF Here
        <4>2. from[f] # MaxArchived BY <4>1, <3>6
        <4>3. g > from[f] BY <4>2, <3>2, <3>6, <1>5 DEF Number
        <4>4. Stored(g, j).n < Stored(from[f], i).n BY <4>3, <3>2, <1>2 DEF InOrder, Earlier
        <4>5. Stored(g, j).n \in Nat /\ Stored(from[f], i).n \in Nat BY <3>2, AuditFacts
        <4>6. QED BY <4>4, <4>5, <3>1, <3>2, <3>5, AuditFacts
      <3>7. CASE \E k \in Number : from[k] = g /\ j \in Here(k)' /\ Stored(k, j)' = Stored(g, j)
        BY <3>5, <3>7
      <3>8. QED BY <3>6, <3>7, <1>11
    <2>8. Appending'
      <3>1. \A f \in Number : \A i \in Here(f)' :
                Stored(f, i)'.signed /\ Stored(f, i)'.n = recorded => appender.prev = recorded
        BY <2>2, <1>1, <1>2 DEF Appending
      <3>2. 0 < h => ~files'[h].there BY <1>11
      <3>3. h = 0 => ~HasLegacyEvents'
        <4>1. SUFFICES ASSUME h = 0 PROVE ~HasLegacyEvents' OBVIOUS
        <4>2. files'[0].lines = <<>> BY <4>1, <2>5, <1>5, <1>11
        <4>3. QED BY <4>2 DEF HasLegacyEvents
      <3>4. appender.entry = recorded + 1 /\ (appender.prev = Undefined \/ appender.prev = recorded)
        BY <1>1, <1>2 DEF Appending
      <3>5. Parses(files'[0]) BY <2>4, <1>5
      <3>6. QED BY <3>1, <3>2, <3>3, <3>4, <3>5, <1>1, <1>5, <1>8 DEF Appending
    <2>9. (Reading /\ BeforeReading)' BY <1>1 DEF AuditInv, Reading, BeforeReading, NextSigned
    <2>10. QED BY <2>2, <2>3, <2>6, <2>7, <2>8, <2>9, <1>8 DEF AuditInv, IdleOrRotating
  <1>12. CASE h = MaxArchived
    <2> DEFINE from == [f \in Number |-> f]
    <2>1. files' = [files EXCEPT ![MaxArchived] = Absent] BY <1>1, <1>4, <1>12 DEF Renamed
    <2>2. files' \in [Number -> AuditFile] /\ from \in [Number -> Number] BY <2>1, <1>6
    <2>3. \A f \in Number : files'[f] = Absent \/ files'[f] = files[from[f]] BY <2>1, <1>6
    <2>4. files'[MaxArchived] = Absent /\ \A f \in Number : f # MaxArchived => files'[f] = files[f]
      BY <2>1, <1>5, <1>6
    <2>5. \A g \in Number : \A j \in Here(g) :
              \/ g = MaxArchived /\ \A f \in Number : files'[f].lines # <<>> => from[f] # MaxArchived
              \/ \E f \in Number : from[f] = g /\ j \in Here(f)' /\ Stored(f, j)' = Stored(g, j)
      BY <2>4, <1>6 DEF Here, Stored
    <2>6. ~files'[h].there BY <2>4, <1>6, <1>12
    <2>7. \A f, g \in Number : /\ files'[f].lines # <<>> /\ files'[g].lines # <<>> /\ f > g
                               => from[f] > from[g]
      OBVIOUS
    <2> HIDE DEF from
    <2>8. QED BY <2>2, <2>3, <2>5, <2>6, <2>7, <1>11
  <1>13. CASE h # MaxArchived /\ files[h].there
    <2> DEFINE from == [f \in Number |-> IF f = h + 1 THEN h ELSE f]
    <2>1. files' = [files EXCEPT ![h + 1] = files[h], ![h] = Absent] BY <1>1, <1>4, <1>13 DEF Renamed
    <2>2. h + 1 \in Number /\ h + 1 # h /\ h \in Number BY <1>4, <1>5, <1>13 DEF Number
    <2>3. /\ files'[h + 1] = files[h] /\ files'[h] = Absent
          /\ \A f \in Number : f # h /\ f # h + 1 => files'[f] = files[f]
          /\ files' \in [Number -> AuditFile]
      BY <2>1, <2>2, <1>6
    <2>4. /\ from \in [Number -> Number] /\ from[h + 1] = h
          /\ \A f \in Number : f # h + 1 => from[f] = f
      BY <2>2
    <2> HIDE DEF from
    <2>5. \A f \in Number : files'[f] = Absent \/ files'[f] = files[from[f]] BY <2>2, <2>3, <2>4
    <2>6. \A f, g \in Number : /\ files'[f].lines # <<>> /\ files'[g].lines # <<>> /\ f > g
                               => from[f] > from[g]
      <3>1. SUFFICES ASSUME NEW f \in Number, NEW g \in Number, files'[f].lines # <<>>,
                            files'[g].lines # <<>>, f > g
                     PROVE  from[f] > from[g]
        OBVIOUS
      <3>2. f # h /\ g # h BY <3>1, <2>3, <1>6
      <3>3. f \in Nat /\ g \in Nat BY DEF Number
      <3>4. CASE f = h + 1 BY <3>1, <3>2, <3>3, <3>4, <2>4, <1>5
      <3>5. CASE f # h + 1 BY <3>1, <3>2, <3>3, <3>5, <2>4, <1>5
      <3>6. QED BY <3>4, <3>5
    <2>7. files[h + 1].lines = <<>> BY <2>2, <1>3, <1>5, <1>9, <1>13
    <2>8. \A g \in Number : \A j \in Here(g) :
              \E f \in Number : from[f] = g /\ j \in Here(f)' /\ Stored(f, j)' = Stored(g, j)
      <3>1. SUFFICES ASSUME NEW g \in Number, NEW j \in Here(g)
                     PROVE  \E f \in Number : from[f] = g /\ j \in Here(f)' /\ Stored(f, j)' = Stored(g, j)
        OBVIOUS
      <3>2. g # h + 1 BY <3>1, <2>7 DEF Here
      <3>3. CASE g = h BY <3>1, <3>3, <2>2, <2>3, <2>4 DEF Here, Stored
      <3>4. CASE g # h BY <3>1, <3>2, <3>4, <2>3, <2>4 DEF Here, Stored
      <3>5. QED BY <3>3, <3>4
    <2>9. ~files'[h].there BY <2>3, <1>6
    <2>10. QED BY <2>3, <2>4, <2>5, <2>6, <2>8, <2>9, <1>11
  <1>14. CASE h # MaxArchived /\ ~files[h].there
    <2> DEFINE from == [f \in Number |-> f]
    <2>1. files' = files BY <1>1, <1>4, <1>14 DEF Renamed
    <2>2. from \in [Number -> Number] /\ \A f \in Number : from[f] = f OBVIOUS
    <2> HIDE DEF from
    <2>3. \A g \in Number : \A j \in Here(g) :
              \E f \in Number : from[f] = g /\ j \in Here(f)' /\ Stored(f, j)' = Stored(g, j)
      BY <2>1, <2>2 DEF Here, Stored
    <2>4. QED BY <2>1, <2>2, <2>3, <1>6, <1>11, <1>14
  <1>15. QED BY <1>12, <1>13, <1>14

LEMMA FrontFacts ==
  ASSUME NEW s \in Seq(EntryRecord)
  PROVE  Front(s) \in Seq(EntryRecord) /\ \A i \in DOMAIN Front(s) : i \in DOMAIN s /\ Front(s)[i] = s[i]
  <1>1. CASE s = <<>>
    <2>1. Front(s) = <<>> BY <1>1 DEF Front
    <2>2. QED BY <2>1
  <1>2. CASE s # <<>>
    <2>1. Len(s) \in Nat \ {0} BY <1>2
    <2>2. Front(s) = [i \in 1..(Len(s) - 1) |-> s[i]] BY <2>1 DEF Front
    <2>3. QED BY <2>1, <2>2
  <1>3. QED BY <1>1, <1>2

LEMMA AppendKeeps ==
  ASSUME AuditInv, appender.at = "rotating", appender.steps = <<>>, appender' = Idle, reader' = reader,
         cuts' \in Nat, NEW ending \in {"ended", "torn", "unended"}, Append_(ending),
         recorded' \in {recorded, recorded + 1},
         (files[0].ending = "ended" /\ ending # "torn") => recorded' = recorded + 1
  PROVE  AuditInv'
  <1> DEFINE old == files[0].lines
             e == Entry(appender)
             whole == files[0].ending = "ended" /\ ending # "torn"
             lines == IF whole THEN Append(old, e) ELSE IF files[0].ending = "ended" THEN old ELSE Front(old)
             after == IF whole THEN ending ELSE "torn"
  <1>1. /\ AuditTypeOK /\ FilesWellFormed /\ InOrder /\ Chained /\ NoneMissing /\ Appending
    BY DEF AuditInv
  <1>2. /\ files \in [Number -> AuditFile] /\ 0 \in Number /\ recorded \in Nat
        /\ old \in Seq(EntryRecord)
    BY <1>1, AuditFacts DEF AuditTypeOK
  <1>3. files' = [files EXCEPT ![0] = FileOf(lines, after)]
    BY DEF Append_
  <1>4. /\ Parses(files[0]) /\ appender.entry = recorded + 1
        /\ (appender.prev = Undefined \/ appender.prev = recorded)
        /\ \A f \in Number : \A i \in Here(f) :
               Stored(f, i).signed /\ Stored(f, i).n = recorded => appender.prev = recorded
    BY <1>1 DEF Appending
  <1>5. ~HasLegacyEvents
    <2>1. PICK left \in 0..(MaxArchived + 1) :
              appender.steps = StepsFrom(left) /\ (left = 0 => ~HasLegacyEvents)
      BY <1>1 DEF Appending
    <2>2. left = 0 BY <2>1, StepsFacts
    <2>3. QED BY <2>1, <2>2
  <1>6. \A i \in Here(0) : Stored(0, i).signed BY <1>5 DEF HasLegacyEvents, Here, Stored
  <1>7. /\ e \in EntryRecord /\ e.n = recorded + 1 /\ e.signed
        /\ (e.prev = Undefined \/ e.prev = recorded) /\ e.prev = appender.prev
    BY <1>1, <1>2, <1>4 DEF Entry, EntryRecord, AuditTypeOK
  <1> HIDE DEF e
  <1>8. /\ lines \in Seq(EntryRecord)
        /\ \A i \in DOMAIN lines : \/ i \in Here(0) /\ lines[i] = Stored(0, i)
                                   \/ i = Len(old) + 1 /\ lines[i] = e /\ whole
        /\ whole => /\ \A i \in Here(0) : i \in DOMAIN lines /\ lines[i] = Stored(0, i)
                    /\ Len(old) + 1 \in DOMAIN lines /\ lines[Len(old) + 1] = e
    <2>1. CASE whole
      <3>1. lines = Append(old, e) BY <2>1
      <3>2. /\ lines \in Seq(EntryRecord) /\ DOMAIN lines = 1..(Len(old) + 1) /\ Len(old) \in Nat
            /\ \A i \in 1..Len(old) : lines[i] = old[i]
            /\ lines[Len(old) + 1] = e /\ DOMAIN old = 1..Len(old)
        <4>1. \A s \in Seq(EntryRecord) : \A x \in EntryRecord :
                  /\ Append(s, x) \in Seq(EntryRecord) /\ Len(Append(s, x)) = Len(s) + 1
                  /\ Len(s) \in Nat /\ DOMAIN s = 1..Len(s)
                  /\ \A i \in 1..Len(s) : Append(s, x)[i] = s[i]
                  /\ Append(s, x)[Len(s) + 1] = x
          OBVIOUS
        <4>2. \A s \in Seq(EntryRecord) : DOMAIN s = 1..Len(s) OBVIOUS
        <4> HIDE DEF lines, old
        <4>3. lines \in Seq(EntryRecord) /\ Len(lines) = Len(old) + 1 BY <4>1, <3>1, <1>2, <1>7
        <4>4. DOMAIN lines = 1..(Len(old) + 1) BY <4>2, <4>3
        <4>5. QED BY <4>1, <4>3, <4>4, <3>1, <1>2, <1>7
      <3> HIDE DEF lines, whole
      <3>3. QED BY <3>2, <2>1 DEF Here, Stored
    <2>2. CASE ~whole /\ files[0].ending = "ended"
      <3>1. lines = old BY <2>2
      <3>2. QED BY <3>1, <2>2, <1>2 DEF Here, Stored
    <2>3. CASE ~whole /\ files[0].ending # "ended"
      <3>1. lines = Front(old) BY <2>3
      <3> HIDE DEF lines
      <3>2. QED BY <3>1, <2>3, <1>2, FrontFacts DEF Here, Stored
    <2>4. QED BY <2>1, <2>2, <2>3
  <1>9. after \in {"ended", "torn", "unended"} /\ (after # "torn" => whole) OBVIOUS
  <1>a. whole => recorded' = recorded + 1 OBVIOUS
  <1> HIDE DEF lines, after, whole
  <1>10. /\ files' \in [Number -> AuditFile] /\ files'[0].lines = lines /\ files'[0].there
         /\ files'[0].ending = after /\ \A f \in Number : f # 0 => files'[f] = files[f]
    <2>1. FileOf(lines, after) \in AuditFile BY <1>8, <1>9 DEF FileOf, AuditFile
    <2>2. files'[0] = FileOf(lines, after) BY <1>2, <1>3
    <2>3. QED BY <2>1, <2>2, <1>2, <1>3 DEF FileOf
  <1>11. Idle \in [at : {"idle", "rotating"}, entry : Nat, prev : Nat, steps : Seq(Number)]
         /\ Idle.at = "idle"
    BY DEF Idle, Undefined
  <1>12. AuditTypeOK' BY <1>1, <1>2, <1>10, <1>11 DEF AuditTypeOK
  \* Every entry stored now was stored before, or is the new one.
  <1>13. \A f \in Number : \A i \in Here(f)' :
            \/ i \in Here(f) /\ Stored(f, i)' = Stored(f, i)
            \/ f = 0 /\ i = Len(old) + 1 /\ Stored(f, i)' = e /\ whole
    <2>1. SUFFICES ASSUME NEW f \in Number, NEW i \in Here(f)'
                   PROVE  \/ i \in Here(f) /\ Stored(f, i)' = Stored(f, i)
                          \/ f = 0 /\ i = Len(old) + 1 /\ Stored(f, i)' = e /\ whole
      OBVIOUS
    <2>2. CASE f = 0 BY <2>1, <2>2, <1>8, <1>10 DEF Here, Stored
    <2>3. CASE f # 0 BY <2>1, <2>3, <1>10 DEF Here, Stored
    <2>4. QED BY <2>2, <2>3
  <1>14. \A f \in Number : \A i \in Here(f) :
            f \in Nat /\ i \in 1..Len(files[f].lines) /\ Len(files[f].lines) \in Nat
            /\ Stored(f, i).n \in Nat /\ Stored(f, i).n <= recorded
    BY <1>1, AuditFacts DEF Chained
  <1>15. InOrder'
    <2>1. SUFFICES ASSUME NEW f \in Number, NEW g \in Number, NEW i \in Here(f)', NEW j \in Here(g)',
                          Earlier(f, i, g, j)
                   PROVE  Stored(f, i)'.n < Stored(g, j)'.n
      BY DEF InOrder, Earlier
    <2>2. CASE i \in Here(f) /\ Stored(f, i)' = Stored(f, i)
      <3>1. CASE j \in Here(g) /\ Stored(g, j)' = Stored(g, j)
        BY <2>1, <2>2, <3>1, <1>1 DEF InOrder
      <3>2. CASE Stored(g, j)' = e BY <2>2, <3>2, <1>2, <1>7, <1>14
      <3>3. QED BY <3>1, <3>2, <1>13
    <2>3. CASE f = 0 /\ i = Len(old) + 1 /\ Stored(f, i)' = e
      <3>1. g = 0 /\ i < j BY <2>1, <2>3, AuditFacts DEF Earlier
      <3>2. j \in Here(0) => j <= Len(old) BY <1>14, <1>2
      <3>3. FALSE BY <2>3, <3>1, <3>2, <1>2, <1>13, <1>14, AuditFacts
      <3>4. QED BY <3>3
    <2>4. QED BY <2>2, <2>3, <1>13
  <1>16. Chained'
    <2>1. SUFFICES ASSUME NEW f \in Number, NEW g \in Number, NEW i \in Here(f)', NEW j \in Here(g)'
                   PROVE  /\ Stored(f, i)'.signed /\ Stored(g, j)'.signed
                             /\ Stored(g, j)'.n = Stored(f, i)'.n + 1
                                 => Stored(g, j)'.prev = Stored(f, i)'.n
                          /\ Stored(f, i)'.n <= recorded'
      BY DEF Chained
    <2>2. Stored(f, i)'.n <= recorded' BY <1>2, <1>7, <1>13, <1>14, <1>a
    <2>3. ASSUME Stored(f, i)'.signed, Stored(g, j)'.signed, Stored(g, j)'.n = Stored(f, i)'.n + 1
          PROVE  Stored(g, j)'.prev = Stored(f, i)'.n
      <3>1. CASE Stored(g, j)' = e
        <4>1. Stored(f, i)'.n = recorded
          <5>1. Stored(f, i)'.n \in Nat BY <1>2, <1>7, <1>13, <1>14
          <5>2. QED BY <5>1, <3>1, <2>3, <1>2, <1>7
        <4>2. i \in Here(f) /\ Stored(f, i)' = Stored(f, i) BY <4>1, <1>2, <1>7, <1>13
        <4>3. QED BY <4>1, <4>2, <3>1, <2>3, <1>4, <1>7
      <3>2. CASE j \in Here(g) /\ Stored(g, j)' = Stored(g, j)
        <4>1. Stored(f, i)'.n # recorded + 1 BY <3>2, <2>3, <1>2, <1>14
        <4>2. i \in Here(f) /\ Stored(f, i)' = Stored(f, i) BY <4>1, <1>7, <1>13
        <4>3. QED BY <4>2, <3>2, <2>3, <1>1 DEF Chained
      <3>3. QED BY <3>1, <3>2, <1>13
    <2>4. QED BY <2>2, <2>3
  <1>17. FilesWellFormed'
    <2>1. WellFormed(lines)
      <3>1. SUFFICES ASSUME NEW i \in DOMAIN lines
                     PROVE  lines[i].signed /\ (lines[i].prev = Undefined \/ lines[i].prev + 1 = lines[i].n)
        BY DEF WellFormed
      <3>2. CASE i \in Here(0) /\ lines[i] = Stored(0, i)
        BY <3>2, <1>1, <1>2, <1>6 DEF FilesWellFormed, WellFormed, Here, Stored
      <3>3. CASE lines[i] = e BY <3>3, <1>2, <1>7
      <3>4. QED BY <3>2, <3>3, <1>8
    <2>2. ASSUME NEW f \in Number
          PROVE  /\ WellFormed(files'[f].lines)
                 /\ ~files'[f].there => files'[f].lines = <<>> /\ files'[f].ending = "ended"
                 /\ ~Parses(files'[f]) => f = 0
      <3>1. CASE f = 0 BY <3>1, <2>1, <1>10
      <3>2. CASE f # 0 BY <3>2, <1>1, <1>10 DEF FilesWellFormed
      <3>3. QED BY <3>1, <3>2
    <2>3. QED BY <2>2 DEF FilesWellFormed
  <1>18. NoneMissing'
    <2>1. SUFFICES ASSUME whole, NEW f \in Number, NEW i \in Here(f)',
                          NEW number \in Stored(f, i)'.n..recorded'
                   PROVE  \E g \in Number : \E j \in Here(g)' : Stored(g, j)'.n = number
      BY <1>9, <1>10 DEF NoneMissing, Parses
    <2>2. \A g \in Number : \A j \in Here(g) : j \in Here(g)' /\ Stored(g, j)' = Stored(g, j)
      <3>1. \A j \in Here(0) : j \in Here(0)' /\ Stored(0, j)' = Stored(0, j)
        <4>1. Here(0)' = DOMAIN lines /\ \A j : Stored(0, j)' = lines[j] BY <1>10 DEF Here, Stored
        <4>2. QED BY <4>1, <2>1, <1>8
      <3>2. \A g \in Number : g # 0 => \A j \in Here(g) : j \in Here(g)' /\ Stored(g, j)' = Stored(g, j)
        BY <1>10 DEF Here, Stored
      <3>3. QED BY <3>1, <3>2
    <2>3. CASE number = recorded + 1
      <3>1. PICK j \in DOMAIN lines : lines[j] = e BY <2>1, <1>8
      <3>2. j \in Here(0)' /\ Stored(0, j)' = e BY <3>1, <1>10 DEF Here, Stored
      <3>3. QED BY <3>2, <2>3, <1>2, <1>7
    <2>4. CASE number # recorded + 1
      <3>1. Stored(f, i)'.n \in Nat BY <1>2, <1>7, <1>13, <1>14
      <3>2. number \in Nat /\ number <= recorded /\ Stored(f, i)'.n <= number
        BY <3>1, <2>1, <2>4, <1>2, <1>a
      <3>3. i \in Here(f) /\ Stored(f, i)' = Stored(f, i) BY <3>1, <3>2, <1>2, <1>7, <1>13
      <3>4. \A m \in Stored(f, i).n..recorded : \E g \in Number : \E j \in Here(g) : Stored(g, j).n = m
        BY <3>3, <1>1, <1>4 DEF NoneMissing
      <3>5. number \in Stored(f, i).n..recorded BY <3>2, <3>3, <3>1, <1>2
      <3>6. PICK g \in Number : \E j \in Here(g) : Stored(g, j).n = number BY <3>4, <3>5
      <3>7. QED BY <3>6, <2>2
    <2>5. QED BY <2>3, <2>4
  <1>19. (Appending /\ Reading /\ BeforeReading)'
    BY <1>11 DEF AuditInv, Appending, Reading, BeforeReading, NextSigned
  <1>20. QED BY <1>12, <1>15, <1>16, <1>17, <1>18, <1>19 DEF AuditInv, IdleOrRotating

LEMMA FinishAppendKeeps == AuditInv /\ FinishAppend => AuditInv'
  <1> SUFFICES ASSUME AuditInv, FinishAppend PROVE AuditInv' OBVIOUS
  <1>1. /\ appender.at = "rotating" /\ appender.steps = <<>> /\ Append_("ended")
        /\ recorded' = appender.entry /\ appender' = Idle /\ cuts' = cuts /\ reader' = reader
    BY DEF FinishAppend
  <1>2. recorded' = recorded + 1 BY <1>1 DEF AuditInv, Appending
  <1>3. cuts' \in Nat BY <1>1 DEF AuditInv, AuditTypeOK
  <1>4. QED BY <1>1, <1>2, <1>3, AppendKeeps

LEMMA CutKeeps == AuditInv /\ Cut => AuditInv'
  <1> SUFFICES ASSUME AuditInv, Cut PROVE AuditInv' OBVIOUS
  <1>1. /\ appender # Idle /\ cuts' = cuts + 1 /\ appender' = Idle /\ reader' = reader
        /\ \/ files' = files /\ recorded' = recorded
           \/ appender.steps = <<>> /\ Append_("torn") /\ recorded' = recorded
           \/ /\ appender.steps = <<>> /\ files[0].ending = "ended" /\ Append_("unended")
              /\ recorded' = appender.entry
    BY DEF Cut
  <1>2. cuts \in Nat /\ cuts' \in Nat BY <1>1 DEF AuditInv, AuditTypeOK
  <1>3. Idle.at = "idle"
        /\ Idle \in [at : {"idle", "rotating"}, entry : Nat, prev : Nat, steps : Seq(Number)]
    BY DEF Idle, Undefined
  <1>4. appender.at = "rotating" BY <1>1 DEF AuditInv, AuditTypeOK, IdleOrRotating
  <1>5. recorded' \in {recorded, recorded + 1} BY <1>1, <1>4 DEF AuditInv, Appending
  <1>6. CASE files' = files /\ recorded' = recorded
    <2>1. AuditTypeOK' BY <1>1, <1>2, <1>3, <1>6 DEF AuditInv, AuditTypeOK
    <2>2. FilesWellFormed' BY <1>1, <1>6 DEF AuditInv, FilesWellFormed
    <2>3. (InOrder /\ Chained /\ NoneMissing /\ Appending /\ Reading /\ BeforeReading)'
      BY <1>1, <1>3, <1>6 DEF AuditInv, InOrder, Chained, NoneMissing, Appending, Reading, BeforeReading,
         Here, Stored, NextSigned
    <2>4. QED BY <2>1, <2>2, <2>3, <1>1 DEF AuditInv, IdleOrRotating
  <1>7. CASE appender.steps = <<>> /\ Append_("torn") /\ recorded' = recorded
    BY <1>1, <1>2, <1>4, <1>5, <1>7, AppendKeeps
  <1>8. CASE /\ appender.steps = <<>> /\ files[0].ending = "ended" /\ Append_("unended")
             /\ recorded' = appender.entry
    <2>1. recorded' = recorded + 1 BY <1>4, <1>8 DEF AuditInv, Appending
    <2>2. QED BY <2>1, <1>1, <1>2, <1>4, <1>8, AppendKeeps
  <1>9. QED BY <1>1, <1>6, <1>7, <1>8

\* The reader: what it has read so far are consecutive entries, since each signed one
\* names the one before it and only the first of a chain names none.
LEMMA LastSignedFacts ==
  ASSUME NEW lines \in Seq(EntryRecord), WellFormed(lines), NEW last, NEW i \in 0..Len(lines)
  PROVE  LastSigned(lines, i, last) = IF i > 0 /\ lines[i].signed THEN lines[i].n ELSE last
  <1> DEFINE signed == {j \in 1..i : lines[j].signed}
  <1>1. i \in Nat /\ Len(lines) \in Nat /\ i <= Len(lines) /\ DOMAIN lines = 1..Len(lines) OBVIOUS
  <1>2. LastSigned(lines, i, last) =
            IF signed = {} THEN last ELSE lines[CHOOSE j \in signed : \A k \in signed : k <= j].n
    BY DEF LastSigned
  <1>3. CASE i > 0 /\ lines[i].signed
    <2> DEFINE newest == CHOOSE j \in signed : \A k \in signed : k <= j
    <2>1. i \in signed /\ \A k \in signed : k \in Nat /\ k <= i BY <1>1, <1>3
    <2>2. newest \in signed /\ \A k \in signed : k <= newest BY <2>1
    <2> HIDE DEF newest
    <2>3. newest = i
      <3> HIDE DEF signed
      <3> QED BY <2>1, <2>2, <1>1
    <2>4. LastSigned(lines, i, last) = lines[newest].n BY <2>1, <1>2 DEF newest
    <2>5. QED BY <2>3, <2>4, <1>3
  <1>4. CASE ~(i > 0 /\ lines[i].signed)
    <2>1. signed = {}
      <3>1. SUFFICES ASSUME NEW j \in 1..i, lines[j].signed PROVE FALSE OBVIOUS
      <3>2. i > 0 /\ i \in DOMAIN lines /\ ~lines[i].signed BY <3>1, <1>1, <1>4
      <3>3. Len(lines) = 1 BY <3>2 DEF WellFormed
      <3>4. QED BY <3>1, <3>2, <3>3, <1>1
    <2>2. QED BY <2>1, <1>2, <1>4
  <1>5. QED BY <1>3, <1>4

\* Reading one more file.
LEMMA ReadMore ==
  ASSUME AuditInv, reader.at = "reading", NEW f \in Number,
         ChainHolds(files[f].lines, reader.last),
         reader' = [reader EXCEPT !.seen = @ \o files[f].lines,
                                  !.last = LastSigned(files[f].lines, Len(files[f].lines), @),
                                  !.at = reader'.at, !.number = reader'.number],
         reader'.at \in {"reading", "read"}, reader'.number \in Number
  PROVE  /\ Reading'
         /\ reader' \in [at : {"idle", "listing", "reading", "read", "failed"}, number : Number,
                         paths : SUBSET Number, seen : Seq(EntryRecord), last : Nat]
  <1> DEFINE lines == files[f].lines
             old == reader.seen
             new == reader'.seen
             last == reader.last
  <1>1. /\ lines \in Seq(EntryRecord) /\ WellFormed(lines) /\ old \in Seq(EntryRecord) /\ last \in Nat
        /\ reader \in [at : {"idle", "listing", "reading", "read", "failed"}, number : Number,
                       paths : SUBSET Number, seen : Seq(EntryRecord), last : Nat]
    BY AuditFacts DEF AuditInv, AuditTypeOK, FilesWellFormed
  <1>2. /\ new = old \o lines /\ reader'.last = LastSigned(lines, Len(lines), last)
        /\ reader'.paths = reader.paths
    BY <1>1
  <1>3. /\ \A i, j \in DOMAIN old : NextSigned(i, j) => old[j].n = old[i].n + 1
        /\ last = Undefined => \A i \in DOMAIN old : ~old[i].signed
        /\ last # Undefined =>
               \E i \in DOMAIN old : /\ old[i].signed /\ old[i].n = last
                                     /\ \A j \in DOMAIN old : i < j => ~old[j].signed
    BY DEF AuditInv, Reading
  <1>4. ChainHolds(lines, last) OBVIOUS
  <1>5. \A s \in Seq(EntryRecord) :
            /\ Len(s) \in Nat /\ DOMAIN s = 1..Len(s)
            /\ \A x \in DOMAIN s : s[x] \in EntryRecord /\ s[x].n \in Nat \ {0} /\ s[x].prev \in Nat
    <2>1. \A e \in EntryRecord : e.n \in Nat \ {0} /\ e.prev \in Nat BY DEF EntryRecord
    <2>2. QED BY <2>1
  <1> DEFINE m == Len(old)
             k == Len(lines)
  <1>6. /\ m \in Nat /\ k \in Nat /\ DOMAIN old = 1..m /\ DOMAIN lines = 1..k BY <1>1, <1>5
  <1>7. /\ new \in Seq(EntryRecord) /\ DOMAIN new = 1..(m + k)
        /\ \A i \in 1..m : new[i] = old[i]
        /\ \A i \in 1..k : new[m + i] = lines[i]
    <2>1. \A s, t \in Seq(EntryRecord) :
              /\ s \o t \in Seq(EntryRecord) /\ Len(s \o t) = Len(s) + Len(t)
              /\ \A i \in 1..Len(s) : (s \o t)[i] = s[i]
              /\ \A i \in 1..Len(t) : (s \o t)[Len(s) + i] = t[i]
      OBVIOUS
    <2> HIDE DEF new, old, lines
    <2>2. QED BY <2>1, <1>1, <1>2, <1>5
  <1>8. \A i \in 0..k : LastSigned(lines, i, last) = IF i > 0 /\ lines[i].signed THEN lines[i].n ELSE last
    BY <1>1, LastSignedFacts
  <1> HIDE DEF new, old, lines, last, m, k
  <1>b. \A i \in 1..k : new[m + i] = lines[i] BY <1>7
  <1>9. \A i \in 1..k : lines[i].signed =>
            /\ i = 1 => last = Undefined \/ lines[i].prev = last
            /\ i > 1 => lines[i - 1].signed /\ lines[i].prev = lines[i - 1].n
    <2>1. SUFFICES ASSUME NEW i \in 1..k, lines[i].signed
                   PROVE  /\ i = 1 => last = Undefined \/ lines[i].prev = last
                          /\ i > 1 => lines[i - 1].signed /\ lines[i].prev = lines[i - 1].n
      OBVIOUS
    <2>2. /\ LastSigned(lines, i - 1, last) = Undefined
             \/ lines[i].prev = LastSigned(lines, i - 1, last)
      BY <2>1, <1>4, <1>6 DEF ChainHolds, Follows
    <2>3. i - 1 \in 0..k BY <1>6
    <2>4. CASE i = 1
      <3>1. LastSigned(lines, i - 1, last) = last BY <2>3, <2>4, <1>8
      <3>2. QED BY <3>1, <2>2, <2>4
    <2>5. CASE i > 1
      <3>1. i - 1 \in 1..k /\ k > 1 BY <2>5, <1>6
      <3>2. lines[i - 1].signed BY <3>1, <1>1, <1>6 DEF WellFormed, k, lines
      <3>3. LastSigned(lines, i - 1, last) = lines[i - 1].n BY <2>3, <2>5, <3>1, <3>2, <1>8
      <3>4. lines[i - 1].n # Undefined BY <3>1, <1>1, <1>5, <1>6 DEF Undefined
      <3>5. QED BY <2>2, <2>5, <3>2, <3>3, <3>4
    <2>6. QED BY <2>4, <2>5, <1>6
  <1>10. \A i \in 1..k : lines[i].signed => lines[i].prev = Undefined \/ lines[i].prev + 1 = lines[i].n
    BY <1>1, <1>6 DEF WellFormed, lines
  \* An entry and the next signed one after it.
  <1>11. ASSUME NEW i \in 1..(m + k), NEW j \in 1..(m + k), NextSigned(i, j)'
         PROVE  new[j].n = new[i].n + 1
    <2>1. /\ i < j /\ new[i].signed /\ new[j].signed
          /\ \A h \in 1..(m + k) : i < h /\ h < j => ~new[h].signed
      BY <1>7, <1>11 DEF NextSigned, new
    <2>2. CASE j <= m
      <3>1. i \in 1..m /\ j \in 1..m BY <2>1, <2>2, <1>6
      <3>2. \A h \in 1..m : h \in 1..(m + k) BY <1>6
      <3>3. NextSigned(i, j) BY <3>1, <3>2, <2>1, <1>6, <1>7 DEF NextSigned, old
      <3>4. QED BY <3>1, <3>3, <1>3, <1>6, <1>7
    <2>3. CASE j > m
      <3> DEFINE b == j - m
      <3>1. b \in 1..k /\ j = m + b BY <2>3, <1>6
      <3> HIDE DEF b
      <3>2. new[j] = lines[b] BY <3>1, <1>b
      <3>3. CASE b > 1
        <4>1. lines[b - 1].signed /\ lines[b].prev = lines[b - 1].n BY <3>1, <3>2, <3>3, <2>1, <1>9
        <4>2. b - 1 \in 1..k /\ new[m + (b - 1)] = lines[b - 1]
          <5>1. b - 1 \in 1..k BY <3>1, <3>3, <1>6
          <5>2. QED BY <5>1, <1>b
        <4>3. i = m + (b - 1)
          <5>1. m + (b - 1) \in 1..(m + k) /\ m + (b - 1) < j BY <3>1, <3>3, <1>6
          <5>2. ~(i < m + (b - 1)) BY <5>1, <4>1, <4>2, <2>1
          <5>3. QED BY <5>1, <5>2, <3>1, <2>1, <1>6
        <4>4. lines[b - 1].n \in Nat \ {0} /\ lines[b].n \in Nat BY <4>2, <3>1, <1>1, <1>5, <1>6
        <4>5. lines[b].prev + 1 = lines[b].n BY <4>1, <4>4, <3>1, <3>2, <2>1, <1>10 DEF Undefined
        <4>6. QED BY <4>1, <4>2, <4>3, <4>5, <3>2
      <3>4. CASE b = 1
        <4>1. last = Undefined \/ lines[1].prev = last BY <3>1, <3>2, <3>4, <2>1, <1>9
        <4>2. i \in 1..m BY <3>1, <3>4, <2>1, <1>6
        <4>3. old[i].signed /\ new[i] = old[i] BY <4>2, <2>1, <1>7
        <4>4. last # Undefined BY <4>2, <4>3, <1>3, <1>6
        <4>5. PICK h \in 1..m : /\ old[h].signed /\ old[h].n = last
                                /\ \A g \in 1..m : h < g => ~old[g].signed
          BY <4>4, <1>3, <1>6
        <4>6. h = i
          <5>1. ~(h < i) BY <4>2, <4>3, <4>5
          <5>2. new[h].signed /\ h \in 1..(m + k) /\ h < j BY <4>5, <3>1, <3>4, <1>6, <1>7
          <5>3. ~(i < h) BY <5>2, <2>1
          <5>4. QED BY <5>1, <5>3, <4>2
        <4>7. lines[1].prev + 1 = lines[1].n
          BY <4>1, <4>4, <3>1, <3>2, <3>4, <2>1, <1>10
        <4>8. QED BY <4>1, <4>3, <4>4, <4>5, <4>6, <4>7, <3>2, <3>4
      <3>5. QED BY <3>1, <3>3, <3>4, <1>6
    <2>4. QED BY <2>2, <2>3, <1>6
  \* The last signed entry.
  <1>12. /\ reader'.last = Undefined => \A i \in 1..(m + k) : ~new[i].signed
         /\ reader'.last # Undefined =>
                \E i \in 1..(m + k) : /\ new[i].signed /\ new[i].n = reader'.last
                                      /\ \A j \in 1..(m + k) : i < j => ~new[j].signed
         /\ reader'.last \in Nat
    <2>1. reader'.last = IF k > 0 /\ lines[k].signed THEN lines[k].n ELSE last
      BY <1>2, <1>6, <1>8 DEF k
    <2>2. CASE k > 0 /\ lines[k].signed
      <3>1. k \in 1..k /\ m + k \in 1..(m + k) BY <2>2, <1>6
      <3>a. new[m + k] = lines[k] BY <3>1, <1>b
      <3>2. reader'.last = new[m + k].n /\ reader'.last \in Nat \ {0} BY <3>1, <3>a, <2>1, <2>2, <1>1, <1>5, <1>6
      <3>3. \A j \in 1..(m + k) : ~(m + k < j) BY <1>6
      <3>4. QED BY <3>1, <3>a, <3>2, <3>3, <2>2 DEF Undefined
    <2>3. CASE ~(k > 0 /\ lines[k].signed)
      <3>1. reader'.last = last /\ last \in Nat BY <2>1, <2>3, <1>1 DEF last
      <3>2. \A j \in 1..(m + k) : j > m => ~new[j].signed
        <4>1. SUFFICES ASSUME NEW j \in 1..(m + k), j > m PROVE ~new[j].signed OBVIOUS
        <4>2. k > 0 /\ j - m \in 1..k /\ j = m + (j - m) BY <4>1, <1>6
        <4>3. ~lines[k].signed /\ k \in 1..k BY <4>2, <2>3, <1>6
        <4>4. k = 1 BY <4>3, <1>1, <1>6 DEF WellFormed, lines, k
        <4>5. j = m + k BY <4>2, <4>4, <1>6
        <4>6. QED BY <4>3, <4>5, <1>b
      <3>3. \A j \in 1..(m + k) : j <= m => j \in 1..m /\ new[j] = old[j] BY <1>6, <1>7
      <3>4. CASE last = Undefined
        BY <3>1, <3>2, <3>3, <3>4, <1>3, <1>6
      <3>5. CASE last # Undefined
        <4>1. PICK i \in 1..m : /\ old[i].signed /\ old[i].n = last
                                /\ \A j \in 1..m : i < j => ~old[j].signed
          BY <3>5, <1>3, <1>6
        <4>2. i \in 1..(m + k) /\ new[i] = old[i] BY <1>6, <1>7
        <4>3. \A j \in 1..(m + k) : i < j => ~new[j].signed BY <4>1, <3>2, <3>3, <1>6
        <4>4. QED BY <4>1, <4>2, <4>3, <3>1, <3>5
      <3>6. QED BY <3>4, <3>5
    <2>4. QED BY <2>2, <2>3
  <1>13. Reading' BY <1>7, <1>11, <1>12 DEF Reading, new
  <1>14. reader' \in [at : {"idle", "listing", "reading", "read", "failed"}, number : Number,
                      paths : SUBSET Number, seen : Seq(EntryRecord), last : Nat]
    <2>1. new \in Seq(EntryRecord) /\ reader'.last \in Nat BY <1>7, <1>12
    <2>2. QED BY <2>1, <1>1 DEF new
  <1>15. QED BY <1>13, <1>14

LEMMA ReadStepsKeep == AuditInv /\ (StartRead \/ ListOne \/ ReadOne) => AuditInv'
  <1> DEFINE State == [at : {"idle", "listing", "reading", "read", "failed"}, number : Number,
                       paths : SUBSET Number, seen : Seq(EntryRecord), last : Nat]
  <1> SUFFICES ASSUME AuditInv, StartRead \/ ListOne \/ ReadOne PROVE AuditInv' OBVIOUS
  <1>1. files' = files /\ appender' = appender /\ recorded' = recorded /\ cuts' = cuts
    BY DEF StartRead, ListOne, ReadOne
  <1>2. reader \in State BY DEF AuditInv, AuditTypeOK
  <1>3. 0 \in Number /\ MaxArchived \in Number /\ \A n \in Number : n > 0 => n - 1 \in Number
    BY AuditAssumption DEF Number
  <1>4. NotReading \in State /\ NotReading.seen = <<>> /\ NotReading.last = Undefined
    BY <1>3 DEF NotReading, Undefined
  <1>5. SUFFICES reader' \in State /\ Reading' /\ BeforeReading'
    <2>1. AuditTypeOK' BY <1>1, <1>5 DEF AuditInv, AuditTypeOK
    <2>2. FilesWellFormed' BY <1>1 DEF AuditInv, FilesWellFormed
    <2>3. (InOrder /\ Chained /\ NoneMissing /\ Appending /\ IdleOrRotating)'
      BY <1>1 DEF AuditInv, InOrder, Chained, NoneMissing, Appending, IdleOrRotating, Here, Stored,
         HasLegacyEvents
    <2>4. QED BY <2>1, <2>2, <2>3, <1>5 DEF AuditInv
  <1>6. CASE StartRead
    <2>1. reader' = [NotReading EXCEPT !.at = "listing", !.number = MaxArchived] BY <1>6 DEF StartRead
    <2> HIDE DEF State
    <2>2. reader' \in State /\ reader'.at = "listing" /\ reader'.seen = <<>> /\ reader'.last = Undefined
      BY <2>1, <1>3, <1>4 DEF State
    <2>3. QED BY <2>2 DEF Reading, BeforeReading
  <1>7. CASE ListOne
    <2>1. reader.at = "listing" /\ reader.seen = <<>> /\ reader.last = Undefined
      BY <1>7 DEF ListOne, AuditInv, BeforeReading
    <2>2. PICK here \in SUBSET Number :
              \/ reader.number > 0
                 /\ reader' = [reader EXCEPT !.number = @ - 1, !.paths = @ \cup here]
              \/ reader' = [reader EXCEPT !.at = "reading", !.number = MaxArchived, !.paths = @ \cup here]
      <3> DEFINE here == IF files[reader.number].there THEN {reader.number} ELSE {}
      <3>1. here \in SUBSET Number BY <1>2
      <3>2. \/ reader.number > 0
               /\ reader' = [reader EXCEPT !.number = @ - 1, !.paths = @ \cup here]
            \/ reader' = [reader EXCEPT !.at = "reading", !.number = MaxArchived, !.paths = @ \cup here]
        BY <1>7 DEF ListOne
      <3> HIDE DEF here
      <3>3. QED BY <3>1, <3>2
    <2>3. reader' \in State /\ reader'.seen = <<>> /\ reader'.last = Undefined
      BY <2>1, <2>2, <1>2, <1>3
    <2>4. DOMAIN reader'.seen = {} BY <2>3
    <2>5. QED BY <2>3, <2>4 DEF Reading, BeforeReading
  <1>8. CASE ReadOne
    <2> DEFINE f == reader.number
               read == [reader EXCEPT !.seen = @ \o files[f].lines,
                                      !.last = LastSigned(files[f].lines, Len(files[f].lines), @)]
    <2>1. /\ reader.at = "reading" /\ f \in Number
          /\ \/ reader' = [reader EXCEPT !.at = "read"]
             \/ f # 0 /\ reader' = [reader EXCEPT !.number = @ - 1]
             \/ reader' = [NotReading EXCEPT !.at = "failed"]
             \/ ChainHolds(files[f].lines, reader.last) /\ reader' = [read EXCEPT !.at = "read"]
             \/ /\ f # 0 /\ ChainHolds(files[f].lines, reader.last)
                /\ reader' = [read EXCEPT !.number = @ - 1]
      BY <1>2, <1>8 DEF ReadOne
    <2>2. f # 0 => f - 1 \in Number BY <2>1, <1>3 DEF Number
    <2>3. CASE reader' = [reader EXCEPT !.at = "read"] \/ (f # 0 /\ reader' = [reader EXCEPT !.number = @ - 1])
      <3>1. /\ reader' \in State /\ reader'.at \in {"read", "reading"}
            /\ reader'.seen = reader.seen /\ reader'.last = reader.last
        BY <2>1, <2>2, <2>3, <1>2
      <3>2. QED BY <2>1, <3>1 DEF AuditInv, Reading, BeforeReading, NextSigned
    <2>4. CASE reader' = [NotReading EXCEPT !.at = "failed"]
      <3>1. reader' \in State /\ reader'.at = "failed" BY <2>4, <1>4
      <3>2. QED BY <3>1 DEF Reading, BeforeReading
    <2>5. ASSUME ChainHolds(files[f].lines, reader.last), NEW at \in {"read", "reading"}, NEW n \in Number,
                 reader' = [read EXCEPT !.at = at, !.number = n]
          PROVE  reader' \in State /\ Reading' /\ BeforeReading'
      <3>1. reader'.at = at /\ reader'.number = n BY <2>5, <1>2
      <3>2. reader' = [reader EXCEPT !.seen = @ \o files[f].lines,
                                     !.last = LastSigned(files[f].lines, Len(files[f].lines), @),
                                     !.at = reader'.at, !.number = reader'.number]
        BY <2>5, <3>1, <1>2
      <3>3. reader'.at \in {"reading", "read"} /\ reader'.number \in Number BY <3>1
      <3>4. PICK g \in Number : g = f BY <2>1
      <3>5. ChainHolds(files[g].lines, reader.last) BY <2>5, <3>4
      <3>6. reader' = [reader EXCEPT !.seen = @ \o files[g].lines,
                                     !.last = LastSigned(files[g].lines, Len(files[g].lines), @),
                                     !.at = reader'.at, !.number = reader'.number]
        BY <3>2, <3>4
      <3>7. Reading' /\ reader' \in State BY <2>1, <3>3, <3>5, <3>6, ReadMore
      <3>8. QED BY <3>1, <3>7 DEF BeforeReading
    <2>6. CASE ChainHolds(files[f].lines, reader.last) /\ reader' = [read EXCEPT !.at = "read"]
      <3>1. [read EXCEPT !.at = "read"] = [read EXCEPT !.at = "read", !.number = f] BY <1>2
      <3>2. QED BY <2>1, <2>5, <2>6, <3>1
    <2>7. CASE /\ f # 0 /\ ChainHolds(files[f].lines, reader.last)
               /\ reader' = [read EXCEPT !.number = @ - 1]
      <3>1. [read EXCEPT !.number = @ - 1] = [read EXCEPT !.at = "reading", !.number = f - 1]
        BY <2>1, <1>2
      <3>2. QED BY <2>1, <2>2, <2>5, <2>7, <3>1
    <2>8. QED BY <2>1, <2>3, <2>4, <2>6, <2>7
  <1>9. QED BY <1>6, <1>7, <1>8

LEMMA AuditStep == AuditInv /\ [AuditNext]_auditVars => AuditInv'
  <1> SUFFICES ASSUME AuditInv, [AuditNext]_auditVars PROVE AuditInv' OBVIOUS
  <1>1. CASE UNCHANGED auditVars
    <2>1. AuditTypeOK' BY <1>1 DEF auditVars, AuditInv, AuditTypeOK
    <2>2. FilesWellFormed' BY <1>1 DEF auditVars, AuditInv, FilesWellFormed
    <2>3. (InOrder /\ Chained /\ NoneMissing)'
      BY <1>1 DEF auditVars, AuditInv, InOrder, Chained, NoneMissing, Here, Stored
    <2>4. (Appending /\ IdleOrRotating /\ Reading /\ BeforeReading)'
      BY <1>1 DEF auditVars, AuditInv, Appending, IdleOrRotating, Reading, BeforeReading, Here, Stored,
         HasLegacyEvents, NextSigned
    <2>5. QED BY <2>1, <2>2, <2>3, <2>4 DEF AuditInv
  <1>2. QED BY <1>1, BeginAppendKeeps, RotateStepKeeps, FinishAppendKeeps, CutKeeps, ReadStepsKeep
          DEF AuditNext

\* For any number of archives, entries and cuts: the files hold, in order and without
\* holes, the entries up to the last one recorded, each signed one naming the one
\* before it; and a history that is read is one without gaps.
THEOREM HistoryIsWhole == AuditSpec => []HistoryWithoutHoles
  <1>1. AuditInv => StoredWithoutHoles
    <2>1. SUFFICES ASSUME AuditInv, \A f \in Number : Parses(files[f]),
                          NEW f \in Number, NEW i \in Here(f)
                   PROVE  /\ \A number \in Stored(f, i).n..recorded :
                                 \E g \in Number : \E j \in Here(g) : Stored(g, j).n = number
                          /\ \A g \in Number : \A j \in Here(g) :
                                 /\ Earlier(f, i, g, j) => Stored(f, i).n < Stored(g, j).n
                                 /\ Stored(f, i).signed /\ Stored(g, j).signed
                                    /\ Stored(g, j).n = Stored(f, i).n + 1
                                        => Stored(g, j).prev = Stored(f, i).n
                                 /\ Stored(g, j).n <= recorded
      BY DEF StoredWithoutHoles, Here, Stored
    <2>2. 0 \in Number BY <2>1, AuditFacts
    <2>3. Parses(files[0]) BY <2>1, <2>2
    <2>4. QED BY <2>1, <2>3 DEF AuditInv, NoneMissing, InOrder, Chained
  <1>2. AuditInv => ReadWithoutGap BY DEF AuditInv, Reading, ReadWithoutGap
  <1>3. QED BY <1>1, <1>2, AuditInit_, AuditStep, PTL DEF AuditSpec, HistoryWithoutHoles
=============================================================================

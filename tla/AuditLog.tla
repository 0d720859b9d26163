------------------------------- MODULE AuditLog -------------------------------
(***************************************************************************)
(* manager/src/audit.ts: the manager's audit log, an active file (number 0)  *)
(* and archives 1..MaxArchived, the highest the oldest.  Each signed entry   *)
(* holds the hash of the one before it; entries of older releases are not    *)
(* signed.  Appending happens under the manager's lock; the audit pages and  *)
(* `doctor` read without it.  An entry is its number, a hash the number of   *)
(* the entry it covers, and the size limit a number of entries.              *)
(***************************************************************************)
EXTENDS Naturals, Sequences, SequencesExt

CONSTANTS
    MaxArchived,  \* settings.audit.maxArchivedFiles
    PerFile,      \* settings.audit.maxFileBytes, in entries
    MaxEvents,    \* bound: events recorded
    MaxCuts       \* bound: crashes of the writer

\* The settings' schema admits positive integers only.
ASSUME AuditAssumption ==
    MaxArchived \in Nat \ {0} /\ PerFile \in Nat \ {0} /\ MaxEvents \in Nat /\ MaxCuts \in Nat

VARIABLES
    files,     \* the files, oldest archive last in number
    appender,  \* the append under way
    recorded,  \* number of the last entry whose append was reported as persisted
    cuts,
    reader     \* a read of the log without the lock
auditVars == <<files, appender, recorded, cuts, reader>>

Number == 0..MaxArchived
Undefined == 0
Absent == [there |-> FALSE, lines |-> <<>>, ending |-> "ended"]
FileOf(lines, ending) == [there |-> TRUE, lines |-> lines, ending |-> ending]

\* parseAuditFileEvents throws at a line that is no JSON value.
Parses(file) == file.ending # "torn"

Idle == [at |-> "idle", entry |-> 0, prev |-> Undefined, steps |-> <<>>]
NotReading == [at |-> "idle", number |-> 0, paths |-> {}, seen |-> <<>>, last |-> Undefined]

\* A log begun by this release, or one whose only entry an older one wrote.
AuditInit ==
    /\ files \in {[f \in Number |-> Absent],
                  [f \in Number |-> IF f = 0 THEN FileOf(<<[n |-> 1, prev |-> Undefined, signed |-> FALSE]>>, "ended")
                                    ELSE Absent]}
    /\ appender = Idle /\ cuts = 0 /\ reader = NotReading
    /\ recorded = IF files[0].there THEN 1 ELSE 0

\* The newest entry with a hash: the newest file that has one as its last entry.
SignedFiles ==
    {f \in Number : files[f].lines # <<>> /\ Last(files[f].lines).signed}

LatestSignedEntryHash ==
    IF SignedFiles = {} THEN Undefined
    ELSE LET newest == CHOOSE f \in SignedFiles : \A g \in SignedFiles : f <= g
         IN Last(files[newest].lines).n

HasLegacyEvents == \E i \in DOMAIN files[0].lines : ~files[0].lines[i].signed

\* The oldest archive is removed, then each file is renamed to the next number.
RotateAuditFiles == [i \in 1..(MaxArchived + 1) |-> MaxArchived + 1 - i]

IsFull == files[0].there /\ Len(files[0].lines) + 1 > PerFile

\* Mutant: the chain starts again with every file.
PreviousHash_PerFile ==
    IF HasLegacyEvents \/ IsFull THEN Undefined ELSE LatestSignedEntryHash

\* After unsigned entries the chain starts again.
PreviousHash == IF HasLegacyEvents THEN Undefined ELSE LatestSignedEntryHash

\* Both hashes are read before anything is moved.  A file that does not parse
\* makes the append answer false, and the caller report a lost audit event.
BeginAppend ==
    /\ appender = Idle /\ recorded < MaxEvents
    /\ Parses(files[0])
    /\ appender' = [at |-> "rotating", entry |-> recorded + 1, prev |-> PreviousHash,
                    steps |-> IF HasLegacyEvents \/ IsFull THEN RotateAuditFiles ELSE <<>>]
    /\ UNCHANGED <<files, recorded, cuts, reader>>

Renamed(f) ==
    IF f = MaxArchived THEN [files EXCEPT ![f] = Absent]
    ELSE IF files[f].there THEN [files EXCEPT ![f + 1] = files[f], ![f] = Absent]
    ELSE files

RotateStep ==
    /\ appender.at = "rotating" /\ appender.steps # <<>>
    /\ files' = Renamed(Head(appender.steps))
    /\ appender' = [appender EXCEPT !.steps = Tail(@)]
    /\ UNCHANGED <<recorded, cuts, reader>>

Entry(a) == [n |-> a.entry, prev |-> a.prev, signed |-> TRUE]

\* appendFileSync.  A line that follows one without its line feed spoils both.
Append_(ending) ==
    files' = [files EXCEPT ![0] =
        IF files[0].ending = "ended"
        THEN IF ending = "torn" THEN FileOf(files[0].lines, "torn")
             ELSE FileOf(Append(files[0].lines, Entry(appender)), ending)
        ELSE FileOf(Front(files[0].lines), "torn")]

FinishAppend ==
    /\ appender.at = "rotating" /\ appender.steps = <<>>
    /\ Append_("ended")
    /\ recorded' = appender.entry
    /\ appender' = Idle
    /\ UNCHANGED <<cuts, reader>>

\* The process dies, or the disk is full, before, in or just after the line.
Cut ==
    /\ appender # Idle /\ cuts < MaxCuts
    /\ \/ UNCHANGED <<files, recorded>>
       \/ appender.steps = <<>> /\ Append_("torn") /\ UNCHANGED recorded
       \/ appender.steps = <<>> /\ files[0].ending = "ended" /\ Append_("unended")
          /\ recorded' = appender.entry
    /\ cuts' = cuts + 1 /\ appender' = Idle
    /\ UNCHANGED reader

(***************************************************************************)
(* loadManagerAuditEvents                                                    *)
(***************************************************************************)
StartRead ==
    /\ reader.at # "listing" /\ reader.at # "reading"
    /\ reader' = [NotReading EXCEPT !.at = "listing", !.number = MaxArchived]
    /\ UNCHANGED <<files, appender, recorded, cuts>>

\* existsSync, oldest archive first.
ListOne ==
    /\ reader.at = "listing"
    /\ LET here == IF files[reader.number].there THEN {reader.number} ELSE {}
       IN reader' = IF reader.number > 0
                    THEN [reader EXCEPT !.number = @ - 1, !.paths = @ \cup here]
                    ELSE [reader EXCEPT !.at = "reading", !.number = MaxArchived, !.paths = @ \cup here]
    /\ UNCHANGED <<files, appender, recorded, cuts>>

\* verifySignedAuditEvent: an entry follows the last signed one read.
Follows(entry, last) == ~entry.signed \/ last = Undefined \/ entry.prev = last

LastSigned(lines, i, last) ==
    LET signed == {j \in 1..i : lines[j].signed}
    IN IF signed = {} THEN last ELSE lines[CHOOSE j \in signed : \A k \in signed : k <= j].n

ChainHolds(lines, last) ==
    \A i \in DOMAIN lines : Follows(lines[i], LastSigned(lines, i - 1, last))

Readable(file) == file.there /\ Parses(file)

ReadOne ==
    /\ reader.at = "reading"
    /\ LET file == files[reader.number]
           read == [reader EXCEPT !.seen = @ \o file.lines,
                                  !.last = LastSigned(file.lines, Len(file.lines), @)]
       IN reader' = IF reader.number \notin reader.paths
                    THEN IF reader.number = 0 THEN [reader EXCEPT !.at = "read"]
                         ELSE [reader EXCEPT !.number = @ - 1]
                    ELSE IF ~Readable(file) \/ ~ChainHolds(file.lines, reader.last)
                    THEN [NotReading EXCEPT !.at = "failed"]
                    ELSE IF reader.number = 0 THEN [read EXCEPT !.at = "read"]
                    ELSE [read EXCEPT !.number = @ - 1]
    /\ UNCHANGED <<files, appender, recorded, cuts>>

AuditNext == BeginAppend \/ RotateStep \/ FinishAppend \/ Cut \/ StartRead \/ ListOne \/ ReadOne

AuditSpec == AuditInit /\ [][AuditNext]_auditVars

(***************************************************************************)
(* Properties                                                               *)
(***************************************************************************)
\* Entry i of file f was stored before entry j of file g.
Earlier(f, i, g, j) == f > g \/ (f = g /\ i < j)

\* However many times a rotation is cut short and begun again, what the files hold
\* is, in their order, an unbroken run of entries up to the last one recorded, and
\* every signed entry in it names the signed one before it (the line after an
\* unended one excepted).
StoredWithoutHoles ==
    (\A f \in Number : Parses(files[f])) =>
        \A f \in Number : \A i \in DOMAIN files[f].lines :
            LET this == files[f].lines[i]
            IN  /\ \A number \in this.n..recorded :
                       \E g \in Number : \E j \in DOMAIN files[g].lines : files[g].lines[j].n = number
                /\ \A g \in Number : \A j \in DOMAIN files[g].lines :
                       LET other == files[g].lines[j]
                       IN  /\ Earlier(f, i, g, j) => this.n < other.n
                           /\ this.signed /\ other.signed /\ other.n = this.n + 1 => other.prev = this.n
                           /\ other.n <= recorded

\* No signed entry was read between these two.
NextSigned(i, j) ==
    /\ i < j /\ reader.seen[i].signed /\ reader.seen[j].signed
    /\ \A k \in DOMAIN reader.seen : i < k /\ k < j => ~reader.seen[k].signed

\* A reader overtaken by a rotation fails; it never returns a history in which a
\* signed entry between two others is missing or an entry appears twice.
ReadWithoutGap ==
    reader.at = "read" =>
        \A i, j \in DOMAIN reader.seen :
            NextSigned(i, j) => reader.seen[j].n = reader.seen[i].n + 1

\* What the log keeps, and what a reader without the lock makes of it.
HistoryWithoutHoles == StoredWithoutHoles /\ ReadWithoutGap
=============================================================================

----------------------------- MODULE SnapshotFile -----------------------------
(***************************************************************************)
(* server/src/browserSsoFileStore.ts: the snapshot file of the file backend, *)
(* below the transactions BrowserSsoStore takes as atomic.  A queue lets one *)
(* operation of the process run at a time; each reads the whole file, and a  *)
(* changing one writes a temporary file, syncs it and renames it.  The       *)
(* contents of the file are the number of changes made to it.                *)
(***************************************************************************)
EXTENDS Integers, FiniteSets

CONSTANTS
    Operation,              \* operations waiting or running
    MaxChanges, MaxOutages  \* bounds: changes made, crashes and power cuts

VARIABLES
    snapshot,      \* browser-sso-v1.json
    running,       \* the operations: where each is, what it read, its temporary file
    acknowledged,  \* changes whose operation has returned
    outages
snapshotVars == <<snapshot, running, acknowledged, outages>>

Torn == -1
Whole(changes, synced) == [holds |-> changes, synced |-> synced]
Running(at, read, file) == [at |-> at, read |-> read, file |-> file]
Queued == Running("queued", 0, Whole(0, FALSE))

SnapshotInit ==
    /\ snapshot = Whole(0, TRUE) /\ acknowledged = 0 /\ outages = 0
    /\ running = [o \in Operation |-> Queued]

\* Mutant: operations do not wait for the one before.
MyTurn_Always(o) == TRUE

\* `await previous`: the operation before has released the queue.
MyTurn(o) == \A p \in Operation \ {o} : running[p] = Queued

\* An unreadable snapshot makes every operation throw, and the server not start.
ReadSnapshot(o) ==
    /\ running[o] = Queued /\ MyTurn(o)
    /\ snapshot.holds # Torn /\ snapshot.holds < MaxChanges
    /\ running' = [running EXCEPT ![o] = Running("changed", snapshot.holds, Queued.file)]
    /\ UNCHANGED <<snapshot, acknowledged, outages>>

\* Nothing changed, the operation throws, or the records would not fit.
ReturnUnchanged(o) ==
    /\ running[o].at = "changed"
    /\ running' = [running EXCEPT ![o] = Queued]
    /\ UNCHANGED <<snapshot, acknowledged, outages>>

WriteTemporary(o) ==
    /\ running[o].at = "changed"
    /\ running' = [running EXCEPT ![o] =
                       Running("written", running[o].read, Whole(running[o].read + 1, FALSE))]
    /\ UNCHANGED <<snapshot, acknowledged, outages>>

SyncTemporary(o) ==
    /\ running[o].at = "written"
    /\ running' = [running EXCEPT ![o] =
                       Running("synced", running[o].read, Whole(running[o].file.holds, TRUE))]
    /\ UNCHANGED <<snapshot, acknowledged, outages>>

RenameTemporary(o) ==
    /\ running[o].at = "synced"
    /\ snapshot' = running[o].file
    /\ running' = [running EXCEPT ![o].at = "renamed"]
    /\ UNCHANGED <<acknowledged, outages>>

Return(o) ==
    /\ running[o].at = "renamed"
    /\ acknowledged' = acknowledged + 1
    /\ running' = [running EXCEPT ![o] = Queued]
    /\ UNCHANGED <<snapshot, outages>>

\* The process dies, or the power goes and with it what was not synced; the
\* temporary file is left behind under a name nobody uses again.  A rename is taken
\* as durable, though the directory is never synced.
Outage ==
    /\ outages < MaxOutages /\ outages' = outages + 1
    /\ \/ UNCHANGED snapshot
       \/ snapshot' = IF snapshot.synced THEN snapshot ELSE Whole(Torn, TRUE)
    /\ running' = [o \in Operation |-> Queued]
    /\ UNCHANGED acknowledged

SnapshotNext ==
    \/ \E o \in Operation : \/ ReadSnapshot(o) \/ ReturnUnchanged(o) \/ WriteTemporary(o)
                            \/ SyncTemporary(o) \/ RenameTemporary(o) \/ Return(o)
    \/ Outage

SnapshotSpec == SnapshotInit /\ [][SnapshotNext]_snapshotVars

(***************************************************************************)
(* Properties                                                               *)
(***************************************************************************)
SnapshotTypeOK ==
    /\ snapshot \in [holds : Nat \cup {Torn}, synced : BOOLEAN]
    /\ running \in [Operation -> [at : {"queued", "changed", "written", "synced", "renamed"},
                                  read : Nat, file : [holds : Nat, synced : BOOLEAN]]]
    /\ acknowledged \in Nat /\ outages \in Nat

\* Whatever the moment of a crash or a power cut, the snapshot is whole, holds
\* every change that was answered, and besides those at most the ones cut off
\* between the rename and the answer.
AnsweredChangesSurvive ==
    /\ snapshot.holds # Torn
    /\ snapshot.holds >= acknowledged
    /\ snapshot.holds <= acknowledged + outages
                         + Cardinality({o \in Operation : running[o].at = "renamed"})
=============================================================================

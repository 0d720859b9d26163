----------------------------- MODULE ManagerLock -----------------------------
(***************************************************************************)
(* manager/src/lock.ts: manager.lock, the lock file that makes each write   *)
(* of the manager's state one read/modify/write transaction, whether it     *)
(* comes from the CLI, the API or the UI.  A process is a CLI run or a      *)
(* server; a task is one command or one HTTP mutation.  Taking the lock is  *)
(* synchronous code: tasks of one process do not interleave with it, other  *)
(* processes do, between any two file operations.  A nested transaction of  *)
(* the same task (ownsLock) takes no step of its own.                       *)
(***************************************************************************)
EXTENDS Integers, FiniteSets

CONSTANTS
    Process,    \* operating system processes; pids are not reused
    Task,       \* writers
    HomeOf,     \* the process of each task
    None,       \* no lock file, or no pid in it yet
    Versions,   \* bound: versions of the state file are counted modulo this
    MaxCrashes  \* bound on crashes

ASSUME LockAssumption ==
    /\ HomeOf \in [Task -> Process]
    /\ None \notin Process /\ None \notin [by : Task, pid : Process \cup {None}]
    /\ Versions \in Nat \ {0, 1} /\ MaxCrashes \in Nat

VARIABLES
    lockFile,   \* who created the file, and the pid written into it
    alive,      \* processes that run
    pc,         \* where each task stands
    seenPid,    \* the pid a task read from a lock file it could not create
    version,    \* the manager's state file
    loaded      \* the version a task loaded
vars == <<lockFile, alive, pc, seenPid, version, loaded>>

File == [by : Task, pid : Process \cup {None}]

Acquiring == {"exists", "read", "stale", "retry", "created"}
Holding   == {"holding", "loaded", "saved"}

\* Only one task of a process is inside the synchronous code at a time.
Runs(t) ==
    /\ HomeOf[t] \in alive
    /\ \A u \in Task \ {t} : HomeOf[u] = HomeOf[t] => pc[u] \notin Acquiring

Init ==
    /\ lockFile = None /\ alive = Process
    /\ pc = [t \in Task |-> "idle"] /\ seenPid = [t \in Task |-> None]
    /\ version = 0 /\ loaded = [t \in Task |-> 0]

Goto(t, where) == pc' = [pc EXCEPT ![t] = where]

\* openSync(lockFilePath, 'wx')
Create(t) ==
    /\ Runs(t) /\ pc[t] \in {"idle", "retry"}
    /\ IF lockFile = None
       THEN lockFile' = [by |-> t, pid |-> None] /\ Goto(t, "created")
       ELSE Goto(t, "exists") /\ UNCHANGED lockFile
    /\ UNCHANGED <<alive, seenPid, version, loaded>>

\* shouldRecoverStaleApplyLock reads the file; a missing or empty one is busy.
ReadPid(t) ==
    /\ Runs(t) /\ pc[t] = "exists"
    /\ IF lockFile # None /\ lockFile.pid # None
       THEN Goto(t, "read") /\ seenPid' = [seenPid EXCEPT ![t] = lockFile.pid]
       ELSE Goto(t, "idle") /\ UNCHANGED seenPid
    /\ UNCHANGED <<lockFile, alive, version, loaded>>

\* Mutant: every lock file is taken for stale.
Stale_Always(t) == TRUE

\* Mutant: no lock file is taken for stale.
Stale_Never(t) == FALSE

Stale(t) == seenPid[t] \notin alive

\* process.kill(pid, 0); a living owner makes the writer fail as busy.
CheckPid(t) ==
    /\ Runs(t) /\ pc[t] = "read"
    /\ Goto(t, IF Stale(t) THEN "stale" ELSE "idle")
    /\ seenPid' = [seenPid EXCEPT ![t] = None]
    /\ UNCHANGED <<lockFile, alive, version, loaded>>

\* removeFileIfExists: whatever file is there now is unlinked.  If there is none,
\* either existsSync says so or unlinkSync throws.
RemoveStale(t) ==
    /\ Runs(t) /\ pc[t] = "stale"
    /\ lockFile' = None
    /\ \/ Goto(t, "retry")
       \/ lockFile = None /\ Goto(t, "idle")
    /\ UNCHANGED <<alive, seenPid, version, loaded>>

\* The pid goes to the file this task opened, which may have been unlinked.
WritePid(t) ==
    /\ Runs(t) /\ pc[t] = "created"
    /\ lockFile' = IF lockFile # None /\ lockFile.by = t
                   THEN [lockFile EXCEPT !.pid = HomeOf[t]] ELSE lockFile
    /\ Goto(t, "holding")
    /\ UNCHANGED <<alive, seenPid, version, loaded>>

\* The operation: load the state, change it, save it (awaits in between).
Load(t) ==
    /\ Runs(t) /\ pc[t] = "holding"
    /\ loaded' = [loaded EXCEPT ![t] = version]
    /\ Goto(t, "loaded")
    /\ UNCHANGED <<lockFile, alive, seenPid, version>>

Save(t) ==
    /\ Runs(t) /\ pc[t] = "loaded"
    /\ version' = (version + 1) % Versions
    /\ loaded' = [loaded EXCEPT ![t] = 0]
    /\ Goto(t, "saved")
    /\ UNCHANGED <<lockFile, alive, seenPid>>

\* The operation throws, or decides not to save.
Refrain(t) ==
    /\ Runs(t) /\ pc[t] \in {"holding", "loaded"}
    /\ loaded' = [loaded EXCEPT ![t] = 0]
    /\ Goto(t, "saved")
    /\ UNCHANGED <<lockFile, alive, seenPid, version>>

\* finally: release.  Whatever lock file is there now is unlinked.
Release(t) ==
    /\ Runs(t) /\ pc[t] = "saved"
    /\ lockFile' = None
    /\ Goto(t, "idle")
    /\ UNCHANGED <<alive, seenPid, version, loaded>>

\* A process dies, its tasks with it; its lock file stays.
Crash(p) ==
    /\ p \in alive /\ Cardinality(Process \ alive) < MaxCrashes
    /\ alive' = alive \ {p}
    /\ pc' = [t \in Task |-> IF HomeOf[t] = p THEN "dead" ELSE pc[t]]
    /\ seenPid' = [t \in Task |-> IF HomeOf[t] = p THEN None ELSE seenPid[t]]
    /\ loaded' = [t \in Task |-> IF HomeOf[t] = p THEN 0 ELSE loaded[t]]
    /\ UNCHANGED <<lockFile, version>>

Step(t) ==
    \/ Create(t) \/ ReadPid(t) \/ CheckPid(t) \/ RemoveStale(t) \/ WritePid(t)
    \/ Load(t) \/ Save(t) \/ Refrain(t) \/ Release(t)

Next ==
    \/ \E t \in Task : Step(t)
    \/ \E p \in Process : Crash(p)

\* A task of a living process goes on, and writers that were told "busy" try
\* again (the operators' manual tells them to).
Fairness == \A t \in Task : WF_vars(Step(t))

Spec == Init /\ [][Next]_vars /\ Fairness

(***************************************************************************)
(* Properties.                                                              *)
(***************************************************************************)

\* The state is well typed, and a task that holds nothing has loaded nothing.
TypeOK ==
    /\ lockFile \in File \cup {None} /\ alive \subseteq Process
    /\ pc \in [Task -> Acquiring \cup Holding \cup {"idle", "dead"}]
    /\ seenPid \in [Task -> Process \cup {None}]
    /\ \A t \in Task : (seenPid[t] # None) <=> (pc[t] = "read")
    /\ version \in 0..(Versions - 1) /\ loaded \in [Task -> 0..(Versions - 1)]
    /\ \A t \in Task : pc[t] # "loaded" => loaded[t] = 0

\* No two writers are in their transactions at the same time.
MutualExclusion ==
    \A t, u \in Task : pc[t] \in Holding /\ pc[u] \in Holding => t = u

\* What a writer loaded is current until it saves: no update is lost.
NoLostUpdate == \A t \in Task : pc[t] = "loaded" => loaded[t] = version

\* While a writer is in its transaction the lock file names its process, so that
\* a crash leaves a file that can be told to be stale.
HolderIsNamed ==
    \A t \in Task : pc[t] \in Holding =>
        lockFile # None /\ lockFile.by = t /\ lockFile.pid = HomeOf[t]

\* A lock file that names a dead process does not block the living ones for ever.
DeadLockIsRecovered ==
    \A p \in Process :
        (p \notin alive /\ lockFile # None /\ lockFile.pid = p) ~>
            (lockFile = None \/ lockFile.pid # p)
=============================================================================

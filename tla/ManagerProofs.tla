---------------------------- MODULE ManagerProofs ----------------------------
(***************************************************************************)
(* The access manager for any sites, people, sessions, tokens and requests: *)
(* what it keeps and publishes, and who may change it.                      *)
(***************************************************************************)
EXTENDS Manager, ManagerAccess, TLAPS

-----------------------------------------------------------------------------
(* What the operations on the saved access return *)

SiteStates == [Managed -> SiteState]

LEMMA MergedTyped ==
    ASSUME NEW grants, \A g \in grants : g.scopes \subseteq Scopes
    PROVE  MergedGrants(grants) \in Access
BY DEF MergedGrants, Access

LEMMA NormalSiteTyped ==
    ASSUME NEW raw, \A g \in raw.grants : g.scopes \subseteq Scopes, raw.catalog \subseteq Scopes,
           NEW n \in NormalSite(raw)
    PROVE  n \in SiteState
<1>1. MergedGrants(raw.grants) \in Access
  BY MergedTyped
<1>2. raw.catalog \subseteq Scope /\ n = [access |-> MergedGrants(raw.grants), catalog |-> raw.catalog]
  BY DEF NormalSite, Only, Scopes
<1> QED BY <1>1, <1>2 DEF SiteState

LEMMA WithAccessTyped ==
    ASSUME NEW site \in SiteState, NEW e \in Email, NEW scopes \in SUBSET Scopes
    PROVE  WithAccess(site, e, scopes) \in SiteState
BY DEF WithAccess, SiteState, Access

LEMMA SeededTyped ==
    ASSUME NEW sites, \A s \in Managed \cap DOMAIN sites : sites[s] \in SiteState
    PROVE  Seeded(sites) \in SiteStates
<1>1. EmptySite \in SiteState
  BY DEF EmptySite, SiteState, NoAccess, Access
<1> QED BY <1>1 DEF Seeded, SiteStates

\* Whatever an operation of service.ts returns is a saved access again.
LEMMA OperationsTyped ==
    ASSUME NEW sites \in SiteStates, NEW s
    PROVE  /\ \A e \in Email, scopes \in SUBSET Scopes : UpdateSiteGrant(sites, s, e, scopes) \subseteq SiteStates
           /\ \A e \in Email : RevokeSiteGrant(sites, s, e) \subseteq SiteStates
           /\ \A scope \in Scopes : AddSiteScope(sites, s, scope) \subseteq SiteStates
           /\ \A scope \in Scopes : RemoveSiteScope(sites, s, scope) \subseteq SiteStates
           /\ \A catalog \in SUBSET Scopes : ReplaceSiteScopes(sites, s, catalog) \subseteq SiteStates
           /\ \A grants \in SUBSET [email : Email, scopes : SUBSET Scopes] :
                 ReplaceSiteGrants(sites, s, grants) \subseteq SiteStates
<1>1. CASE s \notin Managed
  BY <1>1 DEF UpdateSiteGrant, RevokeSiteGrant, AddSiteScope, RemoveSiteScope, ReplaceSiteScopes,
              ReplaceSiteGrants
<1>2. CASE s \in Managed
  <2>0. sites[s] \in SiteState /\ sites[s].catalog \subseteq Scope
    BY <1>2 DEF SiteStates, SiteState
  <2>a. ASSUME NEW site \in SiteState PROVE [sites EXCEPT ![s] = site] \in SiteStates
    BY <2>a DEF SiteStates
  <2>1. ASSUME NEW e \in Email, NEW scopes \in SUBSET Scopes
        PROVE  UpdateSiteGrant(sites, s, e, scopes) \subseteq SiteStates
    BY <1>2, <2>0, <2>a, WithAccessTyped DEF UpdateSiteGrant, Only
  <2>2. ASSUME NEW e \in Email PROVE RevokeSiteGrant(sites, s, e) \subseteq SiteStates
    BY <1>2, <2>0, <2>a, WithAccessTyped DEF RevokeSiteGrant, Only
  <2>b. ASSUME NEW catalog \in SUBSET Scope PROVE WithCatalog(sites[s], catalog) \in SiteState
    BY <2>0 DEF WithCatalog, SiteState
  <2>3. ASSUME NEW scope \in Scopes PROVE AddSiteScope(sites, s, scope) \subseteq SiteStates
    BY <1>2, <2>0, <2>a, <2>b DEF AddSiteScope, Only, Scopes
  <2>4. ASSUME NEW scope \in Scopes PROVE RemoveSiteScope(sites, s, scope) \subseteq SiteStates
    BY <1>2, <2>0, <2>a, <2>b DEF RemoveSiteScope, Only
  <2>5. ASSUME NEW catalog \in SUBSET Scopes PROVE ReplaceSiteScopes(sites, s, catalog) \subseteq SiteStates
    BY <1>2, <2>0, <2>a, <2>b DEF ReplaceSiteScopes, Only, Scopes
  <2>6. ASSUME NEW grants \in SUBSET [email : Email, scopes : SUBSET Scopes]
        PROVE  ReplaceSiteGrants(sites, s, grants) \subseteq SiteStates
    <3>1. \A n \in NormalSite([grants |-> grants, catalog |-> sites[s].catalog]) : n \in SiteState
      BY <2>0, NormalSiteTyped DEF Scopes
    <3> QED BY <1>2, <2>a, <3>1 DEF ReplaceSiteGrants
  <2> QED BY <2>1, <2>2, <2>3, <2>4, <2>5, <2>6
<1> QED BY <1>1, <1>2

LEMMA ChangesTyped ==
    ASSUME NEW sites \in SiteStates, NEW from, NEW e \in Email, NEW changes \in PersonChanges
    PROVE  ChangePersonAccess(sites, from, e, changes) \subseteq SiteStates
<1>1. \A s \in DOMAIN changes : changes[s] \in SUBSET Scopes
  BY DEF PersonChanges, FormScopes, Scopes
<1>2. ASSUME NEW s \in Managed
      PROVE  (IF s \in DOMAIN changes THEN WithAccess(sites[s], e, changes[s]) ELSE sites[s]) \in SiteState
  BY <1>1, WithAccessTyped DEF SiteStates
<1> QED BY <1>2 DEF ChangePersonAccess, Only, SiteStates

LEMMA ImportTyped ==
    ASSUME NEW snapshot \in Snapshots, NEW from, NEW file
    PROVE  ImportedState(snapshot, from, file) \subseteq SiteStates
<1> DEFINE chosen == [s \in DOMAIN snapshot |-> CHOOSE n \in NormalSite(snapshot[s]) : TRUE]
<1>1. CASE \A s \in DOMAIN snapshot : NormalSite(snapshot[s]) # {}
  <2>1. ASSUME NEW s \in DOMAIN snapshot PROVE chosen[s] \in SiteState
    <3>1. snapshot[s] \in [grants : SUBSET [email : Email, scopes : SUBSET Scopes],
                           catalog : SUBSET Scopes]
      BY ManagerAssumption
    <3>2. \A n \in NormalSite(snapshot[s]) : n \in SiteState
      BY <3>1, NormalSiteTyped
    <3> QED BY <1>1, <3>2
  <2> QED BY <2>1, SeededTyped DEF ImportedState
<1>2. CASE ~(\A s \in DOMAIN snapshot : NormalSite(snapshot[s]) # {})
  BY <1>2 DEF ImportedState
<1> QED BY <1>1, <1>2

LEMMA ConfigTyped ==
    ASSUME NEW config \in Config
    PROVE  /\ config = [rest |-> config.rest, rules |-> config.rules]
           /\ \A s \in DOMAIN config.rules : s \in Site /\ config.rules[s] \in Access
BY DEF Config, Configs

LEMMA ReconciledTyped ==
    ASSUME NEW sites \in SiteStates, NEW config \in Config, Managed \subseteq DOMAIN config.rules
    PROVE  ReconciledState(sites, config) \in SiteStates
<1>1. \A s \in Managed : config.rules[s] \in Access
  BY ConfigTyped
<1>2. ASSUME NEW s \in Managed PROVE (UNION {config.rules[s][e] : e \in Email}) \ {Full} \subseteq Scope
  BY <1>1 DEF Access, Scopes
<1> QED BY <1>1, <1>2 DEF ReconciledState, SiteStates, SiteState

LEMMA PlanTyped ==
    ASSUME NEW sites \in SiteStates, NEW from \in Config
    PROVE  RuntimePlan(sites, from) \in Config
<1> DEFINE rules == [s \in DOMAIN from.rules |->
                       IF s \in Managed THEN sites[s].access ELSE from.rules[s]]
<1>1. PICK D \in SUBSET Site : from \in [rest : {b.rest : b \in BaseFiles}, rules : [D -> Access]]
  BY DEF Config, Configs
<1>2. rules \in [D -> Access]
  BY <1>1 DEF SiteStates, SiteState
<1>3. RuntimePlan(sites, from) = [rest |-> from.rest, rules |-> rules]
  BY DEF RuntimePlan
<1>4. RuntimePlan(sites, from) \in [rest : {b.rest : b \in BaseFiles}, rules : [D -> Access]]
  BY <1>1, <1>2, <1>3
<1> QED BY <1>4 DEF Config, Configs

-----------------------------------------------------------------------------
(* What the manager keeps and publishes *)

\* Whoever is at work has the lock.
HoldersWork == \A w \in Writer : job[w] # Idle => holder = w

\* What an apply recorded is a rendering of the base file it read.
Renders(config, from) ==
    /\ config.rest = from.rest /\ DOMAIN config.rules = DOMAIN from.rules
    /\ \A s \in (DOMAIN from.rules) \ Managed : config.rules[s] = from.rules[s]
Faithful ==
    /\ state.meta # None => Renders(state.meta.runtime, state.meta.base)
    /\ \A w \in Writer : job[w].at = "confirm" => job[w].next.meta \in {None, state.meta}

\* From its first write to the end of a publication the runtime file is the plan.
PlanWritten ==
    Never({"runtimeEdited"}) =>
        \A w \in Writer :
            /\ job[w].at \in Written => runtime = job[w].attempt.plan
            /\ job[w].at \in {"keep", "stamp", "succeed"} /\ job[w].attempt.outcome = "reloaded" => active = runtime

\* What is recorded is what is in the files, or would be after a rollback.
BeforeStamp == {"post", "restore", "keep", "stamp"}
FilesInStep ==
    Never({"baseEdited", "runtimeEdited", "crashed"}) =>
        /\ state.meta # None => state.meta.base = base
        /\ \A w \in Writer : job[w].at \in BeforeStamp \cup {"write"} =>
              /\ job[w].attempt.base = base
              /\ state.meta # None => state.meta.runtime = job[w].attempt.rollback
        /\ (\A w \in Writer : job[w].at \notin BeforeStamp) /\ state.meta # None =>
              state.meta.runtime = runtime

BeforeKeep == {"post", "restore", "keep"}
GoodKept ==
    Never({"runtimeEdited", "crashed"}) =>
        /\ lastGood = history.good
        /\ \A w \in Writer : job[w].at \in BeforeKeep \cup {"write"} =>
              job[w].attempt.rollback = history.good
        /\ (\A w \in Writer : job[w].at \notin BeforeKeep) => runtime = history.good

\* While every publication has left an event, one that says "reloaded" speaks of the
\* file the server has; after the first that left none, it may speak of another file.
Confirmed == events.apply # None /\ events.apply.outcome = "reloaded"
Resting == \A w \in Writer : job[w].at \notin Written \cup {"fail"}
Evidence ==
    Confirmed /\ Never({"failureUnrecorded", "unrecordedAgain", "runtimeEdited"}) =>
        /\ Never({"unrecorded"}) =>
              /\ Resting => runtime = events.apply.runtime /\ active = events.apply.runtime
              /\ (\A w \in Writer : job[w].at # "fail") => active \in {events.apply.runtime, runtime}
        /\ Resting /\ events.apply.runtime = runtime => active = runtime

Inv ==
    /\ StateTyped
    /\ HoldersWork
    /\ ReadStaysCurrent
    /\ Faithful
    /\ PlanWritten
    /\ FilesInStep
    /\ GoodKept
    /\ Evidence

LEMMA RenderedPlan ==
    ASSUME NEW sites, NEW from \in Config
    PROVE  Renders(RuntimePlan(sites, from), from)
BY DEF Renders, RuntimePlan

LEMMA ManagerInitInv == Init => Inv
<1> SUFFICES ASSUME Init PROVE Inv
  OBVIOUS
<1> DEFINE sites == ReconciledState(Seeded(<<>>), base)
           plan == RuntimePlan(sites, base)
<1>1. base \in BaseFiles /\ base \in Config /\ CanPlan(base)
  BY ManagerAssumption DEF Init
<1>2. Seeded(<<>>) \in SiteStates
  BY SeededTyped
<1>3. sites \in SiteStates /\ plan \in Config
  BY <1>1, <1>2, ReconciledTyped, PlanTyped DEF CanPlan
<1>4. Renders(plan, base)
  BY <1>1, RenderedPlan
<1>5. /\ lastGood = runtime /\ holder = None /\ job = [w \in Writer |-> Idle]
      /\ history = [commands |-> 0, mishaps |-> 0, good |-> runtime, happened |-> {}]
  BY DEF Init
<1>6. \/ /\ active = base /\ state = [sites |-> Seeded(<<>>), meta |-> None] /\ runtime = None
         /\ events = [sites |-> None, apply |-> None]
      \/ /\ active = plan /\ state = [sites |-> sites, meta |-> Applied(base, plan)]
         /\ runtime = plan
         /\ events = [sites |-> sites, apply |-> ApplyEvent("reloaded", plan)]
  BY DEF Init
<1> HIDE DEF sites, plan
<1>7. StateTyped
  <2>1. state \in Saved /\ runtime \in Config \cup {None} /\ active \in Config
    BY <1>1, <1>2, <1>3, <1>6 DEF Saved, SiteStates, Applied
  <2>2. events \in [sites : [Managed -> SiteState] \cup {None}, apply : ApplyEvents \cup {None}]
    <3>1. ApplyEvent("reloaded", plan) \in ApplyEvents
      BY <1>3 DEF ApplyEvent, ApplyEvents, Outcome
    <3> QED BY <1>3, <1>6, <3>1 DEF SiteStates, ApplyEvents
  <2>3. history \in Histories
    BY <1>5, <2>1, ManagerAssumption DEF Histories
  <2> QED BY <1>1, <1>5, <2>1, <2>2, <2>3 DEF StateTyped, JobTyped
<1>8. HoldersWork /\ ReadStaysCurrent /\ PlanWritten
  BY <1>5 DEF HoldersWork, ReadStaysCurrent, PlanWritten, Idle, Applying, Written
<1>9. Faithful
  BY <1>4, <1>5, <1>6 DEF Faithful, Idle, Applied
<1>10. FilesInStep /\ GoodKept
  BY <1>5, <1>6 DEF FilesInStep, GoodKept, Idle, BeforeStamp, BeforeKeep, Applied
<1>11. Evidence
  BY <1>5, <1>6 DEF Evidence, Confirmed, Resting, Idle, Written, ApplyEvent
<1> QED BY <1>7, <1>8, <1>9, <1>10, <1>11 DEF Inv

\* At most one of the two is in the middle of anything.
LEMMA Alone ==
    ASSUME Inv, NEW w \in Writer, holder = None \/ job[w] # Idle
    PROVE  /\ \A v \in Writer \ {w} : job[v] = Idle
           /\ holder = None => job[w] = Idle
BY ManagerAssumption DEF Inv, HoldersWork, Writer

LEMMA GoesOnAlone ==
    ASSUME Inv, NEW w \in Writer, holder = None \/ job[w] # Idle, NEW next, GoesOn(w, next)
    PROVE  /\ holder' = w /\ DOMAIN job' = Writer /\ job'[w] = next
           /\ \A v \in Writer \ {w} : job'[v] = Idle
BY Alone DEF Inv, StateTyped, GoesOn

LEMMA EndsAlone ==
    ASSUME Inv, NEW w \in Writer, job[w] # Idle, Ends(w)
    PROVE  holder' = None /\ DOMAIN job' = Writer /\ \A v \in Writer : job'[v] = Idle
BY Alone DEF Inv, StateTyped, Ends, HoldersWork


\* Idle, in the middle of a command line, or behind a change: not in a publication.
Unpublished == {"idle", "record", "confirm", "publish"}

LEMMA CountsTyped ==
    ASSUME Inv, Counts \/ UNCHANGED history
    PROVE  /\ history' \in Histories
           /\ history'.good = history.good /\ history'.happened = history.happened
BY ManagerAssumption DEF Inv, StateTyped, Counts, Histories

\* The saved access changes and is about to be recorded.
LEMMA SaveInv ==
    ASSUME Inv, NEW w \in Writer, holder = None \/ job[w] # Idle,
           job[w].at \in {"idle", "confirm"},
           NEW next \in Saved, Save(w, next), next.meta \in {None, state.meta},
           Counts \/ UNCHANGED history,
           UNCHANGED <<base, runtime, lastGood, active, events>>
    PROVE  Inv'
<1>1. /\ holder' = w /\ DOMAIN job' = Writer /\ job'[w] = [at |-> "record"]
      /\ \A v \in Writer \ {w} : job'[v] = Idle /\ job[v] = Idle
      /\ state' = next
  BY GoesOnAlone, Alone DEF Save
<1>2. /\ history' \in Histories
      /\ history'.good = history.good /\ history'.happened = history.happened
  BY CountsTyped
<1>3. \A v \in Writer : job'[v].at \in {"idle", "record"} /\ job[v].at \in {"idle", "confirm"}
  BY <1>1 DEF Idle
<1>4. StateTyped'
  BY <1>1, <1>2 DEF Inv, StateTyped, JobTyped
<1>5. HoldersWork'
  BY <1>1 DEF HoldersWork
<1>6. ReadStaysCurrent' /\ PlanWritten'
  BY <1>3 DEF ReadStaysCurrent, PlanWritten, Applying, Written
<1>7. Faithful'
  BY <1>1, <1>3 DEF Inv, Faithful
<1>8. FilesInStep'
  BY <1>1, <1>2, <1>3 DEF Inv, FilesInStep, BeforeStamp, Never
<1>9. GoodKept'
  BY <1>1, <1>2, <1>3 DEF Inv, GoodKept, BeforeKeep, Never
<1>10. Evidence'
  BY <1>1, <1>2, <1>3 DEF Inv, Evidence, Confirmed, Resting, Never, Written
<1> QED BY <1>4, <1>5, <1>6, <1>7, <1>8, <1>9, <1>10 DEF Inv

\* The command line has loaded the state and waits for an answer.
LEMMA WaitInv ==
    ASSUME Inv, NEW w \in Writer, Locked(w), NEW n \in Saved, n.meta \in {None, state.meta}, NEW next,
           next = [at |-> "confirm", read |-> state, next |-> n] \/ next = [at |-> "publish", read |-> state],
           GoesOn(w, next), UNCHANGED <<base, files, active, events, page>>
    PROVE  Inv'
<1>1. /\ holder' = w /\ DOMAIN job' = Writer /\ job'[w] = next
      /\ \A v \in Writer \ {w} : job'[v] = Idle
      /\ \A v \in Writer : job[v] = Idle
      /\ UNCHANGED <<base, state, runtime, lastGood, active, events>>
  BY GoesOnAlone, Alone DEF Locked, files
<1>2. /\ history' \in Histories
      /\ history'.good = history.good /\ history'.happened = history.happened
  BY CountsTyped DEF Locked
<1>3. \A v \in Writer : job'[v].at \in Unpublished /\ job[v].at = "idle"
  BY <1>1 DEF Idle, Unpublished
<1>4. StateTyped'
  BY <1>1, <1>2 DEF Inv, StateTyped, JobTyped
<1>5. HoldersWork'
  BY <1>1 DEF HoldersWork
<1>6. ReadStaysCurrent'
  BY <1>1, <1>3 DEF ReadStaysCurrent, Applying, Idle, Unpublished
<1>7. PlanWritten'
  BY <1>3 DEF PlanWritten, Written, Unpublished
<1>8. Faithful'
  BY <1>1 DEF Inv, Faithful, Idle
<1>9. FilesInStep' /\ GoodKept'
  BY <1>1, <1>2, <1>3 DEF Inv, FilesInStep, GoodKept, BeforeStamp, BeforeKeep, Never, Unpublished
<1>10. Evidence'
  BY <1>1, <1>2, <1>3 DEF Inv, Evidence, Confirmed, Resting, Never, Written, Unpublished
<1> QED BY <1>4, <1>5, <1>6, <1>7, <1>8, <1>9, <1>10 DEF Inv

LEMMA HappensTyped ==
    ASSUME Inv, NEW what \in SUBSET Misfortune, Happens(what)
    PROVE  /\ history' \in Histories /\ history'.good = history.good
           /\ history'.happened = history.happened \cup what
BY ManagerAssumption DEF Inv, StateTyped, Happens, Histories

\* Whoever is not in a publication stops; what it has saved may go unrecorded.
LEMMA StopInv ==
    ASSUME Inv, NEW w \in Writer, job[w] # Idle, job[w].at \in Unpublished, Ends(w),
           UNCHANGED <<base, files, active>>,
           events' = events \/ events' = [sites |-> state.sites, apply |-> events.apply],
           UNCHANGED history \/ Happens({"eventLost"}) \/ Happens({"crashed"})
    PROVE  Inv'
<1>1. /\ holder' = None /\ DOMAIN job' = Writer /\ \A v \in Writer : job'[v] = Idle
      /\ \A v \in Writer : job[v].at \in Unpublished
      /\ UNCHANGED <<base, state, runtime, lastGood, active>>
  BY EndsAlone, Alone DEF files, Unpublished, Idle
<1>2. /\ history' \in Histories /\ history'.good = history.good
      /\ history.happened \subseteq history'.happened
  BY HappensTyped DEF Misfortune, Inv, StateTyped
<1>3. events'.apply = events.apply /\ StateTyped'
  BY <1>1, <1>2 DEF Inv, StateTyped, JobTyped, Saved
<1>4. \A v \in Writer : job'[v].at = "idle"
  BY <1>1 DEF Idle
<1>5. HoldersWork'
  BY <1>1 DEF HoldersWork
<1>6. ReadStaysCurrent' /\ PlanWritten'
  BY <1>4 DEF ReadStaysCurrent, PlanWritten, Applying, Written
<1>7. Faithful'
  BY <1>1, <1>4 DEF Inv, Faithful
<1>8. FilesInStep' /\ GoodKept'
  BY <1>1, <1>2, <1>4 DEF Inv, FilesInStep, GoodKept, BeforeStamp, BeforeKeep, Never, Unpublished
<1>9. Evidence'
  BY <1>1, <1>2, <1>3, <1>4 DEF Inv, Evidence, Confirmed, Resting, Never, Written, Unpublished
<1> QED BY <1>3, <1>5, <1>6, <1>7, <1>8, <1>9 DEF Inv

\* An apply has read the files and either sees drift or keeps the text to fall back to.
LEMMA ApplyInv ==
    ASSUME Inv, NEW w \in Writer, holder = None \/ job[w] # Idle, job[w].at \in {"idle", "publish"},
           NEW saved, saved = state, applyManagerState(w, saved), Counts \/ UNCHANGED history
    PROVE  Inv'
<1> DEFINE rollback == IF runtime = None THEN lastGood ELSE runtime
           attempt == Attempt(state.sites, base, rollback, "published")
<1>1. /\ CanPlan(base) /\ UNCHANGED <<base, state, runtime, active, events>>
      /\ \/ GoesOn(w, [at |-> "fail", attempt |-> attempt]) /\ UNCHANGED lastGood
         \/ /\ ~BaseDrifted(state.meta, base)
            /\ lastGood' = IF rollback = None THEN lastGood ELSE rollback
            /\ GoesOn(w, [at |-> "write", attempt |-> attempt])
  BY DEF applyManagerState
<1>2. /\ attempt.sites = state.sites /\ attempt.base = base /\ attempt.rollback = rollback
      /\ AttemptTyped(attempt) /\ attempt.outcome = "published"
  <2>1. /\ state.sites \in SiteStates /\ base \in Config /\ rollback \in Config \cup {None}
    BY ManagerAssumption DEF Inv, StateTyped, Saved, SiteStates
  <2>2. RuntimePlan(state.sites, base) \in Config
    BY <2>1, PlanTyped
  <2> QED BY <1>1, <2>1, <2>2 DEF AttemptTyped, Attempt, Outcome, SiteStates
<1> HIDE DEF attempt
<1>3. /\ holder' = w /\ DOMAIN job' = Writer
      /\ \A v \in Writer \ {w} : job'[v] = Idle /\ job[v] = Idle
      /\ job'[w] = [at |-> job'[w].at, attempt |-> attempt]
      /\ \/ job'[w].at = "fail" /\ UNCHANGED lastGood
         \/ /\ job'[w].at = "write" /\ ~BaseDrifted(state.meta, base)
            /\ lastGood' = IF rollback = None THEN lastGood ELSE rollback
  BY <1>1, GoesOnAlone, Alone
<1>4. /\ history' \in Histories
      /\ history'.good = history.good /\ history'.happened = history.happened
  BY CountsTyped
<1>5. /\ \A v \in Writer : job[v].at \in {"idle", "publish"} /\ job'[v].at \in {"idle", "write", "fail"}
      /\ \A v \in Writer : job'[v].at # "idle" => v = w
  BY <1>3 DEF Idle
<1>6. StateTyped'
  BY <1>1, <1>2, <1>3, <1>4 DEF Inv, StateTyped, JobTyped
<1>7. HoldersWork'
  BY <1>3 DEF HoldersWork
<1>8. ReadStaysCurrent'
  BY <1>1, <1>2, <1>3, <1>5 DEF ReadStaysCurrent, Applying
<1>9. PlanWritten'
  BY <1>5 DEF PlanWritten, Written
<1>10. Faithful'
  BY <1>1, <1>5 DEF Inv, Faithful
<1>11. FilesInStep'
  <2>1. state.meta # None => state.meta.runtime \in Config
    BY DEF Inv, StateTyped, Saved
  <2> QED BY <1>1, <1>2, <1>3, <1>4, <1>5, <2>1, ManagerAssumption
       DEF Inv, FilesInStep, BeforeStamp, Never, BaseDrifted
<1>12. GoodKept'
  BY <1>1, <1>2, <1>3, <1>4, <1>5 DEF Inv, GoodKept, BeforeKeep, Never
<1>13. Evidence'
  BY <1>1, <1>3, <1>4, <1>5 DEF Inv, Evidence, Confirmed, Resting, Never, Written
<1> QED BY <1>6, <1>7, <1>8, <1>9, <1>10, <1>11, <1>12, <1>13 DEF Inv

\* One more step of a publication.
LEMMA StepAlone ==
    ASSUME Inv, NEW w \in Writer, NEW from \in Written \cup {"write"}, NEW to \in Written \cup {"fail"},
           Step(w, from, to)
    PROVE  /\ job[w].at = from /\ AttemptTyped(job[w].attempt) /\ job[w] # Idle /\ holder = w
           /\ from = "write" => job[w].attempt.outcome = "published"
           /\ holder' = w /\ DOMAIN job' = Writer /\ job'[w] = [at |-> to, attempt |-> job[w].attempt]
           /\ \A v \in Writer \ {w} : job'[v] = Idle /\ job[v] = Idle
           /\ \A v \in Writer : JobTyped(job'[v])
<1>1. job[w].at = from /\ GoesOn(w, [at |-> to, attempt |-> job[w].attempt])
  BY DEF Step
<1>2. JobTyped(job[w]) /\ from \notin {"idle", "record", "confirm", "publish"}
  BY DEF Inv, StateTyped, Written
<1>3. AttemptTyped(job[w].attempt) /\ job[w] # Idle /\ (from = "write" => job[w].attempt.outcome = "published")
  BY <1>1, <1>2 DEF JobTyped, Idle
<1>4. holder = w
  BY <1>3 DEF Inv, HoldersWork
<1>5. /\ holder' = w /\ DOMAIN job' = Writer /\ job'[w] = [at |-> to, attempt |-> job[w].attempt]
      /\ \A v \in Writer \ {w} : job'[v] = Idle /\ job[v] = Idle
  BY <1>1, <1>3, GoesOnAlone, Alone
<1>6. JobTyped([at |-> to, attempt |-> job[w].attempt])
  BY <1>3 DEF JobTyped, Written
<1>7. JobTyped(Idle)
  BY DEF JobTyped
<1> QED BY <1>1, <1>3, <1>4, <1>5, <1>6, <1>7

LEMMA WriteRuntimeInv == ASSUME Inv, NEW w \in Writer, WriteRuntime(w) PROVE Inv'
<1> DEFINE to == IF w \in Reloading THEN "post" ELSE "keep"
<1>1. /\ Step(w, "write", to) /\ to \in {"post", "keep"} /\ runtime' = job[w].attempt.plan
      /\ UNCHANGED <<base, state, lastGood, active, events, history>>
  BY DEF WriteRuntime
<1> HIDE DEF to
<1>2. /\ job[w].at = "write" /\ AttemptTyped(job[w].attempt) /\ job[w].attempt.outcome = "published"
      /\ holder' = w /\ DOMAIN job' = Writer /\ job'[w] = [at |-> to, attempt |-> job[w].attempt]
      /\ \A v \in Writer \ {w} : job'[v] = Idle /\ job[v] = Idle
      /\ \A v \in Writer : JobTyped(job'[v])
  BY <1>1, StepAlone DEF Written
<1>3. \A v \in Writer \ {w} : job'[v].at = "idle" /\ job[v].at = "idle"
  BY <1>2 DEF Idle
<1>4. StateTyped'
  BY <1>1, <1>2 DEF Inv, StateTyped, AttemptTyped
<1>5. HoldersWork'
  BY <1>2 DEF HoldersWork
<1>6. ReadStaysCurrent'
  BY <1>1, <1>2, <1>3 DEF Inv, ReadStaysCurrent, Applying
<1>7. PlanWritten'
  BY <1>1, <1>2, <1>3 DEF PlanWritten, Written
<1>8. Faithful'
  BY <1>1, <1>2, <1>3 DEF Inv, Faithful
<1>9. FilesInStep' /\ GoodKept'
  BY <1>1, <1>2, <1>3 DEF Inv, FilesInStep, GoodKept, BeforeStamp, BeforeKeep, Never
<1>10. Evidence'
  BY <1>1, <1>2, <1>3 DEF Inv, Evidence, Confirmed, Resting, Never, Written
<1> QED BY <1>4, <1>5, <1>6, <1>7, <1>8, <1>9, <1>10 DEF Inv

LEMMA NotReloadedInv == ASSUME Inv, NEW w \in Writer, NotReloaded(w) PROVE Inv'
<1>1. /\ Step(w, "post", "restore")
      /\ active' = active \/ (CanReload(active, runtime) /\ active' = runtime)
      /\ UNCHANGED <<base, state, runtime, lastGood, events, history>>
  BY DEF NotReloaded, files
<1>2. /\ job[w].at = "post" /\ AttemptTyped(job[w].attempt)
      /\ holder' = w /\ DOMAIN job' = Writer /\ job'[w] = [at |-> "restore", attempt |-> job[w].attempt]
      /\ \A v \in Writer \ {w} : job'[v] = Idle /\ job[v] = Idle
      /\ \A v \in Writer : JobTyped(job'[v])
  BY <1>1, StepAlone DEF Written
<1>3. \A v \in Writer \ {w} : job'[v].at = "idle" /\ job[v].at = "idle"
  BY <1>2 DEF Idle
<1>4. StateTyped'
  BY <1>1, <1>2 DEF Inv, StateTyped, CanReload
<1>5. HoldersWork'
  BY <1>2 DEF HoldersWork
<1>6. ReadStaysCurrent'
  BY <1>1, <1>2, <1>3 DEF Inv, ReadStaysCurrent, Applying
<1>7. PlanWritten'
  BY <1>1, <1>2, <1>3 DEF Inv, PlanWritten, Written, Never
<1>8. Faithful'
  BY <1>1, <1>2, <1>3 DEF Inv, Faithful
<1>9. FilesInStep'
  BY <1>1, <1>2, <1>3 DEF Inv, FilesInStep, PlanWritten, BeforeStamp, Written, Never
<1>10. GoodKept'
  BY <1>1, <1>2, <1>3 DEF Inv, GoodKept, PlanWritten, BeforeKeep, Written, Never
<1>11. Evidence'
  BY <1>1, <1>2, <1>3 DEF Inv, Evidence, Confirmed, Resting, Never, Written
<1> QED BY <1>4, <1>5, <1>6, <1>7, <1>8, <1>9, <1>10, <1>11 DEF Inv

LEMMA RestoreInv == ASSUME Inv, NEW w \in Writer, Restore(w) PROVE Inv'
<1>1. /\ Step(w, "restore", "fail")
      /\ runtime' = job[w].attempt.rollback
      /\ UNCHANGED <<base, state, lastGood, active, events, history>>
  BY DEF Restore
<1>2. /\ job[w].at = "restore" /\ AttemptTyped(job[w].attempt)
      /\ holder' = w /\ DOMAIN job' = Writer /\ job'[w] = [at |-> "fail", attempt |-> job[w].attempt]
      /\ \A v \in Writer \ {w} : job'[v] = Idle /\ job[v] = Idle
      /\ \A v \in Writer : JobTyped(job'[v])
  BY <1>1, StepAlone DEF Written
<1>3. \A v \in Writer \ {w} : job'[v].at = "idle" /\ job[v].at = "idle"
  BY <1>2 DEF Idle
<1>4. StateTyped'
  BY <1>1, <1>2 DEF Inv, StateTyped, AttemptTyped
<1>5. HoldersWork'
  BY <1>2 DEF HoldersWork
<1>6. ReadStaysCurrent'
  BY <1>1, <1>2, <1>3 DEF Inv, ReadStaysCurrent, Applying
<1>7. PlanWritten'
  BY <1>1, <1>2, <1>3 DEF Inv, PlanWritten, Written, Never
<1>8. Faithful'
  BY <1>1, <1>2, <1>3 DEF Inv, Faithful
<1>9. FilesInStep'
  BY <1>1, <1>2, <1>3 DEF Inv, FilesInStep, PlanWritten, BeforeStamp, Written, Never
<1>10. GoodKept'
  BY <1>1, <1>2, <1>3 DEF Inv, GoodKept, PlanWritten, BeforeKeep, Written, Never
<1>11. Evidence'
  BY <1>1, <1>2, <1>3 DEF Inv, Evidence, Confirmed, Resting, Never, Written
<1> QED BY <1>4, <1>5, <1>6, <1>7, <1>8, <1>9, <1>10, <1>11 DEF Inv

LEMMA KeepGoodInv == ASSUME Inv, NEW w \in Writer, KeepGood(w) PROVE Inv'
<1>1. /\ Step(w, "keep", "stamp")
      /\ lastGood' = job[w].attempt.plan
      /\ history' = [commands |-> history.commands, mishaps |-> history.mishaps,
                     good |-> job[w].attempt.plan, happened |-> history.happened]
      /\ UNCHANGED <<base, state, runtime, active, events>>
  BY DEF KeepGood, Good
<1>2. /\ job[w].at = "keep" /\ AttemptTyped(job[w].attempt)
      /\ holder' = w /\ DOMAIN job' = Writer /\ job'[w] = [at |-> "stamp", attempt |-> job[w].attempt]
      /\ \A v \in Writer \ {w} : job'[v] = Idle /\ job[v] = Idle
      /\ \A v \in Writer : JobTyped(job'[v])
  BY <1>1, StepAlone DEF Written
<1>3. \A v \in Writer \ {w} : job'[v].at = "idle" /\ job[v].at = "idle"
  BY <1>2 DEF Idle
<1>4. StateTyped'
  BY <1>1, <1>2 DEF Inv, StateTyped, AttemptTyped, Histories
<1>5. HoldersWork'
  BY <1>2 DEF HoldersWork
<1>6. ReadStaysCurrent'
  BY <1>1, <1>2, <1>3 DEF Inv, ReadStaysCurrent, Applying
<1>7. PlanWritten'
  BY <1>1, <1>2, <1>3 DEF Inv, PlanWritten, Written, Never
<1>8. Faithful'
  BY <1>1, <1>2, <1>3 DEF Inv, Faithful
<1>9. FilesInStep'
  BY <1>1, <1>2, <1>3 DEF Inv, FilesInStep, PlanWritten, BeforeStamp, Written, Never
<1>10. GoodKept'
  BY <1>1, <1>2, <1>3 DEF Inv, GoodKept, PlanWritten, BeforeKeep, Written, Never
<1>11. Evidence'
  BY <1>1, <1>2, <1>3 DEF Inv, Evidence, Confirmed, Resting, Never, Written
<1> QED BY <1>4, <1>5, <1>6, <1>7, <1>8, <1>9, <1>10, <1>11 DEF Inv

LEMMA StampInv == ASSUME Inv, NEW w \in Writer, Stamp(w) PROVE Inv'
<1>1. /\ Step(w, "stamp", "succeed")
      /\ state' = [sites |-> job[w].attempt.sites,
                   meta |-> Applied(job[w].attempt.base, job[w].attempt.plan)]
      /\ UNCHANGED <<base, runtime, lastGood, active, events, history>>
  BY DEF Stamp
<1>2. /\ job[w].at = "stamp" /\ AttemptTyped(job[w].attempt)
      /\ holder' = w /\ DOMAIN job' = Writer /\ job'[w] = [at |-> "succeed", attempt |-> job[w].attempt]
      /\ \A v \in Writer \ {w} : job'[v] = Idle /\ job[v] = Idle
      /\ \A v \in Writer : JobTyped(job'[v])
  BY <1>1, StepAlone DEF Written
<1>3. \A v \in Writer \ {w} : job'[v].at = "idle" /\ job[v].at = "idle"
  BY <1>2 DEF Idle
<1>4. StateTyped'
  <2>1. Applied(job[w].attempt.base, job[w].attempt.plan) \in [base : Config, runtime : Config]
    BY <1>2 DEF AttemptTyped, Applied
  <2>2. state' \in Saved
    BY <1>1, <1>2, <2>1 DEF AttemptTyped, Saved
  <2> QED BY <1>1, <1>2, <2>2 DEF Inv, StateTyped
<1>5. HoldersWork'
  BY <1>2 DEF HoldersWork
<1>6. ReadStaysCurrent'
  BY <1>1, <1>2, <1>3 DEF Inv, ReadStaysCurrent, Applying
<1>7. PlanWritten'
  BY <1>1, <1>2, <1>3 DEF Inv, PlanWritten, Written, Never
<1>8. Faithful'
  <2>1. Renders(state'.meta.runtime, state'.meta.base)
    BY <1>1, <1>2, RenderedPlan DEF AttemptTyped, Applied
  <2> QED BY <1>2, <1>3, <2>1 DEF Faithful
<1>9. FilesInStep'
  BY <1>1, <1>2, <1>3 DEF Inv, FilesInStep, PlanWritten, BeforeStamp, Written, Never, Applied
<1>10. GoodKept'
  BY <1>1, <1>2, <1>3 DEF Inv, GoodKept, PlanWritten, BeforeKeep, Written, Never
<1>11. Evidence'
  BY <1>1, <1>2, <1>3 DEF Inv, Evidence, Confirmed, Resting, Never, Written
<1> QED BY <1>4, <1>5, <1>6, <1>7, <1>8, <1>9, <1>10, <1>11 DEF Inv

LEMMA ReloadedInv == ASSUME Inv, NEW w \in Writer, Reloaded(w) PROVE Inv'
<1> DEFINE old == job[w].attempt
           attempt == Attempt(old.sites, old.base, old.rollback, "reloaded")
<1>1. /\ job[w].at = "post" /\ runtime # None /\ active' = runtime
      /\ GoesOn(w, [at |-> "keep", attempt |-> attempt])
      /\ UNCHANGED <<base, state, runtime, lastGood, events, history>>
  BY DEF Reloaded, CanReload, files
<1>2. job[w] # Idle /\ AttemptTyped(old)
  BY <1>1 DEF Inv, StateTyped, JobTyped, Idle
<1>3. /\ holder' = w /\ DOMAIN job' = Writer /\ job'[w] = [at |-> "keep", attempt |-> attempt]
      /\ \A v \in Writer \ {w} : job'[v] = Idle /\ job[v] = Idle
  BY <1>1, <1>2, GoesOnAlone, Alone
<1>4. /\ attempt.sites = old.sites /\ attempt.base = old.base /\ attempt.rollback = old.rollback
      /\ attempt.plan = old.plan /\ AttemptTyped(attempt)
  BY <1>2 DEF AttemptTyped, Attempt, Outcome
<1> HIDE DEF attempt
<1>5. \A v \in Writer \ {w} : job'[v].at = "idle" /\ job[v].at = "idle"
  BY <1>3 DEF Idle
<1>6. StateTyped'
  BY <1>1, <1>3, <1>4 DEF Inv, StateTyped, JobTyped, Written
<1>7. HoldersWork'
  BY <1>3 DEF HoldersWork
<1>8. ReadStaysCurrent'
  BY <1>1, <1>3, <1>4, <1>5 DEF Inv, ReadStaysCurrent, Applying
<1>9. PlanWritten'
  BY <1>1, <1>3, <1>4, <1>5 DEF Inv, PlanWritten, Written, Never
<1>10. Faithful'
  BY <1>1, <1>3, <1>5 DEF Inv, Faithful
<1>11. FilesInStep' /\ GoodKept'
  BY <1>1, <1>3, <1>4, <1>5 DEF Inv, FilesInStep, GoodKept, BeforeStamp, BeforeKeep, Never
<1>12. Evidence'
  BY <1>1, <1>3, <1>5 DEF Inv, Evidence, Confirmed, Resting, Never, Written
<1> QED BY <1>6, <1>7, <1>8, <1>9, <1>10, <1>11, <1>12 DEF Inv

\* A publication is over, with or without an event.
LEMMA OverInv ==
    ASSUME Inv, NEW w \in Writer, job[w].at \in Written \cup {"write", "fail"}, Ends(w),
           UNCHANGED <<base, files, active>>, events' \in [sites : SiteStates \cup {None}, apply : ApplyEvents \cup {None}],
           history' \in Histories, history'.good = history.good,
           history.happened \subseteq history'.happened,
           job[w].at \in BeforeStamp => "crashed" \in history'.happened,
           Evidence'
    PROVE  Inv'
<1>1. job[w] # Idle
  BY DEF Idle, Written
<1>2. /\ holder' = None /\ DOMAIN job' = Writer /\ \A v \in Writer : job'[v] = Idle
      /\ \A v \in Writer \ {w} : job[v] = Idle
      /\ UNCHANGED <<base, state, runtime, lastGood, active>>
  BY <1>1, EndsAlone, Alone DEF files
<1>3. /\ \A v \in Writer : job'[v].at = "idle"
      /\ \A v \in Writer \ {w} : job[v].at = "idle"
  BY <1>2 DEF Idle
<1>4. StateTyped'
  BY <1>2 DEF Inv, StateTyped, JobTyped, SiteStates
<1>5. HoldersWork'
  BY <1>2 DEF HoldersWork
<1>6. ReadStaysCurrent' /\ PlanWritten'
  BY <1>3 DEF ReadStaysCurrent, PlanWritten, Applying, Written
<1>7. Faithful'
  BY <1>2, <1>3 DEF Inv, Faithful
<1>8. FilesInStep' /\ GoodKept'
  BY <1>2, <1>3 DEF Inv, FilesInStep, GoodKept, BeforeStamp, BeforeKeep, Never
<1> QED BY <1>4, <1>5, <1>6, <1>7, <1>8 DEF Inv

\* The event of a publication that has written the file is lost, or never written.
LEMMA UnrecordedEvidence ==
    ASSUME Inv, NEW w \in Writer, job[w].at \in Written, Ends(w),
           UNCHANGED <<runtime, active, events>>,
           NEW what, Unrecorded \subseteq what, history'.happened = history.happened \cup what
    PROVE  Evidence'
<1>1. job[w] # Idle
  BY DEF Idle, Written
<1>2. \A v \in Writer : job[v].at # "fail"
  BY <1>1, Alone DEF Idle, Written
<1>3. /\ "unrecorded" \in history'.happened
      /\ "unrecordedAgain" \notin history'.happened => Never({"unrecorded"})
  BY DEF Unrecorded, Never
<1> QED BY <1>2, <1>3 DEF Inv, Evidence, Confirmed, Never

LEMMA SucceedInv == ASSUME Inv, NEW w \in Writer, Succeed(w) PROVE Inv'
<1> DEFINE attempt == job[w].attempt
           told == [sites |-> attempt.sites, apply |-> ApplyEvent(attempt.outcome, attempt.plan)]
           what == {"eventLost"} \cup Unrecorded
<1>1. /\ job[w].at = "succeed" /\ Ends(w) /\ UNCHANGED <<base, files, active>>
      /\ \/ events' = told /\ UNCHANGED history
         \/ Happens(what) /\ UNCHANGED events
  BY DEF Succeed
<1>2. AttemptTyped(attempt) /\ job[w] # Idle
  BY <1>1 DEF Inv, StateTyped, JobTyped, Written, Idle
<1>3. what \subseteq Misfortune
  BY DEF Unrecorded, Misfortune
<1> HIDE DEF what
<1>4. /\ history' \in Histories /\ history'.good = history.good
      /\ history.happened \subseteq history'.happened
  BY <1>1, <1>3, HappensTyped DEF Inv, StateTyped
<1>5. CASE events' = told /\ UNCHANGED history
  <2>1. /\ events'.apply = ApplyEvent(attempt.outcome, attempt.plan) /\ events'.sites = attempt.sites
        /\ events' = [sites |-> events'.sites, apply |-> events'.apply]
    BY <1>5
  <2>2. events'.apply \in ApplyEvents /\ events'.sites \in SiteStates
    BY <1>2, <2>1 DEF AttemptTyped, ApplyEvent, ApplyEvents, SiteStates
  <2>3. Evidence'
    BY <1>1, <1>5, <2>1 DEF Inv, Evidence, Confirmed, PlanWritten, Written, Never, ApplyEvent, files
  <2>4. events' \in [sites : SiteStates \cup {None}, apply : ApplyEvents \cup {None}]
    BY <2>1, <2>2
  <2> QED BY <1>1, <1>4, <2>3, <2>4, OverInv DEF BeforeStamp, Written
<1>6. CASE Happens(what) /\ UNCHANGED events
  <2>1. history'.happened = history.happened \cup what
    BY <1>3, <1>6, HappensTyped
  <2>2. Evidence'
    BY <1>1, <1>6, <2>1, UnrecordedEvidence DEF Written, files, what
  <2> QED BY <1>1, <1>4, <1>6, <2>2, OverInv DEF BeforeStamp, Written, Inv, StateTyped, SiteStates
<1> QED BY <1>1, <1>5, <1>6

LEMMA FailInv == ASSUME Inv, NEW w \in Writer, Fail(w) PROVE Inv'
<1> DEFINE attempt == job[w].attempt
           told == [sites |-> attempt.sites, apply |-> ApplyEvent("failed", attempt.plan)]
<1>1. /\ job[w].at = "fail" /\ Ends(w) /\ UNCHANGED <<base, files, active>>
      /\ \/ events' = told /\ UNCHANGED history
         \/ Happens({"failureUnrecorded"}) /\ UNCHANGED events
  BY DEF Fail
<1>2. AttemptTyped(attempt)
  BY <1>1 DEF Inv, StateTyped, JobTyped, Written, Idle
<1>3. /\ history' \in Histories /\ history'.good = history.good
      /\ history.happened \subseteq history'.happened
      /\ events' = events => history'.happened = history.happened \cup {"failureUnrecorded"} \/ events' = told
  BY <1>1, HappensTyped DEF Inv, StateTyped, Misfortune
<1>4. CASE events' = told
  <2>1. /\ events'.apply = ApplyEvent("failed", attempt.plan) /\ events'.sites = attempt.sites
        /\ events' = [sites |-> events'.sites, apply |-> events'.apply]
    BY <1>4
  <2>2. events'.apply \in ApplyEvents /\ events'.sites \in SiteStates /\ events'.apply.outcome = "failed"
    BY <1>2, <2>1 DEF AttemptTyped, ApplyEvent, ApplyEvents, SiteStates
  <2>3. Evidence'
    BY <2>2 DEF Evidence, Confirmed
  <2>4. events' \in [sites : SiteStates \cup {None}, apply : ApplyEvents \cup {None}]
    BY <2>1, <2>2
  <2> QED BY <1>1, <1>3, <2>3, <2>4, OverInv DEF BeforeStamp
<1>5. CASE events' # told
  <2>1. UNCHANGED events /\ "failureUnrecorded" \in history'.happened
    BY <1>1, <1>3, <1>5
  <2>2. Evidence'
    BY <2>1 DEF Evidence, Never
  <2> QED BY <1>1, <1>3, <2>1, <2>2, OverInv DEF BeforeStamp, Inv, StateTyped, SiteStates
<1> QED BY <1>4, <1>5

LEMMA CrashInv == ASSUME Inv, NEW w \in Writer, Crash(w) PROVE Inv'
<1> DEFINE what == CASE job[w].at = "fail" -> {"failureUnrecorded"}
                     [] job[w].at \in Written -> {"crashed"} \cup Unrecorded
                     [] OTHER -> {"crashed"}
<1>1. /\ job[w] # Idle /\ Happens(what) /\ Ends(w)
      /\ UNCHANGED <<base, files, active, events>>
  BY DEF Crash
<1>2. job[w].at \in Unpublished \cup Written \cup {"write", "fail"}
  BY DEF Inv, StateTyped, JobTyped, Unpublished, Idle
<1>3. /\ job[w].at = "fail" => what = {"failureUnrecorded"}
      /\ job[w].at \in Written => what = {"crashed"} \cup Unrecorded
      /\ job[w].at \in Unpublished \cup {"write"} => what = {"crashed"}
  BY DEF Written, Unpublished
<1>4. what \subseteq Misfortune
  BY DEF Unrecorded, Misfortune
<1> HIDE DEF what
<1>5. /\ history' \in Histories /\ history'.good = history.good
      /\ history'.happened = history.happened \cup what
  BY <1>1, <1>4, HappensTyped
<1>6. CASE job[w].at \in Unpublished
  BY <1>1, <1>3, <1>6, StopInv
<1>7. CASE job[w].at \in Written \cup {"write", "fail"}
  <2>1. Evidence'
    <3>1. CASE job[w].at \in Written
      BY <1>1, <1>3, <1>5, <3>1, UnrecordedEvidence DEF files
    <3>2. CASE job[w].at = "fail"
      BY <1>3, <1>5, <3>2 DEF Evidence, Never
    <3>3. CASE job[w].at = "write"
      <4>1. \A v \in Writer : job[v].at \in {"idle", "write"}
        BY <1>1, <3>3, Alone DEF Idle
      <4> QED BY <1>1, <1>5, <4>1 DEF Inv, Evidence, Confirmed, Resting, Never, Written, files
    <3> QED BY <1>7, <3>1, <3>2, <3>3
  <2>2. job[w].at \in BeforeStamp => "crashed" \in history'.happened
    BY <1>3, <1>5 DEF BeforeStamp, Written
  <2> QED BY <1>1, <1>5, <1>7, <2>1, <2>2, OverInv DEF Inv, StateTyped, SiteStates
<1> QED BY <1>2, <1>6, <1>7

\* Somebody edits a file, or the server reloads: nobody's work goes on.
LEMMA OutsideInv == ASSUME Inv, Outside PROVE Inv'
<1>1. UNCHANGED <<state, lastGood, events, holder, job>>
  BY DEF Outside, ServerReload, EditBase, EditRuntime, files
<1>2. HoldersWork' /\ ReadStaysCurrent' /\ Faithful'
  BY <1>1 DEF Inv, HoldersWork, ReadStaysCurrent, Faithful
<1>3. CASE ServerReload
  <2>1. /\ runtime # None /\ active' = runtime /\ UNCHANGED <<base, runtime, history>>
    BY <1>3 DEF ServerReload, CanReload, files
  <2>2. StateTyped'
    BY <1>1, <2>1 DEF Inv, StateTyped
  <2>3. PlanWritten' /\ FilesInStep' /\ GoodKept'
    BY <1>1, <2>1 DEF Inv, PlanWritten, FilesInStep, GoodKept, Never
  <2>4. Evidence'
    BY <1>1, <2>1 DEF Inv, Evidence, Confirmed, Resting, Never
  <2> QED BY <1>2, <2>2, <2>3, <2>4 DEF Inv
<1>4. CASE EditBase
  <2>1. /\ base' \in BaseFiles /\ UNCHANGED <<runtime, active>> /\ Happens({"baseEdited"})
    BY <1>4 DEF EditBase, files
  <2>2. /\ history' \in Histories /\ history'.good = history.good
        /\ history'.happened = history.happened \cup {"baseEdited"}
    BY <2>1, HappensTyped DEF Misfortune
  <2>3. StateTyped'
    BY <1>1, <2>1, <2>2 DEF Inv, StateTyped
  <2>4. PlanWritten' /\ FilesInStep' /\ GoodKept'
    BY <1>1, <2>1, <2>2 DEF Inv, PlanWritten, FilesInStep, GoodKept, Never
  <2>5. Evidence'
    BY <1>1, <2>1, <2>2 DEF Inv, Evidence, Confirmed, Resting, Never
  <2> QED BY <1>2, <2>3, <2>4, <2>5 DEF Inv
<1>5. CASE EditRuntime
  <2>1. /\ runtime' \in Config \cup {None} /\ UNCHANGED <<base, active>> /\ Happens({"runtimeEdited"})
    BY <1>5, ManagerAssumption DEF EditRuntime
  <2>2. /\ history' \in Histories /\ "runtimeEdited" \in history'.happened
    BY <2>1, HappensTyped DEF Misfortune
  <2>3. StateTyped'
    BY <1>1, <2>1, <2>2 DEF Inv, StateTyped
  <2>4. PlanWritten' /\ FilesInStep' /\ GoodKept' /\ Evidence'
    BY <2>2 DEF PlanWritten, FilesInStep, GoodKept, Evidence, Never
  <2> QED BY <1>2, <2>3, <2>4 DEF Inv
<1> QED BY <1>3, <1>4, <1>5 DEF Outside

\* A saved access, with the apply metadata kept or reset.
LEMMA SavedTyped ==
    ASSUME Inv, NEW sites \in SiteStates
    PROVE  /\ WithSites(sites) \in Saved /\ WithSites(sites).meta = state.meta
           /\ Reset(sites) \in Saved /\ Reset(sites).meta = None
BY DEF Inv, StateTyped, Saved, WithSites, Reset, SiteStates

LEMMA MutationInv ==
    ASSUME Inv, NEW results \in SUBSET SiteStates,
           respondWithSiteMutation(results) \/ UiMutation(results) \/ Replace(results) \/ CliSaves(results)
    PROVE  Inv'
<1>1. PICK w \in Writer, sites \in results :
        /\ Locked(w) /\ (Save(w, WithSites(sites)) \/ Save(w, Reset(sites)))
        /\ UNCHANGED <<base, runtime, lastGood, active, events>>
  BY DEF respondWithSiteMutation, UiMutation, Replace, CliSaves, Writer
<1>2. holder = None /\ job[w].at = "idle" /\ Counts
  BY <1>1 DEF Locked, Idle
<1> QED BY <1>1, <1>2, SavedTyped, SaveInv

LEMMA PromptInv ==
    ASSUME Inv, NEW results, \A next \in results : next \in Saved /\ next.meta \in {None, state.meta},
           CliPrompts(results)
    PROVE  Inv'
<1>1. PICK next \in results :
        /\ Locked(Cli) /\ GoesOn(Cli, [at |-> "confirm", read |-> state, next |-> next])
        /\ UNCHANGED <<base, files, active, events, page>>
  BY DEF CliPrompts
<1> QED BY <1>1, WaitInv DEF Writer

LEMMA ScopesTyped == RequestedScopes \subseteq SUBSET Scopes /\ FormScopes \subseteq SUBSET Scopes
BY DEF RequestedScopes, parseScopes, Only, FormScopes, Scopes

\* What reconciliation and import may return.
LEMMA SourcesTyped ==
    ASSUME Inv
    PROVE  /\ \A source \in Source : Reconciled(state.sites, source, base, runtime) \subseteq SiteStates
           /\ \A snapshot \in Snapshots : ImportedState(snapshot, base, runtime) \subseteq SiteStates
<1>1. state.sites \in SiteStates /\ base \in Config /\ runtime \in Config \cup {None}
  BY ManagerAssumption DEF Inv, StateTyped, Saved, SiteStates
<1>2. ASSUME NEW source \in Source PROVE Reconciled(state.sites, source, base, runtime) \subseteq SiteStates
  <2>1. CASE source = None \/ ~CanCompare(source)
    BY <2>1 DEF Reconciled, Only
  <2>2. CASE source # None /\ CanCompare(source)
    <3>1. source \in Config /\ Managed \subseteq DOMAIN source.rules
      BY <1>1, <2>2 DEF Source, CanCompare
    <3>2. ReconciledState(state.sites, source) \in SiteStates
      BY <1>1, <3>1, ReconciledTyped
    <3> QED BY <3>2 DEF Reconciled, Only
  <2> QED BY <2>1, <2>2
<1> QED BY <1>2, ImportTyped

LEMMA ApiRequestInv == ASSUME Inv, ApiRequest PROVE Inv'
<1>0. state.sites \in SiteStates
  BY DEF Inv, StateTyped, Saved, SiteStates
<1>1. ASSUME NEW s \in Site, NEW grants \in SUBSET [email : Email, scopes : RequestedScopes],
             respondWithSiteMutation(ReplaceSiteGrants(state.sites, s, grants))
      PROVE  Inv'
  <2>1. grants \in SUBSET [email : Email, scopes : SUBSET Scopes]
    BY ScopesTyped
  <2> QED BY <1>0, <1>1, <2>1, OperationsTyped, MutationInv
<1>2. ASSUME NEW s \in Site, NEW e \in Email, NEW scopes \in RequestedScopes,
             respondWithSiteMutation(UpdateSiteGrant(state.sites, s, e, scopes))
      PROVE  Inv'
  BY <1>0, <1>2, ScopesTyped, OperationsTyped, MutationInv
<1>3. ASSUME NEW s \in Site, NEW e \in Email, respondWithSiteMutation(RevokeSiteGrant(state.sites, s, e))
      PROVE  Inv'
  BY <1>0, <1>3, OperationsTyped, MutationInv
<1>4. ASSUME NEW s \in Site, NEW catalog \in SUBSET Scopes,
             respondWithSiteMutation(ReplaceSiteScopes(state.sites, s, catalog))
      PROVE  Inv'
  BY <1>0, <1>4, OperationsTyped, MutationInv
<1>5. ASSUME NEW s \in Site, NEW scope \in Scopes,
             \/ respondWithSiteMutation(AddSiteScope(state.sites, s, scope))
             \/ respondWithSiteMutation(RemoveSiteScope(state.sites, s, scope))
      PROVE  Inv'
  BY <1>0, <1>5, OperationsTyped, MutationInv
<1>6. CASE ApiImport \/ ApiReconcile
  BY <1>6, SourcesTyped, MutationInv DEF ApiImport, ApiReconcile
<1>7. CASE ApiApply
  <2>1. /\ holder = None /\ job[Ui].at = "idle" /\ Counts /\ applyManagerState(Ui, state)
    BY <1>7 DEF ApiApply, Locked, Idle
  <2> QED BY <2>1, ApplyInv DEF Writer
<1> QED BY <1>1, <1>2, <1>3, <1>4, <1>5, <1>6, <1>7
     DEF ApiRequest, ApiReplaceAccess, ApiPostGrant, ApiPatchGrant, ApiDeleteGrant,
         ApiReplaceScopes, ApiPostScope, ApiDeleteScope

\* Only the page changes.
LEMMA PageInv ==
    ASSUME Inv, UNCHANGED <<base, state, runtime, lastGood, active, events, holder, job, history>>
    PROVE  Inv'
BY DEF Inv, StateTyped, HoldersWork, ReadStaysCurrent, Faithful, PlanWritten, FilesInStep, GoodKept,
       Evidence, Confirmed, Resting, Never

LEMMA PageRequestInv == ASSUME Inv, PageTyped, PageRequest PROVE Inv'
<1>0. state.sites \in SiteStates
  BY DEF Inv, StateTyped, Saved, SiteStates
<1>1. ASSUME NEW s \in Site, NEW e \in Email, NEW scopes \in FormScopes,
             UiMutation(UpdateSiteGrant(state.sites, s, e, scopes))
      PROVE  Inv'
  BY <1>0, <1>1, ScopesTyped, OperationsTyped, MutationInv
<1>2. ASSUME NEW s \in Site, NEW e \in Email, UiMutation(RevokeSiteGrant(state.sites, s, e))
      PROVE  Inv'
  BY <1>0, <1>2, OperationsTyped, MutationInv
<1>3. ASSUME NEW s \in Site, NEW scope \in Scopes,
             \/ UiMutation(AddSiteScope(state.sites, s, scope))
             \/ UiMutation(RemoveSiteScope(state.sites, s, scope))
      PROVE  Inv'
  BY <1>0, <1>3, OperationsTyped, MutationInv
<1>4. CASE PersonPreview \/ DiffPage
  BY <1>4, PageInv DEF PersonPreview, DiffPage, files
<1>5. CASE PersonSave
  <2>1. PICK sites \in ChangePersonAccess(state.sites, base, page.email, page.changes) :
             Save(Ui, WithSites(sites))
    BY <1>5 DEF PersonSave
  <2>2. /\ holder = None /\ job[Ui].at = "idle" /\ Counts
        /\ UNCHANGED <<base, runtime, lastGood, active, events>>
    BY <1>5 DEF PersonSave, Locked, Idle
  <2>3. sites \in SiteStates
    <3>1. page.email \in Email /\ page.changes \in PersonChanges
      BY <1>5 DEF PersonSave, PageTyped
    <3> QED BY <1>0, <2>1, <3>1, ChangesTyped
  <2> QED BY <2>1, <2>2, <2>3, SavedTyped, SaveInv DEF Writer
<1>6. CASE UiImport \/ UiReconcile
  BY <1>6, SourcesTyped, MutationInv DEF UiImport, UiReconcile
<1>7. CASE UiApply
  <2>1. /\ holder = None /\ job[Ui].at = "idle" /\ Counts /\ applyManagerState(Ui, state)
    BY <1>7 DEF UiApply, Locked, Idle
  <2> QED BY <2>1, ApplyInv DEF Writer
<1> QED BY <1>1, <1>2, <1>3, <1>4, <1>5, <1>6, <1>7
     DEF PageRequest, UiPostGrant, UiRevokeGrant, UiAddScope, UiRemoveScope

LEMMA CommandInv == ASSUME Inv, Command PROVE Inv'
<1>0. state.sites \in SiteStates /\ Cli \in Writer
  BY DEF Inv, StateTyped, Saved, SiteStates, Writer
<1>1. ASSUME NEW s \in Site, NEW e \in Email, NEW scopes \in RequestedScopes,
             CliSaves(UpdateSiteGrant(state.sites, s, e, scopes))
      PROVE  Inv'
  BY <1>0, <1>1, ScopesTyped, OperationsTyped, MutationInv
<1>2. ASSUME NEW s \in Site, NEW scope \in Scopes, CliSaves(AddSiteScope(state.sites, s, scope))
      PROVE  Inv'
  BY <1>0, <1>2, OperationsTyped, MutationInv
<1>3. CASE revokeAccess
  <2>1. PICK s \in Site, e \in Email :
          CliPrompts({WithSites(n) : n \in RevokeSiteGrant(state.sites, s, e)})
    BY <1>3 DEF revokeAccess
  <2>2. RevokeSiteGrant(state.sites, s, e) \subseteq SiteStates
    BY <1>0, OperationsTyped
  <2> QED BY <2>1, <2>2, SavedTyped, PromptInv
<1>4. CASE removeScope
  <2>1. PICK s \in Site, scope \in Scopes :
          CliPrompts({WithSites(n) : n \in RemoveSiteScope(state.sites, s, scope)})
    BY <1>4 DEF removeScope
  <2>2. RemoveSiteScope(state.sites, s, scope) \subseteq SiteStates
    BY <1>0, OperationsTyped
  <2> QED BY <2>1, <2>2, SavedTyped, PromptInv
<1>5. CASE handleImportCommand
  BY <1>5, SourcesTyped, SavedTyped, PromptInv DEF handleImportCommand
<1>6. CASE createReconcileFromSource
  BY <1>6, SourcesTyped, SavedTyped, PromptInv DEF createReconcileFromSource
<1>7. CASE handleApplyCommand
  <2>1. state \in Saved /\ state.meta \in {None, state.meta}
    BY DEF Inv, StateTyped
  <2> QED BY <1>0, <1>7, <2>1, WaitInv DEF handleApplyCommand
<1>8. CASE Confirm
  <2>1. job[Cli].at = "confirm" /\ job[Cli].next \in Saved /\ job[Cli].next.meta \in {None, state.meta}
    BY <1>0, <1>8 DEF Confirm, Inv, StateTyped, JobTyped, Faithful, Idle, Written
  <2> QED BY <1>0, <1>8, <2>1, SaveInv DEF Confirm, Idle
<1>9. CASE Abort
  <2>1. job[Cli] # Idle /\ job[Cli].at \in Unpublished
    BY <1>9 DEF Abort, Idle, Unpublished
  <2> QED BY <1>0, <1>9, <2>1, StopInv DEF Abort
<1>10. CASE CliApply
  <2>1. job[Cli].at = "publish" /\ job[Cli] # Idle /\ job[Cli].read = state
    BY <1>0, <1>10 DEF CliApply, Inv, ReadStaysCurrent, Idle
  <2>2. applyManagerState(Cli, job[Cli].read) /\ UNCHANGED history
    BY <1>10 DEF CliApply
  <2> QED BY <1>0, <2>1, <2>2, ApplyInv
<1> QED BY <1>1, <1>2, <1>3, <1>4, <1>5, <1>6, <1>7, <1>8, <1>9, <1>10
     DEF Command, grantAccess, addScope

LEMMA RecordMutationInv == ASSUME Inv, NEW w \in Writer, RecordMutation(w) PROVE Inv'
<1>1. job[w] # Idle /\ job[w].at \in Unpublished
  BY DEF RecordMutation, Idle, Unpublished
<1> QED BY <1>1, StopInv DEF RecordMutation

LEMMA ManagerNextInv == Inv /\ PageTyped /\ [Next]_vars => Inv'
<1> SUFFICES ASSUME Inv, PageTyped, [Next]_vars PROVE Inv'
  OBVIOUS
<1>1. CASE UNCHANGED vars
  BY <1>1, PageInv DEF vars
<1>2. CASE \E w \in Writer : Proceeds(w) \/ Reloaded(w) \/ Crash(w)
  BY <1>2, RecordMutationInv, WriteRuntimeInv, NotReloadedInv, RestoreInv, FailInv, KeepGoodInv,
     StampInv, SucceedInv, ReloadedInv, CrashInv
     DEF Proceeds
<1> QED BY <1>1, <1>2, ApiRequestInv, PageRequestInv, CommandInv, OutsideInv DEF Next

\* The page changes when it is opened, and when what it shows has been asked for.
LEMMA PagesTyped == PageTyped /\ [Next]_vars => PageTyped'
<1> SUFFICES ASSUME PageTyped, [Next]_vars PROVE PageTyped'
  OBVIOUS
<1>1. CASE page' = page \/ page' = NoPage
  BY <1>1 DEF PageTyped, NoPage
<1>2. CASE PersonPreview \/ DiffPage
  BY <1>2 DEF PageTyped, PersonPreview, DiffPage
<1>3. ApiRequest => page' = page
  BY DEF ApiRequest, ApiReplaceAccess, ApiPostGrant, ApiPatchGrant, ApiDeleteGrant, ApiReplaceScopes,
         ApiPostScope, ApiDeleteScope, ApiImport, ApiReconcile, ApiApply, respondWithSiteMutation, Replace
<1>4. PageRequest => page' = page \/ page' = NoPage \/ PersonPreview \/ DiffPage
  BY DEF PageRequest, UiPostGrant, UiRevokeGrant, UiAddScope, UiRemoveScope, PersonSave, UiImport,
         UiReconcile, UiApply, UiMutation, Replace
<1>5. Command => page' = page
  BY DEF Command, grantAccess, addScope, revokeAccess, removeScope, handleImportCommand,
         createReconcileFromSource, handleApplyCommand, Confirm, Abort, CliApply, CliSaves, CliPrompts
<1>6. Outside => page' = page
  BY DEF Outside, ServerReload, EditBase, EditRuntime
<1>7. ASSUME NEW w \in Writer, Proceeds(w) \/ Reloaded(w) \/ Crash(w) PROVE page' = page
  BY <1>7 DEF Proceeds, RecordMutation, WriteRuntime, NotReloaded, Restore, Fail, KeepGood, Stamp,
              Succeed, Reloaded, Crash
<1>8. page' = page \/ page' = NoPage \/ PersonPreview \/ DiffPage
  BY <1>3, <1>4, <1>5, <1>6, <1>7 DEF Next, vars
<1> QED BY <1>1, <1>2, <1>8

THEOREM ManagerInvariantHolds == Spec => [](Inv /\ PageTyped)
<1>1. Init => Inv /\ PageTyped
  BY ManagerInitInv DEF Init, NoPage, PageTyped
<1>2. Inv /\ PageTyped /\ [Next]_vars => (Inv /\ PageTyped)'
  BY ManagerNextInv, PagesTyped
<1> QED BY <1>1, <1>2, PTL DEF Spec

\* What is stored, what is under way and what is shown is of the kind the code works
\* with, for any sites, people, scopes, files and snapshots.
THEOREM ManagerTypeCorrect == Spec => []TypeOK
<1>1. Inv /\ PageTyped => TypeOK
  BY DEF Inv, TypeOK
<1> QED BY <1>1, ManagerInvariantHolds, PTL

\* No update is lost between the load a prompt or an apply rests on and its own write,
\* whoever else uses the manager and whoever dies.
THEOREM NoUpdateIsLost == Spec => []ReadStaysCurrent
<1>1. Inv => ReadStaysCurrent
  BY DEF Inv
<1> QED BY <1>1, ManagerInvariantHolds, PTL

\* No drift is reported where nobody touched the files and nothing died; and where none
\* is reported after an apply, the runtime file renders the base file there is now.
THEOREM DriftIsShownExactly == Spec => []DriftShownExactly
<1>1. Inv => DriftShownExactly
  <2> SUFFICES ASSUME Inv PROVE DriftShownExactly
    OBVIOUS
  <2>1. InSyncWithoutDrift
    <3> SUFFICES ASSUME state.meta # None, state.meta.base = base, state.meta.runtime = runtime
                 PROVE  /\ runtime # None /\ runtime.rest = base.rest
                        /\ DOMAIN runtime.rules = DOMAIN base.rules
                        /\ \A s \in (DOMAIN base.rules) \ Managed : runtime.rules[s] = base.rules[s]
      BY DEF InSyncWithoutDrift, BaseDrifted, RuntimeDrifted
    <3>1. runtime # None
      BY ManagerAssumption DEF Inv, StateTyped, Saved
    <3> QED BY <3>1 DEF Inv, Faithful, Renders
  <2>2. NoFalseDrift
    BY DEF Inv, FilesInStep, NoFalseDrift, AllIdle, Idle, BeforeStamp, BaseDrifted, RuntimeDrifted
  <2> QED BY <2>1, <2>2 DEF DriftShownExactly
<1> QED BY <1>1, ManagerInvariantHolds, PTL

\* Between two commands the runtime file and its .last-good copy are what the last
\* successful publication wrote, however many publications have failed since.
THEOREM RuntimeIsAlwaysLastPublished == Spec => []RuntimeIsLastPublished
<1>1. Inv => RuntimeIsLastPublished
  BY DEF Inv, GoodKept, RuntimeIsLastPublished, AllIdle, Idle, BeforeKeep
<1> QED BY <1>1, ManagerInvariantHolds, PTL

\* What the person page calls confirmed is what the server works with, unless a failed
\* publication or a second one of any kind left no event, or somebody edited the file.
THEOREM ConfirmedIsActive == Spec => []ConfirmedUnlessUnrecorded
<1>1. Inv => ConfirmedUnlessUnrecorded
  BY DEF Inv, Evidence, ConfirmedUnlessUnrecorded, ActiveConfirmed, Confirmed, AllIdle, Idle,
         Resting, Written
<1> QED BY <1>1, ManagerInvariantHolds, PTL

\* The service does not touch what the command line is in the middle of.
LEMMA ServiceLeavesCommand ==
    ASSUME Inv, ApiRequest \/ PageRequest PROVE job'[Cli] = job[Cli]
<1>1. \A next : GoesOn(Ui, next) => job'[Cli] = job[Cli]
  BY ManagerAssumption DEF Inv, StateTyped, Writer, GoesOn
<1>2. ApiRequest => \E next : GoesOn(Ui, next)
  BY DEF ApiRequest, ApiReplaceAccess, ApiPostGrant, ApiPatchGrant, ApiDeleteGrant, ApiReplaceScopes,
         ApiPostScope, ApiDeleteScope, ApiImport, ApiReconcile, ApiApply, respondWithSiteMutation, Replace,
         Save, applyManagerState
<1>3. PageRequest => (\E next : GoesOn(Ui, next)) \/ job' = job
  BY DEF PageRequest, UiPostGrant, UiRevokeGrant, UiAddScope, UiRemoveScope, PersonSave, PersonPreview,
         DiffPage, UiImport, UiReconcile, UiApply, UiMutation, Replace, Save, applyManagerState
<1> QED BY <1>1, <1>2, <1>3

\* Who ends a visit to the diff page, and who publishes from the command line.
LEMMA WhoPublishes ==
    ASSUME Inv, [Next]_vars
    PROVE  /\ page.shows = "diff" /\ page'.shows = "nothing" => UiApply
           /\ job[Cli].at = "publish" /\ job'[Cli].at = "write" => CliApply
<1>1. ApiRequest => page' = page /\ job'[Cli] = job[Cli]
  BY ServiceLeavesCommand
     DEF ApiRequest, ApiReplaceAccess, ApiPostGrant, ApiPatchGrant, ApiDeleteGrant, ApiReplaceScopes,
         ApiPostScope, ApiDeleteScope, ApiImport, ApiReconcile, ApiApply, respondWithSiteMutation, Replace
<1>2. PageRequest /\ page.shows = "diff" => page' = page \/ page'.shows = "person" \/ page'.shows = "diff" \/ UiApply
  BY DEF PageRequest, UiPostGrant, UiRevokeGrant, UiAddScope, UiRemoveScope, PersonSave, PersonPreview,
         DiffPage, UiImport, UiReconcile, UiMutation, Replace
<1>3. PageRequest => job'[Cli] = job[Cli]
  BY ServiceLeavesCommand
<1>4. Command => page' = page
  BY DEF Command, grantAccess, addScope, revokeAccess, removeScope, handleImportCommand,
         createReconcileFromSource, handleApplyCommand, Confirm, Abort, CliApply, CliSaves, CliPrompts
<1>5. Command => CliApply \/ job[Cli].at \in {"idle", "confirm"} \/ Abort
  BY DEF Command, grantAccess, addScope, revokeAccess, removeScope, handleImportCommand,
         createReconcileFromSource, handleApplyCommand, Confirm, CliSaves, CliPrompts, Locked, Idle
<1>6. Abort => job'[Cli].at = "idle"
  BY EndsAlone DEF Abort, Idle, Writer
<1>7. ASSUME NEW w \in Writer, Proceeds(w) \/ Reloaded(w) \/ Crash(w)
      PROVE  page' = page /\ (job[Cli].at = "publish" => job'[Cli].at # "write")
  <2>1. page' = page
    BY <1>7 DEF Proceeds, RecordMutation, WriteRuntime, NotReloaded, Restore, Fail, KeepGood, Stamp,
                Succeed, Reloaded, Crash
  <2>2. CASE Ends(w)
    BY <2>1, <2>2 DEF Ends, Inv, StateTyped, Idle, Writer
  <2>3. CASE \E next : GoesOn(w, next) /\ job[w].at # "publish"
    BY <2>1, <2>3 DEF GoesOn, Inv, StateTyped, Writer
  <2>4. Ends(w) \/ \E next : GoesOn(w, next) /\ job[w].at # "publish"
    BY <1>7 DEF Proceeds, RecordMutation, WriteRuntime, NotReloaded, Restore, Fail, KeepGood, Stamp,
                Succeed, Reloaded, Crash, Step
  <2> QED BY <2>1, <2>2, <2>3, <2>4
<1>8. Outside \/ UNCHANGED vars => page' = page /\ job' = job
  BY DEF Outside, ServerReload, EditBase, EditRuntime, vars
<1> QED BY <1>1, <1>2, <1>3, <1>4, <1>5, <1>6, <1>7, <1>8 DEF Next

LEMMA AppliesPlan ==
    ASSUME Inv, NEW w \in Writer, NEW saved, applyManagerState(w, saved)
    PROVE  /\ job'[w].at \in {"write", "fail"} /\ job'[w].attempt.sites = saved.sites
           /\ job'[w].attempt.plan = RuntimePlan(saved.sites, base)
<1> DEFINE attempt == Attempt(saved.sites, base, IF runtime = None THEN lastGood ELSE runtime, "published")
<1>1. PICK at \in {"write", "fail"} : GoesOn(w, [at |-> at, attempt |-> attempt])
  BY DEF applyManagerState
<1>2. attempt.sites = saved.sites /\ attempt.plan = RuntimePlan(saved.sites, base)
  BY DEF Attempt
<1> HIDE DEF attempt
<1> QED BY <1>1, <1>2 DEF GoesOn, Inv, StateTyped

\* Whatever is edited, saved or published between the page and the button: what is
\* published from the diff page is the candidate it showed over the file it compared it
\* with, and the command line publishes the access it asked about.
THEOREM OnlyReviewedIsPublished == Spec => PublishesWhatWasReviewed
<1> DEFINE Reviewed ==
      /\ page.shows = "diff" /\ page'.shows = "nothing" =>
             job'[Ui].at \in {"write", "fail"} /\
             job'[Ui].attempt.plan = page.review.candidate /\
             CurrentConfig(base, runtime) = page.review.current
      /\ job[Cli].at = "publish" /\ job'[Cli].at = "write" =>
             job'[Cli].attempt.sites = job[Cli].read.sites
<1>1. Inv /\ PageTyped /\ [Next]_vars => [Reviewed]_vars
  <2> SUFFICES ASSUME Inv, [Next]_vars PROVE Reviewed
    OBVIOUS
  <2>1. UiApply =>
             job'[Ui].at \in {"write", "fail"} /\
             job'[Ui].attempt.plan = page.review.candidate /\
             CurrentConfig(base, runtime) = page.review.current
    BY AppliesPlan DEF UiApply, PublicationRevision, Writer
  <2>2. CliApply => job'[Cli].attempt.sites = job[Cli].read.sites
    BY AppliesPlan DEF CliApply, Writer
  <2> QED BY <2>1, <2>2, WhoPublishes
<1>2. Spec => [][Reviewed]_vars
  BY <1>1, ManagerInvariantHolds, PTL DEF Spec
<1> QED BY <1>2 DEF PublishesWhatWasReviewed

-----------------------------------------------------------------------------
(* Who may change what the manager keeps *)

\* What the gate found out is still so, and what the manager let in on the interface
\* it took for the one who sent it.
Rightful(r) ==
    /\ r.at = "gate" =>
          /\ authMode = "gate" /\ r.session = r.from
          /\ r.from \in Session \cup {Nobody} /\ (r.late => r.from \in signedOut)
    /\ authMode = "gate" /\ r.at \in {"sent", "admitted"} =>
          r.from \in Session /\ ~r.late /\ r.headers = BuildUpstreamHeaders(r.from)
    /\ r.at = "admitted" /\ r.kind = "api" =>
          OnRequest(r) /\ r.actor = AuthenticateManagerRequest(r)

AccessInv ==
    /\ gateCookie \in Session \cup {Nobody}
    /\ DOMAIN underWay = Visit
    /\ \A q \in Visit : Rightful(underWay[q])
    /\ ChangesAreTheirs

LEMMA AccessInitInv == AccessInit => AccessInv
BY DEF AccessInit, AccessInv, Rightful, Gone, ChangesAreTheirs

\* Requests are moved one at a time.
LEMMA OthersStand ==
    ASSUME DOMAIN underWay = Visit, NEW q \in Visit, NEW r, Moves(q, r)
    PROVE  /\ DOMAIN underWay' = Visit /\ underWay'[q] = r
           /\ \A p \in Visit \ {q} : underWay'[p] = underWay[p]
BY DEF Moves

\* Where a step moves at most one request, makes no change and leaves the token, it is
\* enough that the request stays rightful.
LEMMA OneMoves ==
    ASSUME AccessInv, NEW q \in Visit, NEW r, Moves(q, r), Rightful(r),
           UNCHANGED <<Settings, bearerToken, signedOut, gateCookie, made>>
    PROVE  AccessInv'
<1>1. ChangesAreTheirs'
  BY DEF AccessInv, ChangesAreTheirs, Settings, RequestOrigin
<1>2. \A p \in Visit : Rightful(underWay'[p])
  BY OthersStand DEF AccessInv
<1>3. (\A p \in Visit : Rightful(underWay[p]))'
  <2> SUFFICES ASSUME NEW p \in Visit PROVE Rightful(underWay[p])'
    OBVIOUS
  <2>1. Rightful(underWay'[p]) /\ UNCHANGED <<Settings, bearerToken, signedOut>>
    BY <1>2
  <2> QED BY <2>1 DEF Rightful, Settings, OnRequest, AuthenticateManagerRequest, Authenticated,
       AuthenticateApiRequest, AuthenticateGateRequest, SameOrigin, RequestOrigin,
       BuildUpstreamHeaders, Identity
<1> QED BY <1>1, <1>3, OthersStand DEF AccessInv

LEMMA GoneIsRightful == Rightful(Gone)
BY DEF Rightful, Gone

\* Steps that move no request.
LEMMA NobodyMoves ==
    ASSUME AccessInv, UNCHANGED <<Settings, bearerToken, underWay, made>>,
           signedOut \subseteq signedOut', gateCookie' \in Session \cup {Nobody}
    PROVE  AccessInv'
<1>1. ChangesAreTheirs'
  BY DEF AccessInv, ChangesAreTheirs, Settings, RequestOrigin
<1>2. ASSUME NEW q \in Visit PROVE Rightful(underWay[q])'
  BY <1>2 DEF AccessInv, Rightful, Settings, OnRequest, AuthenticateManagerRequest, Authenticated,
       AuthenticateApiRequest, AuthenticateGateRequest, SameOrigin, RequestOrigin,
       BuildUpstreamHeaders, Identity
<1> QED BY <1>1, <1>2 DEF AccessInv

LEMMA SendsInv ==
    ASSUME AccessInv, NEW q \in Visit, NEW kind, NEW origin, NEW claim, NEW token,
           Sends(q, kind, origin, claim, token)
    PROVE  AccessInv'
<1> DEFINE r == [at |-> IF authMode = "gate" THEN "gate" ELSE "sent", kind |-> kind,
                 origin |-> origin, headers |-> claim, bearer |-> token,
                 session |-> gateCookie, cookie |-> uiCookie, actor |-> Nobody,
                 from |-> gateCookie, late |-> gateCookie \in signedOut]
<1>1. Rightful(r)
  BY DEF Rightful, AccessInv
<1>2. Moves(q, r) /\ UNCHANGED <<Settings, bearerToken, signedOut, gateCookie, made>>
  BY DEF Sends
<1> QED BY <1>1, <1>2, OneMoves

LEMMA HandleProxyRequestInv ==
    ASSUME AccessInv, NEW q \in Visit, NEW answered \in BOOLEAN, HandleProxyRequest(q, answered)
    PROVE  AccessInv'
<1>1. UNCHANGED <<Settings, bearerToken, signedOut, gateCookie, made>>
  BY DEF HandleProxyRequest
<1>2. CASE LiveSession(underWay[q].session, answered)
  <2> DEFINE r == underWay[q]
  <2>1. r.from \in Session /\ ~r.late /\ r.session = r.from
    BY <1>2 DEF HandleProxyRequest, LiveSession, MayBeRevoked, AccessInv, Rightful
  <2>2. BuildProxyRequestHeaders(r)
          = [at |-> "sent", kind |-> r.kind, origin |-> r.origin,
             headers |-> BuildUpstreamHeaders(r.session), bearer |-> r.bearer,
             session |-> Nobody, cookie |-> r.cookie, actor |-> Nobody,
             from |-> r.from, late |-> r.late]
    BY DEF BuildProxyRequestHeaders, StripTrustedUpstreamHeaders, Brought
  <2>3. Rightful(BuildProxyRequestHeaders(r))
    BY <2>1, <2>2 DEF Rightful
  <2> QED BY <1>1, <1>2, <2>3, OneMoves DEF HandleProxyRequest
<1>3. CASE ~LiveSession(underWay[q].session, answered)
  BY <1>1, <1>3, OneMoves, GoneIsRightful DEF HandleProxyRequest, Refused
<1> QED BY <1>2, <1>3

LEMMA ArrivesInv == ASSUME AccessInv, NEW q \in Visit, Arrives(q) PROVE AccessInv'
<1> DEFINE sent == underWay[q]
           actor == IF sent.kind = "api" THEN AuthenticateManagerRequest(sent) ELSE Nobody
           admitted == Brought(sent, "admitted", sent.headers, sent.session, actor)
<1>1. UNCHANGED <<Settings, bearerToken, signedOut, gateCookie, made>>
  BY DEF Arrives
<1>2. CASE Moves(q, Gone)
  BY <1>1, <1>2, OneMoves, GoneIsRightful
<1>3. CASE OnRequest(sent) /\ Moves(q, admitted)
  <2>1. Rightful(sent) /\ sent.at = "sent"
    BY DEF Arrives, AccessInv
  <2>2. admitted = [at |-> "admitted", kind |-> sent.kind, origin |-> sent.origin,
                    headers |-> sent.headers, bearer |-> sent.bearer,
                    session |-> sent.session, cookie |-> sent.cookie, actor |-> actor,
                    from |-> sent.from, late |-> sent.late]
    BY DEF Brought
  <2>3. /\ OnRequest(admitted) /\ AuthenticateManagerRequest(admitted) = AuthenticateManagerRequest(sent)
    BY <1>3, <2>2 DEF OnRequest, AuthenticateManagerRequest, Authenticated, SameOrigin
  <2>4. Rightful(admitted)
    BY <2>1, <2>2, <2>3 DEF Rightful
  <2> QED BY <1>1, <1>3, <2>4, OneMoves
<1> QED BY <1>2, <1>3 DEF Arrives, Refused

\* What is recorded of a change the handler was allowed to make.
LEMMA RecordedForItsMaker ==
    ASSUME AccessInv, NEW q \in Visit, CarryOut(q), made' # made
    PROVE  ChangesAreTheirs'
<1> DEFINE sent == underWay[q]
           who == IF sent.kind = "form" THEN RequireUiSession(sent) ELSE sent.actor
<1>1. /\ sent.at = "admitted" /\ sent.kind \in {"form", "api"}
      /\ who # Nobody /\ (sent.kind = "form" => SameOrigin(sent))
      /\ UNCHANGED <<authMode, trustProxy>>
  BY DEF CarryOut, PersistAuditedMutation, Settings
<1>2. made' = [user |-> CreateRequestAuditActor(sent, who), kind |-> sent.kind,
               origin |-> sent.origin, from |-> sent.from, late |-> sent.late,
               token |-> bearerToken,
               shown |-> IF sent.kind = "form" THEN sent.cookie ELSE sent.bearer]
  BY DEF CarryOut, PersistAuditedMutation
<1>3. Rightful(sent)
  BY DEF AccessInv
<1>4. who = Authenticated(sent, made'.shown)
  BY <1>1, <1>2, <1>3 DEF Rightful, RequireUiSession, AuthenticateManagerRequest
<1>5. authMode = "gate" \/ sent.kind = "form" => sent.origin = RequestOrigin
  BY <1>1, <1>3 DEF Rightful, OnRequest, SameOrigin
<1>6. CASE authMode = "gate"
  <2>1. AuthenticateGateRequest(sent.headers) /\ who = GateActor(sent.headers)
    BY <1>1, <1>4, <1>6 DEF Authenticated
  <2>2. sent.headers = Identity(OwnerOf[sent.from], ScopeOf[sent.from], SiteOf[sent.from]) /\ ~sent.late
    BY <1>1, <1>3, <1>6 DEF Rightful, BuildUpstreamHeaders
  <2>3. CreateRequestAuditActor(sent, who) = OwnerOf[sent.from]
    BY <2>1, <2>2 DEF GateActor, CreateRequestAuditActor, Identity
  <2>4. SiteOf[sent.from] = OwnSite /\ ScopeOf[sent.from] \in {FullAccess, RequiredScope}
    BY <2>1, <2>2 DEF AuthenticateGateRequest, Identity
  <2>5. /\ made'.late = sent.late /\ made'.user = OwnerOf[made'.from] /\ made'.from = sent.from
        /\ made'.origin = sent.origin
    BY <1>2, <2>3
  <2> QED BY <1>1, <1>5, <1>6, <2>2, <2>4, <2>5 DEF ChangesAreTheirs, RequestOrigin
<1>7. CASE authMode # "gate"
  <2>1. made'.shown = bearerToken
    BY <1>1, <1>4, <1>7 DEF Authenticated, AuthenticateApiRequest
  <2>2. made'.token = bearerToken /\ made'.kind = sent.kind /\ made'.origin = sent.origin
    BY <1>2
  <2> QED BY <1>1, <1>5, <1>7, <2>1, <2>2 DEF ChangesAreTheirs, RequestOrigin
<1> QED BY <1>6, <1>7

LEMMA CarryOutInv == ASSUME AccessInv, NEW q \in Visit, CarryOut(q) PROVE AccessInv'
<1>1. Moves(q, Gone) /\ UNCHANGED <<Settings, bearerToken, signedOut, gateCookie>>
  BY DEF CarryOut
<1>2. CASE made' = made
  BY <1>1, <1>2, OneMoves, GoneIsRightful
<1>3. CASE made' # made
  <2>1. ChangesAreTheirs'
    BY <1>3, RecordedForItsMaker
  <2>2. \A p \in Visit : Rightful(underWay'[p])
    BY <1>1, OthersStand, GoneIsRightful DEF AccessInv
  <2>3. ASSUME NEW p \in Visit PROVE Rightful(underWay[p])'
    <3>1. Rightful(underWay'[p]) /\ UNCHANGED <<Settings, bearerToken, signedOut>>
      BY <1>1, <2>2
    <3> QED BY <3>1 DEF Rightful, Settings, OnRequest, AuthenticateManagerRequest, Authenticated,
         AuthenticateApiRequest, AuthenticateGateRequest, SameOrigin, RequestOrigin,
         BuildUpstreamHeaders, Identity
  <2> QED BY <1>1, <2>1, <2>3, OthersStand DEF AccessInv
<1> QED BY <1>2, <1>3

\* The replies of /login and /logout, and their arrival.
LEMMA RepliesInv ==
    ASSUME AccessInv, NEW q \in Visit, LoginPost(q) \/ LogoutPost(q) \/ StoresCookie(q)
    PROVE  AccessInv'
<1>1. UNCHANGED <<Settings, bearerToken, signedOut, gateCookie, made>>
  BY DEF LoginPost, LogoutPost, StoresCookie
<1>2. \A cookie : Rightful(Reply(cookie))
  BY DEF Rightful, Reply
<1>3. \E r : Moves(q, r) /\ Rightful(r)
  BY <1>2, GoneIsRightful DEF LoginPost, LogoutPost, StoresCookie, Refused
<1> QED BY <1>1, <1>3, OneMoves

\* A restart takes with it what was let in under the token of the run before.
LEMMA RestartInv ==
    ASSUME AccessInv, NEW token \in Secret, ManagerRestarts(token) PROVE AccessInv'
<1>1. authMode = "bearer-token" /\ UNCHANGED <<Settings, signedOut, gateCookie, made>>
  BY DEF ManagerRestarts
<1>2. underWay' = [q \in Visit |-> IF underWay[q].at = "admitted" THEN Gone ELSE underWay[q]]
  BY DEF ManagerRestarts
<1>3. ASSUME NEW q \in Visit PROVE Rightful(underWay[q])'
  <2>1. CASE underWay[q].at = "admitted"
    BY <1>1, <1>2, <2>1 DEF Rightful, Gone
  <2>2. CASE underWay[q].at # "admitted"
    BY <1>1, <1>2, <2>2 DEF AccessInv, Rightful, Settings
  <2> QED BY <2>1, <2>2
<1>4. ChangesAreTheirs'
  BY <1>1 DEF AccessInv, ChangesAreTheirs, Settings, RequestOrigin
<1> QED BY <1>1, <1>2, <1>3, <1>4 DEF AccessInv

LEMMA AccessNextInv == AccessInv /\ [AccessNext]_accessVars => AccessInv'
<1> SUFFICES ASSUME AccessInv, [AccessNext]_accessVars PROVE AccessInv'
  OBVIOUS
<1>1. ASSUME NEW s \in Session, SignsIn(s) \/ SignsOut(s) PROVE AccessInv'
  <2>1. UNCHANGED <<Settings, bearerToken, underWay, made>>
    BY <1>1 DEF SignsIn, SignsOut
  <2>2. signedOut \subseteq signedOut' /\ gateCookie' \in Session \cup {Nobody}
    BY <1>1 DEF SignsIn, SignsOut, AccessInv
  <2> QED BY <2>1, <2>2, NobodyMoves
<1>2. CASE LosesGateCookie
  BY <1>2, NobodyMoves DEF LosesGateCookie
<1>3. ASSUME NEW q \in Visit, NEW kind, NEW origin, NEW token, NEW claim,
             Sends(q, kind, origin, claim, token)
      PROVE  AccessInv'
  BY <1>3, SendsInv
<1>4. ASSUME NEW q \in Visit, NEW answered \in BOOLEAN, HandleProxyRequest(q, answered)
      PROVE  AccessInv'
  BY <1>4, HandleProxyRequestInv
<1>5. ASSUME NEW q \in Visit,
             Arrives(q) \/ CarryOut(q) \/ LoginPost(q) \/ LogoutPost(q) \/ StoresCookie(q)
      PROVE  AccessInv'
  BY <1>5, ArrivesInv, CarryOutInv, RepliesInv
<1>6. CASE Minute
  BY <1>6, NobodyMoves DEF Minute, AccessInv
<1>7. ASSUME NEW token \in Secret, ManagerRestarts(token) PROVE AccessInv'
  BY <1>7, RestartInv
<1>8. CASE UNCHANGED accessVars
  BY <1>8, NobodyMoves DEF accessVars, AccessInv, Settings
<1> QED BY <1>1, <1>2, <1>3, <1>4, <1>5, <1>6, <1>7, <1>8 DEF AccessNext

\* Whoever signs in and out, whatever requests say of themselves and however often the
\* manager is restarted with another token: a change is recorded for whom it was made.
THEOREM ChangesAreAlwaysTheirs == AccessSpec => []ChangesAreTheirs
<1>1. AccessInv => ChangesAreTheirs
  BY DEF AccessInv
<1> QED BY <1>1, AccessInitInv, AccessNextInv, PTL DEF AccessSpec
=============================================================================

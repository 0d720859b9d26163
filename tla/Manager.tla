------------------------------- MODULE Manager -------------------------------
(***************************************************************************)
(* The access manager: browser pages and an API in one process (Ui), the     *)
(* command line in another (Cli), the two files they keep beside the         *)
(* operator's base file, and the SSO server that reloads the published one.  *)
(*                                                                          *)
(* The state lock is the ManagerLock module's subject; here it is taken and  *)
(* released atomically and a dead owner loses it.  A handler that throws      *)
(* before its first write changes nothing and is not a step.                 *)
(***************************************************************************)
EXTENDS ManagerState, Integers

CONSTANTS
    Ui, Cli,
    BaseFiles,      \* configurations the operator may write
    Snapshots,      \* portable snapshots somebody may import
    Reloading,      \* which of them have a [reload] target in their settings
    MaxCommands,    \* bound on commands that take the lock
    MaxMishaps      \* bound on edits, crashes and lost events

\* What this manager or its operator may write to a configuration file.
Config == Configs({b.rest : b \in BaseFiles})

ASSUME ManagerAssumption ==
    /\ Ui # Cli /\ None \notin {Ui, Cli} /\ None \notin Config
    /\ BaseFiles \subseteq Config
    /\ \A snapshot \in Snapshots : \A s \in DOMAIN snapshot :
          snapshot[s] \in [grants : SUBSET [email : Email, scopes : SUBSET Scopes],
                          catalog : SUBSET Scopes]
    /\ MaxCommands \in Nat /\ MaxMishaps \in Nat

VARIABLES
    base,       \* magic-sso.base.toml
    state,      \* manager-state.json: [sites, meta]; a missing file reads as empty
    runtime,    \* magic-sso.toml, or None
    lastGood,   \* its .last-good copy, or None
    active,     \* the configuration the server works with
    events,     \* the audit log: what its last event and its last apply event say
    holder,     \* who has the state lock
    job,        \* what Ui and Cli are in the middle of
    page,       \* what the browser shows: the diff page or a person preview
    history     \* bounds and past misfortunes; no code reads it

vars == <<base, state, runtime, lastGood, active, events, holder, job, page, history>>
files == <<state, runtime, lastGood>>

Writer == {Ui, Cli}
Idle == [at |-> "idle"]
NoPage == [shows |-> "nothing"]

\* What an apply leaves in the state: the hashes of what it read and what it wrote.
Applied(from, plan) == [base |-> from, runtime |-> plan]

\* What an apply event says of the attempt it is about.
ApplyEvent(outcome, file) == [outcome |-> outcome, runtime |-> file]

\* Installed and never published, or reconciled from the base file and
\* published: the server runs what it was started or reloaded with.
Init ==
    /\ base \in {b \in BaseFiles : CanPlan(b) /\ \A s \in DOMAIN b.rules : Renderable(b.rules[s])}
    /\ \/ /\ active = base
          /\ state = [sites |-> Seeded(<<>>), meta |-> None]
          /\ runtime = None
          /\ events = [sites |-> None, apply |-> None]
       \/ LET sites == ReconciledState(Seeded(<<>>), base)
              plan == RuntimePlan(sites, base)
          IN /\ active = plan
             /\ state = [sites |-> sites, meta |-> Applied(base, plan)]
             /\ runtime = plan
             /\ events = [sites |-> sites, apply |-> ApplyEvent("reloaded", plan)]
    /\ lastGood = runtime
    /\ holder = None
    /\ job = [w \in Writer |-> Idle]
    /\ page = NoPage
    /\ history = [commands |-> 0, mishaps |-> 0, good |-> runtime, happened |-> {}]

\* Things that need not happen.
Happens(what) ==
    /\ history.mishaps < MaxMishaps
    /\ history' = [commands |-> history.commands, mishaps |-> history.mishaps + 1,
                   good |-> history.good, happened |-> history.happened \cup what]

\* A publication that has written the runtime file leaves no event.
Unrecorded == {IF "unrecorded" \in history.happened THEN "unrecordedAgain" ELSE "unrecorded"}

-----------------------------------------------------------------------------
Counts ==
    /\ history.commands < MaxCommands
    /\ history' = [commands |-> history.commands + 1, mishaps |-> history.mishaps,
                   good |-> history.good, happened |-> history.happened]

\* Mutant: the command line works without the lock.
Locked_UiOnly(w) ==
    /\ (holder = None \/ w = Cli) /\ job[w] = Idle
    /\ Counts

\* withManagerStateLock, around a route of the mutation boundary or a command.
Locked(w) ==
    /\ holder = None /\ job[w] = Idle
    /\ Counts

\* The lock is held across an await: the job goes on later.
GoesOn(w, next) ==
    /\ holder' = w
    /\ job' = [job EXCEPT ![w] = next]

Ends(w) ==
    /\ holder' = IF holder = w THEN None ELSE holder
    /\ job' = [job EXCEPT ![w] = Idle]

\* persistManagerState, then the event.
Save(w, next) ==
    /\ state' = next
    /\ GoesOn(w, [at |-> "record"])

WithSites(sites) == [sites |-> sites, meta |-> state.meta]
Reset(sites) == [sites |-> sites, meta |-> None]

\* recordManagerMutationAuditEvent; appendManagerAuditEvent may answer false.
RecordMutation(w) ==
    /\ job[w].at = "record"
    /\ \/ events' = [sites |-> state.sites, apply |-> events.apply] /\ UNCHANGED history
       \/ Happens({"eventLost"}) /\ UNCHANGED events
    /\ Ends(w)
    /\ UNCHANGED <<base, files, active, page>>

\* assertApiEditingAllowed and assertUiEditingAllowed
assertApiEditingAllowed == ~BaseDrifted(state.meta, base)
assertUiEditingAllowed == ~BaseDrifted(state.meta, base)

-----------------------------------------------------------------------------
(* Routes of one site: API *)

\* parseScopes of a request body.
parseScopes(full, scopes) ==
    IF full THEN Only(scopes = {}, {Full}) ELSE Only(scopes # {}, scopes)
RequestedScopes == UNION {parseScopes(full, scopes) : full \in BOOLEAN, scopes \in SUBSET Scopes}

respondWithSiteMutation(results) ==
    /\ Locked(Ui)
    /\ assertApiEditingAllowed
    /\ \E sites \in results : Save(Ui, WithSites(sites))
    /\ UNCHANGED <<base, runtime, lastGood, active, events, page>>

ApiReplaceAccess ==
    \E s \in Site, grants \in SUBSET [email : Email, scopes : RequestedScopes] :
        respondWithSiteMutation(ReplaceSiteGrants(state.sites, s, grants))

ApiPostGrant ==
    \E s \in Site, e \in Email, scopes \in RequestedScopes :
        respondWithSiteMutation(UpdateSiteGrant(state.sites, s, e, scopes))

ApiPatchGrant ==
    \E s \in Site, e \in Email, scopes \in RequestedScopes :
        respondWithSiteMutation(UpdateSiteGrant(state.sites, s, e, scopes))

ApiDeleteGrant ==
    \E s \in Site, e \in Email : respondWithSiteMutation(RevokeSiteGrant(state.sites, s, e))

ApiReplaceScopes ==
    \E s \in Site, catalog \in SUBSET Scopes :
        respondWithSiteMutation(ReplaceSiteScopes(state.sites, s, catalog))

ApiPostScope ==
    \E s \in Site, scope \in Scopes :
        respondWithSiteMutation(AddSiteScope(state.sites, s, scope))

ApiDeleteScope ==
    \E s \in Site, scope \in Scopes :
        respondWithSiteMutation(RemoveSiteScope(state.sites, s, scope))

-----------------------------------------------------------------------------
(* Routes of one site: pages *)

UiMutation(results) ==
    /\ Locked(Ui)
    /\ assertUiEditingAllowed
    /\ \E sites \in results : Save(Ui, WithSites(sites))
    /\ UNCHANGED <<base, runtime, lastGood, active, events, page>>

\* buildGrantScopesFromForm: the form has no way to mix "*" in.
FormScopes == {{Full}} \cup ((SUBSET Scope) \ {{}})

UiPostGrant ==
    \E s \in Site, e \in Email, scopes \in FormScopes :
        UiMutation(UpdateSiteGrant(state.sites, s, e, scopes))

UiRevokeGrant ==
    \E s \in Site, e \in Email : UiMutation(RevokeSiteGrant(state.sites, s, e))

UiAddScope ==
    \E s \in Site, scope \in Scopes : UiMutation(AddSiteScope(state.sites, s, scope))

UiRemoveScope ==
    \E s \in Site, scope \in Scopes : UiMutation(RemoveSiteScope(state.sites, s, scope))

-----------------------------------------------------------------------------
(* One person over several sites: preview, then save with the signed preview *)

\* readAccessDraft and changesFromDraft: sites left unchanged are not in the draft.
PersonChanges ==
    UNION {[D -> {{}} \cup FormScopes] : D \in (SUBSET Site) \ {{}}}

\* baseline
Baseline == [state |-> state, base |-> base, runtime |-> runtime]

PersonPreview ==
    /\ holder = None /\ job[Ui] = Idle
    /\ assertUiEditingAllowed
    /\ \E e \in Email, changes \in PersonChanges :
        /\ ChangePersonAccess(state.sites, base, e, changes) # {}
        /\ page' = [shows |-> "person", email |-> e, changes |-> changes, baseline |-> Baseline]
    /\ UNCHANGED <<base, files, active, events, holder, job, history>>

\* confirmPersonAccess; the signed preview is good for ten minutes.
PersonSave ==
    /\ Locked(Ui)
    /\ page.shows = "person"
    /\ assertUiEditingAllowed
    /\ page.baseline = Baseline
    /\ \E sites \in ChangePersonAccess(state.sites, base, page.email, page.changes) :
        Save(Ui, WithSites(sites))
    /\ page' = NoPage
    /\ UNCHANGED <<base, runtime, lastGood, active, events>>

-----------------------------------------------------------------------------
(* Import and reconciliation: no drift freeze, apply metadata is reset *)

Replace(results) ==
    /\ Locked(Ui)
    /\ \E sites \in results : Save(Ui, Reset(sites))
    /\ UNCHANGED <<base, runtime, lastGood, active, events, page>>

ApiImport == \E snapshot \in Snapshots : Replace(ImportedState(snapshot, base, runtime))
UiImport == \E snapshot \in Snapshots : Replace(ImportedState(snapshot, base, runtime))

\* loadManagedConfigForReconciliation
Source == {base, runtime}
ApiReconcile == \E source \in Source : Replace(Reconciled(state.sites, source, base, runtime))
UiReconcile == \E source \in Source : Replace(Reconciled(state.sites, source, base, runtime))

-----------------------------------------------------------------------------
(* The command line: state is loaded, a prompt may wait, then it is saved *)

CliSaves(results) ==
    /\ Locked(Cli)
    /\ \E sites \in results : Save(Cli, WithSites(sites))
    /\ UNCHANGED <<base, runtime, lastGood, active, events, page>>

grantAccess ==
    \E s \in Site, e \in Email, scopes \in RequestedScopes :
        CliSaves(UpdateSiteGrant(state.sites, s, e, scopes))

addScope ==
    \E s \in Site, scope \in Scopes : CliSaves(AddSiteScope(state.sites, s, scope))

\* A result is computed from `read`, the state loaded before the prompt.
CliPrompts(results) ==
    /\ Locked(Cli)
    /\ \E next \in results : GoesOn(Cli, [at |-> "confirm", read |-> state, next |-> next])
    /\ UNCHANGED <<base, files, active, events, page>>

revokeAccess ==
    \E s \in Site, e \in Email :
        CliPrompts({WithSites(n) : n \in RevokeSiteGrant(state.sites, s, e)})

removeScope ==
    \E s \in Site, scope \in Scopes :
        CliPrompts({WithSites(n) : n \in RemoveSiteScope(state.sites, s, scope)})

handleImportCommand ==
    \E snapshot \in Snapshots :
        CliPrompts({Reset(n) : n \in ImportedState(snapshot, base, runtime)})

createReconcileFromSource ==
    \E source \in Source :
        CliPrompts({Reset(n) : n \in Reconciled(state.sites, source, base, runtime)})

handleApplyCommand ==
    /\ CanDiff(base, runtime)
    /\ Locked(Cli)
    /\ GoesOn(Cli, [at |-> "publish", read |-> state])
    /\ UNCHANGED <<base, files, active, events, page>>

\* confirmOrAbort
Confirm ==
    /\ job[Cli].at = "confirm"
    /\ Save(Cli, job[Cli].next)
    /\ UNCHANGED <<base, runtime, lastGood, active, events, page, history>>

Abort ==
    /\ job[Cli].at \in {"confirm", "publish"}
    /\ Ends(Cli)
    /\ UNCHANGED <<base, files, active, events, page, history>>

-----------------------------------------------------------------------------
(* Publication *)

\* The diff page carries the revision of what it shows.
DiffPage ==
    /\ CanDiff(base, runtime)
    /\ page' = [shows |-> "diff", review |-> PublicationRevision(state.sites, base, runtime)]
    /\ UNCHANGED <<base, files, active, events, holder, job, history>>

\* "published": written and not reloaded, or not yet.
Outcome == {"published", "reloaded"}
Attempt(sites, from, rollback, outcome) ==
    [sites |-> sites, base |-> from, rollback |-> rollback,
     plan |-> RuntimePlan(sites, from), outcome |-> outcome]

\* applyManagerState up to its first writes: drift, plan, and the text to fall
\* back to, kept as .last-good.  A plan that cannot be built throws.
applyManagerState(w, saved) ==
    /\ CanPlan(base)
    /\ LET rollback == IF runtime = None THEN lastGood ELSE runtime
           attempt == Attempt(saved.sites, base, rollback, "published")
       IN IF BaseDrifted(saved.meta, base)
          THEN GoesOn(w, [at |-> "fail", attempt |-> attempt]) /\ UNCHANGED lastGood
          ELSE /\ lastGood' = IF rollback = None THEN lastGood ELSE rollback
               /\ GoesOn(w, [at |-> "write", attempt |-> attempt])
    /\ UNCHANGED <<base, state, runtime, active, events>>

ApiApply ==
    /\ Locked(Ui)
    /\ applyManagerState(Ui, state)
    /\ UNCHANGED page

\* Mutant: the page is compared with the saved access only.
UiApply_AccessOnly ==
    /\ Locked(Ui)
    /\ CanDiff(base, runtime)
    /\ page.shows = "diff"
    /\ page.review.candidate.rules = RuntimePlan(state.sites, base).rules
    /\ applyManagerState(Ui, state)
    /\ page' = NoPage

\* The revision is compared under the lock, on the state that is then applied.
UiApply ==
    /\ Locked(Ui)
    /\ CanDiff(base, runtime)
    /\ page.shows = "diff"
    /\ page.review = PublicationRevision(state.sites, base, runtime)
    /\ applyManagerState(Ui, state)
    /\ page' = NoPage

CliApply ==
    /\ job[Cli].at = "publish"
    /\ applyManagerState(Cli, job[Cli].read)
    /\ UNCHANGED <<page, history>>

Step(w, from, to) ==
    /\ job[w].at = from
    /\ GoesOn(w, [at |-> to, attempt |-> job[w].attempt])

WriteRuntime(w) ==
    /\ Step(w, "write", IF w \in Reloading THEN "post" ELSE "keep")
    /\ runtime' = job[w].attempt.plan
    /\ UNCHANGED <<base, state, lastGood, active, events, page, history>>

\* The server's reload handler reads the file; only site access may have
\* changed, and listing what changed renders every site's rules.
CanReload(current, candidate) ==
    /\ candidate # None
    /\ candidate.rest = current.rest
    /\ DOMAIN candidate.rules = DOMAIN current.rules
    /\ \A s \in DOMAIN candidate.rules : Renderable(candidate.rules[s]) /\ Renderable(current.rules[s])

\* requestServerReload was answered.
Reloaded(w) ==
    /\ job[w].at = "post"
    /\ CanReload(active, runtime)
    /\ active' = runtime
    /\ GoesOn(w, [at |-> "keep", attempt |-> Attempt(job[w].attempt.sites, job[w].attempt.base, job[w].attempt.rollback, "reloaded")])
    /\ UNCHANGED <<base, files, events, page, history>>

\* Mutant: the request has no time limit.
NotReloaded_NoTimeout(w) ==
    /\ ~CanReload(active, runtime)
    /\ Step(w, "post", "restore")
    /\ UNCHANGED <<base, files, active, events, page, history>>

\* The server refused, could not be reached, or its answer did not come in
\* time.  In the last case it has, or will have, read the file.
NotReloaded(w) ==
    /\ Step(w, "post", "restore")
    /\ \/ UNCHANGED active
       \/ CanReload(active, runtime) /\ active' = runtime
    /\ UNCHANGED <<base, files, events, page, history>>

\* restoreRuntimeConfig
Restore(w) ==
    /\ Step(w, "restore", "fail")
    /\ runtime' = job[w].attempt.rollback
    /\ UNCHANGED <<base, state, lastGood, active, events, page, history>>

\* Mutant: a rollback is not an event.
Fail_Silent(w) ==
    /\ job[w].at = "fail"
    /\ Ends(w)
    /\ UNCHANGED <<base, files, active, events, page, history>>

\* recordApplyFailure; the event may be lost, and nobody is told.
Fail(w) ==
    /\ job[w].at = "fail"
    /\ \/ /\ events' = [sites |-> job[w].attempt.sites,
                        apply |-> ApplyEvent("failed", job[w].attempt.plan)]
          /\ UNCHANGED history
       \/ Happens({"failureUnrecorded"}) /\ UNCHANGED events
    /\ Ends(w)
    /\ UNCHANGED <<base, files, active, page>>

Good(config) ==
    history' = [commands |-> history.commands, mishaps |-> history.mishaps, good |-> config,
                happened |-> history.happened]

\* Mutant: the copy of the file that worked is not renewed.
KeepGood_Old(w) ==
    /\ Step(w, "keep", "stamp")
    /\ Good(job[w].attempt.plan)
    /\ UNCHANGED <<base, files, active, events, page>>

\* The file the server has taken becomes .last-good.
KeepGood(w) ==
    /\ Step(w, "keep", "stamp")
    /\ lastGood' = job[w].attempt.plan
    /\ Good(job[w].attempt.plan)
    /\ UNCHANGED <<base, state, runtime, active, events, page>>

\* Mutant: the base file is hashed again after the reload.
Stamp_BaseReadAgain(w) ==
    /\ Step(w, "stamp", "succeed")
    /\ state' = [sites |-> job[w].attempt.sites,
                 meta |-> Applied(base, job[w].attempt.plan)]
    /\ UNCHANGED <<base, runtime, lastGood, active, events, page, history>>

\* createUpdatedState and its save
Stamp(w) ==
    /\ Step(w, "stamp", "succeed")
    /\ state' = [sites |-> job[w].attempt.sites,
                 meta |-> Applied(job[w].attempt.base, job[w].attempt.plan)]
    /\ UNCHANGED <<base, runtime, lastGood, active, events, page, history>>

Succeed(w) ==
    /\ job[w].at = "succeed"
    /\ \/ /\ events' = [sites |-> job[w].attempt.sites,
                        apply |-> ApplyEvent(job[w].attempt.outcome, job[w].attempt.plan)]
          /\ UNCHANGED history
       \/ Happens({"eventLost"} \cup Unrecorded) /\ UNCHANGED events
    /\ Ends(w)
    /\ UNCHANGED <<base, files, active, page>>

-----------------------------------------------------------------------------
(* Around the manager *)

\* POST /api/reload, which the code serves under the lock and the model at any time,
\* which allows more; and a request to reload whose sender gave up.
ServerReload ==
    /\ CanReload(active, runtime)
    /\ active' = runtime
    /\ UNCHANGED <<base, files, events, holder, job, page, history>>

EditBase ==
    /\ Happens({"baseEdited"})
    /\ base' \in BaseFiles \ {base}
    /\ UNCHANGED <<files, active, events, holder, job, page>>

EditRuntime ==
    /\ Happens({"runtimeEdited"})
    /\ runtime' \in (BaseFiles \cup {None}) \ {runtime}
    /\ UNCHANGED <<base, state, lastGood, active, events, holder, job, page>>

\* Where a publication has written the runtime file.
Written == {"post", "restore", "keep", "stamp", "succeed"}

\* The process dies; its lock is recovered by whoever comes next.
Crash(w) ==
    /\ job[w] # Idle
    /\ Happens(CASE job[w].at = "fail" -> {"failureUnrecorded"}
                 [] job[w].at \in Written -> {"crashed"} \cup Unrecorded
                 [] OTHER -> {"crashed"})
    /\ Ends(w)
    /\ UNCHANGED <<base, files, active, events, page>>

-----------------------------------------------------------------------------
ApiRequest ==
    \/ ApiReplaceAccess \/ ApiPostGrant \/ ApiPatchGrant \/ ApiDeleteGrant
    \/ ApiReplaceScopes \/ ApiPostScope \/ ApiDeleteScope
    \/ ApiImport \/ ApiReconcile \/ ApiApply

PageRequest ==
    \/ UiPostGrant \/ UiRevokeGrant \/ UiAddScope \/ UiRemoveScope
    \/ PersonPreview \/ PersonSave
    \/ UiImport \/ UiReconcile \/ DiffPage \/ UiApply

\* runCli
Command ==
    \/ grantAccess \/ addScope \/ revokeAccess \/ removeScope
    \/ handleImportCommand \/ createReconcileFromSource \/ handleApplyCommand
    \/ Confirm \/ Abort \/ CliApply

\* What a process does next without waiting for anybody; NotReloaded is the
\* reload request's time limit.
Proceeds(w) ==
    \/ RecordMutation(w) \/ WriteRuntime(w) \/ NotReloaded(w) \/ Restore(w)
    \/ Fail(w) \/ KeepGood(w) \/ Stamp(w) \/ Succeed(w)

Outside == ServerReload \/ EditBase \/ EditRuntime

Next ==
    \/ ApiRequest \/ PageRequest \/ Command \/ Outside
    \/ \E w \in Writer : Proceeds(w) \/ Reloaded(w) \/ Crash(w)

\* A running handler of the service goes on; nobody owes the command line an answer.
Spec == Init /\ [][Next]_vars /\ WF_vars(Proceeds(Ui))

-----------------------------------------------------------------------------
ApplyEvents == [outcome : Outcome \cup {"failed"}, runtime : Config]
Saved == [sites : [Managed -> SiteState], meta : [base : Config, runtime : Config] \cup {None}]
AttemptTyped(a) ==
    /\ a \in [sites : [Managed -> SiteState], base : Config, rollback : Config \cup {None},
              plan : Config, outcome : Outcome]
    /\ CanPlan(a.base) /\ a.plan = RuntimePlan(a.sites, a.base)
Misfortune == {"baseEdited", "runtimeEdited", "crashed", "eventLost", "failureUnrecorded",
               "unrecorded", "unrecordedAgain"}
Histories == [commands : 0..MaxCommands, mishaps : 0..MaxMishaps,
              good : Config \cup {None}, happened : SUBSET Misfortune]
JobTyped(j) ==
    \/ j = Idle
    \/ j = [at |-> "record"]
    \/ /\ j.at = "confirm" /\ j = [at |-> "confirm", read |-> j.read, next |-> j.next]
       /\ j.read \in Saved /\ j.next \in Saved
    \/ j.at = "publish" /\ j = [at |-> "publish", read |-> j.read] /\ j.read \in Saved
    \/ /\ j.at \in Written \cup {"write", "fail"} /\ j = [at |-> j.at, attempt |-> j.attempt]
       /\ AttemptTyped(j.attempt) /\ (j.at = "write" => j.attempt.outcome = "published")

StateTyped ==
    /\ base \in BaseFiles /\ state \in Saved
    /\ runtime \in Config \cup {None} /\ lastGood \in Config \cup {None} /\ active \in Config
    /\ events \in [sites : [Managed -> SiteState] \cup {None},
                   apply : ApplyEvents \cup {None}]
    /\ holder \in Writer \cup {None}
    /\ DOMAIN job = Writer /\ \A w \in Writer : JobTyped(job[w])
    /\ history \in Histories
PageTyped ==
    \/ page.shows \in {"nothing", "diff"}
    \/ page.shows = "person" /\ page.email \in Email /\ page.changes \in PersonChanges

\* What is stored, what is under way and what is shown is of the kind the code works with.
TypeOK == StateTyped /\ PageTyped

Applying == {"write", "post", "restore", "keep", "stamp"}
Never(what) == history.happened \cap what = {}
AllIdle == holder = None /\ \A w \in Writer : job[w] = Idle

\* Nobody changes the saved access between the load that a prompt or an apply
\* in progress rests on and its own write: no update is lost.
ReadStaysCurrent ==
    \A w \in Writer :
        /\ job[w].at \in {"confirm", "publish"} => job[w].read = state
        /\ job[w].at \in Applying => job[w].attempt.sites = state.sites

\* Publishing from the diff page writes the candidate the page showed over the
\* file it was compared with; publishing from the command line gives managed
\* sites the access that was saved when it asked.
PublishesWhatWasReviewed ==
    [][/\ page.shows = "diff" /\ page'.shows = "nothing" =>
             job'[Ui].at \in {"write", "fail"} /\
             job'[Ui].attempt.plan = page.review.candidate /\
             CurrentConfig(base, runtime) = page.review.current
       /\ job[Cli].at = "publish" /\ job'[Cli].at = "write" =>
             job'[Cli].attempt.sites = job[Cli].read.sites]_vars

\* When no drift is reported after an apply, the runtime file is the rendering
\* of the base file as it is now, whatever happened while the server reloaded.
InSyncWithoutDrift ==
    state.meta # None /\ ~BaseDrifted(state.meta, base) /\ ~RuntimeDrifted(state.meta, runtime)
        => /\ runtime # None /\ runtime.rest = base.rest
           /\ DOMAIN runtime.rules = DOMAIN base.rules
           /\ \A s \in DOMAIN base.rules \ Managed : runtime.rules[s] = base.rules[s]

\* Drift is never reported when nobody touched the files and nothing died:
\* a failed publication puts everything back.
NoFalseDrift ==
    AllIdle /\ Never({"baseEdited", "runtimeEdited", "crashed"})
        => ~BaseDrifted(state.meta, base) /\ ~RuntimeDrifted(state.meta, runtime)

\* Drift is reported exactly when there is something to report.
DriftShownExactly == InSyncWithoutDrift /\ NoFalseDrift

\* Between two commands the runtime file and its .last-good copy are what the
\* last successful publication wrote.
RuntimeIsLastPublished ==
    AllIdle /\ Never({"runtimeEdited", "crashed"})
        => runtime = history.good /\ lastGood = history.good

\* getPersonAccess: what the person page calls "confirmed active".
ActiveConfirmed ==
    /\ runtime # None /\ events.apply # None
    /\ events.apply.outcome = "reloaded" /\ events.apply.runtime = runtime

\* What is shown as confirmed is what the server works with, unless a failed
\* publication, or more than one of any kind, left no event, or somebody edited the
\* file behind the manager.
ConfirmedUnlessUnrecorded ==
    AllIdle /\ ActiveConfirmed /\ Never({"failureUnrecorded", "unrecordedAgain", "runtimeEdited"})
        => active = runtime

\* The documentation's claim: missing evidence leaves activation unconfirmed.
ConfirmedMeansActive == AllIdle /\ ActiveConfirmed /\ Never({"runtimeEdited"}) => active = runtime

\* A request to the service gives the state lock back, whatever the server does.
ServiceReleasesLock == holder = Ui ~> holder # Ui
=============================================================================

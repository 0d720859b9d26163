----------------------------- MODULE ManagerState -----------------------------
(***************************************************************************)
(* The data of the manager: what manager-state.json holds (manager/src/     *)
(* state.ts), the operations on it (service.ts, people.ts), the runtime      *)
(* configuration rendered from it and from the operator's base file, and    *)
(* the way back, reconciliation (runtime.ts, baseConfig.ts).                *)
(*                                                                          *)
(* An operation that may throw is a set: empty when it throws, else its one *)
(* result.  A hash of a file stands for the file.                           *)
(***************************************************************************)
EXTENDS FiniteSets

CONSTANTS
    Site,       \* sites of the base file
    Managed,    \* settings.managedSiteIds
    Email,
    Scope,      \* named scopes
    Full,       \* "*", FULL_ACCESS_SCOPE
    None        \* no such file, no such value

ASSUME ManagerDataAssumption ==
    /\ Managed \subseteq Site
    /\ Full \notin Scope

Scopes == Scope \cup {Full}

\* A value when the code goes on, nothing when it throws.
Only(condition, value) == IF condition THEN {value} ELSE {}

\* normaliseScopes: at least one scope, and "*" only alone.
WellFormed(scopes) == scopes # {} /\ (Full \in scopes => scopes = {Full})

\* What one person may do at a site; the empty set is "no grant".
Renderable(access) == \A e \in Email : access[e] = {} \/ WellFormed(access[e])

NoAccess == [e \in Email |-> {}]

\* A person's grants are merged.
MergedGrants(grants) ==
    [e \in Email |-> UNION {g.scopes : g \in {h \in grants : h.email = e}}]

\* normalizeManagedSiteState, of a list of grants and a catalogue.
NormalSite(raw) ==
    LET access == MergedGrants(raw.grants)
    IN Only(/\ Full \notin raw.catalog
            /\ \A g \in raw.grants : WellFormed(g.scopes)
            /\ Renderable(access),
            [access |-> access, catalog |-> raw.catalog])

Access == [Email -> SUBSET Scopes]
SiteState == [access : Access, catalog : SUBSET Scope]
EmptySite == [access |-> NoAccess, catalog |-> {}]

\* createSeededState: unmanaged sites are dropped, managed ones completed.
Seeded(sites) ==
    [s \in Managed |-> IF s \in DOMAIN sites THEN sites[s] ELSE EmptySite]

\* ensureScopeCatalogContains
InCatalog(site, scopes) == scopes \ {Full} \subseteq site.catalog

WithAccess(site, e, scopes) ==
    [access |-> [site.access EXCEPT ![e] = scopes], catalog |-> site.catalog]
WithCatalog(site, catalog) == [access |-> site.access, catalog |-> catalog]

UpdateSiteGrant(sites, s, e, scopes) ==
    IF s \notin Managed THEN {}
    ELSE Only(InCatalog(sites[s], scopes) /\ WellFormed(scopes),
              [sites EXCEPT ![s] = WithAccess(sites[s], e, scopes)])

ReplaceSiteGrants(sites, s, grants) ==
    IF s \notin Managed THEN {}
    ELSE IF \E g \in grants : ~InCatalog(sites[s], g.scopes) THEN {}
    ELSE {[sites EXCEPT ![s] = n]
            : n \in NormalSite([grants |-> grants, catalog |-> sites[s].catalog])}

RevokeSiteGrant(sites, s, e) ==
    IF s \notin Managed THEN {}
    ELSE Only(sites[s].access[e] # {}, [sites EXCEPT ![s] = WithAccess(sites[s], e, {})])

AddSiteScope(sites, s, scope) ==
    IF s \notin Managed THEN {}
    ELSE Only(scope # Full, [sites EXCEPT ![s] = WithCatalog(@, @.catalog \cup {scope})])

\* The grants must fit the new catalogue.
ReplaceSiteScopes(sites, s, catalog) ==
    IF s \notin Managed THEN {}
    ELSE LET site == WithCatalog(sites[s], catalog)
         IN Only(Full \notin catalog /\ \A e \in Email : InCatalog(site, site.access[e]),
                 [sites EXCEPT ![s] = site])

\* A scope that is still granted stays.
RemoveSiteScope(sites, s, scope) ==
    IF s \notin Managed THEN {}
    ELSE Only((\A e \in Email : scope \notin sites[s].access[e]) /\ scope \in sites[s].catalog,
              [sites EXCEPT ![s] = WithCatalog(@, @.catalog \ {scope})])

\* A configuration file: everything that is not access (`rest`), and who may
\* use which site.  The operator may declare a person twice, so an unmanaged
\* site's access need not be Renderable: [rest |-> ..., rules |-> [site -> [email ->
\* scopes]]].

Configs(rest) == UNION {[rest : rest, rules : [D -> Access]] : D \in SUBSET Site}

\* selectManagedSites and validateRuntimeToml: the base file has every managed site.
CanPlan(base) == Managed \subseteq DOMAIN base.rules

\* buildRuntimePlan: the access of managed sites comes from the state.
RuntimePlan(sites, base) ==
    [rest |-> base.rest,
     rules |-> [s \in DOMAIN base.rules |->
                  IF s \in Managed THEN sites[s].access ELSE base.rules[s]]]

\* getCurrentConfigForDiff
CurrentConfig(base, runtime) == IF runtime = None THEN base ELSE runtime

\* summarizeManagedConfigDiff throws without these.
CanCompare(config) ==
    /\ Managed \subseteq DOMAIN config.rules
    /\ \A s \in Managed : Renderable(config.rules[s])

\* buildManagerDiff: what a publication page is bound to.
CanDiff(base, runtime) == CanPlan(base) /\ CanCompare(CurrentConfig(base, runtime))
PublicationRevision(sites, base, runtime) ==
    [source |-> IF runtime = None THEN "base" ELSE "runtime",
     current |-> CurrentConfig(base, runtime), candidate |-> RuntimePlan(sites, base)]

\* changePersonAccess: all sites of a batch, or none.
ChangePersonAccess(sites, base, e, changes) ==
    Only(/\ CanPlan(base)
         /\ \A s \in DOMAIN changes :
                s \in Managed /\ (changes[s] = {} \/ UpdateSiteGrant(sites, s, e, changes[s]) # {}),
         [s \in Managed |-> IF s \in DOMAIN changes
                            THEN WithAccess(sites[s], e, changes[s]) ELSE sites[s]])

\* previewPortableManagerStateImport: a snapshot replaces everything.  The
\* catalogue of a site is not compared with its grants.
ImportedState(snapshot, base, runtime) ==
    IF ~(DOMAIN snapshot \subseteq Managed /\ CanDiff(base, runtime)) THEN {}
    ELSE IF \E s \in DOMAIN snapshot : NormalSite(snapshot[s]) = {} THEN {}
    ELSE {Seeded([s \in DOMAIN snapshot |-> CHOOSE n \in NormalSite(snapshot[s]) : TRUE])}

\* reconcileManagerStateFromConfig: the access a file grants, and the scopes it
\* mentions besides those already known.
ReconciledState(sites, config) ==
    [s \in Managed |->
        [access |-> config.rules[s],
         catalog |-> sites[s].catalog \cup ((UNION {config.rules[s][e] : e \in Email}) \ {Full})]]

\* buildManagerReconcilePreview; source is the base file or the runtime file.
Reconciled(sites, source, base, runtime) ==
    IF source = None THEN {}
    ELSE Only(CanCompare(source) /\ CanDiff(base, runtime), ReconciledState(sites, source))

\* detectConfigDrift, once an apply has recorded what it wrote.
BaseDrifted(meta, base) == meta # None /\ meta.base # base
RuntimeDrifted(meta, runtime) == meta # None /\ meta.runtime # runtime
=============================================================================

------------------------------ MODULE SiteAccess ------------------------------
(* Who may sign in where: the sites of the configuration file, how the server reads
   them, takes up a changed file while it runs, and answers sign-in requests by
   them.  A request, a link and a code are answered in several steps, between which
   the file may be edited or published by the manager, and the rules reloaded.

   A letter's case, white space around a value and the normal form of an address
   are left out: two values that differ in no more are one value here. *)
EXTENDS FiniteSets, Naturals, Sequences

CONSTANTS
    Email, Scope,
    Full,            \* FULL_ACCESS_SCOPE
    Blank,           \* an entry that is empty once it is trimmed
    Malformed,       \* an entry that is no address
    Text,            \* contents of the file that somebody may write, as lists of sites
    FirstText,       \* the one the server was started with
    GrantSets,       \* what the manager may grant to a person
    Managed,         \* the id of the site it manages
    Url,             \* addresses a sign-in request may name
    Call, Nothing,
    Mail,            \* mails sent to people
    Onward,          \* links to an application's page that a code was traded for
    MaxWrites

VARIABLES
    file,       \* the configuration file
    grants,     \* Nothing, or what the manager published in it
    sites,      \* config.sites of the running server
    takenUp,    \* history: the file and the grants they were read from
    busy,       \* [Call -> what a handler is about to do]
    mails,      \* [Mail \union Onward -> Nothing or the sign-in it was written for]
    delivered,  \* history: the last access token and where the browser went with it
    writes

siteVars == <<file, grants, sites, takenUp, busy, mails, delivered, writes>>

--------------------------------------------------------------------------------
\* The file.  Lists are normalised by dropping blank entries; what is left must be
\* well formed, and of a list that is not optional something must be left.
NormaliseAllowedEmails(emails) == emails \ {Blank}
GoodEmails(emails) == Malformed \notin emails /\ NormaliseAllowedEmails(emails) # {}
NormaliseScopes(scopes) == scopes \ {Blank}
GoodScopes(scopes) == NormaliseScopes(scopes) # {}

GoodRules(raw) ==
    /\ raw.allowedEmails # {} => GoodEmails(raw.allowedEmails)
    /\ \A rule \in raw.accessRules : GoodEmails({rule.email}) /\ GoodScopes(rule.scopes)

\* Several lines about one person add up.
AddAccessRule_LastWins(rules, e) ==
    IF \E x \in rules : x.email = e
    THEN NormaliseScopes((CHOOSE x \in rules : x.email = e).scopes)
    ELSE {}
AddAccessRule(rules, e) ==
    UNION {NormaliseScopes(rule.scopes) : rule \in {x \in rules : x.email = e}}
BuildSiteAccessRules(raw) ==
    [e \in Email |-> AddAccessRule(raw.accessRules, e)
                         \union IF e \in raw.allowedEmails THEN {Full} ELSE {}]

ParseOrigins(origins) == origins \ {Blank}
ParseAllowedRedirectUris(uris) == {u \in uris : u.origin # Blank}
HasSuspiciousRedirectPath(url) == url.odd
GoodUri(uri) == ~HasSuspiciousRedirectPath(uri)
GoodRedirects(raw) ==
    /\ ParseOrigins(raw.origins) # {}
    /\ ParseAllowedRedirectUris(raw.uris) # {}
    /\ \A u \in ParseAllowedRedirectUris(raw.uris) : GoodUri(u)

BuildConfiguredSite(raw) ==
    [id |-> raw.id, origins |-> ParseOrigins(raw.origins),
     uris |-> ParseAllowedRedirectUris(raw.uris), rules |-> BuildSiteAccessRules(raw)]

\* No two sites have an id or an origin in common, and none redirects elsewhere.
SitesAreConsistent(list) ==
    /\ \A i, j \in DOMAIN list :
          i # j => list[i].id # list[j].id /\ list[i].origins \intersect list[j].origins = {}
    /\ \A i \in DOMAIN list : \A u \in list[i].uris : u.origin \in list[i].origins

ParseSites(text) == [i \in DOMAIN text |-> BuildConfiguredSite(text[i])]
Loads(text) ==
    /\ text # << >>
    /\ \A i \in DOMAIN text : GoodRules(text[i]) /\ GoodRedirects(text[i])
    /\ SitesAreConsistent(ParseSites(text))

\* What the manager writes for a site: its grants instead of all rules.
RenderSiteAccessRules(g) ==
    [allowedEmails |-> {e \in Email : Full \in g[e]},
     accessRules |-> {[email |-> e, scopes |-> g[e]] :
                         e \in {x \in Email : g[x] # {} /\ Full \notin g[x]}}]
RenderManagedSite(raw, g) ==
    [id |-> raw.id, origins |-> raw.origins, uris |-> raw.uris,
     allowedEmails |-> RenderSiteAccessRules(g).allowedEmails,
     accessRules |-> RenderSiteAccessRules(g).accessRules]

--------------------------------------------------------------------------------
\* What a site allows.
SiteAllows(site, e, scope) == Full \in site.rules[e] \/ scope \in site.rules[e]

\* A rule is exact, or trusts a directory and everything below it.
MatchesRule(rule, url) ==
    /\ rule.origin = url.origin
    /\ \/ rule.path = url.path
       \/ /\ rule.subpath /\ Len(url.path) > Len(rule.path)
          /\ SubSeq(url.path, 1, Len(rule.path)) = rule.path
SiteAllowsRedirectUrl(site, url) == \E rule \in site.uris : MatchesRule(rule, url)
NormalisedForSite(site, url) ==
    IF HasSuspiciousRedirectPath(url) \/ ~SiteAllowsRedirectUrl(site, url) THEN Nothing ELSE url

\* At most one site has the id, or the origin.
FindSite(matching) == IF matching = {} THEN Nothing ELSE sites[CHOOSE i \in matching : TRUE]
FindSiteById(id) == FindSite({i \in DOMAIN sites : sites[i].id = id})
FindSiteByOrigin(origin) == FindSite({i \in DOMAIN sites : origin \in sites[i].origins})

\* Which site a sign-in is for: that of the address to return to, which then has to
\* be that of the address the link is to lead to as well.
ResolveRedirectTarget(url, known) ==
    LET site == IF known = Nothing THEN FindSiteByOrigin(url.origin) ELSE known
    IN  IF site = Nothing \/ NormalisedForSite(site, url) = Nothing THEN Nothing ELSE site
ResolveSignInRequest(returnUrl, verifyUrl) ==
    LET returns == IF returnUrl = Nothing THEN Nothing
                   ELSE ResolveRedirectTarget(returnUrl, Nothing)
    IN  IF returnUrl # Nothing /\ returns = Nothing THEN Nothing
        ELSE IF verifyUrl # Nothing THEN ResolveRedirectTarget(verifyUrl, returns)
        ELSE returns

--------------------------------------------------------------------------------
\* What a sign-in carries: its site, its person and where it is to lead, and, kept for
\* the properties, whether a rule admitted it and the sites are still as they were.
SiteId == UNION {{text[i].id : i \in DOMAIN text} : text \in Text}
SignIn ==
    [site : SiteId, email : Email, scope : Scope \union {Full}, to : Url \union {Nothing},
     verify : Url \union {Nothing}, could : BOOLEAN, spent : BOOLEAN, coded : BOOLEAN,
     same : BOOLEAN]

ASSUME SiteAccessAssumption ==
    /\ Full \notin Scope /\ Blank \notin Scope \union {Full}
    /\ Blank \notin Email /\ Malformed \notin Email
    /\ FirstText \in Text /\ Loads(FirstText)
    /\ Nothing \notin SignIn

AtRest == [at |-> "idle"]
Turn(c, call) == busy' = [busy EXCEPT ![c] = call]
Handled(c) == Turn(c, AtRest)
Watching == UNCHANGED <<file, grants, sites, takenUp, writes>>

\* What a line of the file says of a person, without any of the server's tables.
Granted(text, id, e, scope) ==
    \E i \in DOMAIN text :
        /\ text[i].id = id
        /\ \/ e \in text[i].allowedEmails
           \/ \E rule \in text[i].accessRules :
                 rule.email = e /\ (Full \in rule.scopes \/ scope \in rule.scopes)

SiteInit ==
    /\ file = FirstText /\ grants = Nothing
    /\ sites = ParseSites(FirstText)
    /\ takenUp = [text |-> FirstText, grants |-> Nothing]
    /\ busy = [c \in Call |-> AtRest]
    /\ mails = [m \in Mail \union Onward |-> Nothing]
    /\ delivered = Nothing
    /\ writes = 0

\* POST /signin, as far as the limiter of the address.
SignInArrives(c, e, scope, returnUrl, verifyUrl) ==
    /\ busy[c] = AtRest
    /\ LET site == ResolveSignInRequest(returnUrl, verifyUrl)
       IN  /\ site # Nothing
           /\ Turn(c, [at |-> "limited", site |-> site, email |-> e, scope |-> scope,
                       to |-> returnUrl, verify |-> verifyUrl,
                       could |-> Granted(takenUp.text, site.id, e, scope)])
    /\ Watching /\ UNCHANGED <<mails, delivered>>
\* The limiter has answered: a mail for who is allowed, the same answer for who is not.
IsAllowed_Anybody(call) == TRUE
IsAllowed(call) == SiteAllows(call.site, call.email, call.scope)
Admit(c) ==
    /\ busy[c].at = "limited"
    /\ IF IsAllowed(busy[c]) THEN Turn(c, [busy[c] EXCEPT !.at = "admitted"]) ELSE Handled(c)
    /\ Watching /\ UNCHANGED <<mails, delivered>>
Refuse(c) ==
    /\ busy[c].at \in {"limited", "admitted"}
    /\ Handled(c) /\ Watching /\ UNCHANGED <<mails, delivered>>
Written(m, r) == mails' = [mails EXCEPT ![m] = r]
SendMail(c, m) ==
    /\ busy[c].at = "admitted" /\ mails[m] = Nothing
    /\ Written(m, [site |-> busy[c].site.id, email |-> busy[c].email,
                   scope |-> busy[c].scope, to |-> busy[c].to, verify |-> busy[c].verify,
                   could |-> busy[c].could, spent |-> FALSE, coded |-> TRUE, same |-> TRUE])
    /\ Handled(c) /\ Watching /\ UNCHANGED delivered

\* POST /verify-email: the link names its site and where it returns to, and both have
\* to stand up to the rules of the moment.
FollowLink(c, m) ==
    /\ busy[c] = AtRest /\ mails[m] # Nothing
    /\ LET site == FindSiteById(mails[m].site)
       IN  /\ site # Nothing
           /\ mails[m].to # Nothing => NormalisedForSite(site, mails[m].to) # Nothing
           /\ Turn(c, [at |-> "validated", mail |-> m, site |-> site])
    /\ Watching /\ UNCHANGED <<mails, delivered>>
\* POST /verify-email/otp: the code is that of the mail's challenge.
EnterCode(c, m) ==
    /\ busy[c] = AtRest /\ mails[m] # Nothing /\ mails[m].coded
    /\ Written(m, [mails[m] EXCEPT !.coded = FALSE])
    /\ Turn(c, [at |-> "coded", mail |-> m])
    /\ Watching /\ UNCHANGED delivered
\* Link and code spend the grant; the code looks for its site afterwards.
SpendGrant(c) ==
    /\ busy[c].at \in {"validated", "coded"}
    /\ LET m == busy[c].mail
           site == IF busy[c].at = "validated" THEN busy[c].site ELSE FindSiteById(mails[m].site)
       IN  IF mails[m].spent THEN Handled(c) /\ UNCHANGED mails
           ELSE /\ Written(m, [mails[m] EXCEPT !.spent = TRUE])
                /\ IF site = Nothing THEN Handled(c)
                   ELSE Turn(c, [at |-> "signing", mail |-> m, site |-> site,
                                 by |-> IF busy[c].at = "validated" THEN "link" ELSE "code"])
    /\ Watching /\ UNCHANGED delivered
\* The access token is signed for the origins of the site, and the browser sent back.
Deliver(c) ==
    /\ busy[c].at = "signing"
    /\ LET mail == mails[busy[c].mail]
       IN  /\ busy[c].by = "link" \/ mail.verify = Nothing
           /\ delivered' = [audience |-> busy[c].site.origins, to |-> mail.to,
                            by |-> busy[c].by, same |-> mail.same, could |-> mail.could]
    /\ Handled(c) /\ Watching /\ UNCHANGED mails
\* A code entered on the server's page for a link that is to lead to the application
\* makes another link, which the browser follows at once.
SendToVerifyUrl(c, m) ==
    /\ busy[c].at = "signing" /\ busy[c].by = "code"
    /\ mails[busy[c].mail].verify # Nothing /\ mails[m] = Nothing
    /\ Written(m, [mails[busy[c].mail] EXCEPT !.spent = FALSE])
    /\ Handled(c) /\ Watching /\ UNCHANGED delivered

--------------------------------------------------------------------------------
\* The file is written by hand, or by the manager.
MayWrite == writes < MaxWrites /\ writes' = writes + 1
EditFile ==
    /\ MayWrite
    /\ file' \in Text \ {file} /\ grants' = Nothing
    /\ UNCHANGED <<sites, takenUp, busy, mails, delivered>>
Publish(g) ==
    /\ MayWrite
    /\ Managed \in {file[i].id : i \in DOMAIN file}
    /\ file' = [i \in DOMAIN file |-> IF file[i].id = Managed THEN RenderManagedSite(file[i], g)
                                      ELSE file[i]]
    /\ grants' = g
    /\ UNCHANGED <<sites, takenUp, busy, mails, delivered>>

\* The rules a request came under, or comes under while it is answered.
StillCould(text) ==
    [c \in Call |-> IF busy[c].at \in {"limited", "admitted"}
                    THEN [busy[c] EXCEPT !.could = @ \/ Granted(text, busy[c].site.id,
                                                                busy[c].email, busy[c].scope)]
                    ELSE busy[c]]
TakeUp(list) == sites' = list /\ takenUp' = [text |-> file, grants |-> grants]

\* POST /internal/access-config/reload: everything but the rules has to be as it was.
Invariant_IdsOnly(list) == {list[i].id : i \in DOMAIN list}
Invariant(list) ==
    {[id |-> list[i].id, origins |-> list[i].origins, uris |-> list[i].uris] : i \in DOMAIN list}
Reload ==
    /\ Loads(file) /\ Invariant(ParseSites(file)) = Invariant(sites)
    /\ TakeUp(ParseSites(file))
    /\ busy' = StillCould(file)
    /\ UNCHANGED <<file, grants, mails, delivered, writes>>
\* The server starts again, with any file it can read; links and codes outlive it.
Restart ==
    /\ MayWrite /\ Loads(file)
    /\ TakeUp(ParseSites(file))
    /\ busy' = [c \in Call |-> AtRest]
    /\ mails' = [m \in DOMAIN mails |->
                    IF mails[m] = Nothing THEN Nothing
                    ELSE [mails[m] EXCEPT !.same = @ /\ Invariant(sites') = Invariant(sites)]]
    /\ UNCHANGED <<file, grants, delivered>>

SiteNext ==
    \/ \E c \in Call :
          \/ \E e \in Email, scope \in Scope \union {Full} :
             \E returnUrl, verifyUrl \in Url \union {Nothing} :
                SignInArrives(c, e, scope, returnUrl, verifyUrl)
          \/ Admit(c) \/ Refuse(c) \/ SpendGrant(c) \/ Deliver(c)
          \/ \E m \in Mail : SendMail(c, m) \/ EnterCode(c, m)
          \/ \E m \in Mail \union Onward : FollowLink(c, m)
          \/ \E m \in Onward : SendToVerifyUrl(c, m)
    \/ EditFile
    \/ \E g \in [Email -> GrantSets] : Publish(g)
    \/ Reload
    \/ Restart

SiteSpec == SiteInit /\ [][SiteNext]_siteVars

--------------------------------------------------------------------------------
\* The running server admits exactly whom the lines of the file it last took up
\* admit, several lines about one person together.
AdmitsAsTheFileSays ==
    \A i \in DOMAIN sites : \A e \in Email : \A scope \in Scope \union {Full} :
        SiteAllows(sites[i], e, scope) <=> Granted(takenUp.text, sites[i].id, e, scope)

\* When that file was published by the manager, the server admits to the managed
\* site exactly whom the manager granted access, whatever the file said before.
GrantsAreServed ==
    takenUp.grants # Nothing =>
        \A e \in Email : \A scope \in Scope \union {Full} :
            SiteAllows(FindSiteById(Managed), e, scope)
                <=> Full \in takenUp.grants[e] \/ scope \in takenUp.grants[e]

\* The file's way into the server: every line of it counts, those the manager wrote
\* as it meant them.
AdmitsAsWritten == AdmitsAsTheFileSays /\ GrantsAreServed

\* Nobody gets an access token whom no rule admitted at any moment at which the
\* request for it was being answered; rules that changed later do not matter.
AdmittedWhenAsked == delivered # Nothing => delivered.could

\* The browser goes with its token only to an origin of the site the token is for;
\* after a code, unless the server was started again with other sites since.
DeliveredAtHome ==
    delivered # Nothing /\ delivered.to # Nothing /\ (delivered.by = "link" \/ delivered.same)
        => delivered.to.origin \in delivered.audience
================================================================================

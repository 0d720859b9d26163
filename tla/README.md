# Verification of Magic Link SSO

TLA+ modules, TLC configurations and TLAPS proofs for the parts of this
repository whose correctness depends on the order in which things happen. Paths
are relative to the repository; module names are those of the files in this
directory.

## Inventory

The **server** (`server/src`) sends sign-in mails and turns a link or a code into
an access token of a site. It keeps spent tokens, one-time codes, revoked
sessions, attempts per address and, for shared sign-in in a browser ("browser
SSO"), sessions, requests, codes and tickets, in memory, files or Redis.
**Applications** (`packages/*`, `examples/*`) and the **gate** (`gate/src`, a proxy
that signs visitors in on behalf of what is behind it) keep nothing between two
requests: what they know is in cookies. The **manager** (`manager/src`) edits who
may sign in where and publishes it as a configuration file that the server
reloads while it runs.

| Component | State | Operations | What is hard |
| --- | --- | --- | --- |
| Browser-SSO store, `server/src/browserSsoStore.ts` | sessions, requests, codes, bindings, tickets, each with a deadline | create/bind/consume request, issue/redeem code, issue/redeem ticket, create/revoke session, end a browser's session | one record (the binding) carries an epoch, a request list and a deadline for records of other kinds, and four operations rewrite it |
| Redis backend, `browserSsoRedisStore.ts` | the records as keys | `run`: reads, one compare-and-write script, retry | several servers interleave between reads; replies get lost; keys expire |
| File backend, `browserSsoFileStore.ts` | one snapshot, a queue | `run`: read, prune, operate, write, sync, rename | capacity; a crash or power cut between two of them |
| Hosted routes, `browserSsoRoutes.ts` | cookies; all else is in the stores | authorize, signin, verify, otp, exchange, signout | grant, session and code are separate transactions; rules reload between awaits |
| App-owned sign-in, `browserSsoBootstrap.ts`, `packages/core/src/browser-sso-*.ts` and its bindings | sealed cookies that all tabs share, the addresses tabs were sent to | start, sign in, hand off, verify, redeem, callback | tabs' sign-ins overlap; a mail opened in another browser; lost replies |
| Classic sign-in, server, `server/src/app.ts` | tokens in mails, cookies of its pages | `/signin`, `/verify-email`, `/verify-email/otp`, `/logout` | link and code spend one grant; check and spending are separate awaits; rules change in between |
| Classic sign-in, applications | a jar of cookies, a page per tab | form, link, confirmation, code, logout, protected pages, in seven implementations | two tabs overwrite each other's cookies; stray forms; lost replies |
| One-time codes, `otpChallengeStore.ts`, `redisSecurityState.ts` | a record per challenge, a pointer and a lock file per context | create, verify, prune | a crash inside create or a write, a lock file that expires |
| Replay store, `verificationTokenReplayStore.ts` | a marker per spent jti | consume, prune | a marker must not go before the last proof that carries its jti |
| Session revocations, `sessionRevocationStore.ts` | a file or key per revoked token | revoke, isRevoked | a file read or swept while it is written |
| Limiters, `perEmailSignInLimiter.ts`, `gate/src/rateLimit.ts` | records of attempts, or a counter | consume, sweep | counting and writing are apart; window boundaries |
| Site rules, `packages/config-core/src/index.ts`, `server/src/app.ts`, `manager/src/runtime.ts` | the file, the rules in memory | read, reload, restart, and every handler that asks the rules | a request, a link and a code are answered in steps between which the rules change |
| Manager lock, `manager/src/lock.ts` | `manager.lock` | acquire, recover, release | unlink does not depend on what was read; crashes |
| Manager state and publication, `apply.ts`, `state.ts`, `people.ts`, `service.ts`, `runtime.ts` | state, runtime, `.last-good` and base files | edit, import, apply, reload, roll back | a crash, a timeout or an editor between two files |
| Manager audit log, `audit.ts` | a hash chain over rotated files | append, rotate, load | a crash between rotation and append; readers without the lock |
| Manager access, `manager/src/http`, `auth.ts`, `gate/src/app.ts` | sessions, the manager's token, counters | requests through the gate or with a token | a request is authenticated in one place and carried out in another, later |

What makes each part correct: a browser that signed out stays signed out and
nothing outstanding then signs it in again; nothing else signs it out; requests,
codes, tickets, links and mails sign in once, their own visitor, on the page the
sign-in began, by rules that held while it was answered; limits hold; calls of a
backend are atomic and end; an answered change survives a crash; the manager
loses no update, publishes what was reviewed and says of a publication only what
is so.

## Modules

| Module | Models | State | Actions |
| --- | --- | --- | --- |
| `BrowserSsoStore` | `createBrowserSsoStore`, with the file backend's admission control and capacity | the five tables, the clock, what was ever minted, spent, ended, cancelled | one per operation, `Prune` for reads and refusals, `Tick`; the refinement mapping to `CentralSession` is at its end |
| `CentralSession` | what the issuer promises about a session: it starts once, and once over stays over | a life per handle | `Start`, `Finish` |
| `BrowserSsoOcc` | `run` of the Redis backend and `COMMIT_SCRIPT`, for operations given as parameters | the keys; per call its place, read set, attempts, resends | `Begin`, `Read`, `CommitScript`, `Answered`, `Retry`, `Resend`, `Throw`, `Expire` |
| `AtomicTransactions` | what `createBrowserSsoStore` relies on | the keys, a phase and an answer per call | `Start`, `Execute`, `Return`, `Fail`, `Expire` |
| `SnapshotFile` | the file backend below its transactions | the file, the queue, what was answered | `ReadSnapshot`, `WriteTemporary`, `SyncTemporary`, `RenameTemporary`, `Return`, `Outage` |
| `HostedSignIn` | the handlers of `browserSsoRoutes.ts` on top of `BrowserSsoStore`, which it extends | per call its place and what it has read; cookies, rules, mails, challenges, the deadlines that have passed, markers | one per awaited operation and per read of the rules between two awaits; `Reload`; `Lapse` (a code or a link expires); `Vanish` |
| `AppOwnedSignIn` | an application's side of browser SSO, and the bootstrap handlers as it meets them | jars, tabs, transactions, requests, mails, sessions, tickets | what a visitor does, what an application answers, `Authorize`, `Redeem`, `SignOut`, `Lapse`, `Reload` |
| `EmailGrant` | the classic flow at the server with the challenge and replay stores | tokens, challenges, pointers, markers, calls past their check | `SignIn`, `SignInCut` (crash), `VerifyLink`, `RightCode`, `WrongCode`, `RefuseCode`, four outcomes of the spending, `Abandon`, `Tick` |
| `ClassicClient` | the classic flow at six integrations and on the server's own pages | a jar, a page and a call per tab; per mail what the server knows | the visitor's moves; per integration one action per route, for the call and for its reply |
| `OtpFile` | the files of the one-time codes of one context | lock file, records, pointer, workers | one per file operation of create and verify, `OtpLockAges`, `Halt` |
| `SessionRevocation` | the revocation stores | entries, calls under way, clock | `Revoke`, `WriteExpiry`, `Check`, `ReadEntry`, `RemoveEntry`, `RevocationTick`, `RevocationCrash` |
| `SignInLimiter` | the five limiters, for one key | records, the gate's window, calls under way, clock | `ConsumeAtOnce`, `ConsumeInGate`, `SendScript`/`RunScript`, `CountRecords`/`SweepRecords`/`CreateRecord`/`WriteRecord` |
| `SiteAccess` | the rules of sites from the file to the answer | the file, the rules, calls, mails, addresses | `SignInArrives`, `Admit`, `Refuse`, `SendMail`, `FollowLink`, `EnterCode`, `SpendGrant`, `Deliver`, `EditFile`, `Publish`, `Reload`, `Restart` |
| `ManagerLock` | `lock.ts` with the load and save of a transaction | lock file, processes, tasks, the state's version | `Create`, `ReadPid`, `CheckPid`, `RemoveStale`, `WritePid`, `Load`, `Save`, `Refrain`, `Release`, `Crash` |
| `ManagerState` | the manager's data and the operations on it, as operators | | |
| `Manager` | the service and the command line between them | the base, state, runtime and `.last-good` files, the server's rules, the log, who is in the middle of what | `ApiRequest`, `PageRequest`, `Command`, what comes from outside, `Proceeds` (one step of an apply), `Reloaded`, `Crash` |
| `ManagerAccess` | who gets through to the manager | sessions, the token, counters, requests under way | `Sends`, `HandleProxyRequest`, `Arrives`, `CarryOut`, `LoginPost`, `LogoutPost`, `StoresCookie`, `ManagerRestarts`, `Minute` |
| `AuditLog` | `audit.ts` | the files, an append and a read under way | `BeginAppend`, `RotateStep`, `FinishAppend`, `Cut`, `StartRead`, `ListOne`, `ReadOne` |
| `MC*` | instances; `MCFiles`, `MCClassic` and `MCManagerVisits` put unrelated modules side by side: a behaviour is one of one of them, chosen at the start | | |
| `*Proofs` | theorems about the module they are named after; `BrowserSsoStoreProofs` and `BrowserSsoEpochProofs` about `BrowserSsoStore`; `BrowserSsoOccProofs` about `BrowserSsoOcc` and `MCOccSessions`; `ClassicProofs` about `EmailGrant` and `ClassicClient`; `ManagerProofs` about `Manager`, `ManagerState` and `ManagerAccess`; `FileProofs` about `SnapshotFile`, `SessionRevocation`, `OtpFile`, `ManagerLock`, `SiteAccess`, `SignInLimiter` and `AuditLog` | | |

Correspondences that are not obvious:

- *Store.* Opaque values stand for their hashes. `App` is everything an application
  fixes at the start and has to present again; the code compares the fields one
  by one, the model the whole. A caller samples `Date.now()` before it waits for
  the backend; `now` may lag by `MaxLag`. An expired record is dropped before it
  is looked at, in both backends. `marked` says that `bootstrapEpoch` is defined.
- *Redis.* An operation is a deterministic function of what it has read; `set`
  reads its key first, as the code does. The client is not in the repository:
  that it sends a command once more after a reconnect is taken from
  `createRedisSecurityStateClient` (`maxRetriesPerRequest: 1`).
- *Hosted routes.* A step that waits for the store *is* a step of the store:
  `Create` has `CreateRequest` as a conjunct, and so on. The code between two
  waits is a step of its own where it reads the rules. The first checks of
  `SignIn` and `Exchange` only turn callers away early. A cookie is read when a
  call arrives and set when its reply does. A mail confirms by two proofs with a
  deadline each, the code's never after the link's (`Lapse`). A spent grant is
  marked until the deadline of the proof that spent it, so the marker of a
  confirmation by code may be gone while the link works. It may also stay longer
  (Redis drops it at once, the file store prunes at most once a minute, the store in
  memory never drops it), so from then on `Spend` may find it or not.
- *Applications.* In `ClassicClient` a request carries the cookies the jar held when
  it was sent; `AppOwnedSignIn` reads the jar when the application handles the
  request (`Carried`). In both a reply changes the jar when it arrives. Tabs of one browser share the jar. A
  page shows what its address and the jar said when it was rendered. Cookies that
  a library signs or seals are values nobody else can make.
- *App-owned sign-in.* The server is modelled as far as an application meets it:
  transactions are named by their state, and the store's refusals for lack of
  room are left to `BrowserSsoStore`. `begun` is history: the browser a
  transaction was started in.
- *Cookies of a reply.* `ClassicClient` has a fixed set of cookies and writes a reply
  as a full record in which `Kept` marks what the reply does not mention;
  `AppOwnedSignIn` names cookies by transaction and writes a reply as a function
  on the cookies it sets.
- *Files.* A file that is being written in place is first empty. The snapshot's
  contents are the number of changes made to it; what was written but not synced
  may be lost in a power cut. A rename counts as durable once it is done, although
  `browserSsoFileStore.ts` never syncs the directory: whether a file system keeps a
  rename of a synced file is outside the model. In `OtpFile` an age of more than ten seconds is a
  flag any lock file may get at any time: a holder can be slow.
- *Audit log.* An entry is its number and a hash the number of the entry it covers.
- *Manager.* The lock is taken and given back at once and a dead owner loses it
  (`ManagerLock` has the steps). Reading the files at the start of an apply is one
  step; from the first write on every file operation is one. A hash of a file
  stands for the file. A handler that throws before its first write is no step.
- *Manager access.* Requests are counted per kind of route.

## Runs

| Run | Question | Bounds |
| --- | --- | --- |
| `Store` | Is the store a central session to its callers? Do ended sessions and cancelled tickets stay out, does a stale cookie harm anyone, does a code outlive its session, does a limit hold? | 2 browsers, 2 handles, 3 requests of both kinds, 2 tickets, 1 code, 2 epoch changes, limit 1, clock to 2, a snapshot of 7 records |
| `Occ_sessions` | Redemptions of a code and a ticket against a logout, key by key | 2 code redemptions, 1 ticket redemption, 1 logout; 2 attempts and 1 lost reply with its resent script per call; epochs to 2 (`MaxEpoch`) |
| `Occ_requests` | Concurrent creations of one browser: atomic? do they end? | 2 creations and 1 consumption, limit 1, 2 attempts; no script is sent twice here: what a lost reply does is the subject of `Occ_sessions` and of the refinement theorem |
| `Hosted` | The hosted handlers two at a time: mails, requests, replacement, rules | 2 calls at a time (any number in a row), 1 browser, 2 requests, 2 mails, 2 handles, 1 code, rules on and off, 2 deadlines that pass (`MaxLapses`), a snapshot of 4 records; `HostedBounded`: of a second mail, a change of the rules and a deadline that passes each is followed to the end, but not two in one behaviour |
| `AppOwned` | Whose session ends up in which browser when tabs' shared sign-ins overlap? | 2 browsers, 2 tabs, 2 transactions, 2 mails, 2 people, 1 fault |
| `Classic` | The server: link and code of two requests, slow calls, crashes. The applications: each of the six and the server's own pages, with two tabs | 2 mails, 2 calls or tabs, 2 attempts, code shorter than link, lag 1; 2 pages, 4 requests, 1 fault |
| `Files` | Seven modules about files and rules, one per behaviour | log: 2 archives of 2 entries, 7 events, 2 crashes; revocations: 3 calls; limiters: 2 calls, 4 attempts, clock to 4; snapshot: 2 operations, 4 changes, 2 outages; codes: 2 workers, 2 challenges, 3 verifications, 1 crash; lock: a server with 2 requests, a command, 1 crash; rules: 2 sites, 6 files, 2 edits |
| `Manager_publish` | Do service and command line publish what was reviewed, lose nothing and say only what is so? Who gets through to them? | 2 sites, 1 managed, 3 base files, 2 commands, 2 mishaps; 2 people, 2 sessions, 2 tokens, 2 requests |
| `Grant_short_code`, `Lock_recovery_race`, `Revocation_race`, `Manager_unrecorded` | violated, see Findings | as above, smaller |

Why these bounds show something: every property has a mutant of the code that
breaks it under the same configuration (an epoch dropped when a binding is
rewritten, a comparison left out of the script, a read set kept over a retry, a
form token checked last, a failed check taken for a good one, ...). Two browsers,
tabs, people or sessions are what every property compares. Two epochs suffice
because an epoch is compared for equality only; 2 archives because the middle of
the rotation is then reached and repeated. A request more than the limit is there
wherever the limit is asked about. Opaque values are interchangeable, so `Store`,
`Occ_sessions`, `Hosted`, `Classic`, `AppOwned` and `Grant_short_code` use
symmetry; no run with symmetry checks liveness. `Store` runs without lag: the
theorems cover every lag. The constraint of `Hosted` leaves combinations out; its
four properties are proved for all of them.

### Fairness

`BrowserSsoOcc` assumes weak fairness of a call's own steps (Node runs every call
on as long as Redis answers) and none of expiry, lost connections or errors.
`ManagerLock` assumes weak fairness of the steps of a living process, which
includes that somebody tries to write again: the operators' manual tells them
to. `Manager` assumes it of the service's own steps (its request to the server has
a time limit), not of the command line, whose prompt may wait for ever, nor of
the server's answer. Nothing assumes that a process crashes or does not. The
other modules have safety properties only.

`CHECK_DEADLOCK FALSE` stands where calls end and a bounded clock or supply stops.
`Store`, `Lock_recovery_race` and `Revocation_race` check for deadlock.

## Theorems

All proofs are checked by TLAPS for every value of the constants that satisfies
the modules' assumptions.

- `BrowserSsoStoreProofs`: type correctness, `EndedStaysEnded`,
  `CancelledStaysCancelled` and `SingleUse`. The invariant says, beside types,
  that keys are unique, that records name only minted values, that a spent value
  has no record, that a pending request is listed by its own binding, which
  outlives it, and that every bound session and every ticket is *fenced*: the
  binding it names is still there, is marked, outlives it and has an epoch at
  least as high as its own, strictly above it once the session has ended or the
  ticket is cancelled. None of the three is inductive without it.
- `BrowserSsoEpochProofs`: `RequestLimitHolds`. The code counts the entries of a
  list in the binding, not the requests; that every pending request is in its
  binding's list is part of the store's invariant, and the module adds that there
  are finitely many, so that the two counts can be compared. Then
  `OutstandingTicketsRedeemable`, `ActiveUntilEnded`, `StaleHandleHarmless`,
  `CodeDiesWithSession` and the refinement of `CentralSession`. The fences say that what ended is *behind* its binding's
  epoch; these need the converse, that what nobody ended is *in* it. The
  refinement assumes `MaxLag < SessionLife`: a session whose creator waited longer
  than that for the store would be over before it is written.
- `HostedSignInProofs`: every step of a handler is a step of the store or leaves it
  alone (`RoutesUseTheStore`), so the store's theorems hold of the handlers; then
  `MailSignsInOnce`, `LauncherRequestSignsInOnce`, `NoIdentityLeftBehind`,
  `CompletedByLatestMail` and `NothingReleasedAgainstTheRules`. The invariant has a
  part for each. A call has read what the place it is in needs. A grant is marked as
  spent before a session starts for it, and a second call gets past the mark only
  when the mark's deadline has passed; a link's deadline passes after its code's
  (`LapseOrder`), and a code's challenge is consumed before the grant is marked, so
  no code gets there twice (`CodeInv`). What is left is the exception that
  `MailSignsInOnce` names (`Forgotten`). A launcher's request is spent before its session starts; a call that
  answers has ended the session its browser came with, and its own comes from its
  mail's grant. A handler looks the rules up again before it releases a code or a
  session, but for an app and a person it has remembered over several awaits; they
  are still the right ones (`WorkFits`), because what the store says of an identifier
  it has created it says for ever (`Said`).
- `BrowserSsoOccProofs`: type correctness, `RefusedOnlyByChange` and the refinement
  of `AtomicTransactions`, for every operation that satisfies
  `OperationAssumption`. A call whose read set is stale, or whose attempt was just
  refused, has seen more changes of its keys by others than it has refused
  attempts behind it; a validated read set is a part of the current store, on
  which the operation does what it would do on the whole of it. Then `RedeemedOnce`
  and `LogoutIsFinal`, for the operations of `MCOccSessions` (`SessionsAssumption`
  says that `BrowserSsoOcc` runs with these, and that `Absent` is no epoch), any number
  of redemptions and logouts and any `MaxEpoch`: nothing puts a code, a ticket or a
  session back, the binding's epoch only moves forward, and what a ticket was
  exchanged for is in an epoch that a logout has left behind (`OverAfterLogout`).
- `ClassicProofs`, server: `CodeAcceptedOnce`, `GuessesBounded`,
  `SpentOnceWhileKept`. The invariant counts, for every jti, attempts left, wrong
  codes and acceptances together, and says that a spent jti has its marker until
  its deadline.
- `ClassicProofs`, applications: `ExchangedOnlyIfConfirmed`, `SpentForItsVisitor`,
  `EndsWhereItBegan` and `ForwardsOnlyLiveSessions`, for all six integrations and
  the server's own pages and any number of tabs. Pages, requests, replies and the
  jar are all written at other times than they are used, so the invariant has to
  say of each of them, wherever it is, that it fits the mails it is about:
  a confirmation page shows a mail that was sent and belongs to its CSRF value, a
  cookie with that value next to it holds the same mail or none, a challenge names
  the page its mail was asked from, and a request to confirm is from a page whose
  mail its visitor has said yes to. That each CSRF value goes with one mail for
  ever (`\E f`) is what keeps two tabs that overwrite each other's cookies from
  confirming each other's mails. What has fitted goes on fitting because mails
  are sent, confirmed and exchanged for good (`Grows`). `ClassicClientAssumption`
  says that the markers `Nil` and `Kept` are no mails, numbers or challenges.
- `AppOwnedSignInProofs`: `CompletedForItsSession`, `SignedInByItsVisitor` and
  `LocalSessionFirst`. An address can be opened anywhere and at any time, so the
  invariant says what every address rests on (`VisitFits`): the ticket's address
  is only ever reached after the application's own session reached the browser
  that began the transaction, and that session is the one every ticket of the
  request was made out with; a receipt names a ticket that was redeemed. A reply
  that leads there brings the session with it (`ReplyFits`). At the server, a
  ticket or a code is made out once for a request, and closes it (`MadeOut`).
  Model-checking these three with more faults showed that they are not
  unconditional: if the address of `/sso/authorize` is opened in another browser
  and what comes of it is carried back, the server's request belongs to a browser
  that did not begin the transaction. `Strayed` names these transactions, and the
  properties except them and nothing else. `OwnedAssumption` says that `None` is
  neither an address, a request nor a mail.
- `FileProofs`, snapshot: `AnsweredChangesSurvive`: at most one operation is past
  the queue, what it read is what the file holds, and a file is renamed only once
  it is synced, so an answered change is in every file a crash can leave.
  Revocations: `SignOutKept`: a removal under way is of an entry that has expired
  or was disturbed. Codes: `AttemptsNeverGivenBack`: until a lock file is removed
  under its holder, a worker past the lock is the one the file names; hence what
  it read is what is stored, and a stored counter, or the one about to be written
  over an emptied file, is exactly what the answers have left.
- `FileProofs`, lock: type correctness, exclusion and no lost update for any number
  of processes and writers until the first process dies. Nobody takes a file for
  stale, and the file belongs to the one writer past its creation. After a death
  the two do not hold in general (`Lock_recovery_race`, with three processes). With two
  (`TwoProcesses`: one server and one command line) they hold whoever dies: a writer
  that sees another pid than its own has nobody of its own process inside
  (`ReadOther`), and one that takes the file for stale is in the last process, whose
  writers wait for it (`TrulyStale`).
- `FileProofs`, rules of sites: `AdmitsAsWritten`, `AdmittedWhenAsked` and
  `DeliveredAtHome`, for any files, sites, people, scopes and addresses. The sites
  in force are those of the file last taken up, which was well formed; a file the
  manager published grants what it meant; a request under way keeps the site it was
  admitted to, not the one now in force, and with it the evidence that a rule
  admitted it; a mail leads to an address its site had. The two parts about files
  are needed because a reload takes up what several edits have left.
- `FileProofs`, limiters: `LimitHoldsInEveryWindow`. Whatever was let through is still
  recorded for as long as it is recent, seen from the clock and from the (older)
  time of every call under way (`RecordedWhileRecent`), and lies in the past of all
  of them (`PassedBefore`). So the recent records a call counts contain every
  attempt its window could hold, and one more fits (`RoomForOne`). With files this
  needs that one call at a time is under way and that no two records share a
  number; a sweep of half-written files removes records by number. The gate's
  window in memory begins anew: a window of time meets its present and at most one
  earlier one (`BeforeGateWindow`), hence the factor two.
- `FileProofs`, audit log: `HistoryWithoutHoles`, for any number of archives, any file
  size and any number of crashes. A rotation moves whole files, oldest first, and
  the place the next one goes to is free (`Appending`), so wherever it is cut short
  and begun again the entries stay in order and none is lost but the oldest. The
  hash an append read before rotating is still that of the last recorded entry when
  it writes. A reader's last hash is that of the last signed entry it has kept, so
  one that a rotation overtook either meets an entry that does not follow and
  fails, or has missed nothing in between (`Reading`).
- `ManagerProofs`, service and command line: type correctness, `ReadStaysCurrent`,
  `PublishesWhatWasReviewed`, `DriftShownExactly`, `RuntimeIsLastPublished` and
  `ConfirmedUnlessUnrecorded`. Whoever is at work has the lock. An apply writes
  three files and an event one after the other and may have to take the first
  back, so the invariant says for every place in it what the files hold: from its
  first write the runtime file is its plan (`PlanWritten`); what is recorded is
  what is in the files, or would be after a rollback (`FilesInStep`, `GoodKept`);
  and what an event says of the server (`Evidence`). Each part holds until the
  misfortune that breaks it, and names it. `ConfirmedUnlessUnrecorded` excepts a
  second publication without an event: after two of them what the log calls
  confirmed may be the file before both.
- `ManagerProofs`, access: `ChangesAreTheirs`, for any people, sessions, tokens and
  requests: what the gate forwards carries the headers of a session that was live
  when the request was sent, and a request the manager let in under `/api/` would
  be let in again, for the same actor, until it is carried out or the manager
  restarts.

Only model-checked: liveness (`Settles`, `DeadLockIsRecovered`,
`ServiceReleasesLock`), which is out of reach of the provers used. Every other property
of the passing runs is stated by a theorem.

## Findings

1. *The code's marker is shorter than the link.* `completeOtpVerification` spends
   the grant until the code's expiry (`server/src/app.ts:1453-1456`). With
   `otp.expirationSeconds` below the e-mail expiry the marker can be dropped while
   the link with the same jti is valid, and the link signs in again.
   `README.md:74-75` and `docs/security-controls.md:57-58` say that they spend one
   one-time grant. `Grant_short_code` shows it. The hosted routes do the same
   (`browserSsoRoutes.ts:988-991`, where `expiresAt` is the challenge's, `:1195`,
   which is the earlier of the two, `:913-916`): a confirmation by code whose
   `issueCode` fails leaves the request pending, and once the marker is gone the link
   starts a second session for the same mail. `MailSignsInOnce` of `Hosted` says what
   does hold there, with this as its exception (`Forgotten`).
2. *Recovering a stale lock is not atomic.* `acquireApplyLock` unlinks whatever file
   it finds after it has read that the owner is dead
   (`manager/src/lock.ts:90-93`). Two processes that read the same stale file can
   both get in; `Lock_recovery_race` ends in a lost update.
   `docs/manager-operations.md:157-158` says the lock protects all writes.
3. *A revocation that is read while it is written is removed.* `revoke` empties the
   file before it writes it; a check that comes in between finds no number,
   removes the file and answers that the session is live
   (`server/src/sessionRevocationStore.ts:49-54`). `Revocation_race` shows that the
   signed-out session stays live. `docs/security-controls.md:119-120` says entries
   live until the token expires. `SignOutKept` says what does hold.
4. *A failed publication without its event leaves the one before confirmed.*
   `recordApplyFailure` ignores that the event could not be written
   (`manager/src/apply.ts:306-320`). If the server had taken up the new file and
   only its reply was lost, the page goes on calling the earlier publication
   confirmed. `manager/README.md:83-87` says that missing evidence leaves it
   unconfirmed. `Manager_unrecorded` shows it; `ConfirmedUnlessUnrecorded` says
   what does hold.

Met while modelling, promised nowhere and therefore no finding:

- *Server.* A confirmation that overlaps a sign-out of the same browser leaves a
  session, and perhaps a code for it, that no cookie names: hosted sessions are
  bound to no browser. After a restart with other redirect rules a code still
  sends the browser to the address accepted when the mail was asked for; links
  check it again.
- *Files.* A torn file in the code store makes every create that is due to prune
  throw until somebody removes it. A crash that leaves a line of the audit log
  without its line feed spoils that line and the next. A second logout
  interrupted by a crash loses the first one's revocation. Temporary snapshot
  files of a dead process stay.
- *Limiters.* Concurrent calls of the file limiter can all pass, and a sweep can
  remove a record that was just created and is still empty. Scripts that overtake
  each other between servers can exceed the limit. The gate's window in memory
  does not slide: up to twice the maximum passes around its end.
- *Applications.* Fastify's code sign-in ends where the form was opened. A code
  entered while another tab's challenge cookie is in the jar is refused, and
  costs that challenge an attempt. A late reply of Next.js to an invalid session
  clears a newer cookie. Only the gate and the server's own pages ask or tell the
  server about revoked sessions. A WebSocket through the gate outlives a logout.
- *App-owned sign-in.* A lost reply to a redemption leaves a session nobody names.
  The limit of pending transactions is checked against the cookies a request
  carried, so tabs that start together pass it. Django clears both cookies when a
  verification repeats in phase `finish`, the core client keeps them.
- *Manager.* Rules of mixed forms in a site the manager does not manage make every
  reload fail. A failure to read details after a save answers 404 although it was
  saved. A crash right after the runtime file is written makes it the text the
  next failed publication restores.

## Not modelled

Signing, hashing, rendering, mail transport, logging, start-up checks, settings
and their validation, `doctor`, module registration of the framework packages,
starters, scripts and end-to-end tests: none of it keeps state of its own.

Within the modelled parts: wrong guesses in `ClassicClient` (they are
`EmailGrant`'s subject); the pages' own follow-up `fetch`; the pretended
confirmation a not-allowed address gets on the server's own page; a code sign-in
there with another verify address; the bootstrap answers "disabled" and 429;
discovery beyond offered, not offered and failed; a sign-in's second restart;
browser-SSO and launcher registrations, which change only with a restart; the
difference between an undefined and an empty access list, SMTP settings per site;
the Redis key's own expiry, which matters only to a script delayed by a whole
window; logs that go back to an earlier release; pids used again; lock files
without a pid, which the manual leaves to the operator; the catalogue check an
import does not make; a power cut that undoes a rename; two sweeps of the file
replay store that remove a marker written between them; waiting for the state lock in `ManagerAccess` (a busy one
answers 409); requests that reach a gate-mode manager without the gate; a 502 of
the gate when a reply is lost, which says nothing about the change.

## Plan

1. `SnapshotFile` as an implementation of `AtomicTransactions`, like `BrowserSsoOcc`.
2. `ManagerLock` inside `Manager`, in place of the atomic lock.
3. Launcher and browser-SSO registrations in `SiteAccess`, with a restart between a
   request and its answer.

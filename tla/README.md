# Certio: a verification project

Certio is a PKI manager: it keeps certificate authorities, issues, renews,
revokes and deploys certificates, publishes revocation lists and OCSP answers,
serves ACME clients, and authenticates its users.  The TLA+ modules beside this
file model the parts of it where processes interleave over shared rows; TLC
checks them on small instances; and TLAPS proofs establish, for every instance, those of the
safety properties that the code guarantees without an assumption that it does not justify.

Paths below are relative to `internal/` unless they begin with something else.

Contents: [the system](#1-the-system), [the plan](#2-the-plan),
[the models](#3-the-models), [the runs](#4-the-runs),
[disagreements found](#5-where-the-code-and-its-documentation-disagree),
[the proofs](#6-the-proofs), [limits](#7-what-is-not-modelled).

## 1. The system

One binary runs an HTTP API, an ACME server, an OCSP responder and a scheduler
over one SQL database.  Several replicas may run over one database.  What
matters for everything below:

- **Statements, not transactions.**  A handler of `service/` reads rows, decides,
  and writes rows, one GORM statement at a time.  Only the deletions of a
  certificate (`store/repo_pki.go:440`) and of an authority (`repo_pki.go:174`) and the
  pruning of orders (`repo_acme.go:226`) are transactions.  Nothing locks a row,
  nothing carries a version, and no mutex serialises handlers.
- **Whole-row saves.**  `Update` of a repository is GORM's `Save`: every column
  of the struct that was read is written back, and a row that has been deleted in
  the meantime is inserted again.
- **The scheduler repairs.**  `schedule/scheduler.go:84-110` runs a pass at startup and
  then at each tick, and refreshes the lists on a second ticker.  Much of what a
  failed or overtaken handler leaves undone is put right there, or never.

### Components

| Component | State | Operations | Interacts with | What is hard | What makes it correct |
|---|---|---|---|---|---|
| Revocation and status (`service/certificate.go`) | `certificates.status`, table `revocations` | Revoke, BulkRevoke, ReleaseHold, UpdateCertificate, DeleteCertificate, RefreshCertificateStatuses | publishes lists; read by OCSP, renewal, deployment | two tables written separately; whole-row saves; hold replaced in two statements | only holds are reversible; what a caller was told stands; both tables tell one story |
| Revocation lists (`service/authority.go`, `pki/crl.go`) | `crl_pem`, `crl_number` of the authority row | GenerateCRL, CRLFor, refreshCRLs; other writers of the row | called by every revocation, by anonymous downloads, by the scheduler | number computed from a row read earlier; protected CAs cannot sign unattended | numbers increase; every revocation is published in the end |
| OCSP responder (`service/ocsp.go`) | none of its own | OCSPRespond | reads both tables | reads between two statements of a handler | answers what the revocation table says |
| Authorities (`service/authority.go`, `pki/ca.go`) | table `authorities`; the limits inside each CA certificate | create, import, renew, update, delete | issue certificates, sign lists | parents read before children are written; a cascade of one level; late saves of deleted rows | the tables are a forest whatever happens; nothing exceeds the certificate it was signed with |
| Issuing, and handing out keys (`service/certificate.go`) | rows of `certificates`: names, key, download count | Issue, SignCSR, Renew, UpdateCertificate, LoadBundle, AuthorizeKeyDownload | authorities | a count checked on a row read before | under policy "once" no row hands its key out twice, but for requests that race |
| Renewing (`service/certificate.go`) | rows of `certificates`: `auto_renew`, `renewed_from_id` | Renew, BulkRenew, the autoRenew job, UpdateCertificate | scheduler, deployment | chain of rows linked in two statements; edits save a stale row | renewal never stops by itself; none is left due |
| Deployment (`service/deployment.go`, `deploy/`) | table `deployment_targets`, and the servers outside | DeployCertificate, DeployPending, Test, edits of targets | after Renew, scheduler, API | slow, failing pushes; row saved after the push | what a row records was delivered; servers end with the newest certificate |
| Scheduler (`schedule/`) | the history of jobs, which nothing reads | expiryScan, autoRenew, deployPending, retryNotifications, prune, refreshCRLs | calls the services | replicas run the same jobs at once; a job stops half way | every job happens again and again |
| ACME orders (`service/acme.go`) | orders, authorizations, challenges, nonces | new-order, challenge, finalize, prune | issues through SignCSR | rows of one order written by several requests; validators take seconds | no certificate without a proof; valid is final; a nonce acts once |
| ACME accounts (`service/acme.go`) | accounts, external accounts | register, bind, update, deactivate, revoke | orders | a binding deleted while an account uses it | an account is held to its binding's domains |
| Sessions (`service/auth.go`) | `users`, `revoked_sessions` | login, refresh, sign-out, edits of users, the denylist | every API call | nothing is stored of a session; one row denies all of an account; the role is in the token | what was ended stays ended; a session has no more than its account; an administrator is left |
| Two-factor (`service/twofactor.go`) | columns of `users` | enrol, confirm, disable, reset, codes | login | a code checked, then struck off by a save of the row | a code acts once; none is skipped |
| OAuth (`service/oauth.go`) | the provider's row; the states of sign-ins under way, in memory | begin, callback | sessions | resolution of an account by subject, then by e-mail, then by creation | an account belongs to one identity of one provider |
| API tokens, scopes, routes (`service/scope.go`, `server/routes.go`, `server/middleware/`) | `api_tokens`; the tables of routes | create, revoke, authenticate | every API call | seventy routes, each guarded by hand | readers change nothing |
| Notifications (`service/notification.go`) | `notifications`, `deliveries` | Dispatch, RetryDeliveries, edits of channels | every event | replicas take the same delivery; a shutdown in a pass | sent, retried with backoff, or given up |
| PKI algorithms (`pki/`) | none | name constraints, SANs, profiles | issuing | subtrees, wildcards, address ranges | permitted and excluded names |

`PROJECT.json` lists them all with what is modelled of each, together with the
parts that have no behaviour worth a model (cryptography and encodings, rate
limiting, exports and dashboards, the command line, the web UI), and
under "hazards" every place where an order of steps that a test would hardly
reach can go wrong.

## 2. The plan

The core is what a PKI is for: that a revocation counts, that a certificate is
issued only for what was proved, and that renewal goes on unattended.

| | Module | Subject | State |
|---|---|---|---|
| 1 | `CertificateLife`, `Revocation` | revocation, holds, status, lists | modelled, checked, proved |
| 2 | `OrderLife`, `AcmeOrder` | an ACME order up to its certificate | modelled, checked, proved |
| 3 | `Renewal` | renewing, and deploying the result | modelled, checked, proved |
| 4 | `Routes`, `Access` | sessions, second factors, single sign-on, API tokens, guards | modelled, checked, proved |
| 5 | `Registry`, `Authorities` | the tree of authorities, limits, issuing, handing out keys | modelled, checked, proved |
| 6 | `Notify` | the scheduler's loop, channels, deliveries, retries, replicas | modelled, checked, proved |
| 7 | `AcmeAccounts` | external bindings and their domains | open: single statements beside the orders |

The state machines are not composed with each other: they meet in the `certificates` and
`authorities` tables only, and each has the steps of the others that touch its rows as
actions (`Renewal!SetStatus` stands for all of `Revocation`'s handlers, `AcmeOrder!Sign`
for issuing, `Authorities!SaveAuthority` for every save of an authority's row, `Access!Prune`
and `Notify!Prune` for the jobs of the scheduler).  `Access` extends `Routes`, the tables
every guarded call goes through.

Three modules state abstractly what a detailed one implements: the life of a certificate as a
client sees it (`CertificateLife`), of an order (`OrderLife`), and what the tables of authorities and certificates
are together (`Registry`).

"Proved" means that the module's type invariant is a theorem, and so is each property for which section 6
has one; section 7 lists those that only TLC checks, and why.  What a proof could still add: the life of a certificate and of an
order under races, with the exceptions that the races make necessary written into the refinement mapping.

## 3. The models

All of them work the same way.  A request is one call of the API and runs once; a
scheduler runs its jobs for ever.  `pc` says which statement of the database is
next for each process, one action is one statement with everything the code
computes from it, and between two statements anything may happen: another
request, another replica, the scheduler, the clock, a failure.  `call` holds what a
process was asked, and a handful of variables what it has read and will write back
later.  `Fail` ends a handler before a statement, or does what the code does with that
statement's error; it covers a crash of the process as well, because a handler keeps
nothing but rows.  Where a definition follows a particular line of the code the
`map` of `PROJECT.json` names it.

Operators whose name has a suffix (`Refuse_Swallows`) stand next to the definition
they vary.  They are plausible mistakes in the code, and each one makes a property of a run
false: they show that the property depends on what the code does.

### `Revocation` (and its promise, `CertificateLife`)

| Model | Code |
|---|---|
| `status[c]`, `revs[c]` | the status column, and the row of `revocations` whose `certificate_id`, unique in that table, is `c` |
| `ca` | the authority row: CRL number, CRL, certificate, status |
| `age`, `caAge` | where the clock is: before the warning window, in it, after the end |
| `RevokeRead` ... `RevokeSave`, `BulkPublish` | `Revoke` (`service/certificate.go:467-533`), alone and in `BulkRevoke` (`server/handlers/certificate.go:239`), which publishes one list per request at the end |
| `ReleaseRead` ... `ReleaseSave` | `ReleaseHold` (757-809) |
| `UpdateRead`, `UpdateSave`; `DeleteCertificate` | `UpdateCertificate` (544-576), which saves the whole row; the deleting transaction |
| `CRLRow`, `CRLRevocations`, `CRLSave`; `CRLForRead` | `GenerateCRL` (`service/authority.go:453-510`), in three statements; `CRLFor` |
| `CARead`, `CASave` | `UpdateAuthority` and `RenewAuthority`, which save the whole row too |
| `ScanList`, `ScanRow`, `ScanCARead`, `ScanCASave` | `RefreshCertificateStatuses` and `RefreshAuthorityStatuses` |
| `RefreshCRL` | one authority of the `refreshCRLs` job |
| `OCSPAnswer` | what `OCSPRespond` looks at |

A revocation is identified by the request that wrote it; a list by its entries and its
number; a certificate of the CA by how often it was renewed.  `Protected` makes the CA
one whose key opens only with the passphrase a request may bring.  `CertificateLife`
is the abstract specification: a certificate is good, held, revoked or unknown, and
only a hold is reversible.  The refinement mapping takes the answer from the two tables and
keeps a hold until the request that escalates it has inserted the new row.

### `AcmeOrder` (and its promise, `OrderLife`)

| Model | Code |
|---|---|
| `orders`, `authzs`, `challenges`, `certs` | the four tables; an order is known by the request that opened it |
| `nonces`, `jws` | the nonce table, one nonce minted per signed body; which signed body a delivery carries |
| `Receive` | `verifyACME` (`server/handlers/acme.go`), where a nonce is spent by the statement that checks it; `q # r` is another delivery of a body sent before |
| `OrderInsert`, `AuthzInsert`, `ChallengeInsert` | `ACMENewOrder` and `createChallenges`: each row in a statement of its own |
| `ChallengeRead`, `MarkProcessing`, `Settle` | `ACMEValidateChallenge` up to the validator's answer, which is a choice; an answer "valid" is recorded in `proven` |
| `AuthzValid`, `OrderRead`, `AuthzList`, `OrderReady` | the rest of it after a success: `refreshOrderStatus` |
| `ChallengeList`, `AuthzInvalid`, `OrderFailRead`, `OrderInvalid` | after a failure: `failAuthorizationIfExhausted` |
| `FinalizeRead`, `Sign`, `Attach`, `OrderReject` | `ACMEFinalize` |
| `Expire`, `Prune` | the clock passing `expires_at`; `PruneOrders`, a transaction |

`proven` and `rushed`, the orders that were found ready while one of their names had no authorization row, are
history variables: nothing reads them but the properties.  `OrderList` says
whether clients take orders from their list of orders, which shows a row before its
authorizations exist, or from the answer of new-order only.  `OrderLife` is RFC 8555's
life of an order, with one certificate at most.

### `Renewal`

| Model | Code |
|---|---|
| `rows` | `certificates`: status, `auto_renew`, `renew_before_days`, validity, whether there is a key, `renewed_from_id` |
| `targets` | `deployment_targets`: settings, among them the place they point to, `last_serial`, `last_error` |
| `served`, `delivered`, `carried` | the servers: what each has now, and a history of what was put where; a history of the serials that a target's row kept when an edit pointed it to another place |
| `PassStart`, `RenewDone`, `JobTargets`, `JobList` | `RunOnce`: the `autoRenew` job, then `DeployPending` |
| `RenewRead`, `RenewInsert`, `SwitchOff` | `Renew` (`service/certificate.go:326-455`): read, insert the new row, switch the old one's renewal off |
| `DeployGet`, `DeployTargets` | `DeployCertificate`, which `Renew` ends with |
| `PushStart`, `Deliver`, `Record` | `runDeployment` for a target: skip it or load the bundle, push, save the row read at the beginning |
| `TestRead`, `TestList` | `TestDeploymentTarget` |
| `UpdateRead`, `UpdateSave` | `UpdateCertificate`, writing a whole row back |
| `TargetRead` ... `TargetDelete` | the edits of targets |
| `SetStatus` | revoking, holding, releasing and deleting in one step: `Revocation` has their statements |

The certificates of the module are those of one name.  Every target selects them,
and their CA signs without a passphrase and outlives them.  The clock counts days.  A
push succeeds, fails before it has written anything, or fails after it.

### `Access` (and the tables it goes through, `Routes`)

| Model | Code |
|---|---|
| `Routes`: `certificateRoutes` ..., `Permits`, `HasScope` | the tables of `server/routes.go`, `RequireRole` and `RequireScope`, `service/scope.go` |
| `users`, `denied`, `deniedAll`, `tokens`, `provider` | the tables; `deniedAll[u]` is the row `user:<id>` of `revoked_sessions` that stands for all sessions of an account |
| `pairs`, `challenges` | the signed token pairs and second-factor challenges in the hands of clients: nothing is stored of them |
| `pending` | how many states `oauthStateStore` holds, in the memory of the process and gone with it |
| `Begin`; `Authenticate`, `TokenRead`, `TokenUser` | the arrival of a call; the `Auth` middleware for a session and for an API token, then the guards of the route |
| `Login`, `VerifyTwoFactor`, `Spend` | `Login`, `CompleteTwoFactorLogin`, `verifySecondFactor`, which writes the row and only then lets the caller go on |
| `RefreshCheck`, `RefreshRead`, `SignOut` | `Refresh`, with its denylist and its account; `Logout` |
| `Authorize`, `Redeem`, `BySubject`, `ByEmail` | `StartOAuth`; `LoginWithOAuth`, `resolveOAuthUser`: an account is found by the provider's name and the subject, then by its address; `MayLink` compares subjects only, and `Linked` writes both |
| `Read`, `Count`, `Save`, `EndSessions`, `DeleteRow`, `Insert` | the edits of accounts and of their second factor: read, count the administrators, write the row back, end the sessions |
| `TokenGet`, `TokenRevoke`, `ProviderSave` | `RevokeAPIToken`; `SaveOAuthProvider`, which may replace the provider under another name, and its deletion |
| `Tick`, `Prune`, `Fail`, `Crash` | the clock, the maintenance job, a failing statement, the end of the process |

A session is known by the request that opened it, and so are a secret, a set of recovery
codes and a token.  A one-time code is the time step it belongs to.  Passwords are right, or the call ends
without a trace and is left out.  The commands of the host (`certio admin`) are calls without
a guard.  `ended`, `unended`, `accepted` and `clean` are histories.

### `Authorities` (and its promise, `Registry`)

| Model | Code |
|---|---|
| `authorities[a]` | parent, type, the CA certificate with its signer, its dates and its limits (`permits`, `leafOnly`), and the columns that repeat them |
| `certificates[c]` | issuer, dates, names, whose key, how often downloaded; `checked`: its names passed `checkNameConstraints` |
| `CreateRoot`, `CreateRead`, `InsertAuthority`, `SaveAuthority` | `CreateAuthority`: a root is signed at once, an intermediate after its parent was read; the URLs that hold the id are set in a save of their own |
| `ImportRead` | `ImportAuthority`: the issuer is recognised by its common name |
| `UpdateRead`, `SaveAuthority` | every handler and job that reads an authority's row and saves it whole |
| `DeleteRead`, `CountCertificates`, `CountChildren`, `Delete` | `DeleteAuthority`; the transaction of `AuthorityRepo.Delete` with what the foreign keys refuse |
| `RenewAuthorityRead`, `RenewParentRead`, `RenewAuthority` | `RenewAuthority` |
| `IssueRead`, `Issue`; `RenewRead`, `RenewCA`, `Renew` | `Issue`, `SignCSR`; `Renew` |
| `EditRead`, `SaveCertificate`; `DeleteCertificateRead`, `DeleteCertificate` | `UpdateCertificate`; the deletion of a certificate |
| `DownloadRead`, `Download` | `AuthorizeKeyDownload` and the count after it |
| `handed`, `raced` | histories: how often the key of a row was handed out; which rows a request read while another held them to write |

`CanSign` is `checkIssuerCanSign`, `Permitted` is `checkNameConstraints`, `Loadable` is what
`LoadCA` needs: a complete chain of at most 16 issuers.  `Registry` knows nothing of certificates but
where they hang: a node appears below one that is there, never moves, and goes only when nothing is left hanging.

### `Notify`

| Model | Code |
|---|---|
| `channels`, `deliveries` | the two tables; `created` in a row of the second is its `created_at`, by which `Due` takes them, oldest first |
| `step`, `stopping`, `todo`, `hand` | what a scheduler does next, whether it has been told to stop, the rows it has read and those it has sent and not yet saved |
| `Start`, `RunOnce`, `Shutdown`, `Halt`, `Crash` | `Scheduler.Start` and its loop; a second replica or `certio scan` is another scheduler |
| `Dispatch`, `DispatchDeliver`, `queueRetry` | an announcement of the expiry scan or of a renewal; one send to each channel; the row that will retry it |
| `RetryRead`, `RetryDeliver`, `RetrySettle`, `RetryClose` | `RetryDeliveries`: read the oldest due rows, send, save the row that was read; close the rows of channels that are off |
| `Prune` | `PruneDelivered`, at the end of a pass; which delivered rows are old enough is left open |
| `CreateNotification`, `RequestRead`, `SaveNotification`, `DeleteNotification` | the API on channels, the test of one included |

`Deliver` has `recordDelivery` in it: the channel's row is saved as it was read before the send,
which switches it back on.  `fate` is a history of what became of an event for a channel.

### Sources of nondeterminism that are choices of the environment

Which call comes next and with which arguments; the interleaving; the validator's answer to a
challenge; the outcome of a push or a send; the profile a provider vouches for; the order in which a loop takes the elements of a set that the code
orders by time (all orders are allowed, so the code's is among them); when the
clock moves; where a failure strikes.

## 4. The runs

States are those TLC finds distinct.

| Run | Bounds | What it shows |
|---|---|---|
| `RevocationSerial` | 2 certificates, 3 requests of every kind, 1 scheduler; one process at a time, no failures; 556,354 states | `ImplementsLife`, `StatusAgreesWithTable`, `ListIsComplete`, `ListNumbersIncrease`, `TypeOK`: without overlap, the handlers and jobs do what the README promises, and both tables and the published list tell one story |
| `RevocationRaces` | 1 certificate, 2 requests, no holds, both clocks, 1 failure; 719,120 states | what races cannot break: `NoOrphanRevocation`, `AcknowledgedRevocationStands`, `RevokedOnce`, `RevocationsWereRequested`; and what the scheduler repairs: `EventuallyPublished`, `StatusFollowsClock` |
| `AcmeSerial` | 2 accounts, 2 names (one a wildcard), both challenge types, 2 attempts, pruning, orders taken from the list, 4 requests without overlap; 232,825 states | `ImplementsOrderLife`, `TypeOK` |
| `AcmeRaces` | 4 deliveries, 2 accounts, orders of two names, taken from the list while new-order still inserts their rows, replays, 1 failure; 648,167 states | `UnprovenWereRushed`, `ValidOrderHasCertificate`, `NoStuckOrder`, `NonceActsOnce` |
| `RenewalRaces` | 1 call of any of seven kinds, 2 targets of a place each, either of which an edit may point to the other's, 3 days, 1 failure and 1 failed push; 510,613 states | `RenewalSurvives`, `RecordedWasDelivered`, `NeverBack`, `EventuallyRenewed`, `EventuallyServed`, `TypeOK` |
| `AccessRaces` | 2 calls of any kind or commands of the host, 2 administrators (one with a second factor, one enrolling), one further account, 2 providers' names and 2 subjects, an API token with read scopes; 2 sign-ins at the provider under way, 4 time steps, 1 failure or crash; 2,504,904 states | `EndedStaysEnded`, `RoleFollowsAccount`, `LastAdmin`, `CodesActOnce`, `ReadersChangeNothing`, `FactorIsAsked`, `SubjectKeepsAccount`, `TypeOK`: what ends a session, narrows an account or consumes a code holds through every door |
| `AuthoritiesTree` | 3 calls of any kind over a root, an intermediate held to its own names and a certificate with a key; 1 tick; 414,071 states | `ImplementsRegistry`, `SignedWithin`, `TwiceWereRaced`, `TypeOK`: whatever overlaps, the tables are a forest and nothing exceeds what it was signed with; a row hands its key out twice only after a race over it |
| `NotifyPasses` | 2 schedulers, 1 call on channels, 1 event, at most 2 channels, 3 attempts, 2 shutdowns, crashes or failing statements; 228,019 states | `Accounted`, `EventuallySettled`, `TypeOK`: no delivery is forgotten and none waits for ever |
| `RevocationRelease`, `RenewalKeyless`, `AccessLockout`, `AuthoritiesLimits` | 3, 2, 2 and 2 requests, no failures | disagreements with the documentation, section 5 |

### Why these bounds are enough to be interesting

- *Revocation.*  Two requests and the scheduler are enough for every lost update:
  one reads, another writes, the first writes back.  Lifting a hold that was replaced takes three,
  hence those of `RevocationRelease`.  One certificate suffices where a property is about one;
  `RevocationSerial` has two, for bulk requests and lists with several entries.
  `MaxCRLNumber` stops the scheduler from reissuing an unchanged list for ever: beyond
  it, a list is reissued only if it would change.  It never keeps a list from being repaired.
- *ACME.*  A certificate takes new-order, a challenge and finalize; the fourth delivery is
  a replay, a second challenge, a second finalize, or another account's.  Orders of two names have
  two authorizations, whose validations overlap with each other and with the insertion of the second.  `MaxAttempts` is 2 where retries
  matter and 1 where the races do (the code's is 10, `service/acme.go:37`: more attempts mean more
  dials of the same challenge, and overlaps reach them without retries).
- *Renewal.*  A certificate for two days is due after one, so that three days see it
  renewed twice, and the call adds a third chain link.  Two targets of a place each are what an edit needs to
  move a target to a server that has nothing, or something older.  `MaxCerts` is 8 and never reached: deadlock is
  checked, and an insertion with no room would end in one, as nothing else can go on for ever beside it in this run.  With one day of
  validity the code's own cap on the renewal window leaves a certificate always due (see the hazards).
- *Access.*  Two calls at once are what every hazard of these handlers takes: two edits, an edit and a refresh,
  two uses of one code, a callback and a deletion.  What takes more steps (a demotion, a
  rotation, another edit) is shortened by a state at the start that has sessions, a token, a second factor, a
  pending enrolment and two sign-ins under way at the provider already.  An access token lives for 1 step, a refresh token for 2, so that in 4 steps a
  session is rotated, the denylist's entries expire, and the job prunes them.  A code may be
  one step off, as in the code (`crypto/totp.go`).  Of the routes whose handlers are not modelled the instance takes one
  for each way they are guarded (`Probes`): their calls end behind the guard.
- *Authorities.*  Three calls are what it takes for one to read, another to delete or renew, and a third to
  re-insert or to hang something below.  The cascade is one level deep, so that a root, an intermediate and
  one created below it show what it leaves; one tick lets a signature be older than the clock.
  `MCOneLimit` keeps the constraint of a new CA at one choice; `AuthoritiesLimits` has both.
  The walk up the chain never gets near its 16 levels.
- *Notify.*  Two schedulers and one event are enough for both to take the same row, for one to save over the
  other, and for a crash between any two steps.  Three attempts and a backoff of two entries use its last
  entry twice, as the six attempts of the code do with its five.  `PassLimit` is 1, so that rows are left over for
  the next pass.
- `CHECK_DEADLOCK FALSE` is set where no job runs without end when the requests are used up: the
  runs of ACME, `Access` and `Authorities`, and `RevocationRelease`.  The other runs check for deadlock.

### Fairness, and why the code justifies it

- A handler that has started runs to its end or fails: weak fairness of each
  request's steps (Go runs a goroutine that can go on, and every statement has a
  result).  Nothing says that a client ever makes a call: `Begin` and `Receive` have no fairness.
- `Revocation`: the scheduler's loop waits in a `select` for two tickers
  (`schedule/scheduler.go:101-110`).  A tick stays in its channel until it is taken, and Go
  chooses among ready cases at random, so each job happens again and again if the
  loop is back at its `select` again and again: strong fairness of `ScanList` and of
  `RefreshCRL`, weak fairness of the steps of a job.  `Fail` ends a job at most `MaxFailures` times.
- `Renewal`: one ticker starts passes again and again, and a pass that has begun
  goes on: weak fairness of the scheduler's steps, the start included.
- `Notify`: the same loop, and a supervisor that starts a process again after it stopped: weak fairness of
  each scheduler's steps, `Start` among them.  Every send has a timeout (`service/notification.go`), so it ends
  in an outcome.  Here the clock has weak fairness too, as a backoff is waited for.  Stops and lost
  saves are finitely many (`MaxFailures`): if every save failed, nothing would be settled.
- Elsewhere the clock has no fairness: it may stop at any time, and liveness is about what happens then.
- `Access` and `Authorities` have safety properties only, and no fairness.

### What is left out of a passing run, and why

- `RevocationRaces` has no holds: with them `AcknowledgedRevocationStands` and `RevokedOnce` are
  false (`RevocationRelease` shows how), and the two theorems about them assume the same.  No run has a protected CA: that the jobs leave
  its list alone is proved for every instance (`ProtectedStaysUnsigned`).
- `AcmeRaces` has no pruning: orders live for a week, so a request that
  overlaps the pruning of its own order is left to the hazards and to the proofs, which have it at any time.  `UnprovenWereRushed` excepts the
  orders in `rushed`: for them the code does sign what was not proved (section 5).
- `RenewalRaces`: `RecordedWasDelivered` and `EventuallyServed` except a target that an edit has moved, as long as its row has the
  serial it carried along: the code takes it for served (section 5).
- `RenewalRaces`: `Exclusive` keeps a renewal by hand and a test push from overlapping
  a pass.  Nothing in the code does; when they overlap, the older of two
  certificates may arrive last while the row records the newer, and the server keeps the
  older until the next renewal.  `Validities` is empty: a renewal for fewer days is
  followed by the scheduler pushing the longer-lived predecessor back.  Forced redeployment of a chosen certificate, bulk
  renewal and release are in the module and in the proofs, not in the run: a lost record of a forced
  redeployment leaves a row that says "newest" over a server that is not, and a bulk
  request of eight certificates needs more than `MaxCerts` rows.  `PageLimit` is the 200 the store clamps to.
- `AccessRaces`: some properties begin with `clean`, a history variable that says that no two
  requests have ever held an account's row at once to write it back.  They
  are `LastAdmin`, `CodesActOnce`, `RoleFollowsAccount`, `FactorIsAsked` and `SubjectKeepsAccount`.
  Without it TLC finds each of them violated, in the same instance but for `RoleFollowsAccount`: two administrators
  demote each other, two logins use one code, the later of two saves takes back an enrolment or a link to an identity;
  and, with three requests, an edit that had read the account before a promotion
  writes the old role back under a session that already has the new one.  So what these properties do not catch is two handlers that
  overlap between reading an account and writing it.  They still range over every order of
  the statements of everything else: sessions, denylists, guards, the clock and crashes.
- `AuthoritiesTree`: `TwiceWereRaced` excepts, in the same way but row by row, the certificates in `raced`: two downloads at once both find a
  count of zero, and an edit that read the row before a download sets the count back.
- `AccessRaces`: the clock does not tick between the two statements of a refresh (`RefreshRead`): a handler that hung there for the
  life of a token would sign a pair of a session whose entry has expired.
  `unended` excepts the accounts whose sessions the code meant to end and did not, because the row `user:<id>` was
  there from an earlier time (`OnConflict DoNothing`, `store/repo_auth.go:324-340`) or its insertion failed and was
  only logged (`service/auth.go:572-575`).
- `NotifyPasses`: `excused` excepts an event whose process dies, or whose row is refused, between the failed send and the row
  that would retry it.  The code has nothing that would find it again.

## 5. Where the code and its documentation disagree

### Shown by a run

Each of these runs checks one sentence of the repository, and TLC finds a behaviour of the code
that contradicts it.  `PROJECT.json` quotes the sentences in full.

| Run | Property | In short |
|---|---|---|
| `RevocationRelease` | `ReleaseLiftsHoldsOnly` | `ReleaseHold` checks the status once and deletes whatever revocation it finds (`service/certificate.go:777`): a permanent one that has replaced the hold meanwhile is lifted |
| `RenewalKeyless` | `EventuallyServed` | a target that selects a certificate without a stored key makes `deployBundle` read a nil row: the push panics, and with it the scheduler |
| `AccessLockout` | `FreshSessionsWork` | the row that denies "every session a user currently holds" has no time: after a change of password, a demotion or a lifted suspension every new session is refused too, for twice the life of a refresh token |
| `AuthoritiesLimits` | `MirrorsCertificate` | a renewed authority has neither name constraints nor a path length, while its row goes on showing both |

### Shown by a definition under other constants

These the modules have too, and no run checks them.  Each definition is in its
module, and TLC finds it violated when it is put in place of the properties of the run named first and the run's constants are
changed as said.

| From | Change | Definition | In short |
|---|---|---|---|
| `RevocationSerial` | `Serial = FALSE`, `Clocks = {"certificates"}` | `RevokedStaysRevoked` | the expiry scan writes a status derived before the revocation (`certificate.go:722`); OCSP and the list still say revoked, the column does not |
| `RevocationSerial` | `Serial = FALSE`, `Kinds = {"generate", "revoke"}` | `ListNumbersIncrease` | two publications at once sign different lists with one number (`authority.go:485`) |
| `AcmeRaces` | none | `CertificatesAreProven` | new-order's rows are visible one by one: an order taken from the account's list is ready when its first authorizations are, and a certificate covers a name that was not proved (`acme.go:494`) |
| `AcmeRaces` | none | `CertificateNamesAll` | the names of a CSR "have to be exactly the names that were proved" (`acme.go:592-593`, and 536-537); a CSR of some of them is accepted, and the order is valid with a certificate that lacks the others |
| `AcmeRaces` | `HTTP01 = TRUE`, one account, one name | `ValidOrderStays` | a second finalize that had read the order as ready and is refused saves it as invalid over "valid"; a slow validation saves it as ready (`acme.go:501`), and the certificate link is lost |
| `RenewalRaces` | `Kinds = {"retarget"}`, `MaxFailures = 0`, `MaxPushErrors = 0`, `Exclusive = {}` | `MovedAreServed` | "DeployPending pushes every certificate whose current serial has not reached its targets yet" (`service/deployment.go:291-292`); an edit that points a target to another server keeps `last_serial` (`deployment.go:94-108`), the new server is skipped (187), and gets nothing before the next renewal |
| `AccessRaces` | none | `IdentityKeepsAccount` | `linkOAuthUser` compares subjects only (`oauth.go:629`): once the provider is replaced under another name, an account of the old one is handed, by its address, to whoever has the same subject at the new one |
| `AuthoritiesTree` | none | `KeyLeavesOnce` | "this private key has already been downloaded once" (`service/certificate.go:679`) counts for a row: a renewal without a new key copies the key to a row whose count is zero (`certificate.go:353-401`), and it is handed out again |

### Met while reading

*Access.*
- `RevokedSession.SessionID` has 36 characters (`store/models.go:466`), the row of an account's sessions is "user:" and an id of
  36: a database that keeps to the size refuses it, and sessions are never ended.
- `RevokeAllSessions` says that a two-factor reset calls it (`service/auth.go:762-763`); `ResetTwoFactor`
  (`service/twofactor.go:201`) does not.  `DeleteUser` does not either: the pairs of a deleted account count until they expire.
- `Logout` says that there is no denylist (`server/handlers/auth.go:65-67`); there is.  With an expired access
  token it ends nothing, and the refresh token stays good.
- Two callbacks of one identity at once may link two accounts or make two.
- `UpdateSettings` changes the `Config` every goroutine reads, without a lock, and in its own process only.

*ACME.*
- `expires_at` of an order and of an authorization is looked at by the pruning job only, never by finalize or a validation
  (`service/acme.go:517`).
- An account whose external binding was deleted is no longer held to the binding's domains: the lookup's error
  lets every name pass (`acme.go:343-345`).

*Authorities.*
- `Renew` with other names does not ask `checkNameConstraints`: `SignedWithin` speaks of names that were `checked`.  `PermitsSANs` has no
  case for URIs (`Unchecked`).  Constraints and path lengths of ancestors are not looked at; a path length only if it is zero.
- A root is renewed under its old certificate, so that it cannot be renewed beyond its own end, and a root of path length
  zero cannot be renewed at all.
- A forced deletion "cascades" (`server/dto/requests.go`), by one level: certificates or authorities below a child make the
  foreign keys refuse all of it.
- An import is linked by the common name of the issuer only: a self-signed certificate of somebody else that is
  called like a managed authority becomes its intermediate.  Two imports at once of one certificate both go in.
- `certio cert export` (`cli/cert.go:325`) asks no policy for downloads: `handed` counts those through the API.

*Notifications.*
- The expiry scan says it notifies of "anything newly inside its warning window" (`schedule/scheduler.go:240-241`); it announces
  every certificate inside it, on every pass.
- `recordDelivery` saves the channel as it was before the send: one that was switched off or deleted
  meanwhile is back, and switched on (`service/notification.go:342`).
- A channel with a delivery that failed can never be deleted: failed rows are never pruned and hold it by a foreign key.  The branch
  for a delivery whose channel is gone is therefore hardly ever reached.
- `notify.Build` does not report a missing URL or host, although `CreateNotification` relies on it ("surfaces a missing URL",
  `service/notification.go:23-24`).
- A shutdown in the middle of a pass charges every row that is left an attempt that was never sent.

## 6. The proofs

Everything here is checked by TLAPS to the last leaf, for any number of
processes, certificates, names, targets and places, any bounds on failures, and from the named assumptions on
the constants (`KindsAssumption`, `RowAssumption`, ...), which TLC evaluates in every run.  A theorem stays out where the code
keeps its promise only under an assumption that nothing in the code ensures (section 7).

| Theorem | Module | Assumes | Says |
|---|---|---|---|
| `TypeCorrect` | `RevocationProofs` |  | `Spec => []TypeOK` |
| `NoOrphans` | `RevocationSafety` |  | no revocation outlives its certificate |
| `OnlyRequested` | `RevocationSafety` |  | every row and every published entry was asked for |
| `ProtectedStaysUnsigned` | `RevocationSafety` |  | a key that needs a passphrase signs no list for a job that has none |
| `AcknowledgedStands`, `OneRevoker` | `RevocationSafety` | `Hold \notin Reasons` | what a caller was told stays true; only one is told it revoked |
| `OrderTypeCorrect` | `AcmeOrderProofs` |  | `Spec => []TypeOK` |
| `NonceOnce` | `AcmeOrderSafety` |  | of all deliveries of a signed request one is acted on |
| `ValidHasCertificate` | `AcmeOrderSafety` |  | a valid order has its own certificate, with none but its identifiers |
| `OrdersMoveOn` | `AcmeOrderSafety` |  | without a failure so far, no order whose names are decided is left pending |
| `OnlyRushedAreUnproven` | `AcmeOrderSafety` |  | a certificate names what was not proved only if its order was found ready while one of its names had no row |
| `RenewalTypeCorrect` | `RenewalProofs` |  | `Spec => []TypeOK` |
| `RecordedIsDelivered` | `RenewalProofs` |  | the serial on a target's row was put where the target points, or was kept by the edit that made it point there |
| `RenewalNeverStops` | `RenewalProofs` |  | a certificate that renews itself is left, unless someone ended it |
| `AccessTypeCorrect` | `AccessProofs` |  | `Spec => []TypeOK` |
| `GuardsHold` | `AccessProofs` |  | nobody changes anything as a viewer or with read scopes, but for what is the account's own |
| `EndingsHold` | `AccessProofs` |  | a session that was ended counts no more, whatever is rotated, pruned or fails |
| `FactorAlwaysAsked` | `AccessProofs` |  | as long as `clean`, through no door does a session of an account with a second factor begin without a code |
| `SubjectStays` | `AccessProofs` |  | as long as `clean`, an account that belongs to a subject never comes to belong to another subject |
| `RolesFollow` | `AccessProofs` |  | as long as `clean`, no session has more than its account, but those of deleted accounts and those whose ending failed, was not written or is under way |
| `AuthoritiesTypeCorrect` | `AuthoritiesProofs` |  | `Spec => []TypeOK` |
| `TablesAreAForest` | `AuthoritiesProofs` |  | `Spec => ImplementsRegistry`: every step is one of `Registry`, or none |
| `SignedWithinIssuer` | `AuthoritiesProofs` |  | nothing exceeds the certificate it was signed with |
| `OnlyRacedLeaveTwice` | `AuthoritiesProofs` |  | under policy "once" a row hands its key out twice only if a request read it while another was about to write it |
| `NotifyTypeCorrect` | `NotifyProofs` |  | `Spec => []TypeOK` |
| `NothingForgotten` | `NotifyProofs` |  | no event that found a channel is forgotten, and what is called delivered was received |

The one assumption on a run, `Hold \notin Reasons`, is not for convenience: `RevocationRelease` is the counterexample without it.

The properties that begin with `clean`, or except `unended`, `excused`, `rushed`, `raced` or `carried`, say so themselves (section 4):
each of these exceptions is something the code lets happen, and the theorem says that nothing else does the same.  What the
assumptions on the first rows ask (`AccessFirstAssumption`, `FreshAssumption`, `SignedAssumption`) is what the
handlers leave behind: sessions of accounts that may sign in, ids and serial numbers that no
request has yet drawn, CA certificates that cover what they have signed.

**The inductive invariants.**  No `TypeOK` is inductive alone: that a handler which is about to write
has a certificate to write to depends on where it is.  `TypeInv` adds that (`ControlOK`,
in `RenewalProofs` `StepsOK`), and every other invariant is proved on top of it.

- *Revocation.*  `WorkInv` follows a request through `Revoke`: what it works on is
  one of the certificates its call names, and what it wrote is in its row.  `AskedInv` makes every
  copy of an entry (the tables, and what handlers have read and will sign) one
  that was asked for; the property only speaks of the tables, and is not inductive, because a handler writes
  back what it once read.  `NoHolds` says that without the reason there are no holds anywhere, in the
  memory of handlers either, which closes the branches that delete rows.
  `OwnershipInv` says that a request that has inserted a revocation owns the row in
  the table until the certificate is deleted: the foreign key and the unique index keep it so.
  `PassInv`: who is about to sign for a protected CA has brought the passphrase, and no copy of the row has a list before
  someone has.
- *ACME.*  `RequestInv`: a call is settled when it arrives, and answered once.  `NonceInv`: a
  nonce that was accepted is spent.  `OwnershipInv`: rows hang under the order of a request that opened one,
  and a handler works for the order's account.  `SignedInv`: a request past its signature has its certificate, and
  a row read as valid has one too, since the row is what a late writer writes back.  `ProofInv`
  follows a proof from the validator's answer through the challenge,
  the authorization and the order to the signature, and says of every order past `AuthzList` that all its names had their rows, or that it is in
  `rushed`.
  `RowsInv`: every row under an order is of one of its names and of a challenge that was offered.  `StuckInv`: while an order is
  pending although its names are decided, some request is on its way to move it.  Validations that overlap leave this to
  the last of them, and a failure between its two statements leaves it to nobody (the hazard at `acme.go:449`), which is why the property
  is about behaviours without failures.
- *Renewal.*  `DeliveredInv` extends the property to the copies of a row that a push will write back,
  and to the outcome it is about to record; an edit that moves a target and keeps its serial adds it to `carried`.  `SurvivalInv` has a `Keeper`: a live
  certificate that renews itself and that no process is about to switch off.  A `Keeper` is replaced only by
  `RenewInsert`, whose new row is one before the old one is given up; an edit
  that writes a stale row back can only add one.  It needs that calls are remembered,
  so that whatever ended the renewals stays known.
- *Access.*  `TypeInv` says of each step what its request has in memory.  `GuardInv`: who is behind a guard was let through by
  its route.  `SessionInv`: a session belongs to one account, whatever the denylist names has ended, and of an ended session every
  pair is too old or denied for as long as it lives, one that a refresh is about to sign included.
  `RowInv` joins what is about rows: a row about to be added has no factor (`NewRowInv`), and as long as `clean` holds one request at
  most is about to write an account, and the row it has read is still the account's (`CleanInv`).  `PairInv`: a pair that still counts has no more than
  its account, or the ending of the account's sessions is under way or has failed.
- *Authorities.*  The invariants are about copies: the rows in the tables and those that requests have read and will save.
  `FreshInv`: of what a request will insert there is no copy.  `TreeInv`: the foreign keys hold, and no two copies disagree about
  where a row hangs, so that a late save, or one that puts a deleted row back, moves nothing.  `SignInv`: a serial number means one
  certificate, it covers whatever names it as its signer, no column shows more than its certificate, and nobody bears a number
  that is still to be drawn.  `KeyInv`: of a row outside `raced` one request at most is about to write, and no
  count that is in the table, or will be written, forgets a download.
- *Notify.*  `QueueInv`: a pass holds no more than it may take and saves one row at a time (`Bounded`).  Every copy of a row,
  however old, counts no more attempts than were made, and is called delivered or given up only if the event was (`Sound`): a
  save over another pass's save can take an attempt back, never make one up.  And an event that is owed is
  in the hands of a dispatch, or has a row that waits or was given up (`Row`).

**How they are laid out.**  A module of lemmas per invariant: one lemma for what every step leaves
alone, one per action or group of actions, one that puts them together along `Next`, and a theorem that
closes with PTL.  A step changes one process and a row or two; the lemmas on what it keeps (`Apart`, `Keeps`,
`StopKeeps`, `StepsElsewhere`) are stated once and let every other process and row be judged by them.

## 7. What is not modelled

**Only model-checked.**  Without a theorem are
- the liveness properties (`EventuallyPublished`, `StatusFollowsClock`, `EventuallyRenewed`, `EventuallyServed`,
  `EventuallySettled`): the prover does neither liveness under fairness nor ENABLED;
- what holds only where requests and jobs do not overlap and nothing fails: `ImplementsLife`, `StatusAgreesWithTable`, `ListIsComplete`,
  `ListNumbersIncrease`, `ImplementsOrderLife`.  The code has nothing that keeps them apart, so that `RevocationSerial` and `AcmeSerial`
  show what the handlers do one after the other, and section 5 what becomes of it when they overlap;
- `NeverBack`, which holds where one scheduler renews in turn and keeps the validity, and `LastAdmin` and `CodesActOnce`, which hold where
  handlers do not overlap over one account: the case that matters most is the one the code gets wrong;
- the disagreements of section 5, which are behaviours that TLC finds.

No module has a recursive definition; nothing is proved by induction over data, which the installed provers cannot do.

**Abstracted inside the models.**

- Revocation: names, URLs and notes of rows; dates, which are ages; the encoding of a list, which is its
  number and its entries; one authority.  `BulkRevoke` takes its certificates in any order.
- ACME: accounts are registered and valid; malformed CSRs, duplicate identifiers, the expiry of nonces and
  the verification of signatures end in an error that changes no row and are left out.  An order
  for which no challenge type is offered is in the module; the runs' configuration offers one for every name.
- Access: passwords, hashes and signatures; the HMAC of a code; the exchange with the provider, which ends in a profile;
  audit entries; the names of accounts and tokens.
- Authorities: slugs and names, which only unique indexes tell apart; passphrases and statuses, which are
  `Revocation`'s; the exact subtrees, which are sets of names; URLs, policies and CRL settings in a row.
- Notify: the save of a delivery whose channel is gone is refused (`Insertable`), where GORM's `Save` of a row that was read with
  `Preload("Channel")` would first insert the channel again; subscriptions (every channel has all events), sealed settings, the text of messages, the history of jobs; a
  row and its channel are read in one step, where GORM's `Preload` takes two.
- Renewal: labels and selectors, subjects and SANs, renewals a CA refuses because it would expire first.

**Not modelled at all.**  What `PROJECT.json` lists as `not_modelled`: cryptography and encodings (calls of the Go library
on bytes), the parsing of names, subjects and profiles (strings, one certificate at a time), the registration of ACME
accounts and their bindings (single statements), settings, rate limiting (a counter behind a mutex),
exports and dashboards (projections that decide nothing), configuration, command line, and the web UI.
Transports of pushes and notifications are a choice of their outcome.

## Running

    tlc -workers 2 -config RevocationSerial.cfg MCRevocation.tla
    tlapm RevocationSafety.tla

Every `.cfg` belongs to the `MC` module of its prefix.  Runs take between a second and two
minutes, a proof module between ten seconds and five minutes.

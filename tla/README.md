# NestIdP in TLA+

TLA+ models of NestIdP (the NestJS API under `src/apps/api/src`), the TLC runs that check them and
proofs for TLAPS. `PROJECT.json` lists the components, runs, mutants, hazards and theorems, and maps
every definition to the lines it models. Paths below are relative to `src/apps/api/src` unless
they begin with `docs/` (at the root of the repository) or `prisma/` (`src/apps/api/prisma`).

    tlc -workers 2 -config sched_core.cfg MCSyncScheduler.tla      # a run
    tlapm SyncScheduler_proofs.tla                                 # the proofs of a module

## 1. Inventory

NestIdP is an SAML 2.0 identity provider. It is one Node process on one SQLite database: requests,
timers and fire-and-forget promises interleave at every `await`, and almost no operation runs in a
transaction. What survives a restart is in the database; flags, caches and counters are lost.

| Component | State | Operations |
|---|---|---|
| Identity-sync runs (`sync/services/sync.service.ts`, `sync-log.service.ts`) | `lastSyncStatus` of a connection, `sync_log` rows | trigger, sync all, guard against a second run, reclaim a stale run, phases A-C, finish the log, settle the row |
| What a run does to the directory (`sync.service.ts`, `identity/identity.repository.ts`, `identity-admin/`) | users, groups, roles and memberships of all sources, one namespace of user names | upsert users, replace memberships, deactivate and delete what is gone; create, rename and remove by hand |
| Access to a source (`sync/services/oauth-token.service.ts`, `proxy-dispatcher.service.ts`, `identity-sync-client.service.ts`, `api-connections/`) | in memory: token cache, exchanges in flight, proxy agents | get a token, refresh it after a 401, fetch, test a connection, update or delete it |
| Sync scheduler (`sync-scheduler.service.ts`) | `nextRunAt`, consecutive failures, pause marker; in memory `ticking` | tick, process a due connection, count a failure and pause, reconcile at boot |
| Schedule administration (`sync-schedule.service.ts`) | the schedule columns | update |
| Back-channel logout queue (`saml/services/logout-propagation.service.ts`, `backchannel-logout-scheduler.service.ts`) | `saml_logout_propagation` rows; in memory `ticking` | propagate (upsert a row per SP), processDue (count, list, claim, deliver), resend, prune, tick |
| SAML sign-on (`saml/services/saml-sso.service.ts`, `auth/`) | `SamlSession` rows (pending AuthnRequests) | receive, log in, bind, complete |
| SSO sessions and single logout (`saml-sessions/`, `saml/services/saml-logout.service.ts`, `saml-session-cleanup.service.ts`) | `SamlSsoSession`, `SamlSpParticipation`, replay log | create, terminate one / all of a user / of a source / everything, match a LogoutRequest, purge |
| Certificate rotation, IdP settings (`idp-settings/`, `saml/services/idp-signing.service.ts`) | the settings row with an active and a pending certificate of each kind; in memory the flag of a check and a read-through cache | new primary pair, start, complete, cancel, toggle, automatic check, first use |
| External identity database (`identity/store/external/`) | persisted mode, status and flag; in memory the active store, its pool and the write-through | connect, resync, disconnect, mirror, reconcile, boot |
| Brute-force protection (`auth-protection/`, `common/rate-limit/`) | a row per account with counter and lock; in memory windows per address and user name, bans | precheck, record failure / success, unlock, prune |
| Administration of connections, SPs, identities, admins | their rows | CRUD with checks before writes |
| Audit, health, dashboard, bootstrap, XML and crypto utilities, web interface | append-only or none | see `PROJECT.json` |

**How they meet.** The scheduler calls `triggerSync` as any administrator does and shares the
connection row with it and with `updateSchedule`. A run fetches with the token and the proxy agent that other
runs and tests of the connection share, and writes users that other sources and
administrators write, too, through whatever identity store is active. Whatever ends an SSO session
calls `terminate`, which hands every SP with an assertion of that session to the logout queue; the queue
is worked on by a pass started right then, by `resend`, by an operator and by a timer. SPs and users may
be edited or deleted under all of these. A sync deactivates and deletes users, which the sign-on reads
twice.

**What is hard.** (1) Every check-then-act spans an `await`: the "no sync is running" guard, the
in-flight budget, "session is active", the conditional bind, "this name is free", "no check is in
flight". (2) A crash or a rejected database call between two writes that belong together: closing a log
and settling its connection, claiming a row and writing the answer, terminating a session and queueing its
participants, wiping the local rows and activating the database that has them. (3) Timers overlap what
they started earlier; only an in-memory flag protects them. (4) Rows are purged, cascaded or reset
under a worker that read them before. (5) A cache is filled by a read that began before the
invalidation. (6) Something must still happen after all that: a due slot, a queued logout, a rotation
before the certificate expires, the end of a lock.

**What makes each part correct.** *Runs*: one worker per log, no healthy run reclaimed, no status
or log left behind. *Directory*: unique names, no dangling membership, a clean run leaves what its
source answered, the first source wins a contested name. *Access*: a call uses the credentials and the
proxy it loaded, one exchange at a time, nothing stale outlives an invalidation by more than the calls in
progress. *Scheduler*: a slot fires at most once and, if the schedule stays on, does fire;
too many failures pause; an enabled schedule has a next slot. *Queue*: no row is delivered twice at
once, an acknowledged one never again, none is given up early, all are resolved. *Sign-on*: one
assertion for a request, for the user who bound it. *Single logout*: no active SP that got an assertion is
forgotten; a deactivation leaves no old session. *Rotation*: the active certificate is alive, a pending
one is promoted only after its overlap, one first pair. *External database*: no identity is lost in a move,
wherever it is cut short; a copy is exact or flagged, unless a Re-sync cleared the flag. *Lockout*: lock and counter fit together, and no
lock or ban is for ever.

## 2. Modules

| Module | Models |
|---|---|
| `SyncScheduler` | runs, scheduler and schedule administration, composed over the shared connection rows |
| `DirectorySync` | the data phases of runs of several sources, "sync all", administrators, over one directory |
| `SourceAccess` | tokens, proxy agents, fetches, tests and edits of one connection |
| `BackchannelLogout` | the queue with its passes, deliveries, timer, operators and SP edits |
| `LogoutContract` | the abstract promise for one row of the queue |
| `SsoSessions` | sign-on, SSO sessions and everything that ends them |
| `CertRotation` | both kinds of certificates, administrators, the automatic check, the first use |
| `IdentityDatabase` | connect, resync and disconnect under writes, the mirror, restarts |
| `LoginProtection` | throttle, bans and lockout of one account |
| `MC...` | the instances for TLC |
| `SyncScheduler_proofs` | types; safety of runs and scheduler; the automatic pause, slots that fire once |
| `BackchannelLogout_proofs` | types; safety of the queue, its refinement of `LogoutContract`, its retries |
| `SsoSessions_proofs` | types and foreign keys; the two guarantees of a sign-on; logout and deactivation |
| `SourceAccess_proofs` | types; credentials, agents and exchanges; what an invalidation leaves |
| `DirectorySync_proofs` | types; the consistency of the store; what a run leaves and keeps; "sync all" |
| `IdentityDatabase_proofs` | types; nothing is lost in a move; an exact mirror |
| `LoginProtection_proofs` | types; lock and counter |
| `CertRotation_proofs` | types; one first pair; no early promotion; a certificate replaced in time |

Operators called `Mut...` are plausible bugs of the definition below them; with one in place of the
original a run must fail.

### SyncScheduler

`row[c]` holds the schedule columns and `lastSyncStatus`, `log` the `sync_log` rows, `run[r]` what
the caller `r` of `triggerSync` awaits and what it read before (`r` is an outside caller or a
tick), `due[t]`, `looping[t]` and `ticking` the state of `runTick`, `edit[a]` the row an
`updateSchedule` has read. One action per database call: `Load`, `GuardFree/Stuck/Stale/Busy`
(`assertRealSyncNotInProgress`), `Reclaim`, `ResetStatus`, `CreateLog`, `MarkInProgress` (`beginRun`),
`Work` (phases A-C with any outcome), `FinishLog`, `SettleSuccess`/`SettleFailed` (`finalizeRun`, and
the scheduled failure with it); `TickStart`, `TickNext`, `PreCheck...`, `Advance`, `RecordSuccess`,
`FailRead`, `FailWrite`, `TickEnd`; `AdminRead`, `AdminWrite`; `Throw`, `Crash`, `Boot`. Occurrences
of a cron expression are identities that only compare for equality; `when` says whether the stored
one is due. A log is fresh until `LogGoesStale`. Finished logs and spent slots are reused, so that
counters need no bound; `scheduleConsecutiveFailures` stops at `FailureCap`.

### DirectorySync

`user` and `group` are the tables (a membership is an element of `user[u].groups`), `run[c]` the
variables of the run of source `c`, `pool` the sources "sync all" has still to take, those its workers are at and the
number of workers, which `EffectiveConcurrency` chooses from the sources listed; `admin` the administrator's call. A worker
takes the source of least `Rank`, the place by `createdAt` and `id`.
Phase A: `FetchUsers`, then per user `LookUpName` (the look-up of a name that another identity may
have, with the collision policy) and `WriteUser` (the upsert, which the unique index may still refuse), or
`BadUser` and `UserFault`; phase B, for the users that were stored: `BeginMembers`, `UpsertGroup`,
`ReplaceMembers`, or `FetchFails`. `BeginMembers` takes all or only some (`want`) of what the source lists (`listed`): rows
that cannot be mapped are recorded as errors, rows beyond `maxMembershipsPerUser` or the last page are left out without a
word, and neither counts as a failed fetch. Phase C: `FindUnseen` and `Deactivate`, then `DeleteOrphans`, unless a
fetch of memberships failed (`shouldSkipOrphanDeletion`). The administrator creates, renames and deletes manual
users, deactivates or deletes the identities of a source, and deletes a source without identities; a rename may find
that another administrator has deleted the row (`DeleteManual`). Simplifications: groups stand for groups and roles,
which go through one descriptor each; a source has one run at a time (admission is the business of `SyncScheduler`,
which shows how two callers break it, section 6, and where all this is the one step `Work`); dry runs
write nothing; one "sync all" at a time. `External` selects the identity store without foreign keys to
the connections, in which the guard of a deletion can be overtaken; the run leaves it `FALSE`.

### SourceAccess

`cache`, `inflight` and `lastToken` are the maps of `OAuthTokenService` with the credentials each token
was obtained with, `exchange[x]` the request a call started, `agent` the entry of
`ProxyDispatcherService` and `holds[x]` the agent a call was given, `call[x]` a run or a test with the row
it loaded. Code between two awaits is one step: `LoadRun`, `AskToken`, `Unauthorized` with the joining
or starting of an exchange (`Obtain`), `ExchangeSucceeds`/`ExchangeFails` with everybody who waits,
`BeginDiagnosis`, `BeginProbe`, and the write of an administrator apart from its continuation
(`WriteRow`, `Invalidate`). Simplifications: one connection, since keys and agents of different ones
are disjoint; expiry means that a cached entry need not be used; any token may meet a 401; the pages of a fetch are
one answer; the token endpoint and the source are proxied alike; one administrator at a time; a restart
would empty the caches and is `Init`. Building an agent always succeeds: a build that throws after the
cached agent was closed (`proxy-dispatcher.service.ts:92-96`) leaves the closed agent in the cache, and is not modelled.

### BackchannelLogout and LogoutContract

`queue[d]` is the row of a pair `d` of session and SP, `pass[p]` a run of `processDue`, `job[p][d]` a
delivery in it, `call[c]` a `propagateLogout`, `sp` the SP rows. Actions: `Propagate`, `Insert`
(the upsert, which skips an SP without endpoint), `Kick` (the first pass); `CountInFlight`, `FindDue`,
`Delivered`; `Claim` (the conditional update), `Load`, `Send` (any of the outcomes the SOAP answer
is classified into), `FinishResolved`, `FinishFailure`, `FinishGone`; `Resend`, `StartPass`, `Prune`;
`EditSp`, `DeleteSp` (with the cascade); `RetryDue` and `Ages` for time; faults. `tries` counts the
deliveries begun and is history. `HonoursContract` is the refinement: `sending` of `LogoutContract` is
"some pass holds the row".

### SsoSessions

`user`, `request` (`SamlSession`), `session` (`SamlSsoSession`), `part` (`SamlSpParticipation`, as
session, request answered and user named) and `queued` (rows given to the queue) are the tables;
`login`, `complete` and `term` the handlers in progress. A termination is first chosen
(`TerminateSessions`, `TerminateAllActive`, `TerminateAllForUser`, `StartDeactivate`, `StartDelete`,
`ReceiveLogout`), then goes through its sessions one after the other: `ReadStatus`, `Terminate`,
`Propagate` or `PropagateFails`. `active` are the SPs that are switched on (`EditSp`); `Propagate` queues those, without the
initiator, and `spared` records whom it left out, the initiator and the inactive ones. `Issue` is the transaction of `completeSso`. `Abandon...` ends a
handler at any await, for a failed check outside the model, a rejected call or a crash.
Simplifications: one kind of user stands for manual and synced ones; the deletion of an SP with its
requests and participations is left out; the replay log is left out because it is consulted only after
the termination; cookies without a session id do not pass the guard, so the branch of
`completeSso` for them is unreachable and absent.

### CertRotation

`row[k]` holds the active and the pending certificate of a kind with the time they have left, the age of
the rotation, the toggle and the failures; `check` the automatic check with the row it read, `op[a]` an
administrator's call, `signer[s]` a first use (`ensureSigningMaterial`). `Tick` and `RunCheckOnDemand` begin a
check, which evaluates each kind on its snapshot (`CheckSkip`, `CheckEvaluate`), writes (`CheckStart`,
`CheckReread`, `CheckPromote`, `CheckFail`) and finishes; `BeginOp`, `ReadOp`, `WriteOp` are the calls of
administrators, whose updates ask nothing of the row again; `Pass` lets a unit of time go by. Key
generation is synchronous and part of the step that asks for it. `raced` and `manual` are history.
Left out: the dry run and the notifications, which change nothing, jitter, which only delays,
certificates that cannot be parsed, which the check skips, and the settings cache.

### IdentityDatabase

`local`, `ext` and `backup` are the rows of each store, `cfg` the configuration row, `store`, `active`,
`rec`, `queued` the memory of the process, `op` the operation that holds the lock, `write` a write in flight
with the store it was given, `flags` the updates of `outOfSync` nobody waits for. One action per await of
connect (`ExportLocal` to `Activate`), resync, disconnect, the reconcile (`RecExport` to `RecMark`) and a write;
`ConnectFails` and its like stop after any part of the rows; `Restart` comes between any two steps, and
may find the database out of reach. History: `missed` holds the identities a copy may differ in for a reason that the
write-through has no part in (a row written past the copy, an upsert that leaves or brings back deleted rows, a restart in
the middle of a reconcile), `cleared` those it differed in when a Re-sync cleared the flag. Simplifications: an identity is present or absent, so that a change is a row; a write
may be rejected at any time, which is what the circuit breaker adds; connect is offered
when nothing is configured, as the console does (`src/apps/web`, `ExternalIdentityDatabasePage.tsx:232`); the
administrator's calls are further apart than a write takes (`Settled`).

### LoginProtection

`row` is the account's `LoginLockout` row, `ipHits`, `nameHits`, `trips` and `ban` the memory of the
throttle and the bans, `attempt[a]` a login. A login is `Precheck`, `LookUp`, the verification (`Fail`, `Pass`,
`Abort`), then `Count` and `Lock`, the two calls of `recordFailure`, or `Clear`; besides there are `Unlock`, `Prune`,
`Restart` and `Tick`. Simplifications: one account; time in coarse units that do not pass between the two
calls of a failure; all windows equal, as by default; the counter of SSO requests may trip at
any time; a response delayed on purpose is another step taken later.

## 3. Runs

Times are for two workers.

| Run | Shows | Instance |
|---|---|---|
| `sched_core` (1 min) | guard, reclaim and auto-pause fit together: no stuck status, a schedule is paused after the configured failures in a row; a due slot is served | 1 connection, 1 outside caller, 2 ticks, 2 logs, 3 slots, threshold 2, no faults |
| `sched_recover` | with crashes, rejected calls and restarts: a slot fires once, a due slot is served unless the row is stranded | 1 tick, no outside caller, 3 logs, 3 slots, 2 faults |
| `sched_admin` (1½ min) | `updateSchedule` on a stale row racing the scheduler never leaves an enabled schedule without next slot | 1 admin, 1 tick, 2 logs, 5 slots, 1 fault, no boot grace |
| `queue_core` (1½ min) | the queue honours its contract and every row is resolved unless orphaned | 1 session, 1 SP that is edited and deleted, 2 terminations, 1 first pass and the timer, all limits 1, 1 fault |
| `sso_signon` (1 min) | one assertion for a request, for the right user; foreign keys; an SP is told of the logout unless its assertion was recorded too late | 1 request, 2 users, 1 session, 1 login, 2 completions, 1 termination, 1 SP switched off and on |
| `sso_logout` (1½ min) | the fan-out reaches every active SP and a deactivation revokes, with two terminations at once | 2 browsers of one user signed on at 2 SPs (3 assertions), 2 terminations, 1 LogoutRequest, 1 SP switched off and on |
| `directory_sync` (2 min) | the store stays consistent, a clean run mirrors its source, the deletion of orphans takes no membership of a user the run stored, the first source wins a contested name | 2 sources with opposite policies, 3 synced and 1 manual user, 1 group, 2 names, 1 administrator's call |
| `source_access` (2½ min) | credentials, agents and exchanges do not get mixed up under edits; every run returns | 2 runs, 1 test, 1 proxy setting, 1 edit |
| `cert_rotation` (1 min) | the certificate is replaced in time, nothing is promoted early, one first pair | both kinds, 1 administrator's call, 2 first uses, 2 faults, 1 restart; a day of 2 instants |
| `identity_database` (½ min) | no identity is lost in a move; a mirror is exact or flagged, or a Re-sync cleared the flag | 2 identities, 1 database, 3 operations, 4 writes, any number of restarts and rejected calls |
| `login_protection` (1½ min) | lock and counter fit together; nobody is shut out for good | 2 logins, 1 trusted and 1 other address, all limits 1 or 2 |
| `bug_late_assertion` | a documented statement that the code does not keep, see section 6 | the smallest instance that shows it |

**Why the bounds are enough.** *Scheduler*: connections do not share rows, so one is enough for every
property here; what they share is the tick, which processes them one after the other. Two ticks are needed for
the re-entrancy flag, a caller besides them for the guard; more runs would wait where these
do. Two logs allow one open stale log and its successor, and the third in `sched_recover` one more
left by each fault. Three slots are the stored one, the one a handler remembers and a new
one; an administrator remembers more, hence five. A threshold of 2 tells "in a row" from "any". Two
faults let a second crash hit the recovery from the first. *Queue*: rows of different pairs meet
only in `MaxInFlight`; with one pair the limits 1 make the budget run out, one retry reaches both
`failed` and `given_up`, and two passes are the most that can hold different views of a row beside a resend.
*Sessions*: two handlers of a kind race for a row and a third finds what the second finds; two SPs
tell the initiator of a logout from the others; two sessions let a loop fail half-way.
`sso_signon` and `sso_logout` divide the state space: the first starts from nothing with one
termination, the second from two finished sign-ons (`SignedOn`, a state the first kind of steps
reaches) with two. Completions beside a termination, where an assertion and the listing of the participants overtake each
other, are in the first; completions beside two terminations are beyond the time a run may take in `sso_logout`, and were
checked once with one session and one answered request (`Waiting = {r2}` of `MCSsoSessions`). One SP that is switched off and on tells those `propagateLogout` skips from the
others.
*Directory*: sources meet in names only, so two of them and two names make every contest; runs are repeated without
bound, so the store holds whatever earlier ones left; two users of one source swap names; the group is
listed, unlisted, unread; one administrator's call leaves out a rename, which needs a creation before it, while the
proofs cover any number of them. *Access*: two runs and a test make every pair of calls that share a key
or an agent; one edit has calls with old and new settings meet, and a second one only renames them. *Rotation*: the
overlap equals the lead, so that the clamp of the overlap decides; time runs until certificates have been
replaced and expired more than once; the lead forgives one fault or one restart, and the run goes on past
that. *External database*: three operations attach, refresh and detach, or attach again; four writes put one
before, during and after them. *Logins*: a second login overtakes the first between any two of its
steps; limits of 1 and 2 tell "at" from "over"; `MaxLock` is reached by the second lock.
Symmetry is used for handlers of one kind, logs, names and identities, never under a liveness property.

**Fairness.** Safety needs none, and the runs of `SsoSessions`, `DirectorySync`, `CertRotation` and
`IdentityDatabase` state none. The scheduler and the queue assume weak fairness of the
steps that the process itself takes: an awaited call comes back (Node resumes every continuation, and the
database, identity and SOAP clients have time limits), timers keep firing, time passes (a fresh log
becomes stale, a retry comes due), and a crashed process is restarted. `SourceAccess` assumes that a run
goes on and that an exchange is answered (requests have time limits), `LoginProtection` only that time does not
stop. Nothing is assumed of callers, operators, clients and administrators. Two liveness properties have
a premise about them instead: `CallersFallQuiet` (outside callers do not sync the connection for ever: one
always in the way starves the pre-check) and `ResendsEnd` (nobody resends for ever). Strong fairness is not
used.

## 4. Proofs

The proofs hold for every value of the constants that the named assumptions of the modules admit: any number of
connections, callers, ticks, logs, sessions, SPs, passes, users, runs, tests, proxy settings, edits, sources, names,
databases, entities, logins, addresses and administrators, and any limit and number of faults and restarts.

* `SyncConstants`, `QueueConstants`, `SsoConstants`, `AccessConstants`, `DirectoryConstants`, `IdentityDatabaseConstants`,
  `LoginProtectionConstants` and `CertConstants` type the parameters; sources are finitely many, and no two have the same
  `Rank`.
* `NoneIsNoRecord`, `NoneIsNoRow` and `NoneIsNoCert` say that the value for "nothing" is not a record of the module.
* `PowersOfTwo` (`LoginProtection`) is arithmetic: powers of two up to the longest lock are natural numbers above
  their exponents. The provers know no exponentiation; TLC evaluates it.
* `EnoughIds` (`CertRotation`) says that there are always identities left for a new pair of certificates: more than four
  for each kind and one for each handler, so that a certificate that is made is a new one, as it is in the code.

| Theorem | States |
|---|---|
| `TypeCorrect`, `QueueTypeCorrect`, `SsoTypeCorrect` | `TypeOK` of the three modules; the last with the foreign keys |
| `NoOverlappingTicks` | `TicksDoNotOverlap`, which no run checks any more |
| `DistinctLogs` | `RunsHoldDistinctLogs`, likewise |
| `CadenceKept` | `EnabledHasNextRun` |
| `NoOrphanLogs`, `InProgressIsOwned` | without faults, an open log and an IN_PROGRESS row have a run that will settle them |
| `ReclaimsOnlyStale` | `OnlyStaleRunsReclaimed`, likewise |
| `NoDoubleSend` | `OneWorkerPerRow` |
| `AutoPauseHolds` | `AutoPauseStops`, for edits that are up to date and do not disable and lift the pause at once |
| `FiresOnce` | `SlotFiresOnce`, for edits that are up to date |
| `AcknowledgedForGood` | `AcknowledgedIsFinal` |
| `QueueHonoursContract` | `BackchannelLogout` implements `LogoutContract` |
| `RetriesBeforeGivingUp` | `GivenUpAfterRetries` |
| `OneAnswer` | `OneAssertionPerRequest` |
| `RightUser` | `AssertionMatchesBinding` |
| `LogoutReachesAll` | `FanOutComplete` |
| `DeactivationHolds` | `DeactivationRevokes` |
| `AccessTypeCorrect` | `TypeOK` of `SourceAccess` |
| `LoadedSettings` | `UsesLoadedSettings` |
| `OneFlight` | `SingleFlight` |
| `OnlyStragglersLeaveTokens` | `StaleOnlyFromStragglers` |
| `AgentKeptOpen` | `AgentSurvives` |
| `DirectoryTypeCorrect` | `TypeOK` of `DirectorySync` |
| `DirectoryConsistent` | `StoreConsistent`, for the local store (`~External`) |
| `MirrorsSource` | `SuccessMirrors` |
| `ReferencedGroupsStay` | `KeepsReferenced` |
| `FirstSourceWinsName` | `FirstSourceWins` |
| `DatabaseTypeCorrect` | `TypeOK` of `IdentityDatabase` |
| `NothingIsLost` | `NothingLost` |
| `MirrorExact` | `MirrorExactOrFlagged` |
| `ProtectionTypeCorrect` | `TypeOK` of `LoginProtection` |
| `LockFitsCount` | `LockMatchesCount` |
| `CertTypeCorrect` | `TypeOK` of `CertRotation` |
| `FirstUse` | `FirstUseUnique` |
| `PromotesElapsed` | `AutoPromotesElapsed` |
| `RotatesInTime` | `KeptAlive` |

The arguments, in the order of the table:

* *Types* are inductive by themselves for the first two. `SsoTypeCorrect` needs `RowInv`: what a
  handler holds was created before (`HandlersOK`), and a created session names a user while a new one
  has not expired (`SessionsOK`); otherwise a purge could turn a row nobody created into `gone`.
* *Ticks*: mutual exclusion alone is not inductive; the flag is set while any tick loops
  (`FlagCoversTicks`).
* *Logs*: a log is taken only while nobody holds it, as owner or as the one to reclaim (`LogTaken`);
  every other step keeps or drops what a run holds.
* *Cadence*: every write of the row keeps the stored slot, replaces it by another or disables the
  schedule; an administrator's stale read is where this is not obvious (`AdminWriteEffect`).
* *Owners*: a run keeps its log and place until it closes the log (`HolderKept`); only a real run
  marks the connection (`MarkIsReal`), and whoever marks it settles it or, being reclaimed, is still on its way to.
* *Reclaim*: the log a run is about to close as stale is stale (`StaleTargets`), and a stale log stays
  so until it is closed.
* *Pause and slots*: a row at the threshold is paused with the marker, and the marker is on no other (`Stopped`); a slot that
  was fired is nowhere any more, neither in the row nor with a tick (`SlotInv`). An
  administrator's write that rests on what has changed since it was read breaks both, which section 6 records:
  `updateSchedule` writes all it read back. Hence the hypotheses `EditsAreUpToDate` and, for the pause,
  `NoEditDisablesAndLifts` of the two theorems; both hold where there is no administrator, as in `sched_core` and
  `sched_recover`, which check the two properties.
* *Queue*: a row is held by one pass and says `in_flight` unless its SP is gone, and an SP that is gone
  does not come back (`WorkerInv`). With jobs only in passes that deliver (`JobsInPass`), every step
  moves every row as the contract allows (`StepMovesRows`), which gives the last two theorems
  of the queue.
* *Retries*: neither a row nor a pass that holds it counts more attempts than deliveries were begun, and a pass whose
  delivery is under way counts fewer (`Counted`); `resend` resets the attempts only.
* *One answer*: a request that was answered is gone, and no step brings one back (`RequestSteps`).
* *Right user*: a sign-on that has compared session and request still finds them equal, or the user
  is deleted (`BindingKept`): a deleted user stays deleted, a session keeps its user and a bound request
  its own (`OwnersKept`). The last one is what the condition of `bindUserToSession` is for.
* *Logout*: whoever propagates has ended the session and recorded whom it leaves out, the initiator and inactive SPs (`SparedOK`); every step that
  ends a session, queues, purges or issues keeps the account of who is notified, on the way, late or lost.
* *Deactivation*: what it found active is on its list until it was seen to be ended, and a session that ended stays so
  (`Revoking`).
* *Access*: who waits, waits for a live exchange of its own credentials (`CallsOK`); whoever began an exchange
  waits for it, and the in-flight map points at the one that was not dropped (`ExchangesOK`, `KeysOK`).
* *Stale tokens*: between two writes of the row, a call in progress has the row's credentials, or its key is among the
  `stragglers` noted when it was invalidated (`CredentialsOK`).
* *Agents*: an agent that leaves the cache is closed; while everybody has loaded the same proxy setting the
  cached one is never replaced (`CalmOK`).
* *Store*: the groups a run is about to assign are there as long as the user's row is, because whoever deletes
  them deletes the user as well (`AssignedOK`), and the deletion of orphans takes their memberships along. Without
  foreign keys a source may be deleted between a run's steps, which is why `~External` is assumed; the other theorems
  about the directory hold for both stores.
* *Mirror*: three facts about the variables of a run alone, in each phase (`Progress`); every group listed for a user that
  was handled is in the census if the run is clean (`Census`); in a clean run all that was seen is stored or still to come
  and the census is what was listed (`Clean`). What the store holds of it (`Stored`) survives the steps of everybody else,
  because they leave the rows, groups and memberships of the source alone (`Undisturbed`).
* *Kept groups*: in any run, clean or not, in which no fetch failed, whoever phase B is done with has only groups of the
  census (`Kept`): `ReplaceMembers` assigns what was upserted, and every other step lets memberships only shrink
  (`ElseShrinks`). With a failed fetch nothing is deleted at all.
* *"Sync all"*: workers are at sources before all that are queued; the runs marked as part of it are those its workers are at;
  and while any source skips users on a collision the pool has one worker, since sources only disappear after the number
  was chosen (`PoolInv`).
* *External database*: which configuration goes with which step of an operation (`Shape`); where the entities are that nobody
  removed - in the local database until the import is done, then in the external one, and in the snapshot while data moves back
  (`Kept`); unless another pass was requested, the snapshot of a reconciliation and the local data, and then what it
  imported and the copy, differ only in what is excused, that is in `missed` or `cleared` (`CopyOK`).
* *Lockout*: of a failure about to lock, the row still has at least its count, or was cleared since (`Counted`). With it, a row
  at the threshold is locked long enough (`LockKept`), and only such a row is locked (`Earned`).
* *Certificates*: a step of a check finds what its snapshot said, except for kinds an administrator wrote to since
  (`SnapOK`, `DueOK`), and a rotation replaces something (`RotationOK`); a first use signs with its own pair only if it
  stored it (`PairStored`). For `KeptAlive` an account is kept of the lead: while no rotation is in
  progress, what is gone of it was paid for by failures and restarts (`WaitOK`); during one, the age is the time published, and
  what was lost before its start, in its last day and after its overlap was paid for (`PublishOK`). The attempt to
  prove the earlier hypothesis of `KeptAlive`, an instant for a restart, failed for a reason: a restart may cut a check short
  *and* have the boot check put the start off, which costs two. TLC confirms the counterexample with `Day = 4`, `Lead = 1` and two
  restarts; the property counts them so now, and asks for a day more than the lead in `Validity`, and for more than it in
  the lifetimes found at the start.

The strengthened invariants were checked by TLC before they were proved: those of `CertRotation` on ten instances, those of
`SsoSessions` on `sso_logout` (1,848,750 states), that of `IdentityDatabase` on `identity_database`, those of
`DirectorySync` on `directory_sync` (1,088,054 states) and with `External = TRUE`.

**Only model-checked**: the liveness properties (`DueIsServed`, `DueIsServedUnlessStranded`,
`ResolvedUnlessOrphaned`, `EveryRunReturns`, `NobodyShutOut`), which the prover does not reach. Every other property of a
passing run is stated by a theorem. `InFlightHasWorker` and `RotationEnds` are stated, too, but no run has room for them: add the first to
`queue_core`; for the second take `FairSpec`, `Validity = 4`, `Grace = 0`, `Threshold = 1`, no first uses and one
administrator's call, fault and restart each, without symmetry.

## 5. Plan

Done, in this order: `SyncScheduler`, `BackchannelLogout` with `LogoutContract`, `SsoSessions`, because they
carry the state most handlers share, with their proofs; then `CertRotation`, `DirectorySync`,
`IdentityDatabase`, `LoginProtection` and `SourceAccess`.

Next:

1. The settings cache beside `CertRotation`: a slow read fills it after an invalidation. Abstract
   specification: a register whose reads are at most one TTL old.
2. The replay window of LogoutRequests, with a clock; the conjunction of the queue with `SsoSessions`,
   so that a lost propagation and a row that is never answered appear in one model.
3. The circuit breaker (half-open calls counted against late answers of the time before) and the paged
   fetch with its limit.
4. Manual groups and roles and the assignments an administrator makes; the semantics of the external store, which has no
   foreign keys to connections, as a second instance of `DirectorySync`.
5. Administrators: the last one cannot be deleted, sessions outlive a changed password.
6. Proofs, see the end of section 4. `sched_admin` may be merged with `sched_recover` once the edit
   is made smaller.

## 6. Where code and documentation differ

`bug_late_assertion` is a run of its own: an assertion issued after its session was terminated belongs to an
SP that is never told (`docs/development.md:567`).

The following are stated as properties of the modules, too, and TLC refutes each in the instance given. They have
no run of their own, so that each question keeps a run that answers it.

| Property | Instance | What is said, and what happens |
|---|---|---|
| `OneRealRunPerConnection` | `sched_core` with `Manual = {m1}`, `Ticks = {t1}`, 3 logs, no failure counting | "never double-run" (`docs/development.md:326`, `:357`): two callers pass the guard before either has created its log (`sync.service.ts:182`) |
| `DueIsServed` | `sched_core` with one fault and no caller | "a hung run never blocks future slots" (`docs/development.md:357`): a crash between `finishLog` and the connection's update leaves IN_PROGRESS without an open log, and the scheduler skips the connection for ever (`sync.service.ts:937`) |
| `EveryLogoutResolves` | `queue_core` with one call, one fault, `MaxInFlight = 2` | "Persistent so retries survive restart" (`prisma/schema.prisma:210`): a crash after the claim leaves a row `in_flight`, which nothing selects again (`logout-propagation.service.ts:224`) |
| `InFlightCapped` | `queue_core` with 2 SPs, no faults or retries | "Global cap on in-flight deliveries" (`backchannel-logout.config.ts:46`): two passes spend the same budget |
| `KeepsListed` | `directory_sync` | a group is not deleted from under a membership that is still valid (`sync.service.ts:456`, `sync-counters.ts:32`): a user whose row is skipped is not asked for its memberships, and its groups become orphans; so does a group listed only in rows that cannot be mapped (`:657`), exceed the cap (`:636`) or lie beyond the last page (`identity-sync-client.service.ts:232`), with every membership in it |
| `FailedPushStaysFlagged` | `identity_database`; 1 identity, 2 operations and 2 writes are enough | "a failed push leaves `outOfSync = true` for the Re-sync action" (`external-identity-database.service.ts:433`): Re-sync clears the flag after its import (`:303`) without asking whether the copy is still up to date, so that a write after its export (`:300`) whose reconcile fails is neither copied nor flagged, with nothing under way; the same update runs without a connection to the database (`:298`). `cleared` records what a copy lacks on this account, and `MirrorExactOrFlagged` excuses it |
| `ResyncReconciles` | `identity_database` | "Re-sync reconciles" (`docs/database.md:267`, `mirroring-identity-store.ts:51`): it upserts, so that deleted rows stay in the copy although the flag is cleared |
| `DetachMovesBack` | `identity_database` | "Disconnect offers to move identity back" (`docs/database.md:295`): after a boot that could not reach the database nothing is moved, and the configuration is deleted |
| `LockEarned` | `login_protection` | "After LOGIN_LOCKOUT_THRESHOLD consecutive failures an account locks" (`docs/development.md:449`): the update that locks may come after a success or an unlock and a new first failure |
| `DeletedLeavesNothing` | `source_access` | "otherwise a deleted/rotated connection's entries leak forever" (`oauth-token.service.ts:95`): an exchange in flight stores its token after `invalidate` |

The models also contain these, which no property singles out:

* Scheduler: an `updateSchedule` that read before a tick advanced the slot may write the old one
  back to be fired again (`SlotFiresOnce` is checked without administrators, and proved with them for edits that are up to date); a disabled schedule
  keeps its `nextRunAt`; a pause written from a stale read may lose the automatic marker; a refusal
  because another run is active counts as a scheduled failure; an open dry-run log counts as busy in
  the pre-check.
* Directory: a fetch cut off at `maxPages` deactivates the users beyond it
  (`identity-sync-client.service.ts:191`), and one of memberships takes those beyond it away (`:232`); a run ends as FAILED in phase B or C when an administrator removes the identities
  under it; a unique violation on the update path of an external store is an error, not a collision.
* Access: a run that loaded old proxy settings resolves its agent again for a token and closes the current one
  (`AgentSurvives` holds while only one setting is in use); a forced refresh may join an
  exchange that began before the token was refused.
* Queue: a row that `resend` resets while an old pass still holds its former attempts is given up
  earlier than its new life allows (`GivenUpAfterRetries` counts deliveries since the row was
  created); a claim does not look at `nextRetryAt` again.
* Sessions: an SP that is inactive when its turn comes is never told, not even after it is switched on again
  (`docs/development.md:575`); a crash between the update of a session and its propagation loses the fan-out, because a second
  termination stops at "already terminated" (`lost`); two terminations of different kinds race, so that
  the initiator of a logout may be queued too; a purge under a bulk termination aborts the rest; a
  request bound by a login that then failed cannot be bound again by somebody else; a sync deactivates a user
  without ending sessions, and an administrator's deactivation afterwards does not end them either;
  a replayed LogoutRequest without SessionIndex ends a newer session before the replay is noticed.
* Rotation: "must not interleave" (`idp-settings.service.ts:519`) holds for a complete or cancel that begins during a
  check, but one that began before it, a start, a new primary pair and the toggle write into it (`raced`);
  the clamp of the overlap to whole days leaves a promotion one day, so that a day without a successful check
  is one too many; the failure count is written from the row that was read before.
* External database: the phase called "verify" compares nothing; a boot that cannot reach the database
  goes on with the local store, wiped or not, and what is written then is hidden later (`late`); the loop that drains the reconciles
  does not ask for the mode again.
* Logins: the throttle's window is fixed, not sliding, and its pruning drops counters of longer windows by the
  window of the caller (`sliding-window-rate-limiter.ts:90`); a row whose lock ended long ago is pruned although it failed just
  now and its new lock is on the way; of two failures the lock of the earlier may be written last, and
  is shorter (`LockMatchesCount` bounds it from below by the first lock).

## 7. Not modelled

XML, signatures, encryption and metadata: pure functions over text, whose result is one choice here.
The web interface and the scripts (more than a third of the lines): forms, tables and translations over the calls
modelled above, with no state of their own that a property could tell apart. Audit trail, health, dashboard: append-only
or read-only. Configuration and validators: pure. Bootstrap and migrations run before anything else.
The settings cache, the circuit breaker, administrators and their sessions, manual groups and roles: planned,
see section 5. In modelled components: dry runs, whose data phases write nothing; the response modes and the tarpit of
the login protection; notifications; the replay log; the pages of a fetch. Several processes on one database:
the in-memory flags show that the code is written for one.

# LexiLedger: formal models

TLA+ models of the LexiLedger backend (NestJS, PostgreSQL through Prisma, BullMQ
on Redis, an S3-compatible object store, Gemini), the TLC runs that check them on
small instances, and TLAPS proofs of their main invariants. Paths such as
`statements.processor.ts:81` are under `src/src/module/...`; `PROJECT.json` maps
every definition to the lines it stands for.

## The system

A request is served by an async handler. Node runs one callback at a time, so a
handler is atomic **between two awaits** and can be overtaken at every await, by
another request, by a worker, by another process of the same deployment. All
durable state is outside the process: PostgreSQL tables, the queue in Redis, the
objects in the bucket. There are no database transactions around a handler; the
only multi-statement transactions are `correct`, `getOverview` and the two
listings in `transactions.repository.ts` / `statements.repository.ts`.

| Component | State | Operations | Talks to |
|---|---|---|---|
| Statement upload (`statements.service.ts`) | `upload_statements` row: status, failureReason, content hash | `upload`, `updateStatus`, reads | object store, queue |
| Statement worker (`statements.processor.ts`) | the run of a job | `process`, `onFailed` | upload rows, object store, Gemini, transactions |
| Job queue (BullMQ, external) | job state, attemptsMade, lock, stalled count | add, take, complete, fail, stalled check | workers |
| Object store (R2, external) | objects under fresh keys | put, get | |
| Transactions (`transactions.*.ts`) | `transactions`, `TransactionCorrection` | `createMany`, `correct`, paginated listings, overview, stats of a statement | worker, budgets, dashboard |
| Refresh tokens (`refresh-tokens.*.ts`, `auth.service.ts`) | `refresh_tokens`: revokedAt, expiresAt | login, refresh, logout, logoutAll | users |
| One-time codes (`email-verification-token`, `password-reset-tokens`) | code rows: usedAt, expiresAt | issue, verify | users, mail, refresh tokens |
| Users (`users.*.ts`) | emailVerifiedAt, passwordHash | register, verify email, reset password, update name | codes |
| Budgets (`budget/*.ts`) | `Budget` rows, one for each user and category | set (upsert), remove (find, then delete), list a month with what was spent | overview |
| Dashboard (`dashboard/*.ts`) | none | overview of a date range | overview |
| Throttling, guards, envelope, configuration | library counters | | |

Where the difficulty is:

* **Upload and worker** share three systems without a transaction. Anything can
  stop between two of their calls, a call can fail after it took effect, BullMQ
  delivers at least once (stalled jobs), the `failed` handler runs unawaited, and
  the decision that a failure is final is taken in three places.
* **Refresh tokens** are read, checked, revoked and replaced in separate calls.
* **Corrections** read the category outside the transaction that replaces it.
* **Codes and resets** have the same read-then-mark pattern, plus a code space
  that fills up and a chain of calls (mark, hash, update, revoke) that may stop.
* **Listings** are walked page by page with `skip` and `take` while rows are
  committed, and each page is two queries: the rows, then how many there are.
  A `$transaction` does not help: it is READ COMMITTED.
* **The overview** is two aggregates of one table, read one after the other while
  batches and corrections commit; a listing of budgets reads the `Budget` rows
  beside them, and compares by a month computed with `Date.UTC`.
* **Removing a budget** finds the row and then deletes by `(userId, category)`:
  by then another removal may have been there, and another row.

What would make each correct: one statement per file and a job only for a
complete statement; a status that tells the truth about transactions and queue;
every queued statement settles, with its transactions inserted once; a session
has one live token, and reuse or logout ends it; the category always is what the
audit trail says, and the trail only grows; a code works once, for its owner; an
overview that adds up and counts whole statements; a listing that misses
nothing; a budget that is removed once.

## Modules

| Module | What it models |
|---|---|
| `JobQueue` | BullMQ as the code uses it. `jobs[s]` is the job of statement `s`: `state` (`wait` includes the backoff delay), `attemptsMade`, `stalled` (saturating at `MaxStalled + 1`), `holder` (the lock). |
| `StatementPipeline` (EXTENDS `JobQueue`) | `upload()` and the worker. A request, its row, its object and its job share one name. `pc[r]` is the await a request is at; `workers[w]` the job, run number, await and error of a worker; `batches[s]` the runs of the job whose `createMany` committed; `notices` the `onFailed` calls that still owe their write. |
| `MCStatementPipeline` | fault set and symmetries of the instances |
| `RefreshTokens` | the `refresh_tokens` table and its handlers. The token that request `r` issues is named `r`; `req[r]` is the state of the handler, `closed` the sessions that an answered logoutAll met with no refresh under way (history). |
| `UserSessions` | the abstract specification of a user's sessions: the token each is held with, and whether it is open, due a token, or over. No requests, no rows. |
| `SessionsRefinement` (EXTENDS `RefreshTokens`) | the refinement mapping: `valid[s]` is the unrevoked tokens of `s`, `phase[s]` is `renewing` while a refresh that found its token alive has not inserted the next |
| `MCRefreshTokens` | symmetry of the instances |
| `OneTimeCodes` | accounts and the two tables of mailed codes: register, login up to its token, resend, verify, forgot, reset. The code row, the refresh token and the password that request `r` creates are named `r`; `req[r].seen` is history: the requests about the same address that were over when `r` was sent. |
| `MCOneTimeCodes` | symmetry of the instance |
| `Corrections` | one transaction's category and its audit trail under concurrent `correct` calls; `seen` and `clock` are history |
| `MCCorrections` | symmetry of the instances |
| `Ingestion` | the abstract specification of upload and worker: what is listed of a statement, and its transactions. No queue, no workers, no attempts. |
| `IngestionRefinement` (EXTENDS `StatementPipeline`) | the refinement mapping: `shown` is `status`, `recorded` is `batches` |
| `Listings` | one of the two paginated listings and a client that walks through it while rows are committed |
| `MCListings` | names the instance |
| `Calendar` | the month range of budgets on `Date.UTC`, and the month an instant lies in, computed the other way round |
| `Ledger` (EXTENDS `Calendar`) | the transactions' categories and the `Budget` rows, and the requests that read and compare them: overview, stats, budgets, set, remove |
| `MCLedger` | the instance: items around the ends of a month, and the check of `Calendar` over 2201 years |
| `StatementPipelineProofs`, `IngestionProofs`, `RefreshTokensProofs`, `OneTimeCodesProofs`, `CorrectionsProofs`, `ListingsProofs`, `LedgerProofs`, `OverviewProofs` (EXTENDS `LedgerProofs`) | theorems and proofs |

`StatementPipeline` composes the upload, the worker, the object store and
`JobQueue`; `OneTimeCodes` composes the code tables with accounts, mail and the
sessions a reset ends; `Ledger` composes transactions, budgets and dashboard.
The writes that meet in `transactions` are detailed in `StatementPipeline`
(`createMany`, with retries) and `Corrections` (`correct`, with its audit row);
`Ledger` takes each of them as the single commit it is to a reader.

### StatementPipeline, action by action

`Reject`, `Lookup`, `Store`, `Create`, `Enqueue` are `upload()`
(`statements.service.ts:91-125`), one action per await; `Create` ends in
`conflict` when the unique index on `(userId, contentHash)` refuses the row.
`Abort` is any of these calls failing, with or without effect, or the process
stopping there.

`Take` starts `process()` (or, for a job that stalled too often, BullMQ fails it
without calling `process()`: run number 0 is never used). `Begin` is the status
write, `Load` the three reads that nothing else changes, `Extract` the Gemini
call with validation and mapping, `Insert` and `Mark` the two database writes,
`Ack`/`Nack` what the queue is told. Every database branch exists three times:
done, failed without effect, failed with effect. `Nack` emits a notice when
`onFailed` finds the failure permanent, using `attemptsMade` as the queue has
already counted it; `OnFailed` is that handler's write, any time later, or never
when the write fails. `LoseAnswer`, `Crash` and `Stall` are the queue faults.

Errors are told apart by what the code does with them: `quota` and
`invalidPerDay` contain the words `per day` and become an `UnrecoverableError`;
`rate`, `invalid`, `db`, `storage`, `notFound`, `noText` are retried; `stalled`
is BullMQ's own.

`Faults` selects what may go wrong in an instance. `lockloss` is a worker that
keeps running after its lock ran out (a blocked event loop, a long partition).

### RefreshTokens

`Send` is a client's request with any token it was ever answered with, or an
unknown one; `Find` is the read and the decisions of `validateAndRotate`,
`Revoke` and `Issue` its two writes, `RevokeAll` the write after a detected reuse
and also the one of logoutAll; `Logout` is `revokeByRawToken`, with the raw value
compared to the column of hashes as the code does. `Expire` lets a row expire at
any time. `Abort` is a call that fails (with or without effect) or a stopped
process. `ClientWaits` restricts clients to one refresh of a session at a time.

### UserSessions

`Begin` is a login, `Withdraw` and `Renew` the two halves of a refresh, `Lapse` a
refresh that stops between them (the session is lost; the client logs in again).
`EndAll` is what a reuse and a logoutAll do to every session of a user: the
tokens go at once, and a session with a refresh under way may still get its next
one, which is the most the code promises, since nothing holds the revocation and
the rotation together. `renewing` is not a column: it is derived from the
handlers at work. An expired row keeps its session open in this sense; it is the
refresh that is denied. For clients that do not wait the refinement fails: two
refreshes give one session two tokens (`sessions_rotate`).

### OneTimeCodes

`Lookup` is the `findByEmail` that four handlers begin with and what they decide
from it, `CreateUser` the insert that the unique email guards. `Invalidate`,
`Create` and `Mail` are `issue` and the mail: `Create` draws any value, and a
value that the table has ever held costs one of `MaxTries` attempts. A mail that
is refused or lost is a mail nobody reads. `Find` is the lookup of a presented
code by its hash and the decision on it; `MarkUsed` and `MarkVerified` finish a
verification, `MarkUsed`, `InvalidateOthers`, `UpdatePassword` and `RevokeAll` a
reset. `Finish` is the last write of a handler, answered or not; `Abort` a call
that fails at any other point. A request that ends without a row, a token or a
password of its own is forgotten (`Refuse`), which keeps the state space small.
Clients present a code they were mailed, at any later time, or a value that no
row holds. Passwords are compared by the environment: a login may be denied.

### Corrections

`Read` is `getById` with its three outcomes; `Begin` starts the database
transaction, whose `now()` becomes `correctedAt`; `Commit` makes the update and
the insert visible together. `Abort` may lose the answer of a commit. Two
corrections that overlap may record the same previous value, since it is read
before the transaction: the row of the second does not hold the value that it
replaced (`PreviousWasReplaced`, violated). `ExactUnlessOverlapped` is what is
left of the README's promise: a call that had seen all the rows before its own,
as every call of a user who waits for each answer has, records a real change
from the value it replaced, and is listed above what it had seen.

### Ingestion

`Accept` lists a statement as pending, unless the user's file is listed already;
`Start`, `Record`, `Finish` and `GiveUp` are what an attempt shows of itself. A
processing statement may be shown as processing again only by a step that does
not show (a retry): the actions of the pipeline that change neither status nor
batches are stutters. `Once` says that no call took effect without its caller
knowing; without it, a statement that is parsed may be processed again, get
another batch, or be given up, because the worker that parsed it could not tell
the queue. That is the strongest the code promises with a failing database or
queue, and `pipeline_duplicates` shows one behaviour of it.

### Listings

`time[x]` is what a row is sorted by. `Above` is the `orderBy` of each listing:
transactions by date and id, statements by `uploadedAt` alone. `IsPage` is
everything PostgreSQL may answer for `skip` and `take`: rows that the order does
not tell apart get any of the positions they share, anew in every query. So of
tied statements nothing is promised, and the properties are about `Definite`
rows. `FindMany` and `Count` are the two queries of a page; `NextPage` is the
client following `meta.totalPages`. Rows are only added (nothing in the code
deletes one), a batch at once or one statement.

### Ledger

Amounts are tenths of a kobo until `toKobo` rounds them; a batch with an amount
that does not fit `int4` is refused whole. `createMany` models the first batch of
a statement. `FindStatement`, `GroupByType`, `GroupByCategory` and `FindBudgets`
are the queries of the three readers, each its own action: `FindBudgets` runs
beside the two aggregates (`Promise.all`) and may come before, between or after
them. `Upsert`, `Find` and `Delete` are the writes to `Budget`; a write may take
effect and its answer be lost. `Fail` is a query that fails, or a limit that
does not fit. `first`, `second` and `quiet` are history: the statements that were
committed at each aggregate, and whether nothing was written since the request
was sent.

## Runs

| Run | Bounds | Shows |
|---|---|---|
| `pipeline_faults` | 1 statement, 2 workers, 3 attempts, 1 stall, all faults | types; parsed means a batch was committed; failed means the queue gave up |
| `pipeline_locked` | 2 statements, 2 users, 1 file, 2 workers, 2 attempts, crash, db, gemini, redis | one statement per file, jobs find their pieces, answers are own, completed means parsed, settled is final, retried to the end; implements `Ingestion` |
| `pipeline_settles` | 2 statements, 2 files (one without text), 2 workers, 3 attempts, gemini, storage; fair | every queued job settles; implements the fair `Ingestion`, with transactions inserted once |
| `sessions` | 4 requests, 2 users, aborts, clients wait | rotation, reuse detection, one live token per session, logout of all sessions; implements `UserSessions` |
| `codes` | 3 requests, 2 addresses in any state, 2 values, 2 attempts to draw one, aborts | a code acts for its owner and once; newer codes and resets spend older ones; a reset ends earlier sessions; only the verified log in |
| `audit` | 4 calls (1 foreign), 3 categories, aborts | trail and category move together; a row is exact unless another committed between its call's read and its commit |
| `ledger` | 6 items of 4 statements (one foreign, one that overflows), 2 categories, 2 requests (one may read), 2 months, 2 ranges, 2 limits | totals count whole statements; an overview adds up but for what was committed between its queries; spend is of the month asked for; removals delete a row each, and fail only for one another |
| `listings` | 4 rows, 2 times, pages of 1 to 3 | a walk misses nothing, shows a row twice only when one was committed above it, and is told a total that covers what it saw |
| `pipeline_duplicates` | 1 statement, 1 worker, db | *violated*: a retry after a failed status write inserts twice |
| `pipeline_stuck` | 1 statement, 1 worker, redis; fair | *violated*: row without a job stays pending |
| `sessions_rotate` | 3 requests, clients do not wait | *violated*: two overlapping refreshes both succeed |
| `audit_overlap` | 2 calls, 3 categories, aborts | *violated*: the second of two overlapping corrections records a previous value already replaced |

The violated properties are quoted from the README or the API description in
PROJECT.json's findings. Some properties are stated for the conditions under
which they hold: `CompletedIsParsed`, `SettledIsFinal` for
workers that keep their locks (a worker without its lock may write over what the
new holder wrote: the code does not ask); `NoDuplicateTransactions`,
`QueuedSettles` for a database and a queue that answer and processes that stay up
(otherwise `pipeline_duplicates`); `OneLiveTokenPerSession`, `ReuseEndsSession`
for clients that wait (otherwise `sessions_rotate`); `ExactUnlessOverlapped` for
rows that had none committed since they were read (otherwise `audit_overlap`);
`LogoutAllEndsSessions` for
sessions that have no refresh under way (one between its revoke and its insert
survives a logoutAll). The properties of `OneTimeCodes` compare a request with
those that were over before it was sent. Of requests that overlap the code
promises less: two resets with one code both succeed, two issues leave two
active codes, a login that compared the old password outlives the reset.

Why the bounds are enough: statements interact only through the unique index, so
two are needed to race and a third adds nothing that two do not; two workers are
needed for a job to be taken over while its first holder runs; three attempts
are the code's own number, two suffice where only "not the last" and "the last"
differ; one stall is BullMQ's default. Four requests are a login, a refresh, its
overlapping rival and what comes after. Four corrections allow a call that read
before two others committed. Three requests about codes are an issue, a rival or
a second issue, and a use; accounts that are registered or verified from the
start save the requests that would make them so. Two values are enough to
collide, to run out and to be told apart. Four rows make a walk of four pages of
one, of two, or of a full and a partial page, with rows left to be committed
above and below the place the client is at; two times make rows tie or not, in
every combination. In `ledger` the amounts are powers of two kobo, so that a sum
tells which items were counted; a statement lies across the end of January, one
on both ends of February; a day has two ticks, its first and its last, which are
the ones the month's range is about (`DayTicks` is a constant: the theorems do
not depend on it). Of two requests one may read, since a reader affects nobody:
the second is what it races with, as are two removals, or a removal and a set.
Three removals of one budget, and removals with a set between them, are left to
the theorems.

Some known behaviour is not among the runs. Logout revokes nothing:
`revokeByRawToken` (refresh-tokens.service.ts:29) looks the raw token up in the
column of hashes, finds no row and still answers 201, although
auth.controller.ts:108 calls the route "Log out of the current session". This
is a bug, and one that a unit test of logout finds: no overlap or failure is
needed. `LogoutEndsSession` states what the route promises, and
`tlc -config SessionsLogout.cfg MCRefreshTokens` refutes it in six steps. An invalid item whose text says
`per day` is taken for an exhausted quota and not retried: it is the
`invalidPerDay` of `StatementPipeline`, one of the errors `RetriedToTheEnd`
excepts. Years below 100 in a month are taken for the twentieth century by
`Date.UTC`: `SpentIsOfMonth` is about the years from 100 on, and
`MonthRangeIsTheMonth` says what happens to the others, over the instance's
years, and the theorem `MonthRangeIsMonth` in every year.

### Fairness

Only `FairSpec` assumes any: an upload goes on (Node's event loop and the
database answer), a worker goes on, a waiting job is taken by some worker
(BullMQ workers poll), a job that nobody runs is found by the stalled check, and
a pending handler writes. Each is weak fairness of one step; a failing branch
counts as the step, no fault is owed, and no attempt is assumed to succeed.
`Crash`, `LoseAnswer` and `Abort` are never fair. The fairness of `Ingestion` (a
listed statement is not left pending or processing) is not assumed of the code:
`ImplementsFairIngestion` shows that it follows from `FairSpec`, when the
database and the queue answer. `Listings`, `Ledger` and the others state none: a
client may stop anywhere.

## Proofs

The theorems hold for every value of the constants that satisfies the named
assumptions (`QueueAssumption`, `PipelineAssumption`, `TokensAssumption`,
`CodesAssumption`, `CorrectionsAssumption`, `ListingsAssumption`,
`CalendarAssumption`, `LedgerAssumption`): the markers are not elements of the
sets they mark, `Attempts >= 1`, `Foreign` is a set of calls, the extracted
category is one, a listing has finitely many rows and a page at least one, a
statement finitely many items (they are one answer of Gemini), the categories are
finitely many (an enum), a month is a year and a number of 1 to 12 (the pattern of
`find-budgets.dto.ts:7`). Each inductive invariant was checked by TLC on the
instances of the runs before it was proved.
The fault set is arbitrary, so the pipeline's theorems hold with every fault,
unless a theorem assumes `KeepsLocks` (`"lockloss"` is not among the faults) or
`AnswersForCalls` (only `storage` and `gemini` are).

* **Pipeline.** `TypeInv` strengthens `TypeOK`: attempts are left on a job that
  waits or runs (so `attemptsMade` stays below its bound) and a busy worker has
  a job and a run number below its bound. `TablesInv` adds how far a request is
  when its row, object and job appear (`RequestsInOrder`), the unique index
  (`OneRowPerFile`), that a worker past `Insert` has its batch, and that a notice
  is only owed for a job the queue has failed (`NoticesFinal`). None of the
  checked properties is inductive without these: `FailedIsFinal` needs the
  notice, `ParsedHasBatch` the worker about to `Mark`.
* **Ingestion.** `ReasonInv` adds that a notice owed for a job tells of its last
  attempt or of an error that is not retried: `FailuresWereRetried`, with every
  fault. `LockInv` is about locks that are kept: a busy worker holds its job
  (`BusyHolds`), so a job has one worker and its status follows that worker's
  place (`StatusInOrder`); `CompletionIsParsing` and `SettledStays` follow.
  `OnceInv` adds that a batch is that of the worker about to report it, or of a
  job that is completed (`BatchesHeld`, `OneBatch`), hence `RetriesInsertOnce`.
  `PipelineImplementsIngestion` is the simulation: each action of the pipeline is
  an action of `Ingestion` or a stutter.
* **Refresh tokens.** `TokensInv`: a refresh past its revocation has revoked what
  it presented (`RotationInOrder`), login and logout do not rotate
  (`OnlyRefreshRotates`), a token that was dead when sent is dead
  (`StaleIsDead`), sessions carry the name of a login (`SessionsNamed`).
  `SessionsInv` adds that a token is of the session of the request that issued
  it, and what a label says of a record. A session with no live token and no
  refresh at work gets no token any more (`Finished`): `ClosedAreOver` says so of
  the sessions an answered logoutAll met at rest, hence `LogoutAllIsFinal`,
  whether clients wait or not. With `ClientWaits`, `PoliteInv`: one refresh of a
  session at work (`OneRefresh`), which holds the live token until it revokes it
  and then the session has none (`RotatesAlone`), and a reuse that was answered
  finished the session (`ReusedAreOver`): `OneLiveToken` and `ReuseIsFinal`.
  Without it neither holds (`sessions_rotate` shows the first). `SessionsAreImplemented` is the
  simulation: every step withdraws, renews, ends or begins abstract sessions, or
  stutters; the invariants above are what identifies the one token that goes and
  the phase the others keep. No assumption is needed of the hash: a logout that
  did find a row would withdraw it.
* **One-time codes.** `CodesInv`: what a request's label says of its record
  (`Stages`), values are unique in a table (`UniqueValues`), a presented value
  was read in the mailbox of a row that holds it (`ReadInMailbox`), so the row
  found is that row (`RowsAreOwn`); a login about to insert its token has a
  verified account (`LoginsAreVerified`). `StepCodes` proves the invariant once
  for any step that rewrites one request's record; each handler only shows that
  it is such a step. `OnlyResetChangesPassword` is an action property.
  `InTimeInv` is about what was over when a request was sent: such requests stay
  over (`SeenAreOver`), a row that was found is marked one label later
  (`FoundIsUsed`), a code about to be inserted finds the earlier ones spent
  (`EarlierCodesSpent`), and each label of a reset says which of its effects are
  there (`ResetProgress`). None of `CodesWorkOnce`, `NewerReplaces`,
  `ResetsSpendCodes`, `ResetsEndSessions`, `ResetsTakeEffect` is inductive alone.
* **Corrections.** `TrailInv`: what a call read is the category after a prefix
  of the trail (`ReadsArePrefixes`), stamps never run ahead of the clock and
  follow what was seen (`StampsInOrder`), so every row records what its call read
  and a change from it (`RowsWereRead`), which is weaker than the README's words
  but inductive; for a call that had seen every row before its own it gives
  `ExactUnlessOverlapped`. `TrailOnlyGrows` is an action property.
* **Listings.** The invariant of a walk: a row of the start that was not shown
  yet is still ahead, at a position the pages so far have not covered
  (`StillAhead`), and one that was shown is behind unless a row was committed
  above it. It rests on counting: commits only move a row further down, and the
  positions of a page are the `limit` after `skip`. `TotalIsEnough` needs the
  ties: the rows that the order does not tell apart are as many as the positions
  they share, so a page has no more rows than positions, and its positions are
  not above the number of rows, which only grows until `Count` reads it.
* **Ledger.** `TypeInv` with what a label says of a record (`Stage`);
  `WholeStatements`, which makes what a `where` selects the same as what the
  request asks about the committed statements, so that the totals stay right
  whatever commits later; and for removals, that the name of a row is that of a
  set that is over (`RowIds`), that a removed row is gone for good
  (`RemovedOnce`), and that the row a removal found is there until another
  removal deletes it (`FoundOrBeaten`). `Moves` says once for every action that
  it changes the records of one request and at most marks others as not quiet.
* **Overviews and budgets.** `OverviewProofs` first proves what it needs of
  sums over finite sets. The library's induction takes an operator as a
  parameter; here a smallest counterexample is taken instead (`Smallest`, from
  the well-foundedness of strict subsets), which gives that `MapThenSumSet` is
  the one solution of its rule and adds up over a partition (`SumOfUnion`,
  `GroupsAddUp`). `SumsInv`: what a request has read by type sums to what it
  asks about the statements committed then, and so by category, while
  corrections move rows between categories; the difference is what was committed
  between (`OverviewsAddUp`).
  `MonthRangeIsMonth` is about the calendar, for every year and every instant:
  leap years are counted in cycles of 400 years that begin on 1 March
  (`MarchFirst`, `YearsOfCycle`), months are cut out of them (`MonthOfDay`), and
  `Date.UTC`, which counts the other way round, agrees. `QuietInv` says that what
  a listing has read is what is there as long as nothing was written; with the
  calendar, `BudgetsCompareTheMonth`, an action property, follows.

Only proved: `StaleIsNotRotated` (a token that was dead when it was sent is not
rotated), which no run checks beside its theorem.

Only model-checked: `QueuedSettles` and `ImplementsFairIngestion`, because
liveness under fairness is out of the prover's reach.

## Not modelled

Access tokens (nothing stores them; they stay valid until they expire), JWT and
password hashing, parsing of PDFs and prompts, the layout of answers
(`remaining` and `percentUsed` of a budget are arithmetic on the limit and the
spend), the response envelope and the exception filter, the throttler's counters
(library), the text and delivery of mails, names of users. The 10 MB limit and
the DTO checks of a request are taken as passed. Where the same transactions were
inserted twice (`pipeline_duplicates`) an overview counts them twice; `Ledger`
starts after that, with one batch of a statement.

## Plan

1. *Done:* `JobQueue`, `StatementPipeline`, `RefreshTokens`, `Corrections`,
   `OneTimeCodes`, with their first theorems.
2. *Done:* `Listings`, `Calendar` and `Ledger`: the listings, the totals, the
   month range and budgets while batches, corrections and other requests commit.
3. *Done:* `Ingestion`, the refinement, checked with its fairness and its
   simulation proved.
4. *Done:* proofs of the listings, of the ledger, and of the pipeline for workers
   that keep their locks.
5. *Done:* proofs of every invariant and action property of the passing runs: sessions
   for clients that wait and after logoutAll, the order of codes and resets, the
   totals of pages and overviews, the calendar and the budgets of a month.
6. *Done:* `UserSessions`, which `RefreshTokens` implements for clients that
   wait: checked, and its simulation proved.
7. Next: an abstract specification of an account (registered, verified, its
   password) which `OneTimeCodes` implements, so that what its requests may do to
   one another is stated once.

# Verification of market-alert

TLA+ models of market-alert, the TLC configurations that check them and the TLAPS
proofs about them. The system watches markets for researchers: workers take tasks from
a queue, keep a wiki of facts up to date, distil from it a *standing prompt* per
subject, judge incoming market events by that prompt and hand the resulting *signals*
to reviewers and researchers. Governance (approvals, legal holds, retention, an audit
chain, backups), access (passkeys, tokens, labelled content) and operation
(initialisation, provisioning, releases, demos) are built around it.

The models are translated from the code under `apps/`, `packages/` and `scripts/`, not
from the documents. Where code and documents disagree, the models follow the code and
the disagreement is listed below.

To check: `tlc -config X.cfg M` for the pairs listed under "Runs", `tlapm M.tla` for the
six modules whose names end in `Proofs`. `PROJECT.json` maps every definition to the
lines it models.

## 1. Inventory

### The parts and how they interact

All state that survives a process is in PostgreSQL. The API server (several replicas)
and the agents (a pod per agent type, several replicas) share no memory. Workers claim
tasks and submit results over HTTP; nearly every handler runs its statements one by one
on a connection pool, so **the unit of atomicity is the SQL statement**, and a
transaction only where the code opens one. That is the step of every module here. In the
web client it is what happens between two awaits, in the scripts one command.

```
 cron, pollers --enqueueTask--> task_queue <--claim / result-- agent runner
                                    |   `--notify--> waker, live view    |
   EDGAR feed -> EDGAR poll -> corporate actions                         | jobs
   golden documents -> SOURCE_DISCOVER -> canonical sources              |
   venues -> SOURCE_SCRAPE -> FINDING_INGEST -> FACT_EXTRACT  <----------+
                                                   |                     |
                                   confirmed_facts, corpus_chunks        |
                                                   |                     |
               WIKI_REBUILD -> wiki_page_versions  |   autolearn -> drafts -> review
                                                   |   annotations, corrections
                     STANDING_PROMPT_DISTILL -> prompt versions
                                                   |
   market events ------> EVENT_EVAL -> signals -> review, feed, replay
   approvals, legal holds, retention, audit chain, backups: over all of the records
   passkeys, sessions, worker tokens, labels, field keys: in front of all of them
```

| Component | State | Operations | Module |
|---|---|---|---|
| Task queue, agent runner, delegated tokens (`packages/db/task-queue.ts`, `apps/worker/src/runner.ts`, `auth/delegated-token.ts`) | `task_queue`, `revoked_tokens`, the claimed copy of a row | enqueue, claim, execute, result, PATCH, recovery, requeue | `TaskQueue`, `Lease` |
| Waker and claim loop, live view (`task-queue-worker.ts`, `websocket.ts`, `use-task-queue-feed.ts`) | waiters, channel, rows of a page | notify, wait, poll, push, reload | `TaskFeed` |
| Cron scheduler and jobs, feature flags (`cron/*.ts`, `feature-flags.ts`) | timers, idempotency keys, flags | expire, enqueue, skip, sweep | `Cron` |
| Knowledge ingestion (`source-scrape-job.ts`, `finding-ingest-job.ts`, `fact-extract-job.ts`) | `source_findings`, `corpus_chunks`, `confirmed_facts`, `etl_quarantine` | register, chunk, mark, quarantine, look up, insert and supersede | `Knowledge` |
| Source discovery and canonical sources (`source-discover-job.ts`, `canonical-source-registration.ts`, `admin-source-scope-api.ts`) | `canonical_sources` | discover, register, adjust the scope | `Sources` |
| Golden documents (`golden-document-store.ts`) | `golden_documents`, journal | create, edit, activate, retire | `Golden` |
| Corrections and commentary (`chat-feedback-store.ts`, `wiki-inline-edit-store.ts`) | `methodology_meta_commentary`, corrections | correct, acknowledge, fold in, archive | `Commentary` |
| Annotations (`annotations.ts`, `annotation-threads.ts`) | annotations, versions, threads, replies, audit | open, accept, reject, reply, resolve | `Annotations` |
| Draft review, publication gate (`wiki-draft-review.ts`, `wiki.ts`, `claim-citation-coverage.ts`) | `wiki_page_versions` | draft, approve, reject, mark, publish, diff | `WikiReview`, `TextDiffs` |
| Autolearn (`autolearn-cli.ts`, `autolearn-stager.ts`) | staging files, child process | stage, run, time out, clean up, diff | `Autolearn`, `TextDiffs` |
| Research topics (`research-topics-store.ts`, `settings.tsx`) | `research_topics`, `topic_members`, page | create, rename, add, remove, migrate | `Topics` |
| Wiki rebuild (`wiki-rebuild-job.ts`, `wiki-rebuild-store.ts`) | `wiki_pages`, `wiki_page_versions_mkt`, `wiki_page_cites` | resume or insert, write, embed, publish, cite | `WikiRebuild` |
| Standing prompts (`standing-prompt-store.ts`) | `standing_prompts`, versions | draft, activate, pin | `StandingPrompt` |
| EDGAR ingestion (`edgar-ingest-job.ts`, `corporate-action-ingestion.ts`, `etl-cursors.ts`) | cursors, corporate actions, tasks | read, fetch, post, enqueue, advance | `EdgarIngest` |
| Database initialisation and migrations (`init-remote.ts`, `packages/db/index.ts`) | the catalog | run, verify, retry, migrate at start | `Genesis` |
| Event evaluation, signals, routing (`event-eval-job.ts`, `signal-store.ts`, `signal-reviewer-store.ts`, `signal-routing.ts`) | `signals`, `signal_cites`, `business_journal` | evaluate, create, cite, review, dismiss, resolve, replay | `Signal` |
| Market-event store (`mkt-market-event-store.ts`) | `raw_filings`, `market_events` | land, deduplicate, move, sweep | `MarketEvents` |
| Replay and cold archive (`mkt-trade-replay.ts`, `replay.ts`) | journal, objects, manifest | stream, archive | `TradeReplay` |
| Researcher screens (`signal-feed.tsx`, `sources-triggers.tsx`) | lists, filters, loads under way | load, act, reload | `Screens` |
| M-of-N approvals (`approvals.ts`, `worm-mode.ts`) | `approval_requests`, `approval_votes` | create, vote, execute, assert | `Approvals` |
| Legal holds and the retention scheduler (`legal-hold.ts`, `retention-engine.ts`) | `legal_holds`, removal requests, records | place, request, approve, reject, sweep | `LegalHold` |
| Tenant retention, configuration, erasure (`retention-store.ts`, `tenant-config.ts`, `governance.ts`) | policies, overrides, flags, records | assign, override, write, guard, erase | `Retention` |
| Item state machines (`*-state-machine.ts`) | items, transition logs | create, move | `Lifecycles` |
| Audit chain (`audit-service.ts`, `core/audit.ts`) | `audit_events` | append, verify | `AuditChain` |
| Backups (`backup.ts`, `core/kms.ts`) | artifact and sidecar files, keys | dump, encrypt, restore | `Backup` |
| Passkeys, lockout, recovery (`passkey.ts`, `auth-lockout.ts`, `recovery.ts`) | credentials, challenges, `auth_lockout` | register, log in, recover, remove | `Passkey` |
| Sessions and worker tokens (`jwt.ts`, `worker-tokens.ts`, `revocation.ts`) | `revoked_tokens`, `worker_tokens`, cookie | issue, refresh, consume, invalidate, rotate | `Tokens` |
| Label clearance (`label-clearance.ts`) | labels, grants, records | create, grant, write, read | `LabelClearance` |
| Field encryption (`kms-backfill.ts`, `core/encryption.ts`) | fields | write, back-fill | `FieldEncryption` |
| Provisioning, releases, demo launcher (`scripts/gcp/*.ts`, `deploy.sh`, `scripts/demo.ts`) | resources, deployments, clusters | ensure, roll out, roll back, tear down | `Provision`, `Release`, `DemoLauncher` |

Twenty-eight further components are listed in `PROJECT.json` as not modelled, each with
the reason; section 7 groups them. What is left out of a component that is only partly
modelled is in its note.

### What is hard here

- *At-least-once delivery.* A claim lives 300 s and the runner's timeout is 600 s
  (`task-queue.ts:411`): two workers run one task, and several tasks may exist for one
  subject. Every job must tolerate a second copy of itself at any statement.
- *Statements that look atomic.* `SELECT ... FOR UPDATE` on the pool
  (`approvals.ts:193`, `legal-hold.ts`) releases its lock with the statement; "check
  the token, then insert it", "look the current fact up, then supersede it", "check the
  hold, then delete", "read the role, then write the member" are pairs of requests.
- *READ COMMITTED.* An UPDATE re-reads the rows it waited for and sees no others
  (`standing-prompt-store.ts:321`, `golden-document-store.ts:221`).
- *Crashes between two writes*: row and cites edge, row and enqueued task, hold and
  removal request, entry and correction, audit event and effect.
- *Watermarks and orders that callers supply*: polls write their watermark in any order,
  audit rows are chained by their callers' timestamps.
- *Late and lost answers*: the server did what the client believes failed; a page
  applies the answer of an earlier load last.
- *Processes that overlap*: two schedulers and two keys during a release, a child process
  that outlives its deadline, a signal handler beside the main program.

`PROJECT.json` has 40 hazards at their lines with the properties that cover them; the live view's has none, for its pushes
reach no row. Where a property names an exception (section 3), the excepted outcome of the hazard is one the code
admits, and section 5 lists it. Eight
more are met in the code and have no property, because the code does what one would
forbid; they are among the divergences of section 5: the lost answer that fails a
completed task, the unguarded PATCH, the quarantine mark without its row, the stale pin,
the draft that is never activated, the signal without a citation, the lost enrichment
task, the entry that is refused for ever.

## 2. Modules

Conventions. A database row is a record or a member of a set, `None` (`NoOne`,
`Nobody`, `NoTopic`, ...) is SQL NULL. `pc` or `at` in a worker's record names the *next*
request or statement of the handler. A definition `XWrong` stands before `X`: it is a
plausible slip in the code of X; no action uses it, and `PROJECT.json` pairs it with the
property that must fail when it replaces X. A variable commented *history* (or ghost) is
read by properties only. Constants named `Max...` bound how often the environment acts.

### Queue and timers: `MCTaskQueue`

- **TaskQueue.** `task` are the rows, `job` each worker with its copy of the row,
  `requests` the submissions a server is handling, `revoked` the consumed tokens. `Claim`
  is `claimNextTask`, `RecoverStaleClaims` the sweep that retries with backoff or
  dead-letters; `VerifyPasses`/`VerifyRejects`, `ConsumeToken`, `StoreResult` the stages of
  `POST /api/tasks/:id/result`; `SubmitResult`, `ResponseLost`, `MarkFailed`,
  `WorkerCrash` the runner; `PatchStatus` and `PostResult` the routes an operator may use.
  Time is what remains of a claim and of a retry delay, counted down by `Tick`; `lease`
  is history: the claim a worker was *granted*.
- **Lease** is the abstract specification: items, holders, `Grant`, `Release`, `Forgive`.
  `TaskQueue` instantiates it as `Leases`: a holder is a worker with a positive lease,
  the number of grants is `attempt`. `HandsOutLeases` says the queue implements it.
- **TaskFeed.** The two triggers on `task_queue`: `knocks` on the worker's channel with the
  waker's `waiter` and its poll timer (`Wake`, `Elapse`), and `wire`, the admin channel, to
  a page that connects, loads, closes and reconnects (`Opened`, `LoadTasks`, `Closed`).
- **Cron.** The schedulers of several servers with one clock. An expired timer is run late
  or skipped (`Skip`), a job that only enqueues is `EnqueueJob` with its idempotency key,
  the retention scan and the flag sweep take several steps and may fail between them.

### Knowledge: `MCKnowledge`

- **Knowledge.** One source and one attribute. `finding`, `copies` (chunk rows per index),
  `traced` (quarantine rows), `fact` (rows in order of age with their two links).
  `Scrape` and `Register` are SOURCE_SCRAPE, `StartIngest`, `PostChunk`, `MarkIngested`,
  `Reject`, `Trace` FINDING_INGEST, `StartExtract`, `Lookup`, `InsertFact` FACT_EXTRACT. A
  lookup may be answered with an error, which the job treats as "no current fact".
- **Sources.** Discovery tasks that read the active methodology, look each venue up
  (`LookForSource`) and register it, and administrators who read a scope, write the audit
  event and then the row.
- **Golden.** An activation is a transaction: `SeeOthers` takes the statement's snapshot,
  `RetireOthers` waits for rows another has written, `Activate`, `Commit`, `WriteJournal`
  after it. A deadlock victim is `GoldenFails`.
- **Commentary.** A correction and the entry it may open are two statements (`Correct`,
  `InsertFeedback`); `StopRequest` is the request that ends between them and is sent again.
- **WikiReview.** Reviewers' modals over the drafts of a page: `HandleApprove` writes the
  audit event, `ArchiveOthers` and `Publish` the versions. The citations are the other gate:
  a version is inserted, marked by its coverage, and published after a read of the mark.
- **TextDiffs** has the two diffs, of the review and of the tool, as functions over sequences of lines: the
  table (`Common`) and the walk back through it (`Script`), which both have; the cut and the notice of the review's
  (`Diff`); of the tool's, the windows around the changes, joined into ranges that become hunks (`Unified`). Loops
  are recursive functions over the indices they run through. They are compared with reference definitions: the texts
  that the edits have (`TextOf`), the lengths of common subsequences (`CommonLengths`) and a patch tool that applies
  hunks (`Patched`).
- **Autolearn.** Runs of the external tool: files and child processes outlive the step
  that made them; `Timeout` answers while the child still writes.
- **Annotations.** Every statement and audit event of opening, accepting, rejecting,
  replying and resolving, with `NoteCallStops` between any two.
- **Topics.** Every write with the read of the caller's role it rests on, the migration
  that every server start runs, and the settings page with its own copy of the list.

### Curation: `MCCuration`

- **WikiRebuild.** One page. `wikiVersion` are the rows with their status, body (the facts
  it was made from) and cites edges; the pointer is the published version. A worker goes
  through `FetchFacts`, `FetchChunks`, `ResumeStalled` or `FindNone` and `InsertVersion`,
  `WriteContent`, `Embed`, `Publish`, `Cite`, `Finish`, and may stop at any of them. Each
  PATCH is guarded by the previous status, as in the store, and answers ok when it
  matched nothing, as in the store.
- **StandingPrompt.** One prompt. The variables hold *committed* rows; what an open
  transaction has locked and read is in its worker. `Snapshot` and `Supersede` split the
  UPDATE into the moment its snapshot is taken and the moment it holds its locks.
- **EdgarIngest.** One form type. `feed` is the external feed, `Date` and `DayOf` its
  calendar, `cursor` the watermark, `poll` each poller. `PostEntry` creates the row,
  `Enqueue` the enrichment task (two writes of one handler), `LoseRequest` a request or an
  answer that is lost, `AdvanceWatermark` the unconditional upsert at the end. An answer has room for the newest
  `PageSize` entries and an entry without a date is given the time of day; `passed` is history: what a poll moved
  the watermark past for one of these two reasons.
- **Genesis.** `catalog` is the set of objects the databases hold; the job is a script of
  calls, each of which needs some objects and leaves others; any call fails, the job is
  retried from the start, and a server migrates beside it. `env` is what the job is given: what the manifest in the
  repository names, with or without the password it leaves out; without it every run fails before its first call.

### Market: `MCMarket`

- **Signal.** `status`, `edited`, `cites`, `journal` are the rows; `lock` and `review` the
  reviewers' transactions, `tab` what a researcher's session has read before it dismisses,
  `eval` the evaluation of each worker, `lookup` the level-by-level resolution of the
  routing endpoint. Activation is one step here; `StandingPrompt` has its detail. Some
  signals exist at the start, as `demo-seed.ts` inserts them.
- **MarketEvents.** A filing lands, is looked up by composite identity, and is normalised to the event found or to one
  that is inserted; moves along the transition table; the sweep lists expired events, confirms each silent
  (`ConfirmSilent`, the check its comments ask of the worker) and writes later. Only a test calls the store, so
  the callers are external and keep to the order its comments give.
- **TradeReplay.** Streams that page the journal by an id, and archivers that upload,
  record and mark an alert in three steps.
- **Screens.** The signal feed and the prompt list: `loads` under way answer in any order
  (`AnswerLoad`, `Apply`, `LoadFailed`), actions are optimistic and reload (`Reload`).

### Records: `MCRecords`

- **Approvals.** A vote is `StartVote`, `InsertVote`, `CountVotes`, `UpdateStatus`;
  `MarkExecuted` and `EnableWorm` act on an approved request; `LoseCall` is the loss of a
  server.
- **LegalHold.** A removal is `StartRemovalRequest`, `MarkPendingRemoval`, `InsertRemoval`,
  a verdict `StartVerdict`, `ResolveRemoval`, `SettleHold`; the sweep is `Scan`,
  `CheckRecord`, `DeleteRecord`, `EndSweep`. `fresh` is history: the holds that came into
  force since the last check.
- **Lifecycles.** Five state machines of one shape, given by their maps: a move reads,
  checks the map, writes the row, then the log, then the audit chain. `moves` is history: what was
  written to the row.
- **AuditChain.** Appenders at SERIALIZABLE (`SelectLatest`, `LockLatest`, `Append1`,
  `AppendFails` on a conflict, `AnswerLost` when the COMMIT was done and the caller is told it was not), operations
  that record first and those that act first, and
  `Valid`, the verifier.
- **Retention.** One tenant: an assignment is four statements, a record is written under the
  class its writer looked up, `GuardDelete` and `Update` are the triggers (which read the policy's floor and no
  override), and the regulated flag meets the legacy path; `breach` is history: which overlap or stop let it through.
- **Backup.** Processes that name, dump, choose a key, and write two files; `Restores` is what
  a process can get back from them. A job knows two databases, or one when both URLs are the same.

### Access: `MCAccess`

- **Passkey.** One user's ceremonies statement by statement: challenges, counters, the
  lockout row with its two statements per failure, recovery, removal. `lapse` is history: what last let go of a
  lockout that was due (its wait ended, its failure's server stopped, a slower failure cleared it).
- **Tokens.** A token is its jti, key and expiry in whole seconds, against a clock in half
  seconds; two servers with the keys they started with.
- **LabelClearance.** One label name in several tenants. **FieldEncryption**: a field is the
  number of layers it is encrypted in; the backfill works in batches beside replicas with
  and without the key.
- **Provision**: operators walk a fixed list of resources, after the doctor's questions or without them, each looked up, created, waited for.
  **Release**: the phases of a rollout with their gates and rollbacks. **DemoLauncher**: the main
  program and the signal handlers of several launchers, each step with its command's failure, the pod
  that a port-forward is bound to, and `--delete`, which takes clusters down whoever runs in them.

### Composition

The MC modules join components that share no state: a variable `part` says which of
them moves in a behaviour, the others stay at their initial states. TLC explores the union of
the state graphs and not their product; nothing is lost, since no property relates
the state of two parts.

## 3. Runs

Distinct states are in parentheses.

| Run | Shows |
|---|---|
| `queue_safety` `MCTaskQueue` / `TaskQueueSafety.cfg` (3.8 M) | An unexpired claim is exclusive (`OneLiveClaim`); attempts are bounded and exactly the used-up tasks are dead (`AttemptBudget`); a worker's result needs a consumed token of that task (`ResultAuthorised`). |
| `queue_live` `TaskQueueLive.cfg` (337 K) | Enqueued tasks settle or stay with a claim whose worker is gone, the waiting worker takes the pending task or stops, flags past their date are disabled (`Served`); no window is queued twice and no flag disabled early (`CronSound`); the queue implements the abstract lease (`HandsOutLeases`). |
| `queue_failed` `TaskQueueFailed.cfg` | **Violated**: `FailedIsRecovered`, the comment at `runner.ts:353`. |
| `knowledge` `MCKnowledge` / `KnowledgeAll.cfg` (1.3 M) | Ingested findings are whole and supersession links agree (`IngestionSound`); retired documents stay so, the journal tells the truth, one document of a kind is served (`GoldenSound`); nothing is published without its approval or its coverage (`PublicationSound`); the review's diff is the whole difference of two texts with a notice where lines are left out, the tool's a patch from one to the other, and no diff changes fewer lines (`DiffsSound`); a result of the tool is one of a tool that ended well (`AutolearnSound`); corrections, entries, annotations and their trail agree (`RemarksSound`); venues are registered once and scopes form a chain (`SourcesSound`); a topic keeps an owner (`TopicsSound`). |
| `curation` `MCCuration` / `CurationAll.cfg` (871 K) | The page's pointer is at an indexed, cited version (`WikiSound`); the prompt's at an active one (`PointerActive`); a filing that no poll will ask for again was stored, or cut off its answer, or outrun by a `now()`, and there is one enrichment task per filing (`EdgarSound`); a job that reports success made the whole database (`GenesisWhole`); a rebuild that runs, an activation, a poll and a job with its credentials end (`WorkEnds`: no deadlock). |
| `wiki_regress` `WikiRebuildRegress.cfg` | **Violated**: `PublishedAdvances`, the header of `wiki-rebuild-store.ts`. |
| `market` `MCMarket` / `MarketAll.cfg` (1.7 M) | Journal, rationale and status agree, one evaluation creates a signal, a replay uses the version it was evaluated under (`HistorySound`); statuses move along `VALID_SIGNAL_TRANSITIONS` (`ValidMoves`); routing finds a prompt at least as specific as any at the start (`ResolvedMostSpecific`); an event's moves are one path, each told once, two open events of one identity come from callers that both looked before either wrote, silence is recorded only after the window, and cold means archived (`RowsTruthful`); a quiet page shows the database (`ScreensCurrent`). |
| `records` `MCRecords` / `RecordsAll.cfg` (1.8 M) | No approval without its quorum and no decisive vote unnoticed (`DecisionSound`); four eyes behind every removal and no deletion under a hold that was seen (`HoldsSound`); a transition log tells moves that were made, all but those of calls that stopped, and in order where none overlapped; the verifier accepts exactly an ordered chain, an operation that records first acts only if recorded (`LogsSound`); policy, history, class and WORM content (`RetentionSound`); a finished backup restores, with a record for every effect (`BackupSound`). |
| `approvals_blocked` `RecordsBlocked.cfg` | **Violated**: `RejectionBlocks`, the header of `approvals.ts`. |
| `audit_fork` `AuditFork.cfg` | **Violated**: `NoFork`, the comment at `audit-service.ts:26`. |
| `access` `MCAccess` / `AccessAll.cfg` (1.0 M) | An account that failed up to the threshold is locked unless one of three things let go of the lock, a worker token is spent once (`CredentialsSound`); a label opens under its own tenant's key, and a backfill that ends leaves nothing in the clear and nothing encrypted twice (`SealedSound`); no server before its migrations, no worker before the server, and a demo that says it succeeded has cleaned up (`OperationSound`); "Provisioning complete." is true (`ProvisionWhole`). |
| `lockout_cleared` `AccessLockout.cfg` | **Violated**: `LockoutHolds`, the header of `auth-lockout.ts`. |

All runs set `CHECK_DEADLOCK FALSE`: their environment is bounded (tasks, versions, polls,
votes, calls), and the system rests when it has used the bound up. Where waiting on one
another is possible, the progress property says it ends.

A property with an exception names the history variable that marks it (`raced`,
`overlapping`, `early`, `disputed`, `torn`, `unsettled`, `muddled`, `crossed`, `late`,
`stained`, `lapse`, `breach`, ...): the guarantee the code gives is the one without that overlap or stop,
and the marked case is in section 5. Each exception is as narrow as the model can tell: one row,
one thread, one pair of calls.

### Bounds

- `queue_safety`: two tasks of different priority and two workers, one a runner and one
  a client of the claim API, are the smallest instance in which a claim expires under a
  worker that still executes, the other takes the task, and both submit. One token fits
  one of the tasks, so a submission for the wrong task and a second use of the token
  both occur; two attempts make the first recovery a retry and the second a dead
  letter, one requeue starts the budget again. A claim of one tick may expire after any
  step. The operator closes tasks by hand; he writes no `pending`, `claimed` or `dead`,
  which the PATCH route would accept: such a write discards the claim and every
  guarantee with it.
- `queue_live`: the same tasks without requeue; one worker loop of one task with two
  returns and one close of the page; two servers over two minutes (in the last one the clock
  stands and its ticks recur), one restart, one failing statement, windows of
  two minutes, so that a late timer computes the key of a later window.
- `knowledge`: payloads of two, one and no chunks, two workers, one crash, one failed
  lookup, three facts. Two documents of a kind on two pages with four operations. Three
  drafts (one to archive beside the two that compete) and two reviewers. Texts of up to
  three lines over three (one of them blank; the notice is a fourth) with a limit of two lines, and of up to five over two with one line of context: the
  shortest in which hunks merge, stay apart and touch both ends. Two runs of the tool. Five
  requests on one annotation and one thread. Two discovery tasks, two venues. Three requests, two people,
  two topics and a server start.
- `curation`: two versions are needed for "stalled" to be different from "newest", two
  facts for a body to differ from the evidence a later task reads; chunks go through the
  same calls as facts, so this instance has none (`wiki_regress` has one). Three
  activations, so that a lock is waited for while a third transaction opens. Four filings
  over six ticks, two ticks a day and an overlap of two, so that a watermark in the middle
  of a day, an amendment within or beyond the overlap, an entry without accession number, one without a date
  and one the API refuses occur; an answer has room for two of the four, so that what is cut off lies behind the
  next watermark or within its overlap; two polls by two pollers. Two runs of the job with a failure and
  a restart of the server.
- `market`: an event whose row names its owner and one that does not, two versions of the
  prompt, three evaluations, two reviewers on one queued signal, a dismissal from a stale
  page. Two filings within and outside the window. A journal of two rows, two
  alerts, two archivers. Three loads, two actions and two changes by others.
- `records`: one request of quorum two with three approvers and three calls. One hold,
  three officers, two calls, two removal rows, two records, one of them ingested frozen.
  Two callers and four moves. Three audited operations in two milliseconds: two of equal
  and one of a later timestamp fork the chain. Two policies, one record, one day. Two
  backup jobs, two seconds, one change of the master key.
- `access`: two ceremonies and two authenticators, one of which counts its signatures, a
  threshold of two. Two calls on two tenants' labels. Three rows in batches of two. Two
  servers, one rotation, tokens that live one second. Two operators and one rerun. Three
  releases of three images. Two launchers on one
  name and one port, a signal (to either, during a step or a tear-down) and one rebuild.

Calls, workers and people are interchangeable in the code: `SYMMETRY` is used in
`knowledge`, `market`, `records` and `access`, which check no liveness.

### Fairness

- `QueueFairSpec` (`queue_live`): time passes; a worker polls every five seconds and each of its awaits
  settles (a hard timeout ends the execution); the server finishes the handlers it has;
  the loop's own steps and its poll timer go on; the clock ticks and a server is started
  again. Producers, operators, notifications and crashes are not obliged to anything, **and neither is the
  recovery of stale claims**: no process of the repository starts it. So `Served` promises no more than the code
  does, that a pending task is claimed and settles unless its worker stopped; a task whose worker is
  gone may stay claimed for good.
- `QueueRecoveringSpec` (`queue_failed`) adds that some process calls `startStaleClaimRecovery` and its interval
  fires: even then a failed task is not retried.
- `CurationFairSpec`: the calls of a rebuild that runs return; a distillation goes on and PostgreSQL grants a free
  row lock; a poll that was started goes on; Kubernetes retries the job, which succeeds only if it is
  given its credentials. Nothing obliges a rebuild to come or a poll to start: a stalled version is finished by the
  rebuild that resumes it, if there is one, for nothing in the repository schedules `WIKI_REBUILD`.

## 4. Proofs

Each theorem holds for every value of the constants that satisfies the modules' named
assumptions. One proof module goes with each MC module; it proves the inductive invariant of
every component, from it what the runs check, and at its end the same of the composition: a
behaviour of the whole is one of each component (`CurationRuns`, `KnowledgeRuns`, ...), so the
components' theorems carry over. A component's section has the same four parts: the invariant
(`...Inv`, whose parts are named), the initial states, one lemma per part or per group of
actions, and `...Inductive` with `...Correct`.

**`TaskQueueProofs`** (finite set of tasks, any workers and tokens).
`TypeCorrect` needs that a claim was counted: `RecoverStaleClaims` indexes
`BackoffTicks` with `attempt`, which is a natural number from 1 only because a row
with a `claimed_by` has been claimed (`Counted`). `ClaimsExclusive` rests on `LeaseInv`: a worker whose
granted lease is positive is not idle, and its row names it with the same remaining time and is
neither pending nor dead; exclusiveness follows because a row names one worker.
`ResultsAuthorised` carries the stage of each submission: past
`verify` the token belongs to the task, at `store` it is consumed. `AttemptsBounded`
is `Budget` of each row, with `BudgetOfRows` for each UPDATE. `QueueHandsOutLeases` is the
refinement: from the same invariants, every step of the queue is a step of `Lease` or a
stutter. `ClaimsExclusive`, `AttemptsBounded` and the refinement are stated for deployments in which
nobody writes the reset statuses with PATCH (`NoManualClaims`); that is their hypothesis.
`TimersTypes` and `CronKept` are about the whole of `MCTaskQueue`. The feed's types hold
because an update of the page replaces an entry and an insert truncates (`UpsertKeepsShown`); a page that lists
more rows than it keeps would break them, so `FeedAssumption` compares the two. `CronSound` needs what a server knows
of a sweep in progress (`DueThen`: the flags it read were due then, and the clock only advances) and what the
insert's key guarantees: `InsertKeeps`, one task per job and window, whatever window a late timer computes.

**`CurationProofs`.** `CurationCorrect` is what readers see.
- *Wiki rebuild.* `WikiSound` is not inductive: that a published page is cited depends on
  workers that have yet to cite it. `RowAheadOfWorker` says that a version's status is at least what the worker's
  next call presupposes, `WriterCites` that while nothing stopped a finished body either has its edges or
  a worker at the version is going to write them (the one that resumed it, perhaps, and not its author).
- *Standing prompts.* `LocksDisjoint` (no row is locked by two transactions) and `OwnDrafts`
  make `PointerActive` inductive: what one transaction supersedes no other has activated.
- *EDGAR.* `EnqueuedAtMostOnce`, `WatermarkFollowsRows`, and `NeverSkips` for a finite set of filings and an answer
  with room for any number of them; `EdgarCorrect` is their conjunction. The invariant behind `NeverSkips`, `SkipInv`,
  says of each poll without errors: a published filing that is neither stored nor passed is still in its batch, or would
  be passed with the candidate (it was cut off, or the candidate is a time of day), or will be asked for again
  if the watermark becomes the candidate. It must speak of
  every poll at once, because the polls write the watermark in any order; the monotone calendar ties ticks to days.
- *Database job.* `DatabasesWhole` from `MadeSoFar`: of a run that has not failed, what the calls behind
  it make is in the catalog. A call takes away only what it drops (`Keeps`), no later call drops what a required one
  makes, and the server's migrations, which may run at any time, only add. The script is a constant
  of the repository, so the facts of it that the proof uses are one closed formula (`ScriptAssumption`),
  which TLC evaluates. `CurationTypes` puts the four components' types together.

**`KnowledgeProofs`.** `KnowledgeTypes`, `FindingsWhole`, `GoldenCorrect`, `DraftsGated`,
`AutolearnCorrect`, `RemarksKept`, `SourcesCorrect`, `TopicsCorrect`,
`DiffsCorrect`.
- *Ingestion.* `TasksInv`: the chunks before the one a task posts next have rows, and a
  task that is about to mark has posted all. `ChainSound` is then inductive: an insert writes
  both links in one step, and the fact that was looked up is older than the one inserted, however stale.
- *Golden documents.* `TransactionInv` says what an open transaction has written and `SingleInv`
  that an activation that does not overlap another has, past `SeeOthers`, every other active
  document of its kind in its draft. `PastInv` binds the journal to the rows.
- *Review and gate.* `AloneInv`: while decisions do not overlap one handler at most is past its
  audit event, and between `ArchiveOthers` and `Publish` no draft is published. The gate needs that what is marked
  clear passed, on the text of the insert.
- *Commentary.* `CountInv` is a counting invariant: the entries without a correction are as many
  as the stops plus the requests between the two statements. `OpeningInv` says whose each is.
- *Annotations.* Per annotation, the one request that decides it has a phase, and audit events,
  versions and corrections are counted against that phase (`NoteInv`); a second request moves the
  annotation to `disputed`. `TouchInv` ties a thread to its replies.
- *Sources.* `SearchInv`: of the document it read a task has registered all but the venues to come, the one
  at hand and the errors. `ScopeInv`: at `update`, the last entry of the trail is what the request is going to write.
- *Topics.* `CallInv` says what a request knows between the read of a role and its write; an
  owner who is taken away was not the last, or is in `given` or `ownerless`.
- *Autolearn.* `RunInv` and `ResultInv` per run; its files and child are its own.
- *Diffs* (`DiffsCorrect`: for texts of any length over any lines, any limit and any context). Their behaviours have one
  step; the work is in what the functions compute, by least counterexample over the indices.
  *Whole*: the walk is a path through the cells, each edit a step of it (`WholePath`), so that the edits up to any place
  have the lines of both texts up to its cell; this does not need what the table holds. *Minimal*: no common
  subsequence of two prefixes is longer than their cell of the table (`TableBounds`), and the walk keeps as many lines
  as the last cell says (`MostKept`). *A patch*: the ranges are in order, apart and around every change
  (`RangesApart`, `RangeOfAll`), so that between two of them both texts have the same lines (`BetweenRanges`); a hunk
  names the places of its lines (`HunkIs`); so the patch tool, which copies up to a hunk, drops what it has of the old text and
  takes what it has of the new, is after each hunk at the same place of both (`Patching`).

**`MarketProofs`.** `SignalCorrect`, `SignalMovesValid`, `RowsTold`, `RoutingSpecific`, `ScreensCorrect`, `MarketTypes`.
- *Signals.* `TriageInv` (what a review read, locked and wrote), `EvalInv` (what an evaluation
  has created and cited), `Resolving` (of the levels already asked). `ValidMoves` follows from what
  each action reads in the same statement.
- *Market events.* `EventsInv` says what each caller holds: of one about to insert, the open events of its filing's
  identity are among those inserted since it looked (`missed`), which is why two of them side by side are `rivals`;
  of one about to record silence, that the window is over. `told` is a path because the UPDATE asks for the status read.
- *Archive.* `Archiving`: at `row` the copy is in the store, at `mark` in the manifest.
- *Streams.* A poll sends the first rows past the id it remembers, in the order of the journal: `PollRows`
  shows that what it sends is a sequence of the journal's rows no longer than its limit, from `NthIs` (the
  place of rank n exists and is unique), which is an induction by least counterexample (`LeastIs`).
- *Screens.* `FreshestAgree`: the list, or the last load once it was read, agrees with the
  database up to the acts under way. `SeenDelivered` and `Dismissals` are needed because
  a dismissal is answered before a load that still shows the signal.

**`RecordsProofs`.** `DecisionsCorrect`, `HoldsCorrect`, `LogsKept`, `RecordsKept`, `RecordsTypes`.
- *Approvals* (finitely many approvers). What each call knows of its request (`CallInv`), finite
  votes on existing requests (`VotesInv`), a quorum behind each approval that is written *or
  about to be* (`QuorumInv`), and for each decision a call that voted for it and has still to
  write it (`NoticeInv`, stronger than the property). Votes are only added, so a quorum once counted
  stays (`QuorumStays`).
- *Legal holds.* Each call knows its hold and, once it has one, its request (`Knows`), an officer who approved a
  request is not the one who made it (`RemovalInv`), and the three properties themselves.
- *Retention.* `HistoryLinks` (while assignments do not overlap, what a call carries is the last row), `RowKept`
  (per record: the class it was read under, its floor, its content under WORM), and `GateKept`: a regulated tenant's legacy path is on
  with a call at work on it, or with one of the two breaches on record.
- *Life cycles.* A caller is going to write a move of the item's own machine (`CallerAt`), which the maps' closure gives
  (`LegalMove`). `Told` counts, whoever overlaps: the moves written are the rows of the log, those about to be logged and
  those that were cut, and no move is told more often than it was made. `Alone` is about order: while no two calls
  overlapped, one is under way at most, the row is what it read and then what it wrote, and the log breaks where a call
  stopped after its write; the breaks are a finite set counted against `cuts`, with `BreaksOf` for the row still to come.
- *Audit chain* (finitely many operations). `AuditRows`: the late rows are exactly those that some earlier row is newer
  than, each prefix has a latest row, and without late ones each row is on the one before, so the verifier accepts. `Snapshot`:
  what an appender read was the latest of the rows it saw. `RecordsFirst` carries the other half: such an operation has
  its row before it takes effect, and before that none, unless the answer to its COMMIT was lost.
- *Backups.* `JobSteady` and `FileSteady` bind a file to the job and key that wrote it, `PairSound`
  compares the two dumps of one job: the record precedes the effect and the application is
  dumped first.

**`AccessProofs`.** `AccessTypes`, `CredentialsHold`, `SealsHold`, `OperationGated`, `ProvisionKeeps`.
- *Passkeys* need that a ceremony is where its kind leads it (`Coherent`) and that a count at the threshold without a lock
  has its update to run or its lapse on record (`LockoutKept`);
  *tokens* that the row alone decides (`RowDecides`) and one request records each (`OneRecorder`);
  *labels* that ciphertext and row have one tenant's key.
- *Field encryption.* `Covered`: while nothing went wrong, a row in plaintext is ahead of the
  cursor or in the batch. The batch is the least rows beyond the cursor (`BatchIs`, from
  `LeastIs`); `Fresh` keeps a row of the batch from being encrypted twice.
- *Provisioning.* `ProvisionWhole` is an action property: `Rooted` and `Placed` say which
  resources are ready when the script is past them, and `ReadyStays` that they remain so.
- *Releases.* `Gated` per phase. A rollback takes the last image but one, so the invariant must
  say that no deployment's history names an image twice (`Lone`).
- *Demo.* `Orderly` per launcher: exit code 0 follows the tear-down of its own cluster, or it made none.

Named assumptions say that absent values (`None`, `NoKey`, ...) are no real ones, that bounds are
natural numbers, which sets are finite, and how two kinds of identifiers are kept apart; TLC
evaluates them in each run.

**Model-checked only.** All liveness (`WorkEnds`, `Served`) stays
with TLC: TLAPS does not prove properties under fairness, nor ENABLED. `FailedIsRecovered`, `PublishedAdvances`, `RejectionBlocks`, `NoFork` and `LockoutHolds` are false. Every other
property that a run checks is a theorem.

## 5. Where code and documents disagree

### Shown by a run

| Run | The document | The code |
|---|---|---|
| `queue_failed` | `runner.ts:353`: mark the task failed "so stale-claim recovery can retry or dead-letter it" | recovery selects `status = 'claimed'` only (`task-queue.ts:517`) |
| `wiki_regress` | `wiki-rebuild-store.ts:17`: the pointer is advanced when a version reaches `indexed` | the pointer UPDATE is unguarded (`:296`): a late publish moves it back |
| `approvals_blocked` | `approvals.ts:11`: one rejection blocks permanently | a vote in flight overwrites `rejected` (`:261`) |
| `audit_fork` | `audit-service.ts:26`: no two writers select the same `prev_hash` | the latest row is the one of the greatest timestamp, which callers supply (`:40`) |
| `lockout_cleared` | `auth-lockout.ts:11`: "attempt N ≥ 5  → 15-minute temporary lockout" | a slower failure, which counted fewer, sets `locked_until = NULL` (`:120`) |

### Met while modelling, without a run of their own

The models do what the code does at each of these places; the properties above are
stated so that they are true of it.

- *Task queue.* No process starts the recovery of stale claims: `startStaleClaimRecovery` (`task-queue.ts:601`) has
  no caller and `cron/boot.ts` registers no such job, while `apps/server/src/index.ts:142-144` says that the scheduler
  does it (also `architecture.md:453`). So a task whose worker dies stays claimed: `Served` says no more, and `FailedIsRecovered` is
  checked as if somebody did call it.
  Status and result writes ignore the current status (`:289` describes a state
  machine), so a lost answer turns a completed task into a failed one (`runner.ts:196`), and PATCH writes any
  status over any row (`apps/server/src/api/task-queue.ts:216`). Check and insert of a
  delegated token race (`delegated-token.ts:85` and `:4-7`). Runner claims carry no token
  (`runner.ts:222`; `schema.sql:52`).
- *Live view.* The header of the hook says pushes insert and update rows in place (`use-task-queue-feed.ts:11`), but the server
  nests the row under `data` (`websocket.ts:74`) and the hook reads id and status off the message (`:188`): no push
  reaches the row it is about. `TaskFeed` does the same (`Blank`), so nothing is claimed of what the page shows.
- *Cron.* The scheduler's check for duplicate names sees started jobs only. The agent types under which
  jobs enqueue are not those their workers claim (`cron/jobs/security-scanner.ts:6`). `edgar-poll-dispatch` is a stub that
  is not registered.
- *Knowledge.* Two extractions that look up before either inserts leave two current facts
  (`fact-extract-job.ts:201`; `architecture.md:233`), and a failed lookup inserts without
  superseding (`:210`). Crashes duplicate chunks (`source-scrape-api.ts:106`). The quarantine
  mark may lack its row (`finding-ingest-job.ts:261`). Jobs do not enqueue the follow-up tasks
  that their headers name; of the pipeline's jobs the runner dispatches `WIKI_REBUILD`
  and `EVENT_EVAL` only.
- *Golden documents.* Two activations at READ COMMITTED leave two active documents of a kind
  (`golden-document-store.ts:20-23`): the `raced` case.
- *Database job.* `init-remote.ts:153-170` requires `DICT_RW_PASSWORD`, which `k8s/db-init-job.yaml` does not set: with the
  manifest as it is the job ends in no success, however often it is retried (and a Job is retried six times by
  default, not "until it succeeds", `:3`). `Genesis` has both environments; `GenesisWhole` and `WorkEnds` are about a
  job that has its credentials.
- *Wiki.* Nothing in the repository enqueues `WIKI_REBUILD`, so a stalled version waits for a rebuild that somebody
  else asks for. A resumed version is cited with the facts of the later task
  (`wiki-rebuild-job.ts:434`). A crash after publication leaves it uncited. A job that returns an error
  still completes its task. Two approvals that overlap leave two published versions
  (`wiki-draft-review.ts:320-321`), and a version may be published between its insertion and its mark (`wiki.ts:188`).
- *Annotations.* The state is written by id alone (`annotations.ts:458`): an acceptance and a rejection that both read
  `AGENT_REPLIED` both succeed, and the last one stands beside the correction of the first (`disputed`).
- *Sources.* Two registrations that look for a venue before either inserts it are both told that they created it
  (`canonical-source-registration.ts:250`): `rivals`.
- *Autolearn.* "Temp files are deleted before the function returns" (`autolearn-cli.ts:366`), but a tool past its
  deadline may write them afterwards.
- *Topics.* A caller's role is read before the write (`research-topics.ts:148`): two owners who remove each other at once
  leave a topic without any (`given`). The creator is seeded "in the same transaction" (`research-topics-store.ts:81`) by a second
  statement outside of one. `init-remote.ts:1503,1506` installs row-level security on tables that
  the server makes later. The migration of every start makes removed members of "Default" owners again. The settings page's
  requests to create, to invite and to list members are always refused (`settings.tsx:456`).
- *Standing prompts.* Two activations at READ COMMITTED leave two active rows
  (`standing-prompt-store.ts:44-45`). One that checked before the pin supersedes a pinned version (`:304`). A
  draft whose task crashed is never activated (`standing-prompt-distill-job.ts:318`). Activating
  a version that is active or superseded leaves none active (`:342`); the worker never does.
- *Signals.* `market_events` has no owner columns, so the job looks the prompt of owner
  "undefined" up and creates nothing (`event-eval-job.ts:238`); `Owned` keeps both cases.
  No wiki version is ever cited. A crash after the creation leaves a signal uncited, and
  the retry stops there (`:336`): this is why `ReplayFaithful` falls back to the row. Nothing moves
  a signal from Generated (`signal-store.ts:41`), and no caller uses the routing
  decision. A new prompt version yields a second signal for an event: the key
  contains the version, and `CreatedOnce` is about one key. The list of signals ignores the topic the page sends
  (`signal-feed.tsx:203`). A stream orders by time and resumes by a random id, so it may leave
  rows out (`mkt-trade-replay.ts:397`).
- *Screens.* Loads are neither cancelled nor numbered (`signal-feed.tsx:228`): of two, the answer of the earlier may be applied last,
  and stays until the next load (`muddled`).
- *EDGAR.* One answer of the feed is read, then the watermark moves past the rest (`edgar-ingest-job.ts:376`, `:462`;
  `tests/fixtures/edgar/8k-atom-feed.xml:25` asks for multi-page feeds), and an entry without `<updated>` is stored
  with `now()` for a date (`:396`), which moves it past filings not yet seen. Both lose filings: they are the `passed` of
  `NothingSkipped`, which says that nothing else does. A crash between row and task loses the task
  (`corporate-action-ingestion.ts:308`). An entry the API always refuses blocks all that is behind it
  (`edgar-ingest-job.ts:448`). A failed read of the cursor is a first run, and the upsert may move the watermark back
  (`etl-cursors.ts:119`): harmless to `NothingSkipped`. Outside test mode
  the endpoint accepts no caller (`corporate-action-ingestion.ts:176`); the model assumes the test token.
- *Market events.* A filing that matches an expected event is only normalised (`mkt-market-event-store.ts:440-445`): nothing turns the
  event to Detected, so the sweep writes it off when its window is over. The query for open events leaves `Evaluated`
  out (`:466-467`), which its comment ("non-terminal") includes. The check before silence is asked of a worker
  (`:566-568`, `:589-593`) that the repository lacks.
- *Transition logs.* "On success the function atomically" updates the row and appends to the log
  (`transcription-state-machine.ts:381-383`, `:414`; `email-ingestion-state-machine.ts:260`;
  `annotation-state-machine.ts:363`): these are two statements and nothing opens a transaction around them. A call
  that stops between them leaves a state the log lacks, and two that overlap both write, so the log branches.
  `LogAccounts` says what is left: each row of the log is a move that was made, and what it lacks is exactly what was cut.
- *Retention.* The override floors of entity types "take precedence over retention_policies.retention_floor_days"
  (`schema.sql:977-978`, `:1005-1008`; `retention-engine.ts:253-257`; `retention-scheduler.ts:128-130`, `:159-161`), but the
  deletion trigger, the sweep and `isWithinRetentionFloor` read the policy's floor only: `RetentionSound` says "the
  floor of its policy" and means it. A call that looked before the tenant was regulated enables the legacy path after
  it (`tenant-config.ts:133`), against "structural config-layer block" (`:117-118`): the `breach` that is left to it.
- *Governance.* A late call overwrites `executed` as well. Two executions both succeed. `enableWorm` checks
  neither the tenant of the payload nor marks the request executed. `requireApproval` and `enableWorm` have
  no caller outside the tests, the hold functions none in the API. A crash between hold and
  request leaves a hold that nobody can decide on (`legal-hold.ts:335`): the `lost` case of `RemovalTracked`. A
  second request of the same officer with the same verdict violates UNIQUE and stays pending. A late rejection
  re-activates a removed hold. A hold placed between the sweep's check and
  its DELETE does not stop it (`retention-engine.ts:469`; `legal-hold.ts:8-9`): the `fresh` holds of
  `HoldsRespected`.
- *Access.* Labelled content is unique per entity and label *name* (`label-clearance.ts:615`): a writer of another tenant with a
  label of the same name replaces the content and leaves the row under the first tenant, whose key does not open it.
  Two recoveries at once each remove the key the other enrolled (`recovery.ts:161`). A worker token that is signed before its
  pod is invalidated and persisted after is accepted, since the invalidation is of the rows there are
  (`worker-tokens.ts:118`): `SpentOnce` excludes only tokens whose row the invalidation found. A wiki-write token is looked up
  in `revoked_tokens` and then inserted with no regard to the outcome (`worker-token.ts:220-260`), so two uses at once both
  pass; this is the race of `delegated-token.ts`, and the module has the other tokens only. Two refreshes of one session
  token both succeed, although "only the newest token in the rotation chain is valid" (`auth.ts:190`). With the AWS or
  Vault backend `encryption.ts` would keep no wrapped data key; only the local one is configured.
- *Operation.* A failed phase rolls back its own deployment and no other (`deploy.sh:186`), the static assets are
  behind a sync and no health check (`deploy.sh:13`), and `gcp/deploy.ts:246` sets a URL that already ends in the path the
  gate appends. The registry's port is drawn at random without a look at those in use (`demo.ts:13`), and the
  local port-forward stays with the pod that the next rebuild replaces (`demo.ts:258`).

## 6. Abstractions

Text is reduced to what the properties distinguish: a body is the set of facts it was made
from, a payload a hash and a number of chunks, a token an identity, its key and its expiry, a
rationale whether it was rewritten, a ciphertext the key it opens with, a hash the place of its row. Only the two
diffs keep text, as sequences of lines. Model calls, embeddings, signatures, parsing,
confidences and filters are left out; a call that may fail, fails nondeterministically. Rows of different tenants,
pages, prompts, sources and form types share nothing, so a module has one of them (`LabelClearance`, where they do, has
several). PostgreSQL, Kubernetes, the cloud, EDGAR and the venues are external: statements are
atomic, transactions run at the level the code asks for.

## 7. Not modelled

- *One read or one write per request, no step that depends on an earlier one*: API keys, worker credentials, CSRF and
  cookies, users' tasks, dismissal escalation, wiki debate and navigation, cost telemetry, business analytics, the rate limiter.
- *Reads only*: e-discovery, SOC 2 evidence, pipeline health and administration.
- *No caller in the code, or an answer that is always empty*: signal notification and channels, the market
  product's flags, the tokeniser of personal data and the identity dictionary, the integrations and services packages.
- *External programs and computation over text*: CLI jobs of the agents, mail and transcription workers (the states
  of their items are in `Lifecycles`), chunking and embeddings.
- *Start-up, set-up and presentation*: worker start-up and guards, key providers, server bootstrap, entity types and
  the predicates of row-level security (their order is in `Genesis`), demo data, test databases, logging, the client
  shell, the admin client, manifests.

## 8. Plan

The models cover what has steps that can go wrong together, and the safety of each is proved. What is left:

1. Abstract specifications: the delegated token as a permit spent once, the approval as a vote with a quorum, each
   implemented by its module through a refinement mapping, as `Lease` is by the queue.

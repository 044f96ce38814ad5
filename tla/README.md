# A TLA+ model of the URI incubator

The repository is a research workspace. Its backend (`src/backend/uri_backend`)
takes in private research material, normalizes it into content parts with exact
locators, drafts cited candidate claims from them, and keeps a record of who may
read what. The browser part (`src/src`) keeps projects, visits and research
documents in local storage. These modules model the parts of it that are hard to
test: the durable job queue and its workers, the two handlers that run on it,
the row lock under the leases, the model calls inside an extraction, the staging
of conversation exports, the registration of source versions, and the evidence
tables whose integrity the database's triggers keep.
`src/backend/tests` drives these mostly from one coroutine at a time; the modules
put the same transactions in every order.

## 1. The system

| Part | State | Operations | Interacts with |
|---|---|---|---|
| Ingestion queue (`ingestion/queue.py`) | `ingestion_jobs`, `ingestion_runs`, `ingestion_job_attempts` | `enqueue_ingestion`, `claim_next_job` (sweep and claim), `owned_claim`, `heartbeat_job`, `complete_job`, `fail_job`, `release_job`, `cancel_job` | called in the transactions of workers, of registration and of normalization |
| Worker (`ingestion/worker.py`) | the claim, the handler task and the heartbeat task of a process | `run_worker`, `_renew_lease`, `_complete_transition`, `_failure_transition`, `_release_transition` | drives the queue; cancelled by SIGTERM |
| Normalization (`worker.py`) | `content_parts`, `source_quality_assessments` | `persist_normalization` | schedules extraction in its own transaction |
| Extraction (`knowledge/extraction.py`) | `extraction_runs`, `draft_sets`, `candidate_citations` | `extract_candidates`, `_windows`, `_get_or_create_run`, `_record_provider_failure` | reads the parts, calls a model provider once per window |
| Model providers (`retrieval/providers.py`, `retrieval/ollama.py`) | three `ContextVar`s of the worker process: identity prepared, response metadata, generation metadata | `prepare_generation`, `generate`, `last_generation_metadata` | two HTTP exchanges per generation with a server whose model may change |
| Conversation staging (`adapters/conversations.py`, `sources/router.py`, `api.py`) | directories under the staging root, `ConversationService._stages` | `inventory_async`, `promote`, `cancel`, `purge_expired_conversation_stages` | promotion registers source versions; the janitor runs on a thread |
| Source registry (`sources/service.py`, `sources/artifacts.py`, `sources/router.py`) | `sources`, `source_versions`, artifact files, upload stages | `register_source_version`, `stage_async`, `promote`, upload and Git routes | schedules normalization |
| Projects (`projects/service.py`) | `projects`, `project_memberships`, `users` | `create_project`, `add_member`, `require_capability`, stash check | guards every route |
| Knowledge records (`knowledge/models.py`, migrations 0008 and 0009) | draft candidates and relations, record versions, relations, their citations, supersessions | the statements of any transaction; deferred constraint triggers, foreign keys, unique indexes | extraction writes drafts today; the triggers also guard later writers |
| Adapters, quality, privacy | none | parse, grade, redact | called by the handlers |
| Browser workspace (`src/src/workspace*.jsx`) | one JSON value per key of `localStorage` | stash, continue, open, save a research revision, review evidence | several tabs share the storage |

What is hard in it:

* **Leases and fencing.** A handler can sleep through its lease and wake up
  beside the next attempt, in a process that may report the same `worker_id`.
  Only the attempt number tells them apart, and only if every write checks it.
* **Two commits where one would be wanted.** A handler's write and the
  completion of its job are two transactions. Crash, shutdown, a lost lease or
  a lost acknowledgement can come between them.
* **Row locks.** `SKIP LOCKED` hides rows from a poll; `FOR UPDATE` makes a
  heartbeat wait, and PostgreSQL does not evaluate its condition again when the
  row it waited for is unchanged.
* **Files beside rows.** Staging directories are filled, renamed and removed by
  coroutines, by the janitor's thread and by nobody after a crash.
* **Transactions that race to insert the same rows**, wait for each other, and
  may form a cycle; files that were published before the rows that name them.
* **Constraints that are checked late.** A citation may be deleted while another
  transaction counts on it; only the triggers at commit, and the row locks they
  take, stand between two such transactions and an owner without evidence.
* **Evidence in task-local state.** A provider leaves the record of a call in a
  `ContextVar` that outlives windows, jobs and failures, and learns which model
  answers from an exchange other than the one that answered.
* **Shared storage without transactions.** Browser tabs read a whole value and
  write it back.

## 2. The modules

| Module | Models | Kind |
|---|---|---|
| `JobQueue` | queue and worker processes | state machine, safety, liveness |
| `FencedJob` | one job as a lock service that hands out increasing fencing tokens | abstract specification |
| `JobQueueRefinement` | `JobQueue` implements `FencedJob`, job by job | refinement mapping |
| `IngestionPipeline` | both handlers, on top of `JobQueue` | composition |
| `LeaseLock` | one job's lease at the grain of the row lock | state machine |
| `ConversationStaging` | staging directories file by file, their requests, the janitor | state machine, liveness |
| `SourceRegistry` | registration of versions: files, rows, waits, conflicts | state machine, liveness |
| `ExtractionCalls` | windows, provider exchanges and the call history of runs | pure algorithm, state machine, liveness |
| `KnowledgeCitations` | evidence tables and deferred triggers under concurrent transactions | state machine |
| `JobQueueProofs`, `IngestionPipelineProofs`, `LeaseLockProofs`, `ConversationStagingProofs`, `SourceRegistryProofs`, `ExtractionCallsProofs`, `WindowsProofs`, `KnowledgeCitationsProofs` | theorems | proofs |
| `MCJobQueue`, `MCIngestionPipeline`, `MCLeaseLock`, `MCConversationStaging`, `MCSourceRegistry`, `MCExtractionCalls`, `MCKnowledgeCitations` | values of constants a `.cfg` cannot write | model checking |

Definitions marked `Mutant` are not part of any specification. Each is a wrong
version of the definition below it; putting it in that definition's place must
break the property it is listed with in `PROJECT.json`.

### JobQueue

`job`, `run` and `history` are the three tables, `proc` the memory of each
process: its phase, the job and attempt it claimed, and its handler's verdict.
One action is one committed transaction, which is sound because each transaction
of `queue.py` locks the row before it decides (what this leaves out is in
`LeaseLock`). Time is relative: `job[j].lease` counts the ticks to
`lease_expires_at`. `available_at` and `created_at` are only an order of the
rows, `before`; rows enqueued in one transaction share `now()` and tie. A poll takes
any set `skipped` of rows that another process may have locked and sweeps and
claims among the others. `Claim` is the whole of
`claim_next_job` with a result: sweep, closing the expired attempt, granting.
A heartbeat may happen or not at any time while the claim is owned, because the
heartbeat task can die while its handler goes on. `Release` is a cancelled task,
`Crash` a dead process; a settlement under commit is shielded from the first
only.

### FencedJob and JobQueueRefinement

`FencedJob` says what the queue is for. A waiting job is granted under a new,
higher token; holders of older tokens may believe in them for ever; only the
newest holder returns or settles the job; the queue may give it up. The mapping
takes the attempt as the token and the claims in process memories as holders.
The refinement is stated with the quantifier inside the step formula, because
one poll sweeps several jobs and grants another in one step.

### IngestionPipeline

It extends `JobQueue` and adds the tables the handlers write. A complete part
set or draft set is one value, named by the attempt that wrote it. `Publish` is
the transaction of `persist_normalization`, `Published` the return of its
handler; between the two lies the window the pipeline's hazards come from.
Extraction is five steps: read the parts, reuse an earlier draft, begin a run,
call the provider, save. `Cited` is the foreign key from `candidate_citations`
to `content_parts`, which refuses the deletion of cited parts.
What happens between "begin a run" and "save" is `ExtractionCalls`.

### ExtractionCalls

`Windows` is `_windows`: slices of at most `Limit` characters, packed in order.
It is checked against `Covered`, a definition that says what a correct cut is and
not how to make one: every character in one slice, order kept, no window over
the limit, none closed early. A text is the sequence of its parts' lengths.
The rest is the loop over the windows. One process is modelled, because the
provider's `ContextVar`s belong to a process and `run_worker` awaits one handler
at a time; `Crash` starts them afresh. `context` holds them: `prepared`, the
`response` of the last exchange, and the last `generation`. Each request may
fail, be malformed, or come from whichever model the server has under the
name, which `Swap` changes at any time. `evidence` and `raced` are ghosts: they
say which exchange an entry's metadata came from, which model gave it, and
whether the model was changed between its attestation and its answer. Error
codes are kept as far as they are told apart: `provider_timeout` stands for the
transport errors, `provider_schema` for schema, JSON and model errors. An
exception that escapes the provider's `except` clauses is an outcome of its own.

### KnowledgeCitations

An owner is a row that needs evidence: a draft candidate, a draft relation, a
record version or a relation. Citations tie owners to content parts. A
transaction is what a session has done since it began (`added`, `removed`,
`cited`, `uncited`, `linked`), the locks it holds (`shares` of foreign keys,
`locks` of the triggers' `FOR UPDATE`) and the owners whose triggers are still
`due`. Statements are not checked when they run; at commit each due owner is
locked and looked at, once per owner, and the first that fails aborts.
`CheckOwner` and `RejectOwner` are that trigger with its lock, `Cascade` the
deletion of a removed draft's citations. READ COMMITTED is assumed, the default
of the engine `database.py` creates: a trigger that waited for a lock sees what
was committed meanwhile. A statement that would wait for another or raise is
left out, since its transaction can only roll back or come later. So
`WaitsFor` has the waits of commits and cascades, not those of a client
between its statements, and `OwnWorkNeverWaits` is a claim about commits.

### LeaseLock

One job and its competing processes, with finding a row, locking it, reading
`now()` (the start of the transaction) and `clock_timestamp()` kept apart. The
fenced write of a handler holds the row; the heartbeat of the same process may
have to wait for it. The kind of the job (`row.kind`) tells normalization, which
checks its claim again before it commits (`ChecksTwice`), from extraction, which
does not.

### ConversationStaging

`dir[s]` is where a stage's directory is and which files it holds: `lease`
(upload.json), `export`, and stage.json, which is `blank` until its text is written
and `manifest` then. `left[s]` is the time the janitor reads to be left, from the
manifest, the lease or the directory's age (`Shown`); `term[s]` is the expiry of
the entry in `_stages`. An upload goes from `mkdir` over lease, renewals and
manifest to the rename that publishes it. An action is a stretch of code up to
the next `await`, or up to a file operation whose effect the janitor or a restart
could see; `Free` says that no coroutine is in the middle of such a stretch.

`removal` is the `shutil.rmtree` of the event loop and that of the janitor's
thread. A removal lists the directory (`List`), unlinks one file after the other
(`Unlink`) and removes the directory (`Emptied`). It may stop after each of these:
by an `OSError` (`Fails`), because the other removal was faster (`Missing`), or by
a crash. It works on the directory it opened, also after a rename. The janitor
reads an expiry (`Judge`) before it calls its removal, and whatever happens in
between does not stop it.

A renewal may raise (`HeartbeatDies`): the heartbeat task has no handler for it
and nobody awaits the task before the upload is over, so the upload goes on
without renewals. Two ghosts name what the properties must except: `mute` the
uploads whose heartbeat died, `torn` the stages a removal left half removed or
began to remove while they were being uploaded. One service object, that of one
actor and project, is modelled: a stage is only known to the pair that made it.

### SourceRegistry

A request is at one statement of its handler (`at`), registers version `turn` of
those it `asked` for, and has the rows `mine` inserted in its open transaction;
`table` is what is committed. `published` and `quarantine` are the artifact
store. `Look` and `Insert` are the two halves of one INSERT ... ON CONFLICT into
`artifacts`: the search of the arbiter index, and the insertion into all
indexes, between which another backend may insert. For the other tables the
arbiter is the only index that can conflict, and one action does. A statement
that needs a key held by an open transaction waits (`Waits`); the SELECT after a
skipped insertion is not a step of its own, because under READ COMMITTED it
always finds the row. `MayWrite` is `require_writable_project`: it reads without
a lock, and in a promotion, which holds the `Project` object, `session.get`
returns the state loaded at its start. `Revoke` stands for an administrator:
no code here stashes a project or takes a capability away. The audit event
`conversation.stage_promoted` is left out.

## 3. What the runs show

| Run | Instance | Shows |
|---|---|---|
| `shared_label` | 2 jobs, 2 processes with one label and allowances 1 and 2, lease of 2 ticks, 1 release, crashes without bound; 218,048 states | the tables agree, one owner per job, allowance kept, closed attempts and settled jobs never change, each job refines `FencedJob`; if from some moment on some process stays up, every queued job is settled |
| `pipeline_safe` | 1 version that may or may not parse, 2 processes with one label, 2 attempts per job, crashes, 1 release; 612,020 states | extraction follows parts, citations resolve, one draft, settled outputs stand |
| `pipeline_live` | one process reliable; a commit whose acknowledgement is lost; 267,700 states | every registered version ends; no two drafts of succeeded runs, and one draft too many for each lost acknowledgement at most |
| `lease_row_lock` | a job of either kind, 2 processes, lease of 2 ticks, clock to 6; 40,394 states | only the newest claim commits, renewals extend only their own attempt and by less than a lease |
| `calls` | 2 sources with texts of no, one or two windows, 2 attempts, 2 changes of the model, 1 crash; `_windows` on all texts of up to three parts of 0 to 5 characters with a limit of 2; 268,339 states | text is cut without loss, histories follow the windows, a succeeded run is answered window by window by the model it names, a failed run ends with the call that failed, an unnoticed change of the model needs a race, ended runs never change, every attempt ends |
| `knowledge` | 2 transactions of 2 statements over a candidate, its relations, two versions and two rival third ones, parts of two projects; 112,058 states | every owner keeps evidence, from its own project; no row dangles; versions and supersessions form chains; a commit of rows of one's own waits for nobody |
| `staging` | 1 upload, 2 requests, 1 crash, 2 `OSError`s of a removal or a renewal; 470,367 states | a live upload loses no file unless its heartbeat died, a stage offered from memory is whole, no promotion starts on an acknowledged stage, every export is removed in the end |
| `registry` | 2 requests: uploads of the same bytes under two names, a git manifest, promotions of two conversations in both orders; 46,574 states | committed versions are whole and audited once, rows have files, accepted is registered, a revoked right holds, nobody hangs |
| `pipeline_retry`, `pipeline_unheard`, `lease_resurrected`, `registry_duplicate` | one disagreement each | see section 6 |

No run checks a type invariant: each is a theorem (section 5), for every value of
the constants. The same holds of some properties that are proved and left out of
the runs: `LeaseOnRunning`, `PublishedOnlyGrows`, and, of staging,
`PublishedIsWhole`; and of those stated next to their proofs: `SuccessDrafted` of
the pipeline, `WrittenInTurn` and `LeaseInReach` of the row lock, `EachStepCounts`
of the calls. Before they were proved, TLC checked `DraftInv`, the invariant
behind the three properties of drafts, on an instance of its own (three attempts,
two lost acknowledgements; 4.3 million states) and the others on those of the
runs `lease_row_lock`, `staging` and `calls`.

Why these bounds suffice. Two processes make every race between an owner and a
rival; a third adds no new relation, as the fence compares one claim with the
row. Two jobs give the sweep something to do beside a claim and the order
something to order. Allowances of 1 and 2 put the first and the last attempt in
reach, and different settings in one instance. A lease of two ticks has a first,
a last and an expired moment; the pipeline uses one tick, where a lease is
either live or over. Attempts are bounded by the allowance, so crashes need no
bound in the queue; releases do, because a release raises the allowance. For
staging one upload suffices, because directories are removed one by one and
requests for different stages share nothing; two requests let a promotion, a
cancellation and the janitor meet on it. Two errors and a crash leave every kind
of debris and let a removal of it fail once more. Two stages were checked once,
with one request, one error and no crash (3.29 million states; the safety
properties and the inductive invariant). Two
requests suffice for every wait, conflict and deadlock of the registry, where a
key has one holder and the order of two rows can only be crossed once. For
`knowledge` two transactions of two statements are what write skew, crossed
locks and rival numbers take; the safety properties were also run once with three
transactions (2.87 million states). For `calls` two attempts let a second one meet
what the first left in the context, and two changes let the model come back; the
safety properties were also run once with six texts, one of three windows
(1.57 million states). The theorems below hold without these bounds.

Bounds by name: `ReleaseBound`, `AckLossBound`, `EndOfTime`, `CrashBound`,
`FailureBound`, `Requests`, `AttemptBound`, `SwapBound`, `TxnBound`,
`StatementBound`. Runs of `LeaseLock`, `ConversationStaging`, `SourceRegistry`,
`ExtractionCalls` and `KnowledgeCitations` do not check deadlock: the clock, or
the supply of uploads, requests, attempts and transactions, really ends. (In `SourceRegistry` everyone waiting on everyone is a
question of its own; `EveryRequestEnds` answers it.)

## 4. Fairness

* `Tick` and `Time`: database time passes.
* `HandlerEnds`, `Handle`, `Settle`: a handler that runs ends and its settlement
  is tried. Nothing in `worker.py` bounds a handler's time (section 7); this is
  an assumption about adapters and providers, which have time-outs of their own.
* `PollStep(w, {})` (in the pipeline `Poll(w, {})` of `Reliable` processes):
  `run_worker` polls in a loop, and a poll is not denied its locks for ever. It is
  assumed of every process of the queue, and demands something only of one that
  is up. No process is assumed to stay up: `EveryJobSettles` says that if one
  does, from some moment on, every job of the queue is settled. Nothing is
  assumed of heartbeats.
* Staging: the janitor's loop (`api.py`) goes on, a heartbeat that lives renews its
  lease, a removal that was begun ends, a coroutine in a stretch without `await`
  finishes it. `Tick` waits for two things: the timer of a living heartbeat, which
  fires every 30 seconds (`Period`) of the 15 minutes (`Ttl`), so the event loop
  is taken not to be blocked for most of a lease; and an upload inside such a
  stretch, which is taken to last less than 15 minutes. An upload whose heartbeat
  has died gets no such help: its lease runs out and the janitor takes it.

* Registry: the event loop runs each handler on (`Statement`: the body of an upload
  arrives or its stream ends, a statement that need not wait returns), and
  PostgreSQL finds a cycle of waiting transactions and aborts one of them
  (`Victim`, its `deadlock_timeout`). Failures other than that are never assumed
  to happen, so a handler that forgot to roll back would be found out.
* `ExtractionCalls`: the running handler goes on (`Handle`): the provider's client
  has a time-out for each of its waits, and a response is finite. Crashes and
  changes of the model are never assumed.

## 5. What is proved

The proofs are checked by TLAPS for every value of the constants that satisfies
the modules' assumptions (any number of jobs, processes, attempts, stages,
requests).

`JobQueueProofs`. The invariant is `Consistent` (the three tables agree:
`AttemptLedger`, `RunMirrorsJob`, `AllowanceHeld`) with
`ClaimsFenced`: a claim in a process's memory is at most the row's attempt, and
two processes never hold the same attempt of one job. None of the safety
properties is inductive alone: `OneOwner` needs that attempts in memories are
distinct, which needs that a claim hands out a number above all others.
`StepView` reduces every action to what it does to one row (`RowStep`) and to
the claims in memory (`ProcStep`); the rest of the module argues from that view.
`TypeCorrect`, `TablesAgree` (and its parts `LedgerIsComplete` and
`AllowanceIsHeld`), `NoTwoOwners`, `LedgerIsEvidence`, `TenureIsSafe`,
`SettledIsFinal` and `QueueImplementsFencedJob` follow; the last shows
the initial state and every step to be a step of `FencedJob` or a stutter.
`RunningRowsAreLeased` is an invariant of its own: a lease is set exactly on
running rows.

`IngestionPipelineProofs`. First the lemma `PipelineRunsTheQueue`: every step of the
pipeline is a step of the queue or leaves its variables alone. Thereby every
theorem above holds of the pipeline, and `QueueFacts` collects those its own
proofs use. `OwnerIsNewest` turns the fence into arithmetic: a handler that
passes it holds the job's newest attempt and the job is running.
`CitationsStay` is inductive; `ExtractionIsEarned` needs the queue's facts, since
the attempt that wrote the parts is bounded by the attempts granted;
`SettledWorkStands` follows from both. The claim that a version gets one draft is
the deep one. A draft is `Standing` while its run counts as succeeded, which is
what makes a retry reuse it; the others are `Unheard`: the handler that stored
one lost the acknowledgement and overwrote the outcome. `DraftInv` says what a
handler may believe at each stage (`LocalOK`): before it saves, none of the
drafts is its own; if it is calling the provider with the newest attempt, no draft
stands, for it looked when it began and nobody without the newest attempt passes
the fence since; what it saved stands until it ends. It also counts: every
unheard draft used up a lost acknowledgement. This is inductive for any number of
them. So `OneDraftStands` (never two standing drafts), `DuplicatesAreUnheard` (at
most one draft more than there were lost acknowledgements) and
`SuccessLeavesADraft` hold always, and `OneDraftEach` and `SuccessHasItsDraft`,
the properties of the run `pipeline_safe`, are their case `AckLossBound = 0`:
with a lost acknowledgement both are false, as the run `pipeline_unheard` shows
of the first. `OneStands` and `FewDrafts`, what the first two state, are checked by
`pipeline_live`, where an acknowledgement may be lost.

`LeaseLockProofs`. `LockInv` relates the attempt of the row to those of the
handlers and the row's change counter to what a waiting heartbeat found. From it
follow `OnlyTheNewestWrites`, `RenewalsAreFenced` and `RenewalsAreBounded`.
`AttemptInv` adds that claims still believed in are of different attempts; with
`LockInv` it gives `WritesAreInTurn`, a commit at most once per attempt and in
their order. `ReachInv` gives `LeasesAreInReach`: whatever a heartbeat waits for,
no lease reaches further than its length from now.

`ConversationStagingProofs`. `StagingInv` says of each stage where its directory is
and what it holds at each point of its upload, and that no removal is under way
and the lease is not over as long as the upload and its heartbeat live
(`UploadInv`); that a directory in the root is whole, and an entry in memory has
its files and the expiry of its manifest, unless a removal began (`OfferInv`); and
what the two removals may be about (`RemovalInv`): the janitor's only about a stage
that is `Stale`, which no promotion would find on disk, or one it took while it was
uploaded. Of a request it says that its upload is over and, once acknowledged,
that its stage is `Final`: expired or gone in memory, and stale on disk
(`RequestInv`). The exceptions in the properties are needed: `torn` because a
removal that stops halfway leaves what no later step repairs, `mute` because
nothing protects an upload without a heartbeat. `LiveUploadsAreKept`, `OfferedStagesHaveFiles`,
`AcknowledgedStagesAreFinal` and `PublishedStagesAreWhole` follow; the last, of
`PublishedIsWhole`, says that a crash outside a removal leaves no directory in
the root without export or manifest.

`SourceRegistryProofs`. `RegistryInv` says that no row is in two open
transactions or in one and committed (`Exclusive`: the waits), that a new version
and its audit event are inserted together (`AuditsTogether`), that files come
before rows (`FilesFirst`), and which rows a request has placed at each statement
(`Progress`: a row it skipped is committed and stays so). `Footprint` reduces
every step to keeping, adding or committing rows. From it follow `AuditedOnce`,
`VersionsAreWhole`, `AcceptedIsRegistered`, `RowsHaveFiles` and, with the
observation that a request that was not received never inserts,
`RevokedWritesNothing`. The assumption is that a command names at least one
version.

`KnowledgeCitationsProofs`. `CitationsInv` says that the committed rows are in
order, what each open transaction may have done (`Own`), what row locks and
unique indexes keep apart between any two (`Apart`, `OneHistory`), and the
heart of it: whatever a committing transaction has checked is locked, and the
check still holds (`Valid` for all of `locks`). A lock is needed and not only a
look, because the evidence a trigger counted could otherwise be deleted by a
transaction that counted on its own. `WriteKeepsInv` treats all statements as one
kind of lawful write. `OwnersAreCited`, `EvidenceIsLocal`, `ReferencesResolve`,
`HistoryIsLinear`, `OwnWorkIsFree` and `PublishedIsAppendOnly` follow, for any
number of sessions, statements and rows.

`ExtractionCallsProofs`. `CallsInv` says of the row of each attempt (`RowOK`) and
of the handler that runs (`CallOK`) that the history so far is one answer per
window, each from its own chat, and how it ends when it ends badly. The proofs of
this module use `Windows` only as something the loop goes through.
`HistoriesAreOrdered`, `SuccessIsAnswered`, `FailureIsNamed`, `SwapsAreNoticed`
and `EvidenceIsFinal` follow.

`WindowsProofs`. `TextIsCut` is about `Windows` itself: every text, of any number
of parts of any length, under any limit, is cut as `Covered` asks. `FlattenSeq`
and `FoldLeft` are folds over data, and the library's induction theorems cannot
be used with these provers, as they take an operator. The module has its own
induction on sequences, over a set instead of an operator
(`SetInduction`, `SeqInduction`), from the theorem that a well-founded relation
has minimal elements (`WFMin`). With it each fold is shown to do one more step
for one more element (`PackedSnoc`, `SizeSnoc`, `FlattenSnoc`). `Cuts` says what
the slices of the first parts are, `PackInv` what the loop of `_windows` keeps:
nothing is lost between the closed windows and the open one, `size` is the size of
the open one, and no window was closed before it had to be.
The second result is the safety half of `EveryAttemptEnds`. `StepsLeft` is what
the handler has still to do at most, two requests per window and what surrounds
the loop. `AttemptsAreBounded` says that it is at most 2n + 3 for a text of n
windows, that every step of the handler lowers it and nothing else raises it
while an attempt is under way. What is left to TLC is that under its fairness the
handler does step.

Only model-checked: liveness (`EveryJobSettles`, `EveryVersionEnds`,
`ExportsEnd`, `EveryRequestEnds`, `EveryAttemptEnds`), which is out of the
prover's reach. Every other property of the passing runs is a theorem.

## 6. Where code and documents disagree

* `pipeline_retry`: a normalization stopped after its parts are committed and
  cited cannot be retried; it deletes the parts first and the foreign key
  refuses, on every attempt (`worker.py:211`). A test asks that a retry replace
  its own partial output.
* `pipeline_unheard`: when the acknowledgement of a committed draft is lost, the
  handler overwrites its succeeded run, and the retry stores a second draft
  (`worker.py:157`). The plan promises that retries cannot duplicate records.
  `DuplicatesAreUnheard` bounds the damage: one draft too many for each lost
  acknowledgement, and no other way to a duplicate. A job may then also succeed
  without a standing draft: a later attempt reuses the draft, and the handler
  that stored it and has lost its lease overwrites the run afterwards. So
  `SuccessLeavesADraft` promises a draft, not a standing one.
* `lease_resurrected`: a heartbeat that waited for its own handler's row lock
  past the lease's end still renews it (`queue.py:204`). A test asks that
  expiry defeat a heartbeat. By `RenewalBounded` and `WriteFenced` the effect is
  one lease more for the same attempt, never two owners.

* `registry_duplicate`: `artifacts` has a unique index on `sha256` and one on
  `storage_key`, which is derived from it; the insertion names only the first as
  the arbiter of its conflicts (`sources/service.py:46`). Two first
  registrations of the same bytes can pass the arbiter together; the second then
  fails on `storage_key`. A test asks that concurrent registrations converge and
  not leak a uniqueness error; it stores the artifact before the race. The
  window lies inside two INSERT statements, and the client may simply ask again.

Smaller ones that no run is spent on; the models show them as what the code does:

* A generation that fails in transport is recorded with the response metadata of
  the exchange before it (`retrieval/ollama.py:185`), where
  `retrieval/providers.py:62` promises the metadata of one actual request. An
  exception the client raises outside its transport errors leaves the whole
  record of the last generation in place (`knowledge/extraction.py:322` then
  appends it again); the run is failed as `internal_error`.
* A removal stops halfway after the manifest and the API is restarted: a DELETE then
  finds no stage and answers 204, while the export stays in the root until the
  janitor's grace for a directory without manifest ends. A test
  (`test_conversation_adapter.py:262`) asks that an operator hear of an export left
  behind; it lets the removal fail as a whole, and the error of the first DELETE
  is indeed visible. So `AcknowledgedIsFinal` promises that no promotion of
  an acknowledged stage starts, and `ExportsEnd` that the export goes in the end.
* A heartbeat that fails to renew its lease ends unnoticed
  (`ingestion/adapters/conversations.py:351`); an upload that lasts longer than what
  is left of the lease is then removed by the janitor while it runs, which a test
  (`test_conversation_adapter.py:403`, with a living heartbeat) forbids. If the
  upload ends while the janitor is at work, it may be answered and offered
  without its export; a promotion is then refused.
* An installation without a provider ends every extraction for good with
  `provider_metadata_missing`; the plan for reviewed knowledge (line 199 of
  `docs/superpowers/plans/2026-09-11-reviewed-knowledge-and-retrieval.md`) wants
  the retryable `provider_unavailable`, of routes that do not exist yet.
* Which model answers is attested by a request before the one it answers.
  `UnnoticedOnlyInARace` says that this is the only way for a change to go
  unnoticed.

## 7. What is not modelled

* Adapters, grading and redaction: pure functions of an artifact. The pipeline
  sees only whether an artifact parses (`parseable`), which is deterministic:
  an I/O error that comes and goes is left out.
* Inside one batch of an extraction: the validation of candidates, relations and
  warnings. Of providers: `embed`, which nothing calls, and counters of tokens
  and time. That the text a window holds is the text its prompt carries.
* Knowledge records: draft sets as parents of candidates, reviews (append-only
  rows), graph entities, edits of a draft's text, and the quote of a citation, so
  that an owner cites a part once. In the run a relation has one
  endpoint. No service publishes records yet; the transactions are those the
  schema allows.
* `error_detail`, timestamps, wording and logging.
* `cancel_job` is an action of `JobQueue` but of no composition: only tests call
  it.
* Nothing bounds the run time of a handler whose heartbeat keeps its lease.
* Staging: the parsing of an export; the versions a promotion registers are in
  `SourceRegistry`. `Missing` is how `rmtree` treats a file that another removal
  took: it raises up to Python 3.12 and goes on from 3.13, and the project allows
  both (`requires-python`); a model of the former has the behaviours of the
  latter. Two facts a reader may want: cancelling a stage
  does not stop a promotion that has already read the export, and a removal that
  fails after the commit makes the promotion answer with an error.
* Registry: reading routes, titles and metadata of sources, temporary files of
  `put` (which has no `await`), and what a crash leaves in quarantine: nothing
  cleans it up and no row names it. Members whose right comes back.
* Screens, the legacy page, the build, settings, the seed script, and the
  migrations as such; constraints and triggers are modelled where a component
  relies on them.

* Projects and memberships: `MayWrite` of `SourceRegistry` is what registration
  reads of them. Two concurrent changes of one membership, and their audit
  events, would be the next module.
* Browser: stash and continue, the revision check of a research document, and
  two tabs over one storage. The hazards are listed in `PROJECT.json`; no model
  covers them.

## 8. Where it could go on

1. `SourceRegistry` joined with `JobQueue`: the rows `ingestion_runs` and
   `ingestion_jobs` of the one are what `Enqueue` of the other creates.
2. `ProjectAccess`: concurrent membership changes and their audit trail.
3. `ProjectLifecycle` and `ResearchRevisions`: the browser's domain files, with two
   tabs over one storage.
4. `ExtractionCalls` between the steps of `IngestionPipeline`, so that one run
   has the windows, the fence and the draft.
5. Pure algorithms against reference definitions: quality dimensions, capability
   resolution, the stable locators of the adapters.

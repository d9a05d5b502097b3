# Verification of aprendiendo

This directory holds TLA+ models of the program under `src/`, the TLC
configurations that check them on small instances, and proofs about them for
TLAPS. `PROJECT.json` maps every definition to the lines it models, lists the
runs, the hazards they are aimed at, and the theorems.

aprendiendo is a Spanish-learning system: an MCP server with a SQLite learning
store (Rust), a practice backend that stores recordings and analyses them with a
paid provider (Rust, an API process and a worker process), and a practice app
(React Native / web, TypeScript) that records, keeps everything locally, and
submits takes to the backend through an outbox.

## 1. Inventory

| component | state | operations | what is hard | what makes it correct |
|---|---|---|---|---|
| Durable analysis queue, `src/src/practice/mod.rs` | `practice_jobs`, `practice_spend_reservations`, status of `practice_recordings` | submit, cancel, delete, claim, process, publish, clean up | two processes on one SQLite file, statement by statement; leases; crashes; a monthly cap kept by rows that expire | a revoked job is never published; a deleted recording is never analysed and published; a job is closed in the end; the provider is asked once per job and worker death; the cap |
| Media uploads and retention, same file | `practice_uploads`, `practice_recordings`, staging and final files | declare, PUT, finalize, delete, expire | database and disk share no transaction; requests overlap; the cleanup unlinks before it marks | what is ready has its file; both tables agree; overdue media expires when the queue drains; deleted media stays deleted; the byte cap |
| Practice HTTP surface, `practice/mod.rs`, `bin/practice_mvp.rs` | none of its own | routes, limits, error mapping | | the effects of the handlers, see above |
| Delivery analysis and provider client, `practice/analysis.rs`, `practice_mvp/` | none | decode, measure, call the provider | intervals, and thresholds compared in floating seconds | intervals are ordered, disjoint and inside the take |
| Client outbox, `apps/practice/lib/sync/outbox.ts` | `outbox` table of the device, continuations of async calls | submit, drain, delete | retries of calls that did take effect, two drains at once, deletion while a request runs, app restarts | a retry creates nothing twice; what is deleted is not submitted again; every entry ends |
| Client repository and media journal, `lib/storage/`, `lib/media/` | device tables, journal of media operations, files | save, evict, delete, reconcile | crash between file and row; quota with reservations | no row without its file is reported ready; nothing protected is evicted |
| Client screens, `components/` | React state of a recording or a round | start, stop, advance, resume | callbacks after unmount, timers | a round is saved once; phases in order |
| Client sign-in, `lib/auth.ts` | tokens, a pending refresh | sign in, refresh, sign out | concurrent refreshes | one refresh token is used once |
| Learning store, `src/src/db.rs`, `src/src/taxonomy.rs` | weaknesses and their schedules, concepts and edges, sessions, reviews, idempotency ledger | record, replay, upsert, plan | requests delayed, repeated and reordered; dates a client chooses; retired and returning weaknesses | a session is recorded whole or not at all; a key names one session; reviews go forward; the planner's plan can be recorded |
| Production evidence and review policy, `src/src/production.rs`, `src/src/evidence.rs` | learner preferences with a version | classify attempts, decide reviews, update preferences | optimistic versions; evidence that proves less than the tutor says | a review moves a schedule only on unaided evidence and hides no failure; a session is judged by the preferences it was planned with |
| Tutor handoffs, `src/src/workflow.rs` | handoffs with a frozen snapshot, feedback, repairs | create, give feedback, repair, list actions | repeated requests; audits that change the source | one feedback per handoff, on what was frozen; an answer says what is stored |
| Session expansion, `src/src/activities.rs`, `src/src/tutoring.rs` | none | validate, expand | index arithmetic | what was expanded refers only to itself |
| Data audit, `src/src/audit.rs` | amendments, runs, revisions of audited rows | validate, apply, revert | batches validated side by side; reverts of runs that others have built on | the amendments of a row are its history |
| Schema migrations, `src/src/migrations.rs` | registry and schema version, every table | open | any process migrates; several at once; death between transactions | once, in order, to the end |
| MCP server and authentication, `src/server.rs`, `src/auth.rs`, `src/embedded_oauth.rs` | OAuth codes and clients, JWKS cache | authorize, exchange, verify | codes used twice, stale keys | a code is exchanged once |
| Telemetry, scripts, deployment | none of the running system | | | |

The app talks to the practice backend over HTTP only. The API process and the
worker process share the SQLite file and the media directory and nothing else.
The MCP server has its own store, the learning database, and no link with the
practice backend. The command line tools (`migrate`, `audit_data`) open the same
learning database as the MCP server, at any time, and share only the SQLite file
with it: each opens it by running the migrations.

## 2. Modules

| module | what it is |
|---|---|
| `JobLifecycle` | what the queue promises a client about a job: open until completed, failed or cancelled; revoked jobs are not published; rows are forgotten when they are closed |
| `PracticeJobs` | the queue in detail; implements the safety part of `JobLifecycle` and, with fairness, its liveness |
| `MCPracticeJobs` | instances of it |
| `PracticeJobsProofs` | its type invariant; no publication of what was revoked or deleted; no repeated request to the provider; that it implements `JobLifecycle` |
| `PracticeUploads` | the media store in detail |
| `MCPracticeUploads` | instances of it |
| `PracticeUploadsProofs` | its type invariant, the agreement of its two tables and of the database with the disk, and by how much the byte cap can be exceeded |
| `PracticeSync` | the client outbox, over a network that fails, with the handlers of the two modules above as single steps and the queue as `JobLifecycle` |
| `PracticeSyncProofs` | its type invariant and its safety invariants |
| `MediaJournal`, `MCMediaJournal` | the recordings a phone keeps: rows, journal, files and quota, through the storage queue, with failures, deaths and launches |
| `MediaJournalProofs` | its type invariant, its safety invariants, and what admission and eviction may never do |
| `FoldTheorems` | sums over finite sets, and the two forms of induction the other proofs need |
| `ReviewPolicy` | evidence, attempt classes and review decisions (`production.rs`, `evidence.rs`) as operators |
| `TutoringExpansion` | the compact tutoring request and its expansion (`tutoring.rs`), over `ReviewPolicy` |
| `PracticeBrief` | the planner (`practice_brief` in `db.rs`) and the validation of activity recordings (`activities.rs`) |
| `DeliveryAnalysis` | from speech frames to pauses (`practice/analysis.rs`) |
| `PracticeCalls`, `MCPracticeCalls` | the calls that use the four modules above, stage by stage, and small families of inputs |
| `PracticeCallsProofs` | what reviews rest on, what an expansion refers to, and what a plan promises |
| `ConceptGraph` | concept edges and their cycle check (`taxonomy.rs`) |
| `LearningStore`, `MCLearningStore` | the store behind `record_practice`, with clients, the wire and the clock |
| `LearningStoreProofs` | its type invariant and all of its safety properties |
| `Migrations` | opening the learning database |
| `AuditBatches` | the audit tool, over an open database |
| `TutorHandoffs` | handoffs, served beside the audit |
| `StoreMaintenance`, `MCStoreMaintenance` | the three together, from every kind of database that may be found |
| `StoreMaintenanceProofs` | the order of the migrations, the answers to tutors, and the history of amended rows |

### PracticeJobs

One action is one autocommitted SQL statement, or a stretch of code between two
of them. The API process has one connection behind a mutex for the length of a
store call (`apiLock`); the worker has its own connection and takes no part in
that mutex, so its statements fall between those of a call. `api[c]` and
`worker[w]` hold where a call or the worker is and what it has read and not used
yet. `worker[w].at` follows `worker_once`: `take`, `check`, `process`, `finish`,
`settle` for a job that was claimed, `fail_missing`, `release_missing` when its
recording is not ready, `clean_*` for `cleanup_expired`. Reads that no
statement of the other process can make stale before they are used are part of
the action that uses them; the comments say why in each case.

Money is counted in cents. A request is a record of what the queue looks at
(key, recording, coaching or not, amount); payload hashes are equal iff requests
are. `calls[j]` counts what the provider is asked, and `deleteAcked` the
recordings whose `DELETE` was answered: they are history, the code has no such
variables. The attachment of an image is a read-only check of the handler and is
left out. The key of a job is UNIQUE in its table (`mod.rs:144`): an `INSERT` under a key that is
there fails and the call ends (`KeyIsFree`), so no property asks for it.

### PracticeUploads

The rows of the two tables, and the file at each path: `staging[u]` for an
upload, `media[r]` for a recording (the final path is a function of the
recording id when one MIME type is declared per id, as the app does). Every
statement, transaction and file operation is an action. Requests are not
serialised by the store's mutex here, because each store call is one action:
any number of them overlap, as axum serves them. `overlapped` and `deleteAcked` are history:
the recordings that two requests have worked on at once, and those whose `DELETE` was answered.
`MaxBytes` is the largest take the validation lets a client declare.
A torn write is refused by finalize as a missing file is, so a file is written
at once. What `delete_recording` does to jobs is in `PracticeJobs`, and what it
does to the file is here.

### PracticeSync

Client and server together. A call of `requestDurableFeedback`, or a drain, is a
chain of awaits; `pc[t]` is the await chain `t` is in, `todo[t]` the entries it
listed and has not finished, with the copies of `upload_id` and `job_id` it works on.
Chains interleave at every await, and die at any of them (`Restart`), because
nothing in `outbox.ts` keeps a second drain, or a drain beside a request, from
starting. Storage operations go through one promise queue (`serialized`,
`repository.ts:336`), so each is one step; only `queueServerDeletion` is split,
into the failing of the entries and the tombstone, since the app can die between
them and `listOutbox`, which is not in the queue, can read between them.

A request, its handler and the write to the entry's row that follows the answer
are one action. What other steps could come between the handler and the write
touch either the server or the row, and commute with the other; and an app that
dies between them is, for the server and for the device, an app that got no
answer, which is `Unanswered` (the request arrives, once, now or later:
`late`, `Arrive`).

What is left out: the image of a take (a second upload before the submission);
consent, which is given; the wording of errors. `queued`, `uploading`, `processing`
and `retry` are one state `active`, because `listOutbox` only asks whether an
entry is `completed` or `failed`. `nextAttemptAt` is written and never read. An entry
is named by its operation, and the ids the server gives by the operation whose
key they were created under, because keys are UNIQUE there (`mod.rs:144`). The refusals of the two caps are `CapRefuses`. Rows of the
server that are forgotten after a week are not.

### MediaJournal

The client's repository (`lib/storage/repository.ts`, `quota.ts`) with the native side of
`lib/media/recording.ts` and the recording panel. A take has a row (`rec`), an entry in the
journal `media_operations` (`op`, which first reserves bytes and later names a file),
entries of the outbox and a file; SQLite and the file system share no transaction.
`serialized` chains every storage operation to the last one, whatever became of it:
`queue` is that chain, and one action is one statement or one file operation of its head
(`running` says where it is in `enforceQuota`, the only operation with several steps that
others can tell apart). The caller that awaited an operation goes on as part of its last
step and queues what it does next. `capture[t]` is where `RecordingPanel` is with a
take: in the stages of `Awaiting` an operation carries its name; `stopped` and `moved` are the
file operations of `finalizeNative`, outside of the queue. `removal[r]` is where `deleteRun` is:
it lists recordings and removes files outside of the queue. `launch` is where
`initializeNative` is, which every operation waits for.

What `enforceQuota` selects, it unlinks and marks later, one at a time; what a caller
does not wait for (the status `finalizing`, a change of the outbox) stands in the queue and
may be executed long after the call. An operation that throws goes on with the catch of
its caller (`AfterFailure`, `CatchTasks`): after `startCapture` failed the reservation
stays, after anything later the journal entry is settled as failed.

A run and its round are one, because the screens create them together and only the status of the round is
looked at. One capture records one take, so an unlimited number of takes is a large `Takes`. An outbox entry is active
or closed; what it goes through is in `PracticeSync`. `createdOrder` is a counter, because it is
the millisecond in which the take was hashed or recovered. A take may turn out larger than what was
reserved for it: only on Android is the recorder given a `maxFileSize` (`recording-panel.tsx:28`-`34`), and
a larger one is saved all the same (`recording-panel.tsx:199`-`201`). A queued deletion has a row with the
recording, so the take it asks about stays protected until the server was told. The build for the
browser keeps blobs in IndexedDB and is not modelled.

### PracticeCalls

`record_tutoring_session`, `get_practice_brief` and the delivery processor compute
before they store anything. They are operators, and `PracticeCalls` is the machine
that applies them: a call arrives with an input, is worked on stage by stage
(heard, arrived, expanded; or planned and run item by item) and ends done or refused. Its
properties compare the result with what a reader of the documents would say about the
input in words of sets and quantifiers, not with the algorithm: for the decision
which attempts were unaided, for the plan whether the recorder accepts what the
planner proposes, for the pauses which frames are in a long enough run.

Texts are abstracted to what is asked of them (a prompt gives a target's wording away
or does not; a rationale is there or not). `Phrased` are the targets of the two constructions whose wording
`production.rs:460`-`472` looks for in a prompt. An empty list of `weakness_keys` is not an absent one: it
selects every row, and nothing limits the targets. Silences are counted in
frames of the detector, but the code subtracts seconds: where a silence is exactly the threshold, rounding
may make it shorter (seven silent frames, 6 to 12, are; 7 to 13 are not). `NarrowGaps` holds
the places where it does (`Short`), any places in the proofs. The limits on lengths, the catalogue of exam
tasks and the seed of preferences are left out. Numbers that only order things, such as
the predicted recall, are small integers.

### LearningStore

Every handler of the MCP server holds the one connection for the whole of its
transaction, so it is one action, and an error rolls everything back and is no
step. What is concurrent is outside of the handler: a client plans with the preferences it read
(`seen[c]`), sends a request (`sent`) that arrives at any later time and any number
of times, and may not hear the answer. `record_practice` is `Record` when its key
is new and `Replay` when the ledger has the key with the same request hash; any other
arrival is refused. `Record` makes of every weakness it names what
`upsert_weakness_tx`, `promote_target_if_needed` and the update of first and last
seen make of it, in that order (`Upserted`, `Promotes`, `Touched`; `Scheduled` for its
schedule). Time is in hours and a learning day begins at `Cutoff`.

`ReviewPolicy` decides which reviews are eligible; here a draft says it. Items, attempts
and observations are contents of a session. The memory state of FSRS is the instant of
the last review.

### Migrations, AuditBatches, TutorHandoffs, StoreMaintenance

`at[p]` is what a process is doing: `down`, then where `run` goes by what it reads of the database
(`Looked`): `initialize` an empty file, `inspect` one without a registry and `adopt`
it or lay the latest schema over it (`catalog`), `apply` the next migration and check
it (`applied`), until it is `open`. The reads come before the transactions, so two
processes may decide the same; the primary key of `schema_migrations` makes the second
one roll back and end (`Unrecorded`). A read of something that never changes back is taken
together with the read after it. A migration is modelled by what later steps and the program
depend on: weaknesses with their primary links and schedules, key and stamp of every
session, the ledger. A catalog from before the schedules is found too, and is not supported: see section 5.

An open tool validates a batch, carries it (`validated`) and applies it in a transaction of its
own. A row's hash is the row, its revision is a part of it. Batches with hashes of older
rows are refused in validation and change nothing, so a tool carries on with
those whose hashes are of the rows it reads; the other tool may then apply its own
first. A batch is a
file, so the id of its run may have been used before, for other proposals (`INSERT OR IGNORE`, `audit.rs:1173`); what the run
counts are its amendments. `Reverting` compensates the amendments of a run, last one first, as
`revert_batch` does, with its quirks: it is written over whatever the row is now,
nothing marks the old amendments as reverted, and the summary comes back quoted once more.

An open server creates handoffs, takes feedback and saves repairs. It holds its
connection for a handler, and an audit that commits between a handler's reads and its one INSERT sees
nothing of the handler's tables, nor the handler of the audit's from then on: the
handler stands before the audit and is one action.

## 3. Runs

| run | question | result |
|---|---|---|
| `practice_jobs` | do revocation, deletion, the bound on provider calls and the lifecycle hold under every interleaving of two API calls and the worker, a restart and expiry | holds |
| `practice_jobs_progress` | is every queued job closed in the end | holds under the fairness below |
| `jobs_cap_race` | is the month within its cap, as `docs/recording-app/mobile-plan.md:179` says | violated: cancellation between the two statements of `finish_job` |
| `practice_uploads` | does the upload of a row outlive it, with two requests and the cleanup at once, and does overdue media expire if the queue is empty again and again, although the worker may die in a pass | holds |
| `practice_uploads_cap` | over three takes, with two requests at once, wrong bytes and a restart of either process: has a ready take its file unless two requests met on it, and is the byte cap exceeded by no more than what overlapping requests bring | holds |
| `uploads_late_finalize` | does a deleted take stay deleted, as `mobile-plan.md:187` says | violated: a finalize in flight replaces the tombstone |
| `practice_sync` | with two chains on one entry, a request that fails or comes late and a restart: does a completed entry have its result, a shown take its audio, a removed run its tombstone | holds |
| `practice_sync_progress` | does every submission whose take is kept end, and is every deletion told to the server, although a request fails, arrives late, or the app dies | holds under the fairness below |
| `practice_calls` | for every small conversation, brief request and recording: does a review rest on unaided evidence and hide no failure, does an expansion refer only to itself, can a plan be recorded, is it fair and does it take what is most overdue, are pauses the silences | holds |
| `learning_store` | with two clients, requests delayed, repeated and reordered, and edits in between: is a session whole, does a key name one session, do reviews go forward under the planned preferences, do schedules follow their weaknesses, is the concept graph without cycles | holds |
| `store_maintenance` | with a server and two tools that start at once and one that dies: do migrations commit once, in order and to the end, are amendments the history of their rows whichever run ids are used again, is a tutor told what is stored | holds |
| `media_journal` | with two captures, eviction, feedback requests, deletions and a quota that changes, one operation that throws and one death anywhere: can what is ready be played, is the quota kept but for the bytes of takes that outgrew their reservation, does what is admitted fit it, does eviction take the oldest, only while needed, and nothing an upload needs, is nothing held for a capture that is over, does every capture that was stopped end | holds under the fairness below |

Bounds. Two jobs are needed for a race on the cap, a queue with an order, and
two rows under one key; one recording is enough because rows of different
recordings meet only in the cap and in the order. Two API calls give every pair
of handlers; the worker is the third party. With the lengths of leases and TTLs
0 and `MaxTime` 1, one tick puts everything written before it past its deadline,
which is the only thing deadlines decide; the run of the cap uses TTL 1 and three
instants in one month. One crash, of either
process, at any step. The two runs of the uploads share the work. `practice_uploads` has one recording and two uploads of it,
so that requests meet on it in every way. `practice_uploads_cap` has a take of each of three recordings and a cap of one:
one take is ready while two requests look at the cap. Its constraint `MCApart` stops after a deletion was
answered or two requests met on a recording, which is what the first run is about; recordings and requests are
interchangeable (symmetry). In the
violation run of the uploads the TTL is 1, so that nothing expires and the
counterexample is about the finalize alone.

For the outbox two chains are the overlap the code allows, one entry and one
recording with its tombstone what they overlap on: entries of other recordings
meet them only in the order of a list, which `Listed` keeps.
`MaxLost` is the number of requests that fail or arrive late, `MaxRestarts` that of restarts,
`MaxFailures` that of both. The safety run has one of each; a behaviour of the progress run has one or the other,
at any point, and polls that find the job open too often: after each, what is left is an active entry and a later
drain. Which of the idle chains starts next makes no difference, so the first one does (`NextChain`). A deletion the app died in is begun again only
when it left no tombstone, so that there is one tombstone per recording.

For the journal two captures are a take and the one that wants its place, or two takes
that eviction orders; with files of one or three bytes and a reservation of two, a take is smaller or larger than what was reserved
for it. The quota of three it begins with holds
one take and the reservation of another only if the first is small, two bytes hold one reservation, and five hold
two takes that are recorded at once: admission is refused, makes room, and is let in. `r1` is a round that can be removed with both takes, `f1` and
`f2` are those the free screen makes. `MaxAsks` counts the feedback requests,
discards, removals and changes of the quota, `MaxWaiting` is the length of the queue at which the learner
waits before asking for more, `MaxFaults` the operations that throw for no reason of the model, `MaxCrashes` the
deaths: one each. What one of them can break meets a capture in flight, an eviction and a launch at every step; that
nothing else breaks with more of them is proved for the properties of section 4.

For the calls, the families of `MCPracticeCalls` have conversations of two turns
and up to three attempts, helped, cued, failed and independent ones in every order, weaknesses that are overdue, new or
unscheduled under all the activities and mixes the planner tells apart, and all
recordings of up to eleven frames; thresholds are scaled down so that every comparison
falls on both sides. One call at a time is enough because nothing is shared.

For the learning store two clients, two keys and two requests on the wire give every pair of
a request with its repetition, with another one under its key, and with one that
overtakes it. Clients and keys are interchangeable (symmetry). The drafts have
backdated, future and undated reviews, an ineligible one, an override, and a candidate
that an item promotes; the edits suspend, reclassify and reactivate. Three concepts are the shortest
cycle that needs a path. `MaxNow` 3 crosses two learning days. In this run and the next
deadlock is not an error where commands, sessions and the clock are bounded.

For the maintenance the databases found are an empty file, the snapshot of version 3 with
session types that are known and unknown and stamps that can and cannot be read, an early
catalog and one with a weakness the seed does not know, releases 8 and 12, and a
file of another program. Only some of them are supported: that the others (the early catalog among them) are refused
for good is in the model, and `StoreReachesLatest` is about the supported ones. One crash, three
commands and one revert are shared by two tools. The batches amend all five kinds of
entity; two of them collide on an observation, one retracts the item that was handed
off, one recovers a finding, and one fails in its second proposal.

Fairness. `practice_worker.rs:34-44` loops for ever and the provider client has a
timeout, so `WF(WorkerStep)`; time passes, so `WF(Tick)`; nothing is assumed of
clients. For the cleanup, only that a pass that has begun goes on, `WF(PassStep)`. Whether one begins is up to the queue, because
`worker_once` cleans up only when it found nothing to do (`mod.rs:862`): that it finds nothing
again and again is the hypothesis of the property (`QueueDrains`), not an assumption of the run. Under a queue that
never empties the code expires nothing.

For the outbox: every await of a chain ends (`requestJson` has a timeout), and
the learner comes back to the home screen, whose effect starts a drain
(`practice-home-screen.tsx:51`): `WF(TaskStep \/ StartDrain)` per chain.
`WF(DeletionStep)`: a deletion that is under way goes on. (The subscripts are the variables these steps change,
`pc`, `deletion` and `jobs`.) `WF(WorkerCloses)`: what
`EveryJobCloses` shows of the queue. That the learner opens the home screen again
is an assumption about people; without it nothing in the code starts a drain.

For the journal, a promise that can resume does while the app lives: `WF` of the operation at
the head of the queue (also when all it can do is throw, `Refused`), of the file operations of each
capture and each removal, and of the launch. The learner need not act, and nothing has to fail.

For the maintenance, `WF(Opens(s))` for servers only: the deployment restarts their
container whenever it ends (`restart: unless-stopped`, `src/deploy/`), and a process that
runs takes its next step. A tool may stop anywhere for ever; that it does not hold a
server up is what the run shows.

Deadlock is checked in the runs of the backend, whose worker and cleanup always
have a step. The runs of the outbox and of the journal say CHECK_DEADLOCK FALSE: when everything is
submitted, saved or removed, the app has nothing left to do.

## 4. Proofs

All are about the specifications of the runs (`SafeSpec` where the fairness is a
formula of its own), for every value of the constants that satisfies the
named assumptions: any number of workers, calls, recordings, jobs, requests,
clients, keys, servers, tools, captures, failures and crashes, any TTLs and caps, any drafts and edits, any databases found,
conversations of any length, with any attempts, observations and interventions, and briefs for any weaknesses.
One hypothesis is stated in the theorems that need it, because the properties do not hold without it:
`OneWorker` (there is one worker process, as `src/compose.yaml:17` starts it). Requests overlap in all of them.

The queue (`PracticeJobsProofs`):

* `TypeCorrect`: `TypeOK` is not inductive alone. `TypeInv`
  adds that a call which is past its first statement names a job or recording
  that exists as a value (`ApiRefs`, `WorkerRefs`) and that every row has a
  request. One lemma per variable, one step per action.
* `CancellationRespected`: no step publishes a job
  whose cancel flag is set. `RowsStep` says how a job row may move at all.
* `DeletionRespected`: once a `DELETE` was answered no analysis of that recording
  is published until the next finalize. `DeletionInv` adds to `TypeInv`: the mutex is
  held by whoever is in the middle of a store call (`MutexHeld`); while a
  recording is acknowledged as deleted its row is the tombstone
  (`TombstoneInPlace`); and while a worker
  has claimed a job whose row exists and is not revoked, no `DELETE` of its
  recording was answered or is about to be
  (`ClaimsUndeleted`). The last is what a test would not find: it has to hold at
  every program point of the worker, for any number of workers.
* `LifecycleKept` (`OneWorker`): `JobLifecycle` under the refinement mapping of `PracticeJobs`.
  `RowChanges` lists what one statement may do to one row and who executes it. Most rows move as
  the promise says whatever the workers do; what needs one worker is that the job it finishes is
  open or cancelled by then (`KeptRowsOpen`): with two, `claim_job` does not look
  at whether its UPDATE took the row, and one job would be published twice.
* `CallsAreNotRepeated` (`OneWorker`): a job that can still be sent to the provider was sent at most once for each death of
  the worker so far (`BilledOnce`); an open job cannot be sent while the answer of an earlier request is about to be written.

The media store (`PracticeUploadsProofs`):

* `UploadsOutliveRecordings`, `TypeCorrect`:
  a finalized upload has a recording row, and the upload a recording names exists.
  `TablesInv` adds what a call in flight knows about its upload and that an upload
  row never changes its request. The types of files and cleanup come on top of it (`TypesInv`).
* `FilesBackRows`: any number of requests are in flight, and the claim about a recording holds until two have
  met on it. Two requests in flight on one recording make it `overlapped` (`OneEach`); for a recording that is
  not, `ServedInv` adds what the only call on it relies on from its first read
  to its commit (`CallRelies`): that its bytes are in staging, or already in place, and that its upload
  is not finalized meanwhile. Requests on other recordings touch neither its row nor its files (`OthersMove`), the cleanup
  goes on between any two of its statements, and
  what a pass has selected stays overdue (`PassSelected`), but for the case that section 5 tells of.
* `CapNearlyKept`: what is ready, and what was let through and is not written yet, exceed the cap by at most what
  all requests but one bring (`RoomKept`). The request that was let through last saw what is ready below the cap
  with its own bytes; all others bring `MaxBytes` each at most (`RoomLetThrough`). All else that happens only lowers the sum
  (`AudioShrinks`). With one request the bound is the cap.

The client (`PracticeSyncProofs`, `MediaJournalProofs`):

* `CompletedMeansSaved`: `CompletedHasFeedback` needs to know
  of every chain that the entry it works on has a row whose recording stays the
  same (`Started`), and that the result is there when it is about to close the
  entry (`Saved`), whatever the other chains write to that row. What a chain listed
  plays no part in it.
* `TypesKept`, which no run checks: `TypeOK`, with `Fits` as the strengthening: a chain that is not idle has work, and is at an await of the
  right kind of entry; what it still has to do is in the outbox, because a listing names only what is pending
  (`ListedPending`) and rows never leave; a late request is one that the backend has a handler for; and a row
  that is there has its recording, which is what makes the result of a poll one of a recording.
* `RemovalInOrder`: `RemovalIsOrdered`, with the order of
  `deleteRun` (`DeletionInOrder`) as the strengthening.
* `JournalTypes`, `ReadyIsPlayable`, `ReservationsEnd`, `EvictionIsSafe`, from one invariant,
  `JournalInv`. What makes eviction safe is that
  it runs at the head of the queue: what was selected stays evictable until its turn
  (`SelectionInv`), because whoever would write to its round or its entries waits behind it. That needs
  to know what the steps outside of the queue can do: which rows and files a capture has at each
  stage (`StageInv`), that a removal unlinks only what has no row any more
  (`RemovalInv`), that nobody acts before the launch is through and that it lists every
  candidate (`LaunchInv`). A ready row without a file is one of the eviction that is at it, or
  that threw there (`FilesInv`); a death in between is repaired by the first thing a launch does.
* `QuotaIsKept` and `AdmissionsAlwaysFit`, over `JournalInv`. The quota bounds a sum over all takes while an admission evicts
  one take at a time: `RoomInv` says that from the selection on there is room for what is asked for as soon as the
  selected are gone, whatever of them is left. So at the step that admits, all that is there fits,
  with every byte (`AdmissionStep`). Between admissions a take may outgrow what was reserved for it. What it is charged is
  never more than its reservation, and `ReservedInv` says that a take gets its row while its reservation stands, so that settling
  a journal entry, by a capture or by a launch, never raises the charged sum (`ChargedStep`).
* `EvictionIsNeeded`: what is still to be evicted was selected with everything older than it, and each of
  it is needed to make room (`TurnInv`). This is what lets a loop over an old selection
  do what a fresh selection would. `OrderInv` says that `createdOrder` tells takes apart.
* `SavedTakesAreReleased`. `round_saved` must be the last thing written to the round. A capture has at
  most one operation in the queue, the one its stage waits for (`OwnedInv`), so behind that
  `round_saved` nothing of its own can stand, such as a late `finalizing`; what others queue is
  about other rounds (`Closing`, for captures that are `Alone` on theirs). `RoundsInv` adds that a round with
  rows is not deleted, and that no launch recovers a take whose capture is done. Each step is
  brought into one form first, what it takes from the queue, what it adds, and for whom (`QueueMove`,
  `EveryMove`), and the invariants are shown of that.

The learning store and its maintenance (`LearningStoreProofs`, `StoreMaintenanceProofs`):

* `TypeCorrect`, `AnswersNameOneSession`, `PoliciesAsPlanned`, `OnlyActiveScheduled`,
  `ReviewsGoForward`. The ledger is the pivot: what it says of a
  key never changes and its session exists with that very request, so an answer
  that was true stays true. Policies: a version number is given to one value
  only, so equal versions mean equal preferences, whoever read them when. Reviews: a
  schedule row that was ever reviewed stands at the day of its last review, and
  that day is in the table.
* `SessionsAreWhole`: the spans of weaknesses only grow, and no step but `Record` writes a
  session, a review or the ledger (`WholeInv`, `WholeFrame`).
* `ConceptsStaySound`: an edge that the cycle check lets pass closes no cycle (`OneEdge`): a set
  that holds an end and follows the old edges can be cut so that it follows the new one too. Then the edges of one request, by
  their first position that would be wrong (`EdgesInserted`). `Reachable` is the least set that follows the edges, which is what
  the recursive query computes.
* `MigrationsCommitInOrder`. A process that is about to migrate knows
  only that the versions before its own are recorded (`Allowed`): others may have gone on,
  and then its own is recorded too and its transaction rolls back. While
  there is no registry nobody has changed the store (`Untouched`), so what made a
  process choose `initialize`, `adopt` or `catalog` is still so when it commits as the
  first. `FoundAssumption` says what is assumed of a database: a registry is that of a release, and holds
  what its migrations establish.
* `HandoffsAnswerTrue`: one feedback for a handoff and for a key, that cites what was frozen
  (`Answered`); repairs have distinct keys, are among those asked for and at most
  `MaxRepairs` for a handoff (`Repaired`). Audits and crashes go on meanwhile.
* `AmendmentsAreChained`. One amendment more keeps every row the end of its history (`ChainGrows`, `ChainRecovers`),
  because the transaction compares revision and hash again: a row that is still the one of the
  proposal is what the last amendment left. A batch is a recursion over its proposals (`Trail`), which exists
  (`StepsExist`) and is followed to its first position that would be wrong (`FreshBatch`). Whatever
  batch a tool carries, under an id that is new or used, applying it only adds amendments of its
  run (`Onward`, `OneOnward`, `AnyBatch`), and what is added to the run's count is their number (`MadeFinite`, `MadeGrows`). The first batch of a run
  is recorded whole or not at all, so what it proposed is among what the run counts (`Settled`). `PlansAssumption` says of a batch only that
  its proposals are a sequence.

The calls (`PracticeCallsProofs`). Three invariants say for every stage of a call what its fields hold, as the formulas
that made them: `CallInv` of a tutoring call, `BriefInv` of a brief, `DeliveryInv` of an analysis.

* `ReferencesStayInside`: `ExpansionRefersInside`. The expansion names turns, attempts and observations by
  numbers that it computes from the order of the arrays. `Numbering`: this order is total and strict
  (`PairsOrdered`, `TriplesOrdered`), so the numbers have no gap and `PlaceOf` inverts them.
  An accepted attempt links to one before it (`AcceptedLinks`), and an
  intervention points at a later attempt or at none (`InterventionsLookAhead`), whichever of the tutor's
  forms it comes from.
* `ReviewsAreSupported`: `ReviewsRestOnIndependentWork`. An observation counts when none of seven rules
  excludes it, whichever would be told (`FirstOfSeven`, `ExclusionRules`), and that is so
  exactly when it is independent in the tutor's own words (`IndependentIsUnaided`,
  `CountedIsIndependent`). A decision that moves a schedule counts at least two (`EligibleDecision`).
* `FailuresAreFaced`: `FailureCannotBeOmitted`, from the same (`EligibleReview`).
* `OverdueComeFirst`: `MoreOverdueFirst`. The comparison of `sort_rows` is a strict total order of the rows
  (`RowOrder`), so a row has a rank of its own and `Sorted` lists every row once (`Ranking`, `SortedRows`). What
  is due, new and upcoming is joined so that days stay in order and at most two rows have none
  (`CandidateOrder`). Diversifying moves nothing (`DiversifyKeepsOrder`, see section 5), so what the plan takes
  is a first part of that.
* `SharesStayFair`: `SharesAreFair`. Whether targets are named, limited or all taken, as for an empty
  list of keys, a plan has no more targets than items (`EnoughItems`): an empty list may bring in more
  than were asked for, and then there is one item for each. The share of a target is then the number of its turns when `count` turns go round the circle
  (`Allocation`, `SharesAddUp`). The loop that looks for the next target with items left never has to
  skip one (`Rounds`, by the first item for which it would, `TurnsLeft`): so each is met as often as it has
  turns (`TurnCount`), and none twice in a row unless it is alone.
* `PlansAreRecordable`: `PlanCanBeRecorded`. For each rule of the recorder what the planner does about it: a drill that fits the
  activity is left for every target (`DrillsFitActivity`), settings that are merged with the defaults of the activity still fit it
  and agree with the count (`BriefConfigFits`), and the last items of a role play are as many
  complications as its settings say (`ComplicationItems`). The recorder takes the plan if and only if its
  settings are not without a field, and its items are as many as were asked for or the activity does not fix their number.
* `PausesStaySilences`: `PausesAreSilences`. The property speaks of frames, the code of intervals. Which silences of exactly the threshold
  are lost to rounding is a parameter (`NarrowGaps`). The runs that
  are kept are apart and hold the frames spoken for long enough (`RunsApart`, `RunAround`, `RunsInOrder`). With each run that
  is joined or appended (`JoinOne`), at least `MinSilence` lies between the intervals and they hold the
  frames of the runs so far and the short breaks between them (`Spoken`); for all runs, that is speech as the property
  defines it (`SpeechIsSpoken`). Between two intervals there is nothing but silence (`Neighbours`), so
  pauses and gaps correspond one to one (`SilencesAreGaps`, `GapsCounted`), and lengths and gaps add up to the
  speech and to the span (`LengthsAddUp`, `SpanAddsUp`).

They assume `AbsentIsNoText`: no reason and no hint is spelled like the absent value;
`ConversationsAssumption`: a request holds arrays, and its evidence names one of the cueings and exposures of
`production.rs:577`-`592`; and `BriefsAssumption`: a request has its fields (`model.rs:1081`), its activity is one of
the catalogue, a number of complications is a natural number, the rows are finitely many with a key each of their own and
numbers to compare, and the absent value is none of those it is compared with; and
`RecordingsAssumption`: a recording is a finite sequence of frames with speech or without.

`FoldTheorems`. The library's induction theorems cannot be used (their hypothesis is an
operator), so what holds of every finite set is shown by taking a smallest set for which it
would not hold (`SmallestSubset`), and what holds of every position by the first one
(`FirstPosition`). So much gives the sums of quotas and caps: what a sum is with one summand more or less,
that it is monotone, that only what is not zero counts.

The type invariants of `PracticeJobs`, `PracticeUploads`, `PracticeSync`, `LearningStore` and
`MediaJournal` are proved and therefore no property of a run.

Only model-checked: liveness (`EveryJobCloses`, `OverdueExpires`, `EntriesEnd`,
`DeletionTold`, `CapturesEnd`, `StoreReachesLatest`), which is out of the prover's reach. Every safety
property of a passing run is proved.

## 5. What the models found

Two runs end in a violation of what a document says (section 3, and "findings" in
`PROJECT.json`). The other surprises are notes of the hazards: a chain of the outbox that is
running when its take is removed, or discarded, submits it all the same; three ways leave a file on the phone that
no row and no journal entry names, so that no quota counts it and no launch finds it (a take that was
discarded, one whose saving threw, one the app died with between moving and naming it);
a weakness that returns
keeps its schedule switched off and is not due again; a revert does not know of later
batches, nor that it was done before, and cannot undo a recovered finding; a learner's
repair that is stored is refused once its source has changed; settled reservations
leave the month's sum with their jobs after a week; two finalizes that look at the byte cap before either writes its row
exceed it (`mod.rs:284`); a take that outgrew its reservation stays, over the quota, until the next admission.
`docs/recording-app/mobile-plan.md:88` wants the quota to cover all local audio and line 102 that file system and
accounts agree after a restart, which files without a row and larger takes contradict. In these the models have the steps, and what the code
does keep is what the properties say.

Three are about inputs at the edge. A brief with an empty list of `weakness_keys` is a brief for every weakness
(`db.rs:767`), but one with explicit targets (`db.rs:2892`, `2927`), so nothing limits them and the plan may have more
items than were asked for, which the recorder refuses when the activity fixes their number (`activities.rs:686`). Settings without a
field are planned with and refused when they come back (`activities.rs:575`). `PlanCanBeRecorded` says that these are the
only two. And a catalog from before the schedules never starts: the comment at `migrations.rs:66` speaks of a
compatibility path, but `add_legacy_columns` (136-197) adds no `target_status`, which `seed_taxonomy` updates (1823) and
`taxonomy.rs:68` reads.

One came out of a proof that failed. `ReadyHasFile` of the uploads held in a run with one upload for each
recording and was not inductive: a recording that expired may be uploaded again, under another key, as the
client does when it retries a take; `cleanup_expired` lists what is overdue in one statement and unlinks and marks one row
after the other (`mod.rs:536`-`546`), so a pass that listed the recording before the second finalize
unlinks the new file. TLC found the behaviour once the run had a third
upload. The property now says for which recordings the code keeps it (`Replaced`).

One is a lemma. `diversify_segment` (`db.rs:925`-`941`) puts a row of a new branch before the first row whose branch was not used
yet; but every row it has placed has its branch among the used ones, so there is never such a row, each is appended, and `diversify_rows`
returns what it was given (`DiversifyKeepsOrder`, for any rows). `TAXONOMY_PLAN.md:1175` asks to
"diversify targets by the top-level ancestor of their primary concept", and `FSRS_PLAN.md:592` to
"avoid filling the whole batch with one" category when others are equally urgent: a plan may do just that. The model keeps
the algorithm as it is written.

## 6. Plan

What remains, in the order of what it would add:

1. `AuthorizationCodes`, `TokenRefresh`: a code that is exchanged once and a refresh shared by concurrent
   requests.
2. The state machine of the timed round, on top of `MediaJournal`.
3. The read tools of the learning store that page and filter (`review_queue`,
   `recent_evidence`), against the tables of `LearningStore`.

## 7. Not modelled

Signal processing before the frames, provider HTTP, the memory model of FSRS, rendering,
logging, static catalogues and deployment: they keep no state that other parts depend
on. The browser's storage of the app. The screens beyond what they do with a take: which prompt or
round comes next, their timers and notes. The client's sign-in and the authentication of the MCP
server have no module yet and are in the plan.

---------------------------- MODULE PracticeJobs ----------------------------
(***************************************************************************)
(* The durable analysis queue of the practice backend,                     *)
(* src/src/practice/mod.rs: the API handlers that submit, cancel and        *)
(* delete, and the worker process that claims, analyses, publishes and     *)
(* cleans up.  Both sides work on one SQLite file.  The API process holds   *)
(* one connection behind a mutex for the length of a store call; the       *)
(* worker process has a connection of its own, so the statements of the    *)
(* two processes interleave.  Each action below is one autocommitted       *)
(* statement (or one code stretch between two of them); what a call has    *)
(* read and not yet used is its local state.                               *)
(*                                                                         *)
(* Abstractions.  Money is a natural number of cents where the code has    *)
(* f64.  A request is a record of what the queue looks at; two requests    *)
(* have the same payload hash iff they are equal.  Time is a bounded       *)
(* clock, and Month is the calendar.  lease_until is only read on running   *)
(* rows and expires_at of a recording on ready ones: elsewhere they are 0.  *)
(* expires_at of a job is created + JobTTL, both written by the INSERT.    *)
(* A statement that only reads is part of the action of the statement that  *)
(* follows or precedes it where no statement of the other process could     *)
(* fall between them and make a difference; the comments say so.           *)
(***************************************************************************)
EXTENDS Naturals, FiniteSets, FiniteSetsExt

CONSTANTS
    Workers,         \* worker processes (the compose file starts one)
    Calls,           \* API requests that can be in flight at once
    Recordings,      \* recording ids
    JobIds,          \* the UUIDs given to jobs
    Requests,        \* bodies POST /analyses may carry
    HasApiKey,       \* is GEMINI_API_KEY set
    MonthlyCap,      \* PRACTICE_MONTHLY_SPEND_CAP_USD
    MinReservation,  \* PRACTICE_ANALYSIS_RESERVATION_USD
    LeaseLen,        \* 10 minutes
    AudioTTL,        \* SERVER_AUDIO_TTL, 24 hours
    JobTTL,          \* ABANDONED_MEDIA_TTL, 7 days
    Month,           \* the month of each instant
    MaxTime,         \* bound: the last instant
    MaxCrashes,      \* bound: restarts of the API and worker processes
    NoJob, NoRecording, NoRequest, NoCall

Time   == 0..MaxTime
Months == {Month[t] : t \in Time}

ASSUME TimeAssumption ==
    /\ MaxTime \in Nat /\ LeaseLen \in Nat /\ AudioTTL \in Nat /\ JobTTL \in Nat
    /\ Month = [t \in Time |-> Month[t]]
ASSUME MoneyAssumption ==
    /\ MonthlyCap \in Nat /\ MinReservation \in Nat /\ HasApiKey \in BOOLEAN
ASSUME RequestAssumption ==
    \A q \in Requests :
        /\ q.recording \in Recordings
        /\ q.coaching \in BOOLEAN /\ q.amount \in Nat
ASSUME CrashAssumption == MaxCrashes \in Nat
ASSUME NullAssumption ==
    /\ NoJob \notin JobIds /\ NoRecording \notin Recordings
    /\ NoRequest \notin Requests /\ NoCall \notin Calls

VARIABLES
    now,            \* the clock both processes read
    recordings,     \* practice_recordings: status and expires_at
    jobs,           \* practice_jobs
    spend,          \* practice_spend_reservations, a row per job at most
    api,            \* local state of every API request in flight
    apiLock,        \* who holds the Mutex<Connection> across statements
    worker,         \* local state of every worker process
    calls,          \* provider requests sent per job: what the provider bills
    deleteAcked,    \* recordings whose DELETE was answered 204, not finalized since
    apiCrashes, workerCrashes

apiVars    == <<api, apiLock, deleteAcked, apiCrashes>>
workerVars == <<worker, calls, workerCrashes>>
vars == <<now, recordings, jobs, spend, api, apiLock, worker, calls,
          deleteAcked, apiCrashes, workerCrashes>>

-----------------------------------------------------------------------------
(* Rows and local states                                                   *)

Live     == {"queued", "running", "completed", "failed", "cancelled"}
Open     == {"queued", "running"}
Terminal == {"completed", "failed", "cancelled"}

JobRow ==
    [status  : Live \union {"none", "removed"},  \* never inserted; deleted
     req     : Requests \union {NoRequest},
     cancel  : BOOLEAN,                          \* cancel_requested
     lease   : Nat,
     created : Time]

SpendRow == [status : {"none", "reserved", "settled", "released"},
             month  : Months,
             amount : 0..MonthlyCap]

RecordingRow == [status : {"none", "ready", "deleted", "expired"}, expires : Nat]

ApiCall == [at  : {"idle", "checked", "reserve", "cancel_release",
                   "delete_jobs", "delete_release"},
            req : Requests \union {NoRequest},
            job : JobIds \union {NoJob},
            rec : Recordings \union {NoRecording}]

WorkerState ==
    [at      : {"idle", "take", "check", "process", "finish", "settle",
                "fail_missing", "release_missing", "clean_recordings",
                "clean_jobs", "clean_spend", "clean_rows"},
     job     : JobIds \union {NoJob},
     req     : Requests \union {NoRequest},      \* the request of the job
     outcome : {"none", "analysis", "cancelled_marker", "failed"},
     since   : Time]                             \* `now` of a cleanup pass

NoJobRow   == [status |-> "none", req |-> NoRequest, cancel |-> FALSE,
               lease |-> 0, created |-> 0]
NoSpendRow == [status |-> "none", month |-> Month[0], amount |-> 0]
IdleCall   == [at |-> "idle", req |-> NoRequest, job |-> NoJob, rec |-> NoRecording]
IdleWorker == [at |-> "idle", job |-> NoJob, req |-> NoRequest,
               outcome |-> "none", since |-> 0]

Exists(j) == jobs[j].status \in Live

TypeOK ==
    /\ now \in Time
    /\ recordings \in [Recordings -> RecordingRow]
    /\ jobs \in [JobIds -> JobRow]
    /\ spend \in [JobIds -> SpendRow]
    /\ api \in [Calls -> ApiCall]
    /\ apiLock \in Calls \union {NoCall}
    /\ worker \in [Workers -> WorkerState]
    /\ calls \in [JobIds -> Nat]
    /\ deleteAcked \subseteq Recordings
    /\ apiCrashes \in 0..MaxCrashes /\ workerCrashes \in 0..MaxCrashes

Init ==
    /\ now = 0
    /\ recordings = [r \in Recordings |-> [status |-> "none", expires |-> 0]]
    /\ jobs = [j \in JobIds |-> NoJobRow]
    /\ spend = [j \in JobIds |-> NoSpendRow]
    /\ api = [c \in Calls |-> IdleCall]
    /\ apiLock = NoCall
    /\ worker = [w \in Workers |-> IdleWorker]
    /\ calls = [j \in JobIds |-> 0]
    /\ deleteAcked = {}
    /\ apiCrashes = 0 /\ workerCrashes = 0

-----------------------------------------------------------------------------
(* The API process.  A store call starts only while no other one holds the  *)
(* mutex; a call of several statements holds it until the last.             *)

Unlocked == apiLock = NoCall

\* The lookup by idempotency key that opens create_job.
WithKey(q) == {j \in JobIds : Exists(j) /\ jobs[j].req.key = q.key}

Reservation(q) ==
    IF ~q.coaching THEN 0
    ELSE IF q.amount > MinReservation THEN q.amount ELSE MinReservation

\* The month's rows that count against the cap.
Counted(m) == {j \in JobIds : spend[j].month = m /\ spend[j].status \in {"reserved", "settled"}}
Committed(m) == MapThenSumSet(LAMBDA j : spend[j].amount, Counted(m))

OverCap(q) ==
    \/ Reservation(q) > MonthlyCap
    \/ Committed(Month[now]) + Reservation(q) > MonthlyCap

\* request_analysis reads the recording in a store call of its own.
CheckRecording(c, q) ==
    /\ api[c].at = "idle" /\ Unlocked
    /\ recordings[q.recording].status = "ready"
    /\ api' = [api EXCEPT ![c] = [IdleCall EXCEPT !.at = "checked", !.req = q]]
    /\ UNCHANGED <<now, recordings, jobs, spend, apiLock, deleteAcked, apiCrashes, workerVars>>

\* The key is known (the stored job is the answer, or 409 when the payload
\* differs), or the cap rejects the request: no row changes.
AnswerWithoutJob(c) ==
    /\ api[c].at = "checked" /\ Unlocked
    /\ WithKey(api[c].req) # {} \/ OverCap(api[c].req)
    /\ api' = [api EXCEPT ![c] = IdleCall]
    /\ UNCHANGED <<now, recordings, jobs, spend, apiLock, deleteAcked, apiCrashes, workerVars>>

\* The first INSERT of create_job.  The reads before it are part of the
\* action: the only statements of the worker that could fall between them and
\* the INSERT settle, release or remove rows.  idempotency_key is UNIQUE: an INSERT
\* beside a row of that key would fail (KeyIsFree), whatever the lookup said.
KeyIsFree(rows, q) == \A j \in JobIds : rows[j].status \in Live => rows[j].req.key # q.key

InsertJob(c) ==
    LET q == api[c].req
        fresh == {j \in JobIds : jobs[j].status = "none"}
        j == CHOOSE x \in fresh : TRUE
    IN  /\ api[c].at = "checked" /\ Unlocked
        /\ fresh # {}
        /\ WithKey(q) = {} /\ KeyIsFree(jobs, q) /\ ~OverCap(q)
        /\ jobs' = [jobs EXCEPT ![j] = [NoJobRow EXCEPT !.status = "queued", !.req = q,
                                                        !.created = now]]
        /\ api' = [api EXCEPT ![c] = [@ EXCEPT !.at = "reserve", !.job = j]]
        /\ apiLock' = c
        /\ UNCHANGED <<now, recordings, spend, deleteAcked, apiCrashes, workerVars>>

\* The second INSERT; it reads the month again, and its foreign key fails when
\* the job row is already gone.
InsertReservation(c) ==
    LET j == api[c].job
    IN  /\ api[c].at = "reserve"
        /\ spend' = IF Exists(j)
                    THEN [spend EXCEPT ![j] = [status |-> "reserved", month |-> Month[now],
                                               amount |-> Reservation(api[c].req)]]
                    ELSE spend
        /\ api' = [api EXCEPT ![c] = IdleCall]
        /\ apiLock' = NoCall
        /\ UNCHANGED <<now, recordings, jobs, deleteAcked, apiCrashes, workerVars>>

\* What cancel_job and delete_recording write to a job row.
Cancelled(row) ==
    [row EXCEPT !.cancel = TRUE, !.lease = 0,
                !.status = IF row.status \in Open THEN "cancelled" ELSE row.status]

\* ... and to its reservation.
Released(row) == IF row.status = "reserved" THEN [row EXCEPT !.status = "released"] ELSE row

CancelJob(c, j) ==
    /\ api[c].at = "idle" /\ Unlocked
    /\ Exists(j)
    /\ jobs' = [jobs EXCEPT ![j] = Cancelled(jobs[j])]
    /\ api' = [api EXCEPT ![c] = [IdleCall EXCEPT !.at = "cancel_release", !.job = j]]
    /\ apiLock' = c
    /\ UNCHANGED <<now, recordings, spend, deleteAcked, apiCrashes, workerVars>>

CancelRelease(c) ==
    /\ api[c].at = "cancel_release"
    /\ spend' = [spend EXCEPT ![api[c].job] = Released(spend[api[c].job])]
    /\ api' = [api EXCEPT ![c] = IdleCall]
    /\ apiLock' = NoCall
    /\ UNCHANGED <<now, recordings, jobs, deleteAcked, apiCrashes, workerVars>>

\* delete_recording: the row, its jobs, their reservations, then the answer.
\* (The unlink that follows is in PracticeUploads.)
DeleteRecording(c, r) ==
    /\ api[c].at = "idle" /\ Unlocked
    /\ recordings[r].status # "none"
    /\ recordings' = [recordings EXCEPT ![r] = [status |-> "deleted", expires |-> 0]]
    /\ api' = [api EXCEPT ![c] = [IdleCall EXCEPT !.at = "delete_jobs", !.rec = r]]
    /\ apiLock' = c
    /\ UNCHANGED <<now, jobs, spend, deleteAcked, apiCrashes, workerVars>>

JobsOf(r) == {j \in JobIds : Exists(j) /\ jobs[j].req.recording = r}

DeleteJobs(c) ==
    /\ api[c].at = "delete_jobs"
    /\ jobs' = [j \in JobIds |-> IF j \in JobsOf(api[c].rec) THEN Cancelled(jobs[j]) ELSE jobs[j]]
    /\ api' = [api EXCEPT ![c].at = "delete_release"]
    /\ UNCHANGED <<now, recordings, spend, apiLock, deleteAcked, apiCrashes, workerVars>>

DeleteRelease(c) ==
    /\ api[c].at = "delete_release"
    /\ spend' = [j \in JobIds |-> IF j \in JobsOf(api[c].rec) THEN Released(spend[j]) ELSE spend[j]]
    /\ deleteAcked' = deleteAcked \union {api[c].rec}
    /\ api' = [api EXCEPT ![c] = IdleCall]
    /\ apiLock' = NoCall
    /\ UNCHANGED <<now, recordings, jobs, apiCrashes, workerVars>>

\* The transaction of finalize_upload as the queue sees it: a recording row is
\* written `ready`, whatever was there before (INSERT OR REPLACE).
FinalizeRecording(r) ==
    /\ Unlocked
    /\ recordings' = [recordings EXCEPT ![r] = [status |-> "ready", expires |-> now + AudioTTL]]
    /\ deleteAcked' = deleteAcked \ {r}
    /\ UNCHANGED <<now, jobs, spend, api, apiLock, apiCrashes, workerVars>>

\* The API process dies and restarts: committed statements stay, calls in
\* flight are lost and never answered.
ApiCrash ==
    /\ apiCrashes + workerCrashes < MaxCrashes
    /\ \E c \in Calls : api[c].at # "idle"
    /\ api' = [c \in Calls |-> IdleCall]
    /\ apiLock' = NoCall
    /\ apiCrashes' = apiCrashes + 1
    /\ UNCHANGED <<now, recordings, jobs, spend, deleteAcked, workerVars>>

-----------------------------------------------------------------------------
(* The worker process: worker_once in a loop.                               *)

Goto(w, at) == worker' = [worker EXCEPT ![w].at = at]
Rest(w)     == worker' = [worker EXCEPT ![w] = IdleWorker]

\* Mutants of LeaseExpired: running jobs are never given back to the queue;
\* whatever is past its lease is, finished or not.
LeaseNeverExpires(row) == FALSE
LeaseExpiredAnyStatus(row) == row.status \in Live /\ ~row.cancel /\ row.lease < now

LeaseExpired(row) == row.status = "running" /\ ~row.cancel /\ row.lease < now

Requeued(row) == IF LeaseExpired(row) THEN [row EXCEPT !.status = "queued", !.lease = 0] ELSE row

\* The requeuing UPDATE of claim_job, as the SELECT after it sees the rows.
Requeue == [j \in JobIds |-> Requeued(jobs[j])]

Claimable == {j \in JobIds : Requeue[j].status = "queued" /\ ~Requeue[j].cancel}
Oldest == {j \in Claimable : \A k \in Claimable : jobs[j].created <= jobs[k].created}

\* Mutant of MayAnalyse: the lookup forgets `status = 'ready'`.
MayAnalyseAnyRow(r) == recordings[r].status # "none"

MayAnalyse(r) == recordings[r].status = "ready"

\* claim_job up to the lookup of the recording.  What the API may do between
\* its UPDATE and its two SELECTs (insert, cancel, delete, finalize) has the
\* same effect before or after them.
SelectJob(w) ==
    /\ worker[w].at = "idle"
    /\ jobs' = Requeue
    /\ \E j \in Oldest :
         worker' = [worker EXCEPT ![w] =
            [IdleWorker EXCEPT
                !.at = IF MayAnalyse(jobs[j].req.recording) THEN "take" ELSE "fail_missing",
                !.job = j, !.req = jobs[j].req]]
    /\ UNCHANGED <<now, recordings, spend, calls, workerCrashes, apiVars>>

\* Nothing to do: worker_once cleans up before it sleeps.
NothingQueued(w) ==
    /\ worker[w].at = "idle"
    /\ jobs' = Requeue
    /\ Claimable = {}
    /\ Goto(w, "clean_recordings")
    /\ UNCHANGED <<now, recordings, spend, calls, workerCrashes, apiVars>>

Failed(row) == [row EXCEPT !.status = "failed", !.lease = 0]

\* This UPDATE has no condition on the status it overwrites.
FailMissing(w) ==
    LET j == worker[w].job
    IN  /\ worker[w].at = "fail_missing"
        /\ jobs' = IF Exists(j) THEN [jobs EXCEPT ![j] = Failed(@)] ELSE jobs
        /\ Goto(w, "release_missing")
        /\ UNCHANGED <<now, recordings, spend, calls, workerCrashes, apiVars>>

Release(row) == IF row.status = "none" THEN row ELSE [row EXCEPT !.status = "released"]

ReleaseMissing(w) ==
    /\ worker[w].at = "release_missing"
    /\ spend' = [spend EXCEPT ![worker[w].job] = Release(spend[worker[w].job])]
    /\ worker' = [worker EXCEPT ![w] = [IdleWorker EXCEPT !.at = "clean_recordings"]]
    /\ UNCHANGED <<now, recordings, jobs, calls, workerCrashes, apiVars>>

Leased(row) ==
    IF row.status = "queued"
    THEN [row EXCEPT !.status = "running", !.lease = now + LeaseLen] ELSE row

\* The UPDATE takes the row only if it is still queued; claim_job returns the
\* work whether or not it did.
TakeLease(w) ==
    LET j == worker[w].job
    IN  /\ worker[w].at = "take"
        /\ jobs' = [jobs EXCEPT ![j] = Leased(@)]
        /\ Goto(w, "check")
        /\ UNCHANGED <<now, recordings, spend, calls, workerCrashes, apiVars>>

\* cancellation_requested; without the row the query fails, the process exits
\* and is restarted.
CheckCancelled(w) ==
    LET j == worker[w].job
    IN  /\ worker[w].at = "check"
        /\ worker' = [worker EXCEPT ![w] =
             IF ~Exists(j) THEN IdleWorker
             ELSE IF jobs[j].cancel
                  THEN [worker[w] EXCEPT !.at = "finish", !.outcome = "cancelled_marker"]
                  ELSE [worker[w] EXCEPT !.at = "process"]]
        /\ UNCHANGED <<now, recordings, jobs, spend, calls, workerCrashes, apiVars>>

\* process_job: the file may be unreadable, the measurements alone may be the
\* result, or the provider is asked and answers or fails.
CoachingStage(q) == q.coaching /\ HasApiKey

ProcessJob(w) ==
    LET coaching == CoachingStage(worker[w].req)
        Outcome(o) == worker' = [worker EXCEPT ![w] = [@ EXCEPT !.at = "finish", !.outcome = o]]
    IN  /\ worker[w].at = "process"
        /\ \/ Outcome("failed") /\ calls' = calls
           \/ ~coaching /\ Outcome("analysis") /\ calls' = calls
           \/ /\ coaching
              /\ calls' = [calls EXCEPT ![worker[w].job] = @ + 1]
              /\ \E o \in {"analysis", "failed"} : Outcome(o)
        /\ UNCHANGED <<now, recordings, jobs, spend, workerCrashes, apiVars>>

\* Mutants of FinishedStatus: no look at the cancellation; a failure that goes back
\* to the queue.
FinishedUnasked(row, outcome) == IF outcome = "failed" THEN "failed" ELSE "completed"
FinishedOrRetried(row, outcome) ==
    IF row.cancel THEN "cancelled"
    ELSE IF outcome = "failed" THEN "queued" ELSE "completed"

\* finish_job: the status it is asked to write gives way to a cancellation.
FinishedStatus(row, outcome) ==
    IF row.cancel THEN "cancelled"
    ELSE IF outcome = "failed" THEN "failed" ELSE "completed"

Finished(row, outcome) == [row EXCEPT !.status = FinishedStatus(row, outcome), !.lease = 0]

FinishJob(w) ==
    LET j == worker[w].job
        o == worker[w].outcome
    IN  /\ worker[w].at = "finish"
        /\ jobs' = IF Exists(j) THEN [jobs EXCEPT ![j] = Finished(@, o)] ELSE jobs
        /\ worker' = [worker EXCEPT ![w] = [IdleWorker EXCEPT !.at = "settle", !.job = j]]
        /\ UNCHANGED <<now, recordings, spend, calls, workerCrashes, apiVars>>

Settled(row, status) ==
    IF row.status = "none" THEN row
    ELSE [row EXCEPT !.status = IF status = "completed" THEN "settled" ELSE "released"]

SettleSpend(w) ==
    LET j == worker[w].job
    IN  /\ worker[w].at = "settle"
        /\ spend' = [spend EXCEPT ![j] = Settled(spend[j], jobs[j].status)]
        /\ Rest(w)
        /\ UNCHANGED <<now, recordings, jobs, calls, workerCrashes, apiVars>>

\* cleanup_expired, with the clock it read at its start.
ExpireRecordings(w) ==
    /\ worker[w].at = "clean_recordings"
    /\ recordings' = [r \in Recordings |->
                        IF recordings[r].status = "ready" /\ recordings[r].expires < now
                        THEN [status |-> "expired", expires |-> 0] ELSE recordings[r]]
    /\ worker' = [worker EXCEPT ![w] = [@ EXCEPT !.at = "clean_jobs", !.since = now]]
    /\ UNCHANGED <<now, jobs, spend, calls, workerCrashes, apiVars>>

\* An error of a statement of the pass (a foreign key, a busy database) ends
\* it; worker_once ignores it.
AbandonCleanup(w) ==
    /\ worker[w].at \in {"clean_jobs", "clean_spend", "clean_rows"}
    /\ Rest(w)
    /\ UNCHANGED <<now, recordings, jobs, spend, calls, workerCrashes, apiVars>>

JobExpired(j, t) == Exists(j) /\ jobs[j].created + JobTTL < t

ExpireJobs(w) ==
    /\ worker[w].at = "clean_jobs"
    /\ jobs' = [j \in JobIds |->
                  IF JobExpired(j, worker[w].since) /\ jobs[j].status \in Open
                  THEN Failed(jobs[j]) ELSE jobs[j]]
    /\ Goto(w, "clean_spend")
    /\ UNCHANGED <<now, recordings, spend, calls, workerCrashes, apiVars>>

ReleaseExpired(w) ==
    /\ worker[w].at = "clean_spend"
    /\ spend' = [j \in JobIds |->
                   IF JobExpired(j, worker[w].since) /\ jobs[j].status = "failed"
                   THEN Released(spend[j]) ELSE spend[j]]
    /\ Goto(w, "clean_rows")
    /\ UNCHANGED <<now, recordings, jobs, calls, workerCrashes, apiVars>>

\* The DELETE cascades to the reservation, whatever its status.
Removable(j, t) == JobExpired(j, t) /\ jobs[j].status \in Terminal

DeleteExpired(w) ==
    LET gone == {j \in JobIds : Removable(j, worker[w].since)}
    IN  /\ worker[w].at = "clean_rows"
        /\ jobs' = [j \in JobIds |->
                      IF j \in gone THEN [NoJobRow EXCEPT !.status = "removed"] ELSE jobs[j]]
        /\ spend' = [j \in JobIds |-> IF j \in gone THEN NoSpendRow ELSE spend[j]]
        /\ Rest(w)
        /\ UNCHANGED <<now, recordings, calls, workerCrashes, apiVars>>

\* The worker process dies and its container restarts it.  Bound: not so late
\* that a lease it holds could never expire within MaxTime.
WorkerCrash(w) ==
    /\ apiCrashes + workerCrashes < MaxCrashes
    /\ now + LeaseLen < MaxTime
    /\ worker[w].at # "idle"
    /\ Rest(w)
    /\ workerCrashes' = workerCrashes + 1
    /\ UNCHANGED <<now, recordings, jobs, spend, calls, apiVars>>

Tick ==
    /\ now < MaxTime
    /\ now' = now + 1
    /\ UNCHANGED <<recordings, jobs, spend, apiVars, workerVars>>

-----------------------------------------------------------------------------
ApiStep ==
    \/ \E c \in Calls :
         \/ \E q \in Requests : CheckRecording(c, q)
         \/ AnswerWithoutJob(c)
         \/ InsertJob(c)
         \/ InsertReservation(c)
         \/ \E j \in JobIds : CancelJob(c, j)
         \/ CancelRelease(c)
         \/ \E r \in Recordings : DeleteRecording(c, r)
         \/ DeleteJobs(c)
         \/ DeleteRelease(c)
    \/ \E r \in Recordings : FinalizeRecording(r)

WorkerStep(w) ==
    \/ SelectJob(w)
    \/ NothingQueued(w)
    \/ FailMissing(w)
    \/ ReleaseMissing(w)
    \/ TakeLease(w)
    \/ CheckCancelled(w)
    \/ ProcessJob(w)
    \/ FinishJob(w)
    \/ SettleSpend(w)
    \/ ExpireRecordings(w)
    \/ AbandonCleanup(w)
    \/ ExpireJobs(w)
    \/ ReleaseExpired(w)
    \/ DeleteExpired(w)

Next ==
    \/ ApiStep
    \/ ApiCrash
    \/ \E w \in Workers : WorkerStep(w) \/ WorkerCrash(w)
    \/ Tick

\* The worker loops for ever and every provider request has a timeout; time
\* passes.  Nothing is assumed of the clients or of the API.
Fairness ==
    /\ \A w \in Workers : WF_vars(WorkerStep(w))
    /\ WF_vars(Tick)

SafeSpec == Init /\ [][Next]_vars
Spec == SafeSpec /\ Fairness

-----------------------------------------------------------------------------
(* Properties                                                              *)

\* The row count and the state of a job as a client sees them (JobLifecycle).
ClientState(row) ==
    CASE row.status = "none"    -> "absent"
      [] row.status = "removed" -> "forgotten"
      [] row.status \in Open    -> "open"
      [] OTHER                  -> row.status

Lifecycle == INSTANCE JobLifecycle
    WITH Jobs    <- JobIds,
         state   <- [j \in JobIds |-> ClientState(jobs[j])],
         revoked <- {j \in JobIds : jobs[j].cancel}

\* With one worker the queue keeps the safety part of the promise, whatever the
\* interleaving of its statements with those of the API and whatever crashes.
KeepsLifecycle == Lifecycle!SafeSpec

\* ... and its liveness part: every queued job is completed, failed or cancelled
\* in the end.  claim_job requeues the ones whose worker died, and takes the
\* oldest first.
EveryJobCloses == Lifecycle!EveryJobCloses

\* A job whose cancellation was requested is never published: the cancel flag
\* is looked at by the statement that publishes (finish_job), so a cancel that
\* arrives while the provider is being asked is not lost.
CancelledNeverPublished ==
    [][\A j \in JobIds :
         jobs[j].cancel => ~(jobs[j].status # "completed" /\ jobs'[j].status = "completed")]_vars

\* Once DELETE /recordings/{id} was answered, no analysis of that recording is
\* published until a new upload is finalized under the id: not by a worker that
\* was already running it, not by a request that had checked the recording just
\* before, not after a crash in the middle of the first attempt to delete.
DeletionStopsPublication ==
    [][\A j \in JobIds :
         (jobs[j].status # "completed" /\ jobs'[j].status = "completed")
            => jobs[j].req.recording \notin deleteAcked]_vars

\* Only the death of a worker makes the queue ask the provider twice for one
\* job: failures, cancellations, expiry and replays never do.
RepeatedCallsNeedACrash == \A j \in JobIds : calls[j] <= 1 + workerCrashes

\* What is reserved or settled in a month never exceeds the cap, although
\* reservations are released, settled and made by statements that interleave.
MonthWithinCap == \A m \in Months : Committed(m) <= MonthlyCap
=============================================================================

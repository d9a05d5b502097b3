------------------------- MODULE PracticeJobsProofs -------------------------
(***************************************************************************)
(* Theorems about PracticeJobs, for every number of workers, calls, jobs   *)
(* and crashes and every length of the deadlines: its types; what it never *)
(* publishes, that is a job whose cancellation was requested and a job of  *)
(* a recording whose deletion was answered; one job per idempotency key;   *)
(* and that it implements JobLifecycle.                                    *)
(***************************************************************************)
EXTENDS PracticeJobs, TLAPS

Holding  == {"reserve", "cancel_release", "delete_jobs", "delete_release"}
Deleting == {"delete_jobs", "delete_release"}
Claimed  == {"take", "check", "process", "finish"}
WithJob  == Claimed \union {"settle", "fail_missing", "release_missing"}

\* What the local state of a call refers to.
ApiRefs ==
    \A c \in Calls :
        /\ api[c].at \in {"checked", "reserve"} => api[c].req \in Requests
        /\ api[c].at = "reserve" => Reservation(api[c].req) \in 0..MonthlyCap
        /\ api[c].at \in {"reserve", "cancel_release"} => api[c].job \in JobIds
        /\ api[c].at \in Deleting => api[c].rec \in Recordings

\* What the local state of a worker refers to: a job that was inserted.
WorkerRefs ==
    \A w \in Workers :
        /\ worker[w].at \in WithJob => /\ worker[w].job \in JobIds
                                       /\ jobs[worker[w].job].status # "none"
        /\ worker[w].at \in Claimed => worker[w].req \in Requests

RowsHaveRequests == \A j \in JobIds : Exists(j) => jobs[j].req \in Requests

TypeInv == TypeOK /\ ApiRefs /\ WorkerRefs /\ RowsHaveRequests

USE TimeAssumption, MoneyAssumption, RequestAssumption, CrashAssumption, NullAssumption

LEMMA MonthType == \A t \in Time : Month[t] \in Months
BY DEF Months

LEMMA ReservationType == \A q \in Requests : Reservation(q) \in Nat
BY DEF Reservation

\* The null rows and states, which the proofs below leave unexpanded.
LEMMA NullRows ==
    /\ NoJobRow \in JobRow /\ NoJobRow.status = "none" /\ NoJobRow.req = NoRequest
    /\ ~NoJobRow.cancel
    /\ NoSpendRow \in SpendRow
    /\ IdleCall \in ApiCall /\ IdleCall.at = "idle"
    /\ IdleWorker \in WorkerState /\ IdleWorker.at = "idle"
<1>1. 0 \in Time /\ Month[0] \in Months
  BY DEF Time, Months
<1>2. QED
  BY <1>1 DEF NoJobRow, NoSpendRow, IdleCall, IdleWorker, JobRow, SpendRow, ApiCall, WorkerState

LEMMA TypeInit == Init => TypeInv
<1> SUFFICES ASSUME Init PROVE TypeInv
  OBVIOUS
<1>1. 0 \in Time
  BY DEF Time
<1>2. TypeOK
  BY <1>1, NullRows DEF Init, TypeOK, RecordingRow
<1>3. ApiRefs /\ WorkerRefs /\ RowsHaveRequests
  BY NullRows DEF Init, ApiRefs, WorkerRefs, RowsHaveRequests, Exists, Live, Deleting,
     WithJob, Claimed
<1>4. QED
  BY <1>2, <1>3 DEF TypeInv

-----------------------------------------------------------------------------
(* What each statement writes to a row stays a row.  These lemmas let the    *)
(* proofs about actions treat JobRow and SpendRow as opaque sets.            *)

\* A row that a statement has turned into another one: inserted rows are never
\* absent again, and keep their request while they exist.
Follows(new, old) ==
    /\ new \in JobRow
    /\ old.status # "none" => new.status # "none"
    /\ (old.req \in Requests /\ new.status \in Live) => new.req \in Requests
    /\ old.status \notin Live => new.status \notin Live

LEMMA FailedRow ==
  ASSUME NEW row \in JobRow, row.status \in Live
  PROVE  Follows(Failed(row), row)
BY DEF JobRow, Follows, Live, Failed

LEMMA LeasedRow ==
  ASSUME NEW row \in JobRow, now + LeaseLen \in Nat
  PROVE  Follows(Leased(row), row)
BY DEF JobRow, Follows, Live, Leased

LEMMA FinishedRow ==
  ASSUME NEW row \in JobRow, row.status \in Live, NEW o
  PROVE  Follows(Finished(row, o), row)
<1>1. FinishedStatus(row, o) \in Live
  BY DEF FinishedStatus, Live
<1>2. QED
  BY <1>1 DEF JobRow, Follows, Live, Finished

LEMMA CancelledRow ==
  ASSUME NEW row \in JobRow, row.status \in Live
  PROVE  Follows(Cancelled(row), row) /\ Cancelled(row).cancel
BY DEF JobRow, Follows, Live, Cancelled, Open

LEMMA RequeuedRow ==
  ASSUME NEW row \in JobRow
  PROVE  Follows(Requeued(row), row)
BY DEF JobRow, Follows, Live, Requeued, LeaseExpired

LEMMA RemovedRow ==
  ASSUME NEW row \in JobRow
  PROVE  Follows([NoJobRow EXCEPT !.status = "removed"], row)
BY NullRows DEF JobRow, Follows, Live

LEMMA QueuedRow ==
  ASSUME NEW q \in Requests, NEW t \in Time
  PROVE  LET new == [NoJobRow EXCEPT !.status = "queued", !.req = q, !.created = t]
         IN  new \in JobRow /\ new.status = "queued" /\ new.req = q
BY NullRows DEF JobRow, Live

LEMMA SpendRows ==
  ASSUME NEW row \in SpendRow, NEW s
  PROVE  /\ Released(row) \in SpendRow
         /\ Release(row) \in SpendRow
         /\ Settled(row, s) \in SpendRow
         /\ NoSpendRow \in SpendRow
BY NullRows DEF SpendRow, Released, Release, Settled

-----------------------------------------------------------------------------
(* The typing invariant, one variable at a time.                             *)

\* A step leaves every job row a row, and inserted jobs inserted.
Inserted(new, old) == old.status = "none" /\ new.status = "queued" /\ new.req \in Requests
JobsFollow ==
    /\ jobs' \in [JobIds -> JobRow]
    /\ \A j \in JobIds : Follows(jobs'[j], jobs[j]) \/ Inserted(jobs'[j], jobs[j])

LEMMA JobsStep == TypeInv /\ [Next]_vars => JobsFollow
<1> SUFFICES ASSUME TypeInv, [Next]_vars PROVE JobsFollow
  OBVIOUS
<1> USE DEF TypeInv
<1>1. jobs \in [JobIds -> JobRow] /\ now \in Time /\ now \in Nat
  BY DEF TypeOK, Time
<1>2. \A j \in JobIds : Follows(jobs[j], jobs[j])
  BY <1>1 DEF Follows, RowsHaveRequests, Exists
<1>3. ASSUME jobs' = jobs PROVE JobsFollow
  BY <1>1, <1>2, <1>3 DEF JobsFollow
<1>4. ASSUME NEW c \in Calls, InsertJob(c) PROVE JobsFollow
  <2>1. api[c].req \in Requests
    BY <1>4 DEF InsertJob, ApiRefs
  <2> DEFINE new == [NoJobRow EXCEPT !.status = "queued", !.req = api[c].req, !.created = now]
  <2>2. PICK j \in JobIds : jobs[j].status = "none" /\ jobs' = [jobs EXCEPT ![j] = new]
    BY <1>4 DEF InsertJob
  <2>3. new \in JobRow /\ new.status = "queued" /\ new.req \in Requests
    BY <1>1, <2>1, QueuedRow
  <2> HIDE DEF new
  <2>4. QED
    BY <1>1, <1>2, <2>2, <2>3 DEF JobsFollow, Inserted
<1>5. ASSUME NEW c \in Calls, NEW j \in JobIds, CancelJob(c, j) PROVE JobsFollow
  BY <1>1, <1>2, <1>5, CancelledRow DEF CancelJob, JobsFollow, Exists, Follows
<1>6. ASSUME NEW c \in Calls, DeleteJobs(c) PROVE JobsFollow
  BY <1>1, <1>2, <1>6, CancelledRow DEF DeleteJobs, JobsOf, JobsFollow, Exists, Follows
<1>7. ASSUME NEW w \in Workers, SelectJob(w) \/ NothingQueued(w) PROVE JobsFollow
  <2>1. jobs' = [j \in JobIds |-> Requeued(jobs[j])]
    BY <1>7 DEF SelectJob, NothingQueued, Requeue
  <2>2. \A j \in JobIds : Follows(Requeued(jobs[j]), jobs[j])
    BY <1>1, RequeuedRow
  <2>3. \A j \in JobIds : Requeued(jobs[j]) \in JobRow
    BY <2>2 DEF Follows
  <2>4. QED
    BY <2>1, <2>2, <2>3 DEF JobsFollow
<1>8. ASSUME NEW w \in Workers, FailMissing(w) PROVE JobsFollow
  <2>1. worker[w].job \in JobIds
    BY <1>8 DEF FailMissing, WorkerRefs, WithJob
  <2>2. QED
    BY <1>1, <1>2, <1>8, <2>1, FailedRow DEF FailMissing, JobsFollow, Exists, Follows
<1>9. ASSUME NEW w \in Workers, TakeLease(w) PROVE JobsFollow
  <2>1. worker[w].job \in JobIds /\ now + LeaseLen \in Nat
    BY <1>1, <1>9 DEF TakeLease, WorkerRefs, WithJob, Claimed
  <2>2. QED
    BY <1>1, <1>2, <1>9, <2>1, LeasedRow DEF TakeLease, JobsFollow, Follows
<1>10. ASSUME NEW w \in Workers, FinishJob(w) PROVE JobsFollow
  <2>1. worker[w].job \in JobIds
    BY <1>10 DEF FinishJob, WorkerRefs, WithJob, Claimed
  <2>2. QED
    BY <1>1, <1>2, <1>10, <2>1, FinishedRow DEF FinishJob, JobsFollow, Exists, Follows
<1>11. ASSUME NEW w \in Workers, ExpireJobs(w) PROVE JobsFollow
  BY <1>1, <1>2, <1>11, FailedRow DEF ExpireJobs, JobsFollow, Exists, Follows, JobExpired
<1>12. ASSUME NEW w \in Workers, DeleteExpired(w) PROVE JobsFollow
  BY <1>1, <1>2, <1>12, RemovedRow DEF DeleteExpired, JobsFollow, Follows
<1>13. CASE UNCHANGED vars
  BY <1>3, <1>13 DEF vars
<1>14. CASE ApiCrash \/ Tick
  BY <1>3, <1>14 DEF ApiCrash, Tick
<1>15. CASE ApiStep
  BY <1>3, <1>4, <1>5, <1>6, <1>15 DEF ApiStep, CheckRecording, AnswerWithoutJob,
     InsertReservation, CancelRelease, DeleteRecording, DeleteRelease, FinalizeRecording
<1>16. ASSUME NEW w \in Workers, WorkerStep(w) \/ WorkerCrash(w) PROVE JobsFollow
  BY <1>3, <1>7, <1>8, <1>9, <1>10, <1>11, <1>12, <1>16 DEF WorkerStep, WorkerCrash,
     ReleaseMissing, CheckCancelled, ProcessJob, SettleSpend, ExpireRecordings,
     AbandonCleanup, ReleaseExpired
<1>17. QED
  BY <1>13, <1>14, <1>15, <1>16 DEF Next

LEMMA SpendStep == TypeInv /\ [Next]_vars => spend' \in [JobIds -> SpendRow]
<1> SUFFICES ASSUME TypeInv, [Next]_vars PROVE spend' \in [JobIds -> SpendRow]
  OBVIOUS
<1> USE DEF TypeInv
<1>1. spend \in [JobIds -> SpendRow] /\ jobs \in [JobIds -> JobRow] /\ now \in Time
  BY DEF TypeOK
<1>2. /\ \A j \in JobIds : Released(spend[j]) \in SpendRow /\ Release(spend[j]) \in SpendRow
      /\ \A j \in JobIds : Settled(spend[j], jobs[j].status) \in SpendRow
  BY <1>1, SpendRows
<1>3. ASSUME NEW c \in Calls, InsertReservation(c) PROVE spend' \in [JobIds -> SpendRow]
  <2>1. Reservation(api[c].req) \in 0..MonthlyCap /\ Month[now] \in Months
    BY <1>1, <1>3, MonthType DEF InsertReservation, ApiRefs
  <2>2. [status |-> "reserved", month |-> Month[now], amount |-> Reservation(api[c].req)]
          \in SpendRow
    BY <2>1 DEF SpendRow
  <2>3. QED
    BY <1>1, <1>3, <2>2 DEF InsertReservation
<1>4. ASSUME NEW c \in Calls, CancelRelease(c) PROVE spend' \in [JobIds -> SpendRow]
  BY <1>1, <1>2, <1>4 DEF CancelRelease
<1>5. ASSUME NEW c \in Calls, DeleteRelease(c) PROVE spend' \in [JobIds -> SpendRow]
  BY <1>1, <1>2, <1>5 DEF DeleteRelease
<1>6. ASSUME NEW w \in Workers, ReleaseMissing(w) PROVE spend' \in [JobIds -> SpendRow]
  BY <1>1, <1>2, <1>6 DEF ReleaseMissing
<1>7. ASSUME NEW w \in Workers, SettleSpend(w) PROVE spend' \in [JobIds -> SpendRow]
  <2>1. worker[w].job \in JobIds
    BY <1>7 DEF SettleSpend, WorkerRefs, WithJob
  <2>2. QED
    BY <1>1, <1>2, <1>7, <2>1 DEF SettleSpend
<1>8. ASSUME NEW w \in Workers, ReleaseExpired(w) PROVE spend' \in [JobIds -> SpendRow]
  BY <1>1, <1>2, <1>8 DEF ReleaseExpired
<1>9. ASSUME NEW w \in Workers, DeleteExpired(w) PROVE spend' \in [JobIds -> SpendRow]
  BY <1>1, <1>9, NullRows DEF DeleteExpired
<1>10. CASE UNCHANGED vars \/ ApiCrash \/ Tick
  BY <1>1, <1>10 DEF vars, ApiCrash, Tick
<1>11. CASE ApiStep
  BY <1>1, <1>3, <1>4, <1>5, <1>11 DEF ApiStep, CheckRecording, AnswerWithoutJob, InsertJob,
     CancelJob, DeleteRecording, DeleteJobs, FinalizeRecording
<1>12. ASSUME NEW w \in Workers, WorkerStep(w) \/ WorkerCrash(w)
       PROVE  spend' \in [JobIds -> SpendRow]
  BY <1>1, <1>6, <1>7, <1>8, <1>9, <1>12 DEF WorkerStep, WorkerCrash, SelectJob,
     NothingQueued, FailMissing, TakeLease, CheckCancelled, ProcessJob, FinishJob,
     ExpireRecordings, AbandonCleanup, ExpireJobs
<1>13. QED
  BY <1>10, <1>11, <1>12 DEF Next

LEMMA RecordingsStep == TypeInv /\ [Next]_vars => recordings' \in [Recordings -> RecordingRow]
<1> SUFFICES ASSUME TypeInv, [Next]_vars PROVE recordings' \in [Recordings -> RecordingRow]
  OBVIOUS
<1> USE DEF TypeInv
<1>1. recordings \in [Recordings -> RecordingRow] /\ now + AudioTTL \in Nat
  BY DEF TypeOK, Time
<1>2. /\ [status |-> "ready", expires |-> now + AudioTTL] \in RecordingRow
      /\ \A s \in {"deleted", "expired"} : [status |-> s, expires |-> 0] \in RecordingRow
  BY <1>1 DEF RecordingRow
<1>3. CASE UNCHANGED vars \/ ApiCrash \/ Tick
  BY <1>1, <1>3 DEF vars, ApiCrash, Tick
<1>4. CASE ApiStep
  BY <1>1, <1>2, <1>4 DEF ApiStep, CheckRecording, AnswerWithoutJob, InsertJob, InsertReservation,
     CancelJob, CancelRelease, DeleteRecording, DeleteJobs, DeleteRelease, FinalizeRecording
<1>5. ASSUME NEW w \in Workers, WorkerStep(w) \/ WorkerCrash(w)
      PROVE  recordings' \in [Recordings -> RecordingRow]
  BY <1>1, <1>2, <1>5 DEF WorkerStep, WorkerCrash, SelectJob, NothingQueued, FailMissing,
     ReleaseMissing, TakeLease, CheckCancelled, ProcessJob, FinishJob, SettleSpend,
     ExpireRecordings, AbandonCleanup, ExpireJobs, ReleaseExpired, DeleteExpired
<1>6. QED
  BY <1>3, <1>4, <1>5 DEF Next

LEMMA ApiLocalStep == TypeInv /\ [Next]_vars => api' \in [Calls -> ApiCall] /\ ApiRefs'
<1> SUFFICES ASSUME TypeInv, [Next]_vars PROVE api' \in [Calls -> ApiCall] /\ ApiRefs'
  OBVIOUS
<1> USE DEF TypeInv
<1>1. api \in [Calls -> ApiCall]
  BY DEF TypeOK
<1>2. ASSUME api' = api PROVE api' \in [Calls -> ApiCall] /\ ApiRefs'
  BY <1>1, <1>2 DEF ApiRefs, Reservation
<1>3. ASSUME NEW c \in Calls, api' = [api EXCEPT ![c] = IdleCall]
      PROVE  api' \in [Calls -> ApiCall] /\ ApiRefs'
  BY <1>1, <1>3, NullRows DEF ApiRefs, Reservation, Deleting
<1>4. ASSUME NEW c \in Calls, NEW q \in Requests, CheckRecording(c, q)
      PROVE  api' \in [Calls -> ApiCall] /\ ApiRefs'
  BY <1>1, <1>4, NullRows DEF CheckRecording, ApiRefs, Reservation, Deleting, ApiCall
<1>5. ASSUME NEW c \in Calls, InsertJob(c) PROVE api' \in [Calls -> ApiCall] /\ ApiRefs'
  <2>1. api[c].req \in Requests /\ ~(Reservation(api[c].req) > MonthlyCap)
    BY <1>5 DEF InsertJob, OverCap, ApiRefs
  <2>2. Reservation(api[c].req) \in 0..MonthlyCap
    BY <2>1, ReservationType
  <2>3. PICK j \in JobIds : api' = [api EXCEPT ![c] = [@ EXCEPT !.at = "reserve", !.job = j]]
    BY <1>5 DEF InsertJob
  <2>4. api' \in [Calls -> ApiCall] /\ api'[c].req = api[c].req /\ api'[c].job \in JobIds
        /\ api'[c].at = "reserve" /\ \A d \in Calls : d # c => api'[d] = api[d]
    BY <1>1, <2>3 DEF ApiCall
  <2>5. QED
    BY <2>1, <2>2, <2>4 DEF ApiRefs, Reservation, Deleting
<1>6. ASSUME NEW c \in Calls, NEW j \in JobIds, CancelJob(c, j)
      PROVE  api' \in [Calls -> ApiCall] /\ ApiRefs'
  BY <1>1, <1>6, NullRows DEF CancelJob, ApiRefs, Reservation, Deleting, ApiCall
<1>7. ASSUME NEW c \in Calls, NEW r \in Recordings, DeleteRecording(c, r)
      PROVE  api' \in [Calls -> ApiCall] /\ ApiRefs'
  BY <1>1, <1>7, NullRows DEF DeleteRecording, ApiRefs, Reservation, Deleting, ApiCall
<1>8. ASSUME NEW c \in Calls, DeleteJobs(c) PROVE api' \in [Calls -> ApiCall] /\ ApiRefs'
  BY <1>1, <1>8 DEF DeleteJobs, ApiRefs, Reservation, Deleting, ApiCall
<1>9. CASE ApiCrash
  BY <1>9, NullRows DEF ApiCrash, ApiRefs, Reservation, Deleting
<1>10. CASE ApiStep
  BY <1>2, <1>3, <1>4, <1>5, <1>6, <1>7, <1>8, <1>10 DEF ApiStep, AnswerWithoutJob,
     InsertReservation, CancelRelease, DeleteRelease, FinalizeRecording
<1>11. CASE UNCHANGED vars \/ Tick
  BY <1>2, <1>11 DEF vars, Tick, apiVars
<1>12. ASSUME NEW w \in Workers, WorkerStep(w) \/ WorkerCrash(w) PROVE api' = api
  BY <1>12 DEF WorkerStep, WorkerCrash, apiVars, SelectJob, NothingQueued, FailMissing,
     ReleaseMissing, TakeLease, CheckCancelled, ProcessJob, FinishJob, SettleSpend,
     ExpireRecordings, AbandonCleanup, ExpireJobs, ReleaseExpired, DeleteExpired
<1>13. QED
  BY <1>2, <1>9, <1>10, <1>11, <1>12 DEF Next

LEMMA WorkerLocalStep == TypeInv /\ [Next]_vars => worker' \in [Workers -> WorkerState] /\ WorkerRefs'
<1> DEFINE Goal == worker' \in [Workers -> WorkerState] /\ WorkerRefs'
<1> SUFFICES ASSUME TypeInv, [Next]_vars PROVE Goal
  OBVIOUS
<1> USE DEF TypeInv
<1>1. worker \in [Workers -> WorkerState] /\ jobs \in [JobIds -> JobRow] /\ now \in Time
  BY DEF TypeOK
<1>2. \A j \in JobIds : jobs[j].status # "none" => jobs'[j].status # "none"
  BY JobsStep DEF JobsFollow, Follows, Inserted
<1> HIDE DEF TypeInv
<1>3. WorkerRefs
  BY DEF TypeInv
<1>4. ASSUME worker' = worker PROVE Goal
  BY <1>1, <1>2, <1>3, <1>4 DEF WorkerRefs, WithJob, Claimed
\* A worker that goes on with its job, or drops it.
<1>5. ASSUME NEW w \in Workers, NEW new \in WorkerState,
             worker' = [worker EXCEPT ![w] = new],
             new.at \in WithJob => /\ new.job \in JobIds /\ jobs'[new.job].status # "none"
                                   /\ new.at \in Claimed => new.req \in Requests
      PROVE  Goal
  BY <1>1, <1>2, <1>3, <1>5 DEF WorkerRefs, WithJob, Claimed
<1>6. ASSUME NEW w \in Workers, SelectJob(w) PROVE Goal
  <2>1. PICK j \in Oldest : worker' = [worker EXCEPT ![w] =
            [IdleWorker EXCEPT
                !.at = IF MayAnalyse(jobs[j].req.recording) THEN "take" ELSE "fail_missing",
                !.job = j, !.req = jobs[j].req]]
    BY <1>6 DEF SelectJob
  <2>2. j \in JobIds /\ jobs[j].status \in {"queued", "running"}
    BY <1>1 DEF Oldest, Claimable, Requeue, Requeued, LeaseExpired
  <2>3. jobs[j].req \in Requests
    BY <2>2 DEF TypeInv, RowsHaveRequests, Exists, Live
  <2> DEFINE new == [IdleWorker EXCEPT
                !.at = IF MayAnalyse(jobs[j].req.recording) THEN "take" ELSE "fail_missing",
                !.job = j, !.req = jobs[j].req]
  <2>4. new \in WorkerState /\ new.job = j /\ new.req = jobs[j].req
    BY <2>2, <2>3, NullRows DEF WorkerState
  <2>5. jobs'[j].status # "none"
    BY <1>2, <2>2
  <2> HIDE DEF new
  <2>6. QED
    BY <1>5, <2>1, <2>2, <2>3, <2>4, <2>5 DEF new
<1>7. ASSUME NEW w \in Workers, NEW at \in {"check", "process", "finish", "settle",
                "release_missing", "clean_recordings", "clean_jobs", "clean_spend", "clean_rows"},
             at \in {"check", "process", "finish"} => worker[w].at \in Claimed,
             at \in WithJob => worker[w].at \in WithJob,
             NEW new \in WorkerState, new.at = at,
             new.job = worker[w].job, new.req = worker[w].req,
             worker' = [worker EXCEPT ![w] = new]
      PROVE  Goal
  BY <1>2, <1>3, <1>5, <1>7 DEF WorkerRefs, WithJob, Claimed
<1>8. ASSUME NEW w \in Workers, NEW at \in {"check", "release_missing", "clean_recordings",
                "clean_spend", "clean_rows"},
             at \in {"check", "process", "finish"} => worker[w].at \in Claimed,
             at \in WithJob => worker[w].at \in WithJob, Goto(w, at)
      PROVE  Goal
  <2>1. [worker[w] EXCEPT !.at = at] \in WorkerState
    BY <1>1, <1>8 DEF WorkerState
  <2>2. QED
    BY <1>1, <1>7, <1>8, <2>1 DEF Goto, WorkerState
<1>9. ASSUME NEW w \in Workers, worker' = [worker EXCEPT ![w] = IdleWorker] PROVE Goal
  BY <1>5, <1>9, NullRows DEF WithJob, Claimed
<1>10. ASSUME NEW w \in Workers, NothingQueued(w) \/ FailMissing(w) \/ TakeLease(w)
              \/ ExpireJobs(w) \/ ReleaseExpired(w)
       PROVE  Goal
  BY <1>8, <1>10 DEF NothingQueued, FailMissing, TakeLease, ExpireJobs, ReleaseExpired,
     WithJob, Claimed
<1>11. ASSUME NEW w \in Workers, ReleaseMissing(w) PROVE Goal
  <2>1. [IdleWorker EXCEPT !.at = "clean_recordings"] \in WorkerState
    BY NullRows DEF WorkerState
  <2>2. QED
    BY <1>5, <1>11, <2>1, NullRows DEF ReleaseMissing, WithJob, Claimed, WorkerState
<1>12. ASSUME NEW w \in Workers, CheckCancelled(w) PROVE Goal
  <2>1. /\ [worker[w] EXCEPT !.at = "finish", !.outcome = "cancelled_marker"] \in WorkerState
        /\ [worker[w] EXCEPT !.at = "process"] \in WorkerState
    BY <1>1 DEF WorkerState
  <2>2. worker[w].at = "check"
    BY <1>12 DEF CheckCancelled
  <2>3. CASE worker' = [worker EXCEPT ![w] = IdleWorker]
    BY <1>9, <2>3
  <2>4. CASE worker' = [worker EXCEPT ![w] =
               [worker[w] EXCEPT !.at = "finish", !.outcome = "cancelled_marker"]]
    BY <1>1, <1>7, <2>1, <2>2, <2>4 DEF WithJob, Claimed, WorkerState
  <2>5. CASE worker' = [worker EXCEPT ![w] = [worker[w] EXCEPT !.at = "process"]]
    BY <1>1, <1>7, <2>1, <2>2, <2>5 DEF WithJob, Claimed, WorkerState
  <2>6. QED
    BY <1>12, <2>3, <2>4, <2>5 DEF CheckCancelled
<1>13. ASSUME NEW w \in Workers, ProcessJob(w) PROVE Goal
  <2>1. PICK o \in {"analysis", "failed"} :
          worker' = [worker EXCEPT ![w] = [worker[w] EXCEPT !.at = "finish", !.outcome = o]]
    BY <1>13 DEF ProcessJob
  <2>2. [worker[w] EXCEPT !.at = "finish", !.outcome = o] \in WorkerState
    BY <1>1 DEF WorkerState
  <2>3. worker[w].at = "process"
    BY <1>13 DEF ProcessJob
  <2>4. QED
    BY <1>1, <1>7, <2>1, <2>2, <2>3 DEF WithJob, Claimed, WorkerState
<1>14. ASSUME NEW w \in Workers, FinishJob(w) PROVE Goal
  <2> DEFINE new == [IdleWorker EXCEPT !.at = "settle", !.job = worker[w].job]
  <2>1. /\ worker' = [worker EXCEPT ![w] = new] /\ worker[w].job \in JobIds
        /\ jobs[worker[w].job].status # "none"
    BY <1>3, <1>14 DEF FinishJob, WorkerRefs, WithJob, Claimed
  <2>2. new \in WorkerState /\ new.at = "settle" /\ new.job = worker[w].job
    BY <2>1, NullRows DEF WorkerState
  <2> HIDE DEF new
  <2>3. QED
    BY <1>2, <1>5, <2>1, <2>2 DEF Claimed
<1>15. ASSUME NEW w \in Workers, ExpireRecordings(w) PROVE Goal
  <2>1. [worker[w] EXCEPT !.at = "clean_jobs", !.since = now] \in WorkerState
    BY <1>1 DEF WorkerState
  <2>2. QED
    BY <1>1, <1>7, <1>15, <2>1 DEF ExpireRecordings, WithJob, Claimed, WorkerState
<1>16. CASE UNCHANGED vars \/ ApiCrash \/ Tick
  BY <1>4, <1>16 DEF vars, ApiCrash, Tick, workerVars
<1>17. CASE ApiStep
  BY <1>4, <1>17 DEF ApiStep, workerVars, CheckRecording, AnswerWithoutJob, InsertJob,
     InsertReservation, CancelJob, CancelRelease, DeleteRecording, DeleteJobs, DeleteRelease,
     FinalizeRecording
<1>18. ASSUME NEW w \in Workers, WorkerStep(w) \/ WorkerCrash(w) PROVE Goal
  BY <1>6, <1>9, <1>10, <1>11, <1>12, <1>13, <1>14, <1>15, <1>18 DEF WorkerStep, WorkerCrash,
     SettleSpend, AbandonCleanup, DeleteExpired, Rest
<1>19. QED
  BY <1>16, <1>17, <1>18 DEF Next

LEMMA OthersStep ==
  TypeInv /\ [Next]_vars =>
    /\ now' \in Time /\ apiLock' \in Calls \union {NoCall} /\ calls' \in [JobIds -> Nat]
    /\ deleteAcked' \subseteq Recordings
    /\ apiCrashes' \in 0..MaxCrashes /\ workerCrashes' \in 0..MaxCrashes
<1> SUFFICES ASSUME TypeInv, [Next]_vars
             PROVE  /\ now' \in Time /\ apiLock' \in Calls \union {NoCall}
                    /\ calls' \in [JobIds -> Nat] /\ deleteAcked' \subseteq Recordings
                    /\ apiCrashes' \in 0..MaxCrashes /\ workerCrashes' \in 0..MaxCrashes
  OBVIOUS
<1>1. /\ now \in Time /\ apiLock \in Calls \union {NoCall} /\ calls \in [JobIds -> Nat]
      /\ deleteAcked \subseteq Recordings
      /\ apiCrashes \in 0..MaxCrashes /\ workerCrashes \in 0..MaxCrashes
  BY DEF TypeInv, TypeOK
<1>2. CASE UNCHANGED vars
  BY <1>1, <1>2 DEF vars
<1>3. CASE Tick
  BY <1>1, <1>3 DEF Tick, Time, apiVars, workerVars
<1>4. CASE ApiCrash
  BY <1>1, <1>4 DEF ApiCrash, workerVars
<1>5. CASE ApiStep
  <2>1. \A c \in Calls : api[c].at = "delete_release" => api[c].rec \in Recordings
    BY DEF TypeInv, ApiRefs, Deleting
  <2>2. QED
    BY <1>1, <1>5, <2>1 DEF ApiStep, workerVars, CheckRecording, AnswerWithoutJob, InsertJob,
       InsertReservation, CancelJob, CancelRelease, DeleteRecording, DeleteJobs, DeleteRelease,
       FinalizeRecording
<1>6. ASSUME NEW w \in Workers, WorkerCrash(w)
      PROVE  UNCHANGED <<now, apiVars, calls>> /\ workerCrashes' \in 0..MaxCrashes
  BY <1>1, <1>6 DEF WorkerCrash
<1>7. ASSUME NEW w \in Workers, WorkerStep(w)
      PROVE  UNCHANGED <<now, apiVars, workerCrashes>> /\ calls' \in [JobIds -> Nat]
  <2>1. ASSUME ProcessJob(w) PROVE calls' \in [JobIds -> Nat]
    BY <1>1, <2>1 DEF ProcessJob
  <2>2. QED
    BY <1>1, <1>7, <2>1 DEF WorkerStep, SelectJob, NothingQueued, FailMissing, ReleaseMissing,
       TakeLease, CheckCancelled, ProcessJob, FinishJob, SettleSpend, ExpireRecordings,
       AbandonCleanup, ExpireJobs, ReleaseExpired, DeleteExpired
<1>8. QED
  BY <1>1, <1>2, <1>3, <1>4, <1>5, <1>6, <1>7 DEF Next, apiVars

LEMMA TypeStep == TypeInv /\ [Next]_vars => TypeInv'
<1> SUFFICES ASSUME TypeInv, [Next]_vars PROVE TypeInv'
  OBVIOUS
<1>1. TypeOK'
  BY JobsStep, SpendStep, RecordingsStep, ApiLocalStep, WorkerLocalStep, OthersStep
     DEF TypeOK, JobsFollow
<1>2. RowsHaveRequests'
  BY JobsStep DEF JobsFollow, Follows, Inserted, RowsHaveRequests, Exists, TypeInv
<1>3. QED
  BY <1>1, <1>2, ApiLocalStep, WorkerLocalStep DEF TypeInv

\* TypeOK of PracticeJobs: every table, every call and every worker stay what the
\* schema and the handlers say, and no reservation row exceeds the monthly cap.
THEOREM TypeCorrect == SafeSpec => []TypeOK
<1>1. TypeInv => TypeOK
  BY DEF TypeInv
<1>2. QED
  BY TypeInit, TypeStep, <1>1, PTL DEF SafeSpec

-----------------------------------------------------------------------------
(* What is never published.                                                *)

USE TimeAssumption, MoneyAssumption, RequestAssumption, CrashAssumption, NullAssumption

\* A row that was there before the statement: unless it is gone or revoked now,
\* it was neither before, and it is the same request.
Continues(new, old) ==
    (new.status \in Live /\ ~new.cancel)
        => (old.status \in Live /\ ~old.cancel /\ new.req = old.req)

\* No statement but finish_job's writes `completed`.
Unpublished(new, old) == new.status = "completed" => old.status = "completed"

LEMMA RowsWritten ==
  ASSUME NEW row \in JobRow
  PROVE  /\ Continues(row, row) /\ Unpublished(row, row)
         /\ Continues(Requeued(row), row) /\ Unpublished(Requeued(row), row)
         /\ Continues(Leased(row), row) /\ Unpublished(Leased(row), row)
         /\ Continues(Cancelled(row), row) /\ Unpublished(Cancelled(row), row)
         /\ row.status \in Live => Continues(Failed(row), row) /\ Unpublished(Failed(row), row)
<1>1. Continues(row, row) /\ Unpublished(row, row)
  BY DEF Continues, Unpublished
<1>2. Continues(Requeued(row), row) /\ Unpublished(Requeued(row), row)
  BY DEF JobRow, Continues, Unpublished, Requeued, LeaseExpired, Live
<1>3. Continues(Leased(row), row) /\ Unpublished(Leased(row), row)
  BY DEF JobRow, Continues, Unpublished, Leased, Live
<1>4. Continues(Cancelled(row), row) /\ Unpublished(Cancelled(row), row)
  BY DEF JobRow, Continues, Unpublished, Cancelled, Live, Open
<1>5. row.status \in Live => Continues(Failed(row), row) /\ Unpublished(Failed(row), row)
  BY DEF JobRow, Continues, Unpublished, Failed, Live
<1>6. QED
  BY <1>1, <1>2, <1>3, <1>4, <1>5

LEMMA RowFinished ==
  ASSUME NEW row \in JobRow, NEW o, row.status \in Live
  PROVE  /\ Continues(Finished(row, o), row)
         /\ row.cancel => Finished(row, o).status # "completed"
<1>1. Finished(row, o).cancel = row.cancel /\ Finished(row, o).req = row.req
  BY DEF JobRow, Finished
<1>2. Finished(row, o).status = FinishedStatus(row, o)
  BY DEF JobRow, Finished
<1>3. QED
  BY <1>1, <1>2 DEF Continues, FinishedStatus

LEMMA RowsNew ==
  ASSUME NEW q \in Requests, NEW t \in Time
  PROVE  /\ [NoJobRow EXCEPT !.status = "queued", !.req = q, !.created = t].status = "queued"
         /\ [NoJobRow EXCEPT !.status = "removed"].status = "removed"
BY NullRows DEF JobRow

\* Who may publish: the worker that holds the job, unless it was revoked.
PublishedBy(w, j) ==
    /\ worker[w].at = "finish" /\ worker[w].job = j
    /\ Exists(j) /\ ~jobs[j].cancel

RowsMove ==
    \A j \in JobIds :
        /\ jobs[j].status # "none" => Continues(jobs'[j], jobs[j])
        /\ Unpublished(jobs'[j], jobs[j]) \/ \E w \in Workers : PublishedBy(w, j)

LEMMA RowsStep == TypeInv /\ [Next]_vars => RowsMove
<1> SUFFICES ASSUME TypeInv, [Next]_vars PROVE RowsMove
  OBVIOUS
<1>1. jobs \in [JobIds -> JobRow] /\ now \in Time
  BY DEF TypeInv, TypeOK
<1>2. ASSUME jobs' = jobs PROVE RowsMove
  BY <1>1, <1>2, RowsWritten DEF RowsMove
<1>3. ASSUME NEW c \in Calls, InsertJob(c) PROVE RowsMove
  <2>1. api[c].req \in Requests
    BY <1>3 DEF InsertJob, ApiRefs, TypeInv
  <2> DEFINE new == [NoJobRow EXCEPT !.status = "queued", !.req = api[c].req, !.created = now]
  <2>2. PICK j \in JobIds : jobs[j].status = "none" /\ jobs' = [jobs EXCEPT ![j] = new]
    BY <1>3 DEF InsertJob
  <2>3. new.status = "queued"
    BY <1>1, <2>1, RowsNew
  <2> HIDE DEF new
  <2>4. QED
    BY <1>1, <2>2, <2>3, RowsWritten DEF RowsMove, Unpublished
<1>4. ASSUME NEW c \in Calls, NEW j \in JobIds, CancelJob(c, j) PROVE RowsMove
  BY <1>1, <1>4, RowsWritten DEF CancelJob, RowsMove
<1>5. ASSUME NEW c \in Calls, DeleteJobs(c) PROVE RowsMove
  BY <1>1, <1>5, RowsWritten DEF DeleteJobs, RowsMove
<1>6. ASSUME NEW w \in Workers, SelectJob(w) \/ NothingQueued(w) PROVE RowsMove
  BY <1>1, <1>6, RowsWritten DEF SelectJob, NothingQueued, Requeue, RowsMove
<1>7. ASSUME NEW w \in Workers, FailMissing(w) PROVE RowsMove
  BY <1>1, <1>7, RowsWritten DEF FailMissing, RowsMove, Exists
<1>8. ASSUME NEW w \in Workers, TakeLease(w) PROVE RowsMove
  BY <1>1, <1>8, RowsWritten DEF TakeLease, RowsMove
<1>9. ASSUME NEW w \in Workers, FinishJob(w) PROVE RowsMove
  <2>1. ASSUME NEW j \in JobIds, j = worker[w].job, Exists(j)
        PROVE  /\ Continues(jobs'[j], jobs[j])
               /\ Unpublished(jobs'[j], jobs[j]) \/ PublishedBy(w, j)
    <3>1. jobs'[j] = Finished(jobs[j], worker[w].outcome)
      BY <1>1, <1>9, <2>1 DEF FinishJob
    <3>2. QED
      BY <1>1, <1>9, <2>1, <3>1, RowFinished DEF PublishedBy, FinishJob, Exists, Unpublished
  <2>2. \A j \in JobIds : j # worker[w].job \/ ~Exists(j) => jobs'[j] = jobs[j]
    BY <1>1, <1>9 DEF FinishJob
  <2>3. QED
    BY <1>1, <2>1, <2>2, RowsWritten DEF RowsMove
<1>10. ASSUME NEW w \in Workers, ExpireJobs(w) PROVE RowsMove
  BY <1>1, <1>10, RowsWritten DEF ExpireJobs, RowsMove, JobExpired, Exists
<1>11. ASSUME NEW w \in Workers, DeleteExpired(w) PROVE RowsMove
  <2> DEFINE gone == [NoJobRow EXCEPT !.status = "removed"]
  <2>1. gone.status = "removed"
    BY NullRows DEF JobRow
  <2> HIDE DEF gone
  <2>2. \A j \in JobIds : jobs'[j] \in {gone, jobs[j]}
    BY <1>11 DEF DeleteExpired, gone
  <2>3. QED
    BY <1>1, <2>1, <2>2, RowsWritten DEF RowsMove, Continues, Unpublished, Live
<1>12. CASE UNCHANGED vars \/ ApiCrash \/ Tick
  BY <1>2, <1>12 DEF vars, ApiCrash, Tick
<1>13. CASE ApiStep
  BY <1>2, <1>3, <1>4, <1>5, <1>13 DEF ApiStep, CheckRecording, AnswerWithoutJob,
     InsertReservation, CancelRelease, DeleteRecording, DeleteRelease, FinalizeRecording
<1>14. ASSUME NEW w \in Workers, WorkerStep(w) \/ WorkerCrash(w) PROVE RowsMove
  BY <1>2, <1>6, <1>7, <1>8, <1>9, <1>10, <1>11, <1>14 DEF WorkerStep, WorkerCrash,
     ReleaseMissing, CheckCancelled, ProcessJob, SettleSpend, ExpireRecordings,
     AbandonCleanup, ReleaseExpired
<1>15. QED
  BY <1>12, <1>13, <1>14 DEF Next

\* CancelledNeverPublished of PracticeJobs: whatever the number of workers, a
\* cancellation that arrives before the statement that publishes is respected.
THEOREM CancellationRespected == SafeSpec => CancelledNeverPublished
<1>1. ASSUME TypeInv, [Next]_vars
      PROVE  \A j \in JobIds :
               jobs[j].cancel => ~(jobs[j].status # "completed" /\ jobs'[j].status = "completed")
  BY <1>1, RowsStep DEF RowsMove, Unpublished, PublishedBy
<1>2. QED
  BY TypeInit, TypeStep, <1>1, PTL DEF SafeSpec, CancelledNeverPublished

-----------------------------------------------------------------------------
(* Deletion.  The invariant says how a DELETE in progress, or answered, is   *)
(* visible to the worker: the mutex keeps the tombstone of a call in         *)
(* progress, an answered one keeps its tombstone until the next finalize,    *)
(* and a worker that still holds a job which nobody revoked holds one whose  *)
(* recording was not deleted.                                                *)

MutexHeld == \A c \in Calls : api[c].at \in Holding => apiLock = c

TombstoneInPlace ==
    /\ \A c \in Calls : api[c].at \in Deleting => recordings[api[c].rec].status = "deleted"
    /\ \A r \in deleteAcked : recordings[r].status = "deleted"

\* No DELETE of r was answered or is about to be.
Undeleted(r) ==
    /\ r \notin deleteAcked
    /\ \A c \in Calls : api[c].at = "delete_release" => api[c].rec # r

ClaimsUndeleted ==
    \A w \in Workers :
        LET j == worker[w].job
        IN  (worker[w].at \in Claimed /\ Exists(j) /\ ~jobs[j].cancel)
               => Undeleted(jobs[j].req.recording)

DeletionInv == TypeInv /\ MutexHeld /\ TombstoneInPlace /\ ClaimsUndeleted

LEMMA DeletionInit == Init => DeletionInv
<1>1. ASSUME Init PROVE MutexHeld /\ TombstoneInPlace /\ ClaimsUndeleted
  BY <1>1, NullRows DEF Init, MutexHeld, TombstoneInPlace, ClaimsUndeleted, Holding, Deleting,
     Claimed
<1>2. QED
  BY <1>1, TypeInit DEF DeletionInv

\* The calls, the mutex, the tombstones: what the API side does to them.
LEMMA TombstoneStep == DeletionInv /\ [Next]_vars => MutexHeld' /\ TombstoneInPlace'
<1> SUFFICES ASSUME DeletionInv, [Next]_vars PROVE MutexHeld' /\ TombstoneInPlace'
  OBVIOUS
<1>1. /\ api \in [Calls -> ApiCall] /\ recordings \in [Recordings -> RecordingRow]
      /\ deleteAcked \subseteq Recordings
      /\ MutexHeld /\ TombstoneInPlace
      /\ \A c \in Calls : api[c].at \in Deleting => api[c].rec \in Recordings
      /\ NoCall \notin Calls
  BY DEF DeletionInv, TypeInv, TypeOK, ApiRefs
<1>2. ASSUME UNCHANGED <<api, apiLock, deleteAcked, recordings>>
      PROVE  MutexHeld' /\ TombstoneInPlace'
  BY <1>1, <1>2 DEF MutexHeld, TombstoneInPlace
<1>3. ASSUME NEW c \in Calls, NEW q \in Requests, CheckRecording(c, q)
      PROVE  MutexHeld' /\ TombstoneInPlace'
  <2> DEFINE new == [IdleCall EXCEPT !.at = "checked", !.req = q]
  <2>1. new.at = "checked"
    BY NullRows DEF ApiCall
  <2> HIDE DEF new
  <2>2. api' = [api EXCEPT ![c] = new] /\ UNCHANGED <<apiLock, deleteAcked, recordings>>
    BY <1>3 DEF CheckRecording, new
  <2>3. QED
    BY <1>1, <2>1, <2>2 DEF MutexHeld, TombstoneInPlace, Holding, Deleting
<1>4. ASSUME NEW c \in Calls,
             AnswerWithoutJob(c) \/ InsertReservation(c) \/ CancelRelease(c)
      PROVE  MutexHeld' /\ TombstoneInPlace'
  <2>1. /\ api' = [api EXCEPT ![c] = IdleCall] /\ UNCHANGED <<deleteAcked, recordings>>
        /\ UNCHANGED apiLock \/ apiLock = c
    BY <1>1, <1>4 DEF AnswerWithoutJob, InsertReservation, CancelRelease, MutexHeld, Holding
  <2>2. QED
    BY <1>1, <2>1, NullRows DEF MutexHeld, TombstoneInPlace, Holding, Deleting
<1>5. ASSUME NEW c \in Calls, InsertJob(c) PROVE MutexHeld' /\ TombstoneInPlace'
  <2>1. /\ \E j \in JobIds : api' = [api EXCEPT ![c] = [@ EXCEPT !.at = "reserve", !.job = j]]
        /\ UNCHANGED <<deleteAcked, recordings>> /\ apiLock = NoCall /\ apiLock' = c
    BY <1>5 DEF InsertJob, Unlocked
  <2>2. api'[c].at = "reserve" /\ \A d \in Calls : d # c => api'[d] = api[d]
    BY <1>1, <2>1 DEF ApiCall
  <2>3. QED
    BY <1>1, <2>1, <2>2 DEF MutexHeld, TombstoneInPlace, Holding, Deleting
<1>6. ASSUME NEW c \in Calls, NEW j \in JobIds, CancelJob(c, j)
      PROVE  MutexHeld' /\ TombstoneInPlace'
  <2> DEFINE new == [IdleCall EXCEPT !.at = "cancel_release", !.job = j]
  <2>1. new.at = "cancel_release"
    BY NullRows DEF ApiCall
  <2> HIDE DEF new
  <2>2. /\ api' = [api EXCEPT ![c] = new] /\ UNCHANGED <<deleteAcked, recordings>>
        /\ apiLock = NoCall /\ apiLock' = c
    BY <1>6 DEF CancelJob, Unlocked, new
  <2>3. QED
    BY <1>1, <2>1, <2>2 DEF MutexHeld, TombstoneInPlace, Holding, Deleting
<1>7. ASSUME NEW c \in Calls, NEW r \in Recordings, DeleteRecording(c, r)
      PROVE  MutexHeld' /\ TombstoneInPlace'
  <2> DEFINE new == [IdleCall EXCEPT !.at = "delete_jobs", !.rec = r]
  <2>1. new.at = "delete_jobs" /\ new.rec = r
    BY NullRows DEF ApiCall
  <2> HIDE DEF new
  <2>2. /\ api' = [api EXCEPT ![c] = new] /\ UNCHANGED deleteAcked
        /\ recordings' = [recordings EXCEPT ![r] = [status |-> "deleted", expires |-> 0]]
        /\ apiLock = NoCall /\ apiLock' = c
    BY <1>7 DEF DeleteRecording, Unlocked, new
  <2>3. QED
    BY <1>1, <2>1, <2>2 DEF MutexHeld, TombstoneInPlace, Holding, Deleting
<1>8. ASSUME NEW c \in Calls, DeleteJobs(c) PROVE MutexHeld' /\ TombstoneInPlace'
  <2>1. /\ \A d \in Calls : d # c => api'[d] = api[d]
        /\ api'[c].at = "delete_release" /\ api'[c].rec = api[c].rec
        /\ api[c].at = "delete_jobs"
        /\ UNCHANGED <<apiLock, deleteAcked, recordings>>
    BY <1>1, <1>8 DEF DeleteJobs, ApiCall
  <2>2. QED
    BY <1>1, <2>1 DEF MutexHeld, TombstoneInPlace, Holding, Deleting
<1>9. ASSUME NEW c \in Calls, DeleteRelease(c) PROVE MutexHeld' /\ TombstoneInPlace'
  <2>1. /\ api' = [api EXCEPT ![c] = IdleCall] /\ UNCHANGED recordings
        /\ deleteAcked' = deleteAcked \union {api[c].rec}
        /\ api[c].at = "delete_release" /\ apiLock = c
    BY <1>1, <1>9 DEF DeleteRelease, MutexHeld, Holding
  <2>2. QED
    BY <1>1, <2>1, NullRows DEF MutexHeld, TombstoneInPlace, Holding, Deleting
<1>10. ASSUME NEW r \in Recordings, FinalizeRecording(r)
       PROVE  MutexHeld' /\ TombstoneInPlace'
  BY <1>1, <1>10 DEF FinalizeRecording, Unlocked, MutexHeld, TombstoneInPlace, Holding, Deleting
<1>11. CASE ApiCrash
  BY <1>1, <1>11, NullRows DEF ApiCrash, MutexHeld, TombstoneInPlace, Holding, Deleting
<1>12. ASSUME NEW w \in Workers, ExpireRecordings(w) PROVE MutexHeld' /\ TombstoneInPlace'
  BY <1>1, <1>12 DEF ExpireRecordings, apiVars, MutexHeld, TombstoneInPlace
<1>13. CASE UNCHANGED vars \/ Tick
  BY <1>2, <1>13 DEF vars, Tick, apiVars
<1>14. CASE ApiStep
  BY <1>3, <1>4, <1>5, <1>6, <1>7, <1>8, <1>9, <1>10, <1>14 DEF ApiStep
<1>15. ASSUME NEW w \in Workers, WorkerStep(w) \/ WorkerCrash(w)
       PROVE  MutexHeld' /\ TombstoneInPlace'
  BY <1>2, <1>12, <1>15 DEF WorkerStep, WorkerCrash, apiVars, SelectJob, NothingQueued,
     FailMissing, ReleaseMissing, TakeLease, CheckCancelled, ProcessJob, FinishJob,
     SettleSpend, AbandonCleanup, ExpireJobs, ReleaseExpired, DeleteExpired
<1>16. QED
  BY <1>11, <1>13, <1>14, <1>15 DEF Next

\* A recording becomes deleted for the workers when the jobs of it are revoked.
LEMMA UndeletedStep ==
  ASSUME DeletionInv, [Next]_vars, NEW r, Undeleted(r), ~Undeleted(r)'
  PROVE  \E c \in Calls : DeleteJobs(c) /\ api[c].rec = r
<1>1. api \in [Calls -> ApiCall]
  BY DEF DeletionInv, TypeInv, TypeOK
<1>2. ASSUME UNCHANGED <<api, deleteAcked>> PROVE FALSE
  BY <1>2 DEF Undeleted
<1>3. ASSUME NEW c \in Calls, api'[c].at # "delete_release",
             \A d \in Calls : d # c => api'[d] = api[d], UNCHANGED deleteAcked
      PROVE  FALSE
  BY <1>3 DEF Undeleted
<1>4. ASSUME NEW c \in Calls, NEW q \in Requests, CheckRecording(c, q) PROVE FALSE
  <2>1. [IdleCall EXCEPT !.at = "checked", !.req = q].at = "checked"
    BY NullRows DEF ApiCall
  <2>2. QED
    BY <1>1, <1>3, <1>4, <2>1 DEF CheckRecording
<1>5. ASSUME NEW c \in Calls,
             AnswerWithoutJob(c) \/ InsertReservation(c) \/ CancelRelease(c)
      PROVE  FALSE
  BY <1>1, <1>3, <1>5, NullRows DEF AnswerWithoutJob, InsertReservation, CancelRelease
<1>6. ASSUME NEW c \in Calls, InsertJob(c) PROVE FALSE
  <2>1. /\ \E j \in JobIds : api' = [api EXCEPT ![c] = [@ EXCEPT !.at = "reserve", !.job = j]]
        /\ UNCHANGED deleteAcked
    BY <1>6 DEF InsertJob
  <2>2. api'[c].at = "reserve" /\ \A d \in Calls : d # c => api'[d] = api[d]
    BY <1>1, <2>1 DEF ApiCall
  <2>3. QED
    BY <1>3, <2>1, <2>2
<1>7. ASSUME NEW c \in Calls, NEW j \in JobIds, CancelJob(c, j) PROVE FALSE
  <2>1. [IdleCall EXCEPT !.at = "cancel_release", !.job = j].at = "cancel_release"
    BY NullRows DEF ApiCall
  <2>2. QED
    BY <1>1, <1>3, <1>7, <2>1 DEF CancelJob
<1>8. ASSUME NEW c \in Calls, NEW x \in Recordings, DeleteRecording(c, x) PROVE FALSE
  <2>1. [IdleCall EXCEPT !.at = "delete_jobs", !.rec = x].at = "delete_jobs"
    BY NullRows DEF ApiCall
  <2>2. QED
    BY <1>1, <1>3, <1>8, <2>1 DEF DeleteRecording
<1>9. ASSUME NEW c \in Calls, DeleteJobs(c) PROVE api[c].rec = r
  <2>1. /\ \A d \in Calls : d # c => api'[d] = api[d]
        /\ api'[c].rec = api[c].rec /\ UNCHANGED deleteAcked
    BY <1>1, <1>9 DEF DeleteJobs, ApiCall
  <2>2. QED
    BY <2>1 DEF Undeleted
<1>10. ASSUME NEW c \in Calls, DeleteRelease(c) PROVE FALSE
  <2>1. /\ \A d \in Calls : api'[d] = api[d] \/ api'[d] = IdleCall
        /\ api[c].at = "delete_release" /\ deleteAcked' = deleteAcked \union {api[c].rec}
    BY <1>1, <1>10 DEF DeleteRelease
  <2>2. QED
    BY <2>1, NullRows DEF Undeleted
<1>11. ASSUME NEW x \in Recordings, FinalizeRecording(x) PROVE FALSE
  BY <1>11 DEF FinalizeRecording, Undeleted
<1>12. CASE ApiCrash
  BY <1>12, NullRows DEF ApiCrash, Undeleted
<1>13. CASE UNCHANGED vars \/ Tick
  BY <1>2, <1>13 DEF vars, Tick, apiVars
<1>14. CASE ApiStep
  BY <1>4, <1>5, <1>6, <1>7, <1>8, <1>9, <1>10, <1>11, <1>14 DEF ApiStep
<1>15. ASSUME NEW w \in Workers, WorkerStep(w) \/ WorkerCrash(w) PROVE FALSE
  BY <1>2, <1>15 DEF WorkerStep, WorkerCrash, apiVars, SelectJob, NothingQueued,
     FailMissing, ReleaseMissing, TakeLease, CheckCancelled, ProcessJob, FinishJob,
     SettleSpend, ExpireRecordings, AbandonCleanup, ExpireJobs, ReleaseExpired, DeleteExpired
<1>16. QED
  BY <1>12, <1>13, <1>14, <1>15 DEF Next

\* A worker holds the job it held, or selects one whose recording is ready.
Selected(w) ==
    /\ UNCHANGED <<api, deleteAcked, recordings>>
    /\ \E j \in JobIds :
         /\ worker'[w].job = j /\ jobs[j].status # "none"
         /\ MayAnalyse(jobs[j].req.recording)

LEMMA ClaimStep ==
  ASSUME DeletionInv, [Next]_vars, NEW w \in Workers, worker'[w].at \in Claimed
  PROVE  \/ worker[w].at \in Claimed /\ worker'[w].job = worker[w].job
         \/ Selected(w)
<1> DEFINE Held == worker[w].at \in Claimed /\ worker'[w].job = worker[w].job
<1> SUFFICES Held \/ Selected(w)
  OBVIOUS
<1>1. worker \in [Workers -> WorkerState] /\ jobs \in [JobIds -> JobRow]
  BY DEF DeletionInv, TypeInv, TypeOK
<1>2. ASSUME worker'[w] = worker[w] PROVE Held
  BY <1>2
<1>3. ASSUME NEW v \in Workers, SelectJob(v) PROVE Held \/ Selected(w)
  <2>1. CASE v # w
    BY <1>1, <1>2, <1>3, <2>1 DEF SelectJob
  <2>2. CASE v = w
    <3> DEFINE at(j) == IF MayAnalyse(jobs[j].req.recording) THEN "take" ELSE "fail_missing"
               new(j) == [IdleWorker EXCEPT !.at = at(j), !.job = j, !.req = jobs[j].req]
    <3>1. \A j \in JobIds : new(j).at = at(j) /\ new(j).job = j
      BY NullRows DEF WorkerState
    <3> HIDE DEF new
    <3>2. PICK j \in JobIds : j \in Claimable /\ worker' = [worker EXCEPT ![w] = new(j)]
      BY <1>3, <2>2 DEF SelectJob, Oldest, Claimable, new
    <3>3. jobs[j].status # "none"
      BY <3>2 DEF Claimable, Requeue, Requeued, LeaseExpired
    <3>4. MayAnalyse(jobs[j].req.recording)
      BY <1>1, <3>1, <3>2 DEF Claimed
    <3>5. QED
      BY <1>1, <1>3, <3>1, <3>2, <3>3, <3>4 DEF Selected, SelectJob, apiVars
  <2>3. QED
    BY <2>1, <2>2
<1>4. ASSUME NEW v \in Workers, v # w, WorkerStep(v) \/ WorkerCrash(v) PROVE Held
  BY <1>1, <1>2, <1>4 DEF WorkerStep, WorkerCrash, SelectJob, NothingQueued, FailMissing,
     ReleaseMissing, TakeLease, CheckCancelled, ProcessJob, FinishJob, SettleSpend,
     ExpireRecordings, AbandonCleanup, ExpireJobs, ReleaseExpired, DeleteExpired, Goto, Rest
<1>5. ASSUME TakeLease(w) PROVE Held
  BY <1>1, <1>5 DEF TakeLease, Goto, Claimed, WorkerState
<1>6. ASSUME CheckCancelled(w) PROVE Held
  <2> DEFINE marker == [worker[w] EXCEPT !.at = "finish", !.outcome = "cancelled_marker"]
             process == [worker[w] EXCEPT !.at = "process"]
  <2>1. marker.job = worker[w].job /\ process.job = worker[w].job
    BY <1>1 DEF WorkerState
  <2> HIDE DEF marker, process
  <2>2. worker[w].at = "check" /\ worker'[w] \in {IdleWorker, marker, process}
    BY <1>1, <1>6 DEF CheckCancelled, marker, process
  <2>3. QED
    BY <2>1, <2>2, NullRows DEF Claimed
<1>7. ASSUME ProcessJob(w) PROVE Held
  <2>1. worker[w].at = "process"
    BY <1>7 DEF ProcessJob
  <2>2. PICK o : worker' = [worker EXCEPT ![w] = [@ EXCEPT !.at = "finish", !.outcome = o]]
    BY <1>7 DEF ProcessJob
  <2>3. QED
    BY <1>1, <2>1, <2>2 DEF Claimed, WorkerState
<1>8. ASSUME \/ NothingQueued(w) \/ FailMissing(w) \/ ExpireRecordings(w) \/ ExpireJobs(w)
             \/ ReleaseExpired(w)
      PROVE  FALSE
  <2>1. worker'[w].at \in {"clean_recordings", "release_missing", "clean_jobs", "clean_spend",
                            "clean_rows"}
    BY <1>1, <1>8 DEF NothingQueued, FailMissing, ExpireRecordings, ExpireJobs, ReleaseExpired,
       Goto, WorkerState
  <2>2. QED
    BY <2>1 DEF Claimed
<1>9. ASSUME ReleaseMissing(w) \/ FinishJob(w) PROVE FALSE
  <2> DEFINE cleaning  == [IdleWorker EXCEPT !.at = "clean_recordings"]
             settle(j) == [IdleWorker EXCEPT !.at = "settle", !.job = j]
  <2>1. cleaning.at = "clean_recordings" /\ \A j : settle(j).at = "settle"
    BY NullRows DEF WorkerState
  <2> HIDE DEF cleaning, settle
  <2>2. \/ worker' = [worker EXCEPT ![w] = cleaning]
        \/ worker' = [worker EXCEPT ![w] = settle(worker[w].job)]
    BY <1>9 DEF ReleaseMissing, FinishJob, cleaning, settle
  <2>3. QED
    BY <1>1, <2>1, <2>2 DEF Claimed
<1>10. ASSUME SettleSpend(w) \/ AbandonCleanup(w) \/ DeleteExpired(w) \/ WorkerCrash(w)
       PROVE  FALSE
  <2>1. worker'[w] = IdleWorker
    BY <1>1, <1>10 DEF SettleSpend, AbandonCleanup, DeleteExpired, WorkerCrash, Rest
  <2>2. QED
    BY <2>1, NullRows DEF Claimed
<1>11. CASE UNCHANGED vars \/ ApiCrash \/ Tick \/ ApiStep
  BY <1>2, <1>11 DEF vars, ApiCrash, Tick, workerVars, ApiStep, CheckRecording, AnswerWithoutJob,
     InsertJob, InsertReservation, CancelJob, CancelRelease, DeleteRecording, DeleteJobs,
     DeleteRelease, FinalizeRecording
<1>12. QED
  BY <1>3, <1>4, <1>5, <1>6, <1>7, <1>8, <1>9, <1>10, <1>11 DEF Next, WorkerStep

LEMMA DeletionStep == DeletionInv /\ [Next]_vars => DeletionInv'
<1> SUFFICES ASSUME DeletionInv, [Next]_vars PROVE ClaimsUndeleted'
  BY TypeStep, TombstoneStep DEF DeletionInv
<1> SUFFICES ASSUME NEW w \in Workers, worker'[w].at \in Claimed,
                    NEW j, j = worker'[w].job, Exists(j)', ~jobs'[j].cancel,
                    NEW r, r = jobs'[j].req.recording
             PROVE  Undeleted(r)'
  BY DEF ClaimsUndeleted, Undeleted
<1>1. j \in JobIds /\ jobs[j].status # "none"
  <2>1. CASE worker[w].at \in Claimed /\ worker'[w].job = worker[w].job
    BY <2>1 DEF DeletionInv, TypeInv, WorkerRefs, WithJob
  <2>2. CASE Selected(w)
    BY <2>2 DEF Selected
  <2>3. QED
    BY <2>1, <2>2, ClaimStep
<1>2. Exists(j) /\ ~jobs[j].cancel /\ jobs[j].req.recording = r
  <2>1. Continues(jobs'[j], jobs[j])
    BY <1>1, RowsStep DEF RowsMove, DeletionInv
  <2>2. QED
    BY <2>1 DEF Continues, Exists
<1>3. CASE worker[w].at \in Claimed /\ worker'[w].job = worker[w].job
  <2>1. Undeleted(r)
    BY <1>2, <1>3 DEF DeletionInv, ClaimsUndeleted
  <2>2. ASSUME NEW c \in Calls, DeleteJobs(c), api[c].rec = r PROVE FALSE
    <3>1. jobs'[j] = Cancelled(jobs[j]) /\ jobs[j] \in JobRow
      BY <1>1, <1>2, <2>2 DEF DeleteJobs, JobsOf, DeletionInv, TypeInv, TypeOK
    <3>2. QED
      BY <1>2, <3>1, CancelledRow DEF Exists
  <2>3. QED
    BY <2>1, <2>2, UndeletedStep
<1>4. CASE Selected(w)
  <2>1. recordings[r].status = "ready"
    BY <1>2, <1>4 DEF Selected, MayAnalyse
  <2>2. Undeleted(r)
    BY <2>1 DEF DeletionInv, TombstoneInPlace, Undeleted, Deleting
  <2>3. QED
    BY <1>4, <2>2 DEF Selected, Undeleted
<1>5. QED
  BY <1>3, <1>4, ClaimStep

\* DeletionStopsPublication of PracticeJobs: a deletion that was answered stops
\* every publication of the recording, for any number of workers.
THEOREM DeletionRespected == SafeSpec => DeletionStopsPublication
<1>1. ASSUME DeletionInv, [Next]_vars
      PROVE  \A j \in JobIds :
               (jobs[j].status # "completed" /\ jobs'[j].status = "completed")
                  => jobs[j].req.recording \notin deleteAcked
  BY <1>1, RowsStep DEF RowsMove, Unpublished, PublishedBy, DeletionInv, ClaimsUndeleted,
     Claimed, Undeleted
<1>2. QED
  BY DeletionInit, DeletionStep, <1>1, PTL DEF SafeSpec, DeletionStopsPublication

(***************************************************************************)
(* That the queue keeps the promise of JobLifecycle; with it, that an      *)
(* idempotency key never has two jobs and that only the death of the       *)
(* worker repeats a provider request.  The compose file starts one worker: *)
(* what rests on that says so (OneWorker).                                 *)
(***************************************************************************)

NewRow(q) == [NoJobRow EXCEPT !.status = "queued", !.req = q, !.created = now]
GoneRow   == [NoJobRow EXCEPT !.status = "removed"]

LEMMA ConstantRows ==
  ASSUME NEW q \in Requests, now \in Time
  PROVE  /\ NewRow(q).status = "queued" /\ ~NewRow(q).cancel /\ NewRow(q).req = q
         /\ GoneRow.status = "removed" /\ ~GoneRow.cancel
BY NullRows DEF JobRow, NewRow, GoneRow

\* What one statement may do to one row, and who executes it.
RowChange(j) ==
    \/ jobs'[j] \in {jobs[j], Requeued(jobs[j]), Leased(jobs[j])}
    \/ Exists(j) /\ jobs'[j] = Cancelled(jobs[j])
    \/ \E q \in Requests :
         /\ jobs[j].status = "none" /\ WithKey(q) = {} /\ jobs'[j] = NewRow(q)
         /\ \A k \in JobIds : k # j => jobs'[k] = jobs[k]
    \/ jobs[j].status \in Open /\ jobs'[j] = Failed(jobs[j]) /\ \E w \in Workers : ExpireJobs(w)
    \/ jobs[j].status \in Terminal /\ jobs'[j] = GoneRow
    \/ \E w \in Workers :
         /\ Exists(j) /\ worker[w].job = j
         /\ \/ FailMissing(w) /\ jobs'[j] = Failed(jobs[j])
            \/ FinishJob(w) /\ jobs'[j] = Finished(jobs[j], worker[w].outcome)

LEMMA RowChanges == TypeInv /\ [Next]_vars => \A j \in JobIds : RowChange(j)
<1> SUFFICES ASSUME TypeInv, [Next]_vars, NEW j \in JobIds PROVE RowChange(j)
  OBVIOUS
<1>1. jobs \in [JobIds -> JobRow]
  BY DEF TypeInv, TypeOK
<1>2. ASSUME jobs' = jobs PROVE RowChange(j)
  BY <1>2 DEF RowChange
<1>3. ASSUME NEW c \in Calls, InsertJob(c) PROVE RowChange(j)
  <2>1. api[c].req \in Requests
    BY <1>3 DEF InsertJob, ApiRefs, TypeInv
  <2>2. PICK i \in JobIds : jobs[i].status = "none" /\ jobs' = [jobs EXCEPT ![i] = NewRow(api[c].req)]
    BY <1>3 DEF InsertJob, NewRow
  <2>3. WithKey(api[c].req) = {}
    BY <1>3 DEF InsertJob
  <2>4. QED
    BY <1>1, <2>1, <2>2, <2>3 DEF RowChange
<1>4. ASSUME NEW c \in Calls, NEW k \in JobIds, CancelJob(c, k) PROVE RowChange(j)
  BY <1>1, <1>4 DEF CancelJob, RowChange
<1>5. ASSUME NEW c \in Calls, DeleteJobs(c) PROVE RowChange(j)
  BY <1>1, <1>5 DEF DeleteJobs, JobsOf, RowChange
<1>6. ASSUME NEW w \in Workers, SelectJob(w) \/ NothingQueued(w) PROVE RowChange(j)
  BY <1>1, <1>6 DEF SelectJob, NothingQueued, Requeue, RowChange
<1>7. ASSUME NEW w \in Workers, FailMissing(w) PROVE RowChange(j)
  BY <1>1, <1>7 DEF FailMissing, RowChange
<1>8. ASSUME NEW w \in Workers, TakeLease(w) PROVE RowChange(j)
  BY <1>1, <1>8 DEF TakeLease, RowChange
<1>9. ASSUME NEW w \in Workers, FinishJob(w) PROVE RowChange(j)
  BY <1>1, <1>9 DEF FinishJob, RowChange
<1>10. ASSUME NEW w \in Workers, ExpireJobs(w) PROVE RowChange(j)
  <2>1. jobs'[j] = jobs[j] \/ (jobs[j].status \in Open /\ jobs'[j] = Failed(jobs[j]))
    BY <1>10 DEF ExpireJobs
  <2>2. QED
    BY <1>10, <2>1 DEF RowChange
<1>11. ASSUME NEW w \in Workers, DeleteExpired(w) PROVE RowChange(j)
  <2>1. jobs'[j] = jobs[j] \/ (jobs[j].status \in Terminal /\ jobs'[j] = GoneRow)
    BY <1>11 DEF DeleteExpired, Removable, GoneRow
  <2>2. QED
    BY <2>1 DEF RowChange
<1>12. CASE UNCHANGED vars \/ ApiCrash \/ Tick
  BY <1>2, <1>12 DEF vars, ApiCrash, Tick
<1>13. CASE ApiStep
  BY <1>2, <1>3, <1>4, <1>5, <1>13 DEF ApiStep, CheckRecording, AnswerWithoutJob,
     InsertReservation, CancelRelease, DeleteRecording, DeleteRelease, FinalizeRecording
<1>14. ASSUME NEW w \in Workers, WorkerStep(w) \/ WorkerCrash(w) PROVE RowChange(j)
  BY <1>2, <1>6, <1>7, <1>8, <1>9, <1>10, <1>11, <1>14 DEF WorkerStep, WorkerCrash,
     ReleaseMissing, CheckCancelled, ProcessJob, SettleSpend, ExpireRecordings,
     AbandonCleanup, ReleaseExpired
<1>15. QED
  BY <1>12, <1>13, <1>14 DEF Next

\* What each kind of change does to status, cancel and req of the row.
LEMMA RowEffects ==
  ASSUME NEW row \in JobRow
  PROVE  /\ Requeued(row).cancel = row.cancel /\ Requeued(row).req = row.req
         /\ \/ Requeued(row).status = row.status
            \/ row.status = "running" /\ ~row.cancel /\ Requeued(row).status = "queued"
         /\ Leased(row).cancel = row.cancel /\ Leased(row).req = row.req
         /\ \/ Leased(row).status = row.status
            \/ row.status = "queued" /\ Leased(row).status = "running"
         /\ Cancelled(row).cancel /\ Cancelled(row).req = row.req
         /\ Cancelled(row).status = IF row.status \in Open THEN "cancelled" ELSE row.status
         /\ Failed(row).cancel = row.cancel /\ Failed(row).req = row.req
         /\ Failed(row).status = "failed"
         /\ \A o : /\ Finished(row, o).cancel = row.cancel /\ Finished(row, o).req = row.req
                   /\ Finished(row, o).status = FinishedStatus(row, o)
<1>1. /\ Requeued(row).cancel = row.cancel /\ Requeued(row).req = row.req
      /\ \/ Requeued(row).status = row.status
         \/ row.status = "running" /\ ~row.cancel /\ Requeued(row).status = "queued"
  BY DEF JobRow, Requeued, LeaseExpired
<1>2. /\ Leased(row).cancel = row.cancel /\ Leased(row).req = row.req
      /\ \/ Leased(row).status = row.status
         \/ row.status = "queued" /\ Leased(row).status = "running"
  BY DEF JobRow, Leased
<1>3. /\ Cancelled(row).cancel /\ Cancelled(row).req = row.req
      /\ Cancelled(row).status = IF row.status \in Open THEN "cancelled" ELSE row.status
  BY DEF JobRow, Cancelled
<1>4. /\ Failed(row).cancel = row.cancel /\ Failed(row).req = row.req
      /\ Failed(row).status = "failed"
  BY DEF JobRow, Failed
<1>5. \A o : /\ Finished(row, o).cancel = row.cancel /\ Finished(row, o).req = row.req
             /\ Finished(row, o).status = FinishedStatus(row, o)
  BY DEF JobRow, Finished
<1>6. QED
  BY <1>1, <1>2, <1>3, <1>4, <1>5

-----------------------------------------------------------------------------
(* Cancellation, as the rows tell it.                                        *)

\* A revoked job is closed, and a job is closed as cancelled only if revoked.
CancelMarks ==
    \A j \in JobIds :
        /\ jobs[j].cancel => jobs[j].status \in Terminal
        /\ jobs[j].status = "cancelled" => jobs[j].cancel

LEMMA CancelStep == TypeInv /\ CancelMarks /\ [Next]_vars => CancelMarks'
<1> SUFFICES ASSUME TypeInv, CancelMarks, [Next]_vars, NEW j \in JobIds
             PROVE  /\ jobs'[j].cancel => jobs'[j].status \in Terminal
                    /\ jobs'[j].status = "cancelled" => jobs'[j].cancel
  BY DEF CancelMarks
<1> DEFINE Goal == /\ jobs'[j].cancel => jobs'[j].status \in Terminal
                   /\ jobs'[j].status = "cancelled" => jobs'[j].cancel
<1>1. jobs[j] \in JobRow /\ now \in Time
  BY DEF TypeInv, TypeOK
<1>2. /\ jobs[j].cancel => jobs[j].status \in Terminal
      /\ jobs[j].status = "cancelled" => jobs[j].cancel
  BY DEF CancelMarks
<1>3. CASE jobs'[j] \in {jobs[j], Requeued(jobs[j]), Leased(jobs[j])}
  BY <1>1, <1>2, <1>3, RowEffects DEF Terminal
<1>4. CASE Exists(j) /\ jobs'[j] = Cancelled(jobs[j])
  BY <1>1, <1>2, <1>4, RowEffects DEF Terminal, Exists, Live, Open
<1>5. ASSUME NEW q \in Requests, jobs'[j] = NewRow(q) PROVE Goal
  BY <1>1, <1>5, ConstantRows
<1>6. CASE jobs'[j] = Failed(jobs[j])
  BY <1>1, <1>2, <1>6, RowEffects DEF Terminal
<1>7. CASE jobs'[j] = GoneRow
  BY <1>7, NullRows DEF GoneRow, JobRow
<1>8. ASSUME NEW w \in Workers, jobs'[j] = Finished(jobs[j], worker[w].outcome) PROVE Goal
  BY <1>1, <1>2, <1>8, RowEffects DEF Terminal, FinishedStatus
<1>9. RowChange(j)
  BY RowChanges
<1>10. QED
  BY <1>3, <1>4, <1>5, <1>6, <1>7, <1>8, <1>9 DEF RowChange

-----------------------------------------------------------------------------
(* One worker.                                                               *)

OneWorker == \A v, w \in Workers : v = w

\* Before the provider's answer; with the job, the row of which is still to be
\* closed.
Asking == {"take", "check", "process"}
Keeping == Asking \union {"finish", "fail_missing"}
Keeps(w, j) == worker[w].at \in Keeping /\ worker[w].job = j

\* A worker selects a job, goes on with the one it has, or has done with it.
LEMMA PhaseStep ==
  ASSUME TypeInv, [Next]_vars, NEW w \in Workers
  PROVE  \/ worker'[w] = worker[w]
         \/ /\ SelectJob(w) /\ worker'[w].job \in Claimable
            /\ worker'[w].at \in {"take", "fail_missing"}
         \/ /\ worker'[w].job = worker[w].job /\ worker[w].at \in Asking
            /\ worker'[w].at \in {"check", "process", "finish"}
         \/ worker'[w].at \notin Keeping
<1> DEFINE Selects == /\ SelectJob(w) /\ worker'[w].job \in Claimable
                      /\ worker'[w].at \in {"take", "fail_missing"}
           GoesOn  == /\ worker'[w].job = worker[w].job /\ worker[w].at \in Asking
                      /\ worker'[w].at \in {"check", "process", "finish"}
           Done    == worker'[w].at \notin Keeping
           Goal    == worker'[w] = worker[w] \/ Selects \/ GoesOn \/ Done
<1> SUFFICES Goal
  OBVIOUS
<1>1. worker \in [Workers -> WorkerState]
  BY DEF TypeInv, TypeOK
<1>2. ASSUME SelectJob(w) PROVE Selects
  <2> DEFINE at(j) == IF MayAnalyse(jobs[j].req.recording) THEN "take" ELSE "fail_missing"
             new(j) == [IdleWorker EXCEPT !.at = at(j), !.job = j, !.req = jobs[j].req]
  <2>1. \A j \in JobIds : new(j).at = at(j) /\ new(j).job = j
    BY NullRows DEF WorkerState
  <2>2. \A j \in JobIds : at(j) \in {"take", "fail_missing"}
    OBVIOUS
  <2> HIDE DEF new
  <2>3. PICK j \in JobIds : j \in Claimable /\ worker' = [worker EXCEPT ![w] = new(j)]
    BY <1>2 DEF SelectJob, Oldest, Claimable, new
  <2> HIDE DEF at
  <2>4. QED
    BY <1>1, <1>2, <2>1, <2>2, <2>3
<1>3. ASSUME NEW v \in Workers, v # w, WorkerStep(v) \/ WorkerCrash(v)
      PROVE  worker'[w] = worker[w]
  BY <1>1, <1>3 DEF WorkerStep, WorkerCrash, SelectJob, NothingQueued, FailMissing,
     ReleaseMissing, TakeLease, CheckCancelled, ProcessJob, FinishJob, SettleSpend,
     ExpireRecordings, AbandonCleanup, ExpireJobs, ReleaseExpired, DeleteExpired, Goto, Rest
<1>4. ASSUME TakeLease(w) PROVE GoesOn
  BY <1>1, <1>4 DEF TakeLease, Goto, Asking, WorkerState
<1>5. ASSUME CheckCancelled(w) PROVE GoesOn \/ Done
  <2> DEFINE marker == [worker[w] EXCEPT !.at = "finish", !.outcome = "cancelled_marker"]
             process == [worker[w] EXCEPT !.at = "process"]
  <2>1. /\ marker.job = worker[w].job /\ process.job = worker[w].job
        /\ marker.at = "finish" /\ process.at = "process"
    BY <1>1 DEF WorkerState
  <2> HIDE DEF marker, process
  <2>2. worker[w].at = "check" /\ worker'[w] \in {IdleWorker, marker, process}
    BY <1>1, <1>5 DEF CheckCancelled, marker, process
  <2>3. QED
    BY <2>1, <2>2, NullRows DEF Asking, Keeping
<1>6. ASSUME ProcessJob(w) PROVE GoesOn
  <2>1. worker[w].at = "process"
    BY <1>6 DEF ProcessJob
  <2>2. PICK o : worker' = [worker EXCEPT ![w] = [@ EXCEPT !.at = "finish", !.outcome = o]]
    BY <1>6 DEF ProcessJob
  <2>3. QED
    BY <1>1, <2>1, <2>2 DEF Asking, WorkerState
<1>7. ASSUME \/ NothingQueued(w) \/ FailMissing(w) \/ ExpireRecordings(w) \/ ExpireJobs(w)
             \/ ReleaseExpired(w)
      PROVE  Done
  <2>1. worker'[w].at \in {"clean_recordings", "release_missing", "clean_jobs", "clean_spend",
                            "clean_rows"}
    BY <1>1, <1>7 DEF NothingQueued, FailMissing, ExpireRecordings, ExpireJobs, ReleaseExpired,
       Goto, WorkerState
  <2>2. QED
    BY <2>1 DEF Keeping, Asking
<1>8. ASSUME ReleaseMissing(w) \/ FinishJob(w) PROVE Done
  <2> DEFINE cleaning  == [IdleWorker EXCEPT !.at = "clean_recordings"]
             settle(j) == [IdleWorker EXCEPT !.at = "settle", !.job = j]
  <2>1. cleaning.at = "clean_recordings" /\ \A j : settle(j).at = "settle"
    BY NullRows DEF WorkerState
  <2> HIDE DEF cleaning, settle
  <2>2. \/ worker' = [worker EXCEPT ![w] = cleaning]
        \/ worker' = [worker EXCEPT ![w] = settle(worker[w].job)]
    BY <1>8 DEF ReleaseMissing, FinishJob, cleaning, settle
  <2>3. QED
    BY <1>1, <2>1, <2>2 DEF Keeping, Asking
<1>9. ASSUME SettleSpend(w) \/ AbandonCleanup(w) \/ DeleteExpired(w) \/ WorkerCrash(w)
      PROVE  Done
  <2>1. worker'[w] = IdleWorker
    BY <1>1, <1>9 DEF SettleSpend, AbandonCleanup, DeleteExpired, WorkerCrash, Rest
  <2>2. QED
    BY <2>1, NullRows DEF Keeping, Asking
<1>10. ASSUME UNCHANGED vars \/ ApiCrash \/ Tick \/ ApiStep PROVE worker'[w] = worker[w]
  BY <1>10 DEF vars, ApiCrash, Tick, workerVars, ApiStep, CheckRecording, AnswerWithoutJob,
     InsertJob, InsertReservation, CancelJob, CancelRelease, DeleteRecording, DeleteJobs,
     DeleteRelease, FinalizeRecording
<1>11. ASSUME WorkerStep(w) \/ WorkerCrash(w) PROVE Goal
  BY <1>2, <1>4, <1>5, <1>6, <1>7, <1>8, <1>9, <1>11 DEF WorkerStep
<1>12. QED
  BY <1>3, <1>10, <1>11 DEF Next

\* The row of a job that a worker has not closed yet is open or cancelled: only
\* the worker itself closes it otherwise.
KeptRowsOpen ==
    \A w \in Workers, j \in JobIds :
        (Keeps(w, j) /\ Exists(j)) => jobs[j].status \in Open \union {"cancelled"}

RowsInv == TypeInv /\ CancelMarks /\ KeptRowsOpen

LEMMA RowsInit == Init => RowsInv
<1>1. ASSUME Init PROVE CancelMarks /\ KeptRowsOpen
  BY <1>1, NullRows DEF Init, CancelMarks, KeptRowsOpen, Exists, Live
<1>2. QED
  BY <1>1, TypeInit DEF RowsInv

LEMMA KeptStep == ASSUME OneWorker PROVE RowsInv /\ [Next]_vars => RowsInv'
<1> SUFFICES ASSUME RowsInv, [Next]_vars, NEW w \in Workers, NEW j \in JobIds,
                    Keeps(w, j)', Exists(j)'
             PROVE  jobs'[j].status \in Open \union {"cancelled"}
  BY TypeStep, CancelStep DEF RowsInv, KeptRowsOpen
<1>1. TypeInv /\ jobs \in [JobIds -> JobRow] /\ now \in Time
  BY DEF RowsInv, TypeInv, TypeOK
<1>2. CASE SelectJob(w) /\ j \in Claimable
  BY <1>2 DEF SelectJob, Claimable, Requeue, Open
<1>3. CASE Keeps(w, j)
  <2>1. jobs[j].status # "none" /\ (Exists(j) => jobs[j].status \in Open \union {"cancelled"})
    BY <1>1, <1>3 DEF RowsInv, KeptRowsOpen, TypeInv, WorkerRefs, WithJob, Claimed, Keeps,
       Keeping, Asking
  <2>2. CASE jobs'[j] \in {jobs[j], Requeued(jobs[j]), Leased(jobs[j])}
    BY <1>1, <2>1, <2>2, RowEffects DEF Exists, Live, Open
  <2>3. CASE Exists(j) /\ jobs'[j] = Cancelled(jobs[j])
    BY <1>1, <2>1, <2>3, RowEffects DEF Open
  <2>4. CASE jobs'[j] = GoneRow
    <3>1. jobs'[j].status = "removed"
      BY <2>4, NullRows DEF GoneRow, JobRow
    <3>2. QED
      BY <3>1 DEF Exists, Live
  <2>5. ASSUME NEW v \in Workers, ExpireJobs(v) \/ FailMissing(v) \/ FinishJob(v) PROVE FALSE
    <3>1. v = w
      BY DEF OneWorker
    <3>2. worker'[w].at # worker[w].at
      <4>1. worker \in [Workers -> WorkerState]
        BY <1>1 DEF TypeInv, TypeOK
      <4>2. CASE ExpireJobs(w) \/ FailMissing(w)
        BY <4>1, <4>2 DEF ExpireJobs, FailMissing, Goto, WorkerState
      <4>3. CASE FinishJob(w)
        <5>1. PICK i : worker' = [worker EXCEPT ![w] = [IdleWorker EXCEPT !.at = "settle", !.job = i]]
          BY <4>3 DEF FinishJob
        <5>2. worker'[w].at = "settle" /\ worker[w].at = "finish"
          BY <4>1, <4>3, <5>1, NullRows DEF WorkerState, FinishJob
        <5>3. QED
          BY <5>2
      <4>4. QED
        BY <2>5, <3>1, <4>2, <4>3
    <3>3. worker[w].at \in {"clean_jobs", "fail_missing", "finish"}
      BY <2>5, <3>1 DEF ExpireJobs, FailMissing, FinishJob
    <3>4. QED
      BY <1>1, <3>2, <3>3, PhaseStep DEF Keeps, Keeping, Asking, SelectJob
  <2>6. RowChange(j)
    BY <1>1, RowChanges
  <2>7. QED
    BY <2>1, <2>2, <2>3, <2>4, <2>5, <2>6 DEF RowChange
<1>4. QED
  BY <1>1, <1>2, <1>3, PhaseStep DEF Keeps, Keeping, Asking

-----------------------------------------------------------------------------
(* Provider requests.  A job that can still be sent has been sent at most    *)
(* once per death of the worker: the worker is asking for it, or it is open  *)
(* and the answer of an earlier request is not about to be written.          *)

Answered(j) == \E w \in Workers : worker[w].at = "finish" /\ worker[w].job = j
Asked(j) == \E w \in Workers : worker[w].at \in Asking /\ worker[w].job = j
Unbilled(j) == Asked(j) \/ (jobs[j].status \in Open \union {"none"} /\ ~Answered(j))

BilledOnce ==
    \A j \in JobIds :
        /\ calls[j] <= 1 + workerCrashes
        /\ Unbilled(j) => calls[j] <= workerCrashes

BillingInv == TypeInv /\ BilledOnce

LEMMA CallsStep ==
  ASSUME TypeInv, [Next]_vars
  PROVE  /\ workerCrashes' = workerCrashes \/ (workerCrashes' = workerCrashes + 1 /\ calls' = calls)
         /\ \/ calls' = calls
            \/ \E w \in Workers :
                 /\ worker[w].at = "process" /\ worker'[w].at = "finish"
                 /\ worker[w].job \in JobIds /\ worker'[w].job = worker[w].job
                 /\ calls' = [calls EXCEPT ![worker[w].job] = @ + 1]
<1> DEFINE Goal ==
         /\ workerCrashes' = workerCrashes \/ (workerCrashes' = workerCrashes + 1 /\ calls' = calls)
         /\ \/ calls' = calls
            \/ \E w \in Workers :
                 /\ worker[w].at = "process" /\ worker'[w].at = "finish"
                 /\ worker[w].job \in JobIds /\ worker'[w].job = worker[w].job
                 /\ calls' = [calls EXCEPT ![worker[w].job] = @ + 1]
<1>1. CASE UNCHANGED vars \/ ApiCrash \/ Tick \/ ApiStep
  BY <1>1 DEF vars, ApiCrash, Tick, workerVars, ApiStep, CheckRecording, AnswerWithoutJob,
     InsertJob, InsertReservation, CancelJob, CancelRelease, DeleteRecording, DeleteJobs,
     DeleteRelease, FinalizeRecording
<1>2. ASSUME NEW w \in Workers, ProcessJob(w) PROVE Goal
  <2>1. /\ worker \in [Workers -> WorkerState] /\ worker[w].at = "process"
        /\ worker[w].job \in JobIds /\ workerCrashes' = workerCrashes
    BY <1>2 DEF ProcessJob, TypeInv, TypeOK, WorkerRefs, WithJob, Claimed
  <2>2. PICK o : worker' = [worker EXCEPT ![w] = [@ EXCEPT !.at = "finish", !.outcome = o]]
    BY <1>2 DEF ProcessJob
  <2>3. worker'[w].at = "finish" /\ worker'[w].job = worker[w].job
    BY <2>1, <2>2 DEF WorkerState
  <2>4. calls' = calls \/ calls' = [calls EXCEPT ![worker[w].job] = @ + 1]
    BY <1>2 DEF ProcessJob
  <2>5. QED
    BY <2>1, <2>3, <2>4
<1>3. ASSUME NEW w \in Workers, WorkerCrash(w) \/ (WorkerStep(w) /\ ~ProcessJob(w)) PROVE Goal
  BY <1>3 DEF WorkerStep, WorkerCrash, SelectJob, NothingQueued, FailMissing, ReleaseMissing,
     TakeLease, CheckCancelled, FinishJob, SettleSpend, ExpireRecordings, AbandonCleanup,
     ExpireJobs, ReleaseExpired, DeleteExpired
<1>4. QED
  BY <1>1, <1>2, <1>3 DEF Next

\* A closed or removed row is never opened again.
LEMMA StaysClosed ==
  ASSUME TypeInv, [Next]_vars, NEW j \in JobIds, jobs'[j].status \in Open \union {"none"}
  PROVE  jobs[j].status \in Open \union {"none"}
<1>1. jobs[j] \in JobRow /\ now \in Time
  BY DEF TypeInv, TypeOK
<1>2. CASE jobs'[j] \in {jobs[j], Requeued(jobs[j]), Leased(jobs[j])}
  BY <1>1, <1>2, RowEffects DEF Open
<1>3. CASE jobs'[j] = Cancelled(jobs[j])
  BY <1>1, <1>3, RowEffects
<1>4. CASE jobs'[j] = Failed(jobs[j])
  BY <1>1, <1>4, RowEffects DEF Open
<1>5. ASSUME NEW w \in Workers, jobs'[j] = Finished(jobs[j], worker[w].outcome) PROVE FALSE
  BY <1>1, <1>5, RowEffects DEF Open, FinishedStatus
<1>6. CASE jobs'[j] = GoneRow
  BY <1>6, NullRows DEF GoneRow, JobRow, Open
<1>7. RowChange(j)
  BY RowChanges
<1>8. QED
  BY <1>2, <1>3, <1>4, <1>5, <1>6, <1>7 DEF RowChange

\* The answer for a job is dropped by finish_job, which closes the row, and
\* otherwise only by the death of the worker.
LEMMA AnswerDropped ==
  ASSUME TypeInv, [Next]_vars, NEW j \in JobIds, Answered(j), ~Answered(j)'
  PROVE  jobs'[j].status \notin Open \union {"none"} \/ workerCrashes' = workerCrashes + 1
<1>1. PICK w \in Workers : worker[w].at = "finish" /\ worker[w].job = j
  BY DEF Answered
<1>2. jobs \in [JobIds -> JobRow] /\ worker \in [Workers -> WorkerState] /\ jobs[j].status # "none"
  BY <1>1 DEF TypeInv, TypeOK, WorkerRefs, WithJob, Claimed
<1>3. worker'[w] # worker[w]
  BY <1>1 DEF Answered
<1>4. CASE FinishJob(w)
  <2>1. CASE Exists(j)
    <3>1. jobs'[j] = Finished(jobs[j], worker[w].outcome)
      BY <1>1, <1>2, <1>4, <2>1 DEF FinishJob
    <3>2. QED
      BY <1>2, <3>1, RowEffects DEF FinishedStatus, Open
  <2>2. CASE ~Exists(j)
    BY <1>1, <1>2, <1>4, <2>2 DEF FinishJob, Exists, Live, Open
  <2>3. QED
    BY <2>1, <2>2
<1>5. CASE WorkerCrash(w)
  BY <1>5 DEF WorkerCrash
<1>6. ASSUME WorkerStep(w) PROVE FinishJob(w)
  BY <1>1, <1>6 DEF WorkerStep, SelectJob, NothingQueued, FailMissing, ReleaseMissing,
     TakeLease, CheckCancelled, ProcessJob, SettleSpend, ExpireRecordings, AbandonCleanup,
     ExpireJobs, ReleaseExpired, DeleteExpired
<1>7. ASSUME NEW v \in Workers, v # w, WorkerStep(v) \/ WorkerCrash(v)
      PROVE  worker'[w] = worker[w]
  BY <1>2, <1>7 DEF WorkerStep, WorkerCrash, SelectJob, NothingQueued, FailMissing,
     ReleaseMissing, TakeLease, CheckCancelled, ProcessJob, FinishJob, SettleSpend,
     ExpireRecordings, AbandonCleanup, ExpireJobs, ReleaseExpired, DeleteExpired, Goto, Rest
<1>8. ASSUME UNCHANGED vars \/ ApiCrash \/ Tick \/ ApiStep PROVE worker'[w] = worker[w]
  BY <1>8 DEF vars, ApiCrash, Tick, workerVars, ApiStep, CheckRecording, AnswerWithoutJob,
     InsertJob, InsertReservation, CancelJob, CancelRelease, DeleteRecording, DeleteJobs,
     DeleteRelease, FinalizeRecording
<1>9. QED
  BY <1>3, <1>4, <1>5, <1>6, <1>7, <1>8 DEF Next

\* What can be sent after a step could be sent before it, or the worker died.
LEMMA UnbilledStep ==
  ASSUME OneWorker, TypeInv, [Next]_vars, NEW j \in JobIds, Unbilled(j)'
  PROVE  Unbilled(j) \/ workerCrashes' = workerCrashes + 1
<1>1. CASE Asked(j)'
  <2>1. PICK w \in Workers : worker'[w].at \in Asking /\ worker'[w].job = j
    BY <1>1 DEF Asked
  <2>2. CASE worker[w].at \in Asking /\ worker[w].job = j
    BY <2>2 DEF Unbilled, Asked
  <2>3. CASE SelectJob(w) /\ j \in Claimable
    <3>1. ~Answered(j)
      BY <2>3 DEF SelectJob, OneWorker, Answered
    <3>2. jobs[j].status \in Open
      BY <2>3 DEF Claimable, Requeue, Requeued, LeaseExpired, Open
    <3>3. QED
      BY <3>1, <3>2 DEF Unbilled
  <2>4. QED
    BY <2>1, <2>2, <2>3, PhaseStep DEF Asking, Keeping
<1>2. CASE jobs'[j].status \in Open \union {"none"} /\ ~Answered(j)'
  BY <1>2, StaysClosed, AnswerDropped DEF Unbilled
<1>3. QED
  BY <1>1, <1>2 DEF Unbilled

LEMMA BillingStep == ASSUME OneWorker PROVE BillingInv /\ [Next]_vars => BillingInv'
<1> SUFFICES ASSUME BillingInv, [Next]_vars, NEW j \in JobIds
             PROVE  /\ calls'[j] <= 1 + workerCrashes'
                    /\ Unbilled(j)' => calls'[j] <= workerCrashes'
  BY TypeStep DEF BillingInv, BilledOnce
<1>1. /\ TypeInv /\ calls \in [JobIds -> Nat] /\ workerCrashes \in Nat
      /\ calls[j] <= 1 + workerCrashes
      /\ Unbilled(j) => calls[j] <= workerCrashes
  BY DEF BillingInv, BilledOnce, TypeInv, TypeOK
<1>2. CASE calls'[j] = calls[j]
  BY <1>1, <1>2, CallsStep, UnbilledStep
<1>3. ASSUME NEW w \in Workers, worker[w].at = "process", worker'[w].at = "finish",
             worker[w].job = j, worker'[w].job = j, calls'[j] = calls[j] + 1,
             workerCrashes' = workerCrashes
      PROVE  calls'[j] <= 1 + workerCrashes' /\ ~Unbilled(j)'
  <2>1. Unbilled(j)
    BY <1>3 DEF Unbilled, Asked, Asking
  <2>2. ~Asked(j)' /\ Answered(j)'
    BY <1>3 DEF OneWorker, Asked, Answered, Asking
  <2>3. QED
    BY <1>1, <1>3, <2>1, <2>2 DEF Unbilled
<1>4. QED
  BY <1>1, <1>2, <1>3, CallsStep

\* RepeatedCallsNeedACrash of PracticeJobs: whatever fails, is cancelled,
\* expires or is replayed, the provider is asked about a job at most once more
\* than the worker died.
THEOREM CallsAreNotRepeated ==
  ASSUME OneWorker PROVE SafeSpec => []RepeatedCallsNeedACrash
<1>1. Init => BillingInv
  BY TypeInit DEF Init, BillingInv, BilledOnce
<1>2. BillingInv => RepeatedCallsNeedACrash
  BY DEF BillingInv, BilledOnce, RepeatedCallsNeedACrash
<1>3. QED
  BY <1>1, <1>2, BillingStep, PTL DEF SafeSpec

-----------------------------------------------------------------------------
(* The refinement: every statement of the API and of the worker is a step of *)
(* the lifecycle a client sees, or changes nothing of it.                    *)

\* The client's view of a row depends on its status alone.
LEMMA ClientStates ==
  ASSUME NEW row
  PROVE  /\ row.status = "none" => ClientState(row) = "absent"
         /\ row.status = "removed" => ClientState(row) = "forgotten"
         /\ row.status \in Open => ClientState(row) = "open"
         /\ row.status \in Terminal => ClientState(row) = row.status
BY DEF ClientState, Open, Terminal

LEMMA SameView ==
  ASSUME NEW new, NEW old, new.status = old.status
  PROVE  ClientState(new) = ClientState(old)
BY DEF ClientState

\* A statement that changes no row but between queued and running.
LEMMA StutterStep ==
  ASSUME \A j \in JobIds : /\ ClientState(jobs'[j]) = ClientState(jobs[j])
                           /\ jobs'[j].cancel = jobs[j].cancel
  PROVE  UNCHANGED Lifecycle!vars
BY DEF Lifecycle!vars

LEMMA SubmitStep ==
  ASSUME RowsInv, NEW c \in Calls, InsertJob(c)
  PROVE  \E j \in JobIds : Lifecycle!Submit(j)
<1>1. api[c].req \in Requests /\ jobs \in [JobIds -> JobRow] /\ now \in Time
  BY DEF InsertJob, ApiRefs, RowsInv, TypeInv, TypeOK
<1>2. PICK j \in JobIds : jobs[j].status = "none" /\ jobs' = [jobs EXCEPT ![j] = NewRow(api[c].req)]
  BY DEF InsertJob, NewRow
<1>3. /\ ClientState(jobs[j]) = "absent" /\ ClientState(jobs'[j]) = "open"
      /\ ~jobs[j].cancel /\ ~jobs'[j].cancel
      /\ \A k \in JobIds : k # j => jobs'[k] = jobs[k]
  BY <1>1, <1>2, ConstantRows, ClientStates DEF Open, RowsInv, CancelMarks, Terminal
<1>4. QED
  BY <1>3 DEF Lifecycle!Submit

\* The rows of the jobs of S are cancelled: cancel_job, delete_recording.
LEMMA RevokeStep ==
  ASSUME RowsInv, NEW S \in SUBSET JobIds, \A j \in S : Exists(j),
         jobs' = [j \in JobIds |-> IF j \in S THEN Cancelled(jobs[j]) ELSE jobs[j]]
  PROVE  Lifecycle!Revoke(S)
<1>1. jobs \in [JobIds -> JobRow]
  BY DEF RowsInv, TypeInv, TypeOK
<1>2. ASSUME NEW j \in S
      PROVE  /\ ClientState(jobs[j]) \notin {"absent", "forgotten"} /\ jobs'[j].cancel
             /\ ClientState(jobs'[j]) = IF ClientState(jobs[j]) = "open" THEN "cancelled"
                                        ELSE ClientState(jobs[j])
  <2>1. jobs'[j] = Cancelled(jobs[j]) /\ jobs[j] \in JobRow /\ Exists(j)
    BY <1>1
  <2>2. CASE jobs[j].status \in Open
    BY <2>1, <2>2, RowEffects, ClientStates DEF Terminal
  <2>3. CASE jobs[j].status \in Terminal
    BY <2>1, <2>3, RowEffects, ClientStates DEF Terminal, Open
  <2>4. QED
    BY <2>1, <2>2, <2>3 DEF Exists, Live, Open, Terminal
<1>3. QED
  BY <1>2 DEF Lifecycle!Revoke

\* The rows of the jobs of S, each open or cancelled, become failed:
\* claim_job without a recording, finish_job after an error, cleanup_expired.
LEMMA FailStep ==
  ASSUME RowsInv, NEW S \in SUBSET JobIds,
         \A j \in S : jobs[j].status \in Open \union {"cancelled"},
         \A j \in S : jobs'[j].status = "failed" /\ jobs'[j].cancel = jobs[j].cancel,
         \A j \in JobIds \ S : jobs'[j] = jobs[j]
  PROVE  Lifecycle!Fail(S)
<1>1. ASSUME NEW j \in S
      PROVE  ClientState(jobs[j]) \in {"open", "cancelled"} /\ ClientState(jobs'[j]) = "failed"
  BY ClientStates DEF Terminal
<1>2. QED
  BY <1>1 DEF Lifecycle!Fail

LEMMA ForgetStep ==
  ASSUME RowsInv, NEW w \in Workers, DeleteExpired(w)
  PROVE  \E S \in SUBSET JobIds : Lifecycle!Forget(S)
<1>1. PICK S \in SUBSET JobIds :
        /\ S = {j \in JobIds : Removable(j, worker[w].since)}
        /\ \A j \in JobIds : jobs'[j] = IF j \in S THEN GoneRow ELSE jobs[j]
  BY DEF DeleteExpired, GoneRow
<1>2. GoneRow.status = "removed" /\ ~GoneRow.cancel
  BY NullRows DEF GoneRow, JobRow
<1>3. ASSUME NEW j \in S
      PROVE  /\ ClientState(jobs[j]) \in {"completed", "failed", "cancelled"}
             /\ ClientState(jobs'[j]) = "forgotten" /\ ~jobs'[j].cancel
  BY <1>1, <1>2, ClientStates DEF Removable, Terminal
<1>4. Lifecycle!Forget(S)
  BY <1>1, <1>3 DEF Lifecycle!Forget
<1>5. QED
  BY <1>4

\* finish_job publishes an open job, keeps a cancelled one, or fails an open one.
LEMMA FinishStep ==
  ASSUME RowsInv, NEW w \in Workers, FinishJob(w)
  PROVE  [Lifecycle!Next]_(Lifecycle!vars)
<1> DEFINE j == worker[w].job
           o == worker[w].outcome
<1>1. jobs \in [JobIds -> JobRow] /\ j \in JobIds /\ Keeps(w, j)
  BY DEF RowsInv, TypeInv, TypeOK, WorkerRefs, WithJob, Claimed, Keeps, Keeping, FinishJob
<1> HIDE DEF j, o
<1>2. CASE ~Exists(j)
  <2>1. jobs' = jobs
    BY <1>2 DEF FinishJob, j
  <2>2. QED
    BY <2>1, StutterStep
<1>3. CASE Exists(j)
  <2>1. /\ \A k \in JobIds \ {j} : jobs'[k] = jobs[k]
        /\ jobs'[j].status = FinishedStatus(jobs[j], o) /\ jobs'[j].cancel = jobs[j].cancel
    BY <1>1, <1>3, RowEffects DEF FinishJob, j, o
  <2>2. /\ jobs[j].status \in Open \union {"cancelled"}
        /\ jobs[j].status = "cancelled" <=> jobs[j].cancel
    BY <1>1, <1>3 DEF RowsInv, KeptRowsOpen, CancelMarks, Terminal, Open
  <2>3. CASE jobs[j].cancel
    <3>1. jobs'[j].status = jobs[j].status
      BY <2>1, <2>2, <2>3 DEF FinishedStatus
    <3>2. QED
      BY <2>1, <3>1, SameView, StutterStep
  <2>4. CASE ~jobs[j].cancel /\ o = "failed"
    <3>1. Lifecycle!Fail({j})
      BY <1>1, <2>1, <2>2, <2>4, FailStep DEF FinishedStatus
    <3>2. QED
      BY <1>1, <3>1 DEF Lifecycle!Next
  <2>5. CASE ~jobs[j].cancel /\ o # "failed"
    <3>1. /\ ClientState(jobs[j]) = "open" /\ ClientState(jobs'[j]) = "completed"
          /\ jobs'[j].cancel = jobs[j].cancel
      BY <2>1, <2>2, <2>5, ClientStates DEF FinishedStatus, Terminal
    <3>2. Lifecycle!Publish(j)
      BY <1>1, <2>1, <2>5, <3>1 DEF Lifecycle!Publish
    <3>3. QED
      BY <1>1, <3>2 DEF Lifecycle!Next
  <2>6. QED
    BY <2>3, <2>4, <2>5
<1>4. QED
  BY <1>2, <1>3

LEMMA LifecycleStep == RowsInv /\ [Next]_vars => [Lifecycle!Next]_(Lifecycle!vars)
<1> SUFFICES ASSUME RowsInv, [Next]_vars PROVE [Lifecycle!Next]_(Lifecycle!vars)
  OBVIOUS
<1>1. jobs \in [JobIds -> JobRow] /\ now \in Time
  BY DEF RowsInv, TypeInv, TypeOK
<1>2. ASSUME jobs' = jobs PROVE UNCHANGED Lifecycle!vars
  BY <1>2, StutterStep
<1>3. ASSUME NEW c \in Calls, InsertJob(c) PROVE Lifecycle!Next
  BY <1>3, SubmitStep DEF Lifecycle!Next
<1>4. ASSUME NEW c \in Calls, NEW j \in JobIds, CancelJob(c, j) PROVE Lifecycle!Next
  <2>1. /\ jobs' = [k \in JobIds |-> IF k \in {j} THEN Cancelled(jobs[k]) ELSE jobs[k]]
        /\ Exists(j)
    BY <1>1, <1>4 DEF CancelJob
  <2>2. Lifecycle!Revoke({j})
    BY <2>1, RevokeStep
  <2>3. QED
    BY <2>2 DEF Lifecycle!Next
<1>5. ASSUME NEW c \in Calls, DeleteJobs(c) PROVE Lifecycle!Next
  <2>1. PICK S \in SUBSET JobIds :
          /\ \A j \in S : Exists(j)
          /\ jobs' = [j \in JobIds |-> IF j \in S THEN Cancelled(jobs[j]) ELSE jobs[j]]
    BY <1>5 DEF DeleteJobs, JobsOf
  <2>2. Lifecycle!Revoke(S)
    BY <2>1, RevokeStep
  <2>3. QED
    BY <2>2 DEF Lifecycle!Next
<1>6. ASSUME NEW w \in Workers, SelectJob(w) \/ NothingQueued(w) PROVE UNCHANGED Lifecycle!vars
  <2>1. \A j \in JobIds : jobs'[j] = Requeued(jobs[j])
    BY <1>6 DEF SelectJob, NothingQueued, Requeue
  <2>2. ASSUME NEW j \in JobIds
        PROVE  ClientState(Requeued(jobs[j])) = ClientState(jobs[j])
    BY <1>1, RowEffects, ClientStates, SameView DEF Open
  <2>3. QED
    BY <1>1, <2>1, <2>2, RowEffects, StutterStep
<1>7. ASSUME NEW w \in Workers, FailMissing(w) PROVE [Lifecycle!Next]_(Lifecycle!vars)
  <2> DEFINE j == worker[w].job
  <2>1. j \in JobIds /\ Keeps(w, j)
    BY <1>7 DEF FailMissing, RowsInv, TypeInv, WorkerRefs, WithJob, Keeps, Keeping
  <2> HIDE DEF j
  <2>2. CASE ~Exists(j)
    BY <1>2, <1>7, <2>2 DEF FailMissing, j
  <2>3. CASE Exists(j)
    <3>1. /\ \A k \in JobIds \ {j} : jobs'[k] = jobs[k]
          /\ jobs'[j].status = "failed" /\ jobs'[j].cancel = jobs[j].cancel
      BY <1>1, <1>7, <2>1, <2>3, RowEffects DEF FailMissing, j
    <3>2. jobs[j].status \in Open \union {"cancelled"}
      BY <2>1, <2>3 DEF RowsInv, KeptRowsOpen
    <3>3. Lifecycle!Fail({j})
      BY <2>1, <3>1, <3>2, FailStep
    <3>4. QED
      BY <2>1, <3>3 DEF Lifecycle!Next
  <2>4. QED
    BY <2>2, <2>3
<1>8. ASSUME NEW w \in Workers, TakeLease(w) PROVE UNCHANGED Lifecycle!vars
  <2>1. \A j \in JobIds : jobs'[j] \in {jobs[j], Leased(jobs[j])}
    BY <1>1, <1>8 DEF TakeLease
  <2>2. ASSUME NEW j \in JobIds PROVE ClientState(Leased(jobs[j])) = ClientState(jobs[j])
    BY <1>1, RowEffects, ClientStates, SameView DEF Open
  <2>3. QED
    BY <1>1, <2>1, <2>2, RowEffects, StutterStep
<1>9. ASSUME NEW w \in Workers, ExpireJobs(w) PROVE Lifecycle!Next
  <2> DEFINE S == {j \in JobIds : JobExpired(j, worker[w].since) /\ jobs[j].status \in Open}
  <2>1. /\ \A j \in JobIds \ S : jobs'[j] = jobs[j]
        /\ \A j \in S : jobs'[j] = Failed(jobs[j]) /\ jobs[j].status \in Open
    BY <1>9 DEF ExpireJobs
  <2>2. S \in SUBSET JobIds
    OBVIOUS
  <2> HIDE DEF S
  <2>3. \A j \in S : jobs'[j].status = "failed" /\ jobs'[j].cancel = jobs[j].cancel
    BY <1>1, <2>1, <2>2, RowEffects
  <2>4. Lifecycle!Fail(S)
    BY <2>1, <2>2, <2>3, FailStep
  <2>5. QED
    BY <2>2, <2>4 DEF Lifecycle!Next
<1>10. ASSUME NEW w \in Workers, DeleteExpired(w) PROVE Lifecycle!Next
  BY <1>10, ForgetStep DEF Lifecycle!Next
<1>11. CASE UNCHANGED vars \/ ApiCrash \/ Tick
  BY <1>2, <1>11 DEF vars, ApiCrash, Tick
<1>12. CASE ApiStep
  BY <1>2, <1>3, <1>4, <1>5, <1>12 DEF ApiStep, CheckRecording, AnswerWithoutJob,
     InsertReservation, CancelRelease, DeleteRecording, DeleteRelease, FinalizeRecording
<1>13. ASSUME NEW w \in Workers, WorkerStep(w) \/ WorkerCrash(w)
       PROVE  [Lifecycle!Next]_(Lifecycle!vars)
  BY <1>2, <1>6, <1>7, <1>8, <1>9, <1>10, <1>13, FinishStep DEF WorkerStep, WorkerCrash,
     ReleaseMissing, CheckCancelled, ProcessJob, SettleSpend, ExpireRecordings,
     AbandonCleanup, ReleaseExpired
<1>14. QED
  BY <1>11, <1>12, <1>13 DEF Next

\* KeepsLifecycle of PracticeJobs: with one worker the queue implements the
\* safety part of JobLifecycle, whatever the interleaving of its statements with
\* those of the API, and whichever process dies between two of them.
THEOREM LifecycleKept == ASSUME OneWorker PROVE SafeSpec => KeepsLifecycle
<1>1. Init => Lifecycle!Init
  BY NullRows, ClientStates DEF Init, Lifecycle!Init
<1>2. RowsInv /\ [Next]_vars => RowsInv'
  BY KeptStep
<1>3. QED
  BY <1>1, <1>2, RowsInit, LifecycleStep, PTL DEF SafeSpec, KeepsLifecycle, Lifecycle!SafeSpec
=============================================================================

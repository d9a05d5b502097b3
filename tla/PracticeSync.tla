---------------------------- MODULE PracticeSync ----------------------------
(***************************************************************************)
(* The client outbox of the practice app on a phone,                        *)
(* src/apps/practice/lib/sync/outbox.ts, with the rows it keeps              *)
(* (lib/storage/repository.ts), over a network that loses, delays and        *)
(* reorders requests, and the backend.  A submission, or a drain of the       *)
(* outbox, is a chain of awaits; each action is the code between two of them. *)
(* Chains interleave, work on copies of the rows they listed, and die with    *)
(* the app.  The analysis queue of the backend appears as what it promises    *)
(* (JobLifecycle), and each of its handlers as one step: PracticeJobs and     *)
(* PracticeUploads have what is inside.                                       *)
(*                                                                         *)
(* Abstractions.  queued, uploading, processing and retry are all "active":  *)
(* nothing tells them apart.  upload_id and job_id are named by their          *)
(* operation, so a row only says whether it knows them.  Paid coaching is      *)
(* allowed in the settings.  A run has one recording, without an image.  A     *)
(* request that fails is one that never arrives, or arrives later.             *)
(***************************************************************************)
EXTENDS Naturals, Sequences, FiniteSets

CONSTANTS
    Tasks,        \* chains of awaits that can be running at once
    Recordings,   \* recordings the app has saved
    Ops,          \* operation ids given to submissions
    MaxLost,      \* bound: requests that fail
    MaxRestarts,  \* bound: restarts of the app
    MaxFailures,  \* bound: both of them together
    NoRecording

ASSUME SyncNameAssumption == Ops \intersect Recordings = {} /\ NoRecording \notin Recordings
ASSUME SyncBoundAssumption == MaxLost \in Nat /\ MaxRestarts \in Nat /\ MaxFailures \in Nat

VARIABLES
    \* the device
    local,      \* the row of each recording, or how it was removed
    file,       \* recordings whose audio file is there
    feedback,   \* recordings whose row has its feedback
    outbox,     \* analysis entries
    tombstone,  \* deletion entries, one per recording
    inserted,   \* the entries in rowid order: operations and recordings
    deletion,   \* where deleteRun is, per recording
    \* the chains
    pc,         \* the await each is in
    todo,       \* the entries it still has to process
    asked,      \* those that are requestDurableFeedback, not a drain
    \* the network
    late,       \* requests the app gave up on that may still arrive
    lost,       \* how many failed
    restarts,   \* of the app
    \* the backend
    uploads, stored, jobs, revoked

device  == <<local, file, feedback, outbox, tombstone, inserted, deletion>>
network == <<late, lost, restarts>>
server  == <<uploads, stored, jobs, revoked>>
chains  == <<pc, todo, asked>>
vars    == <<device, chains, network, server>>

Queue == INSTANCE JobLifecycle WITH Jobs <- Ops, state <- jobs

-----------------------------------------------------------------------------
(* Rows and chains                                                         *)

Entry == [state : {"none", "active", "completed", "failed"},
          rec   : Recordings \union {NoRecording},
          upload : BOOLEAN, job : BOOLEAN]      \* upload_id, job_id are set

\* What a chain has of an entry: its name, which for a deletion is the recording,
\* and the copy it listed.
Item == [entry : Ops \union Recordings, upload : BOOLEAN, job : BOOLEAN]

Sending == {"create", "put", "finalize", "submit", "poll", "delete"}
Writing == {"save", "complete", "retry", "fail"}
Awaits  == {"idle", "next"} \union Sending \union Writing

Request == [kind : Sending, entry : Ops \union Recordings]

TypeOK ==
    /\ local \in [Recordings -> {"kept", "deleted", "discarded"}]
    /\ file \subseteq Recordings /\ feedback \subseteq Recordings
    /\ outbox \in [Ops -> Entry]
    /\ tombstone \in [Recordings -> {"none", "active", "completed"}]
    /\ inserted \in Seq(Ops \union Recordings)
    /\ deletion \in [Recordings -> {"none", "queue", "remove", "file"}]
    /\ pc \in [Tasks -> Awaits] /\ todo \in [Tasks -> Seq(Item)] /\ asked \subseteq Tasks
    /\ late \subseteq Request /\ lost \in 0..MaxLost /\ restarts \in 0..MaxRestarts
    /\ uploads \in [Ops -> {"none", "created", "uploaded", "finalized"}]
    /\ stored \in [Recordings -> {"none", "ready", "deleted", "expired"}]
    /\ Queue!TypeOK

Init ==
    /\ local = [r \in Recordings |-> "kept"] /\ file = Recordings /\ feedback = {}
    /\ outbox = [o \in Ops |-> [state |-> "none", rec |-> NoRecording,
                                upload |-> FALSE, job |-> FALSE]]
    /\ tombstone = [r \in Recordings |-> "none"]
    /\ inserted = <<>>
    /\ deletion = [r \in Recordings |-> "none"]
    /\ pc = [t \in Tasks |-> "idle"] /\ todo = [t \in Tasks |-> <<>>] /\ asked = {}
    /\ late = {} /\ lost = 0 /\ restarts = 0
    /\ uploads = [o \in Ops |-> "none"] /\ stored = [r \in Recordings |-> "none"]
    /\ Queue!Init

Current(t) == Head(todo[t])
Goto(t, next) == pc' = [pc EXCEPT ![t] = next] /\ UNCHANGED <<todo, asked>>
Begin(t, items) == pc' = [pc EXCEPT ![t] = "next"] /\ todo' = [todo EXCEPT ![t] = items]
Finish(t) ==
    /\ pc' = [pc EXCEPT ![t] = IF Len(todo[t]) = 1 THEN "idle" ELSE "next"]
    /\ todo' = [todo EXCEPT ![t] = Tail(@)]
    /\ asked' = asked \ {t}

-----------------------------------------------------------------------------
(* The handlers of the backend.  Each is a predicate on the step and the      *)
(* condition under which it is answered with a success.                       *)

RecordingOf(o) == outbox[o].rec

CreateUpload(o) ==
    /\ uploads' = IF uploads[o] = "none" THEN [uploads EXCEPT ![o] = "created"] ELSE uploads
    /\ UNCHANGED <<stored, jobs, revoked>>

PutContent(o) ==
    /\ uploads' = IF uploads[o] \in {"created", "uploaded"}
                  THEN [uploads EXCEPT ![o] = "uploaded"] ELSE uploads
    /\ UNCHANGED <<stored, jobs, revoked>>

\* A finalized upload is answered "ready" whatever became of its recording.
FinalizeUpload(o) ==
    /\ IF uploads[o] = "uploaded"
       THEN /\ uploads' = [uploads EXCEPT ![o] = "finalized"]
            /\ stored' = [stored EXCEPT ![RecordingOf(o)] = "ready"]
       ELSE UNCHANGED <<uploads, stored>>
    /\ UNCHANGED <<jobs, revoked>>

\* 409 unless the recording is ready, even when the job is known.
Accepts(o) == stored[RecordingOf(o)] = "ready"

SubmitAnalysis(o) ==
    /\ IF Accepts(o) /\ jobs[o] = "absent" THEN Queue!Submit(o) ELSE UNCHANGED <<jobs, revoked>>
    /\ UNCHANGED <<uploads, stored>>

JobsOf(r) == {o \in Ops : jobs[o] # "absent" /\ RecordingOf(o) = r}

DeleteStored(r) ==
    /\ IF stored[r] = "none" THEN UNCHANGED <<stored, jobs, revoked>>
       ELSE stored' = [stored EXCEPT ![r] = "deleted"] /\ Queue!Revoke(JobsOf(r))
    /\ UNCHANGED uploads

Handle(req) ==
    CASE req.kind = "create"   -> CreateUpload(req.entry)
      [] req.kind = "put"      -> PutContent(req.entry)
      [] req.kind = "finalize" -> FinalizeUpload(req.entry)
      [] req.kind = "submit"   -> SubmitAnalysis(req.entry)
      [] req.kind = "delete"   -> DeleteStored(req.entry)
      [] req.kind = "poll"     -> UNCHANGED server

\* The worker closes a job that is open; the cleanup expires media after a day.
WorkerCloses(o) ==
    /\ Queue!Publish(o) \/ (jobs[o] = "open" /\ Queue!Fail({o}))
    /\ UNCHANGED <<device, chains, network, uploads, stored>>

ServerExpires(r) ==
    /\ stored[r] = "ready"
    /\ stored' = [stored EXCEPT ![r] = "expired"]
    /\ UNCHANGED <<device, chains, network, uploads, jobs, revoked>>

-----------------------------------------------------------------------------
(* Chains                                                                  *)

\* Storage operations run one after the other; queueServerDeletion is one of two
\* statements.
StorageFree == \A r \in Recordings : deletion[r] # "queue"

\* Which of the idle names a new chain takes tells nothing.
NextChain(t) == pc[t] = "idle" /\ t = CHOOSE x \in Tasks : pc[x] = "idle"

\* Bound: the failures of a behaviour.
MayFail == lost + restarts < MaxFailures

\* requestDurableFeedback: every call is an operation of its own.
RequestFeedback(t, r) ==
    LET fresh == {o \in Ops : outbox[o].state = "none"}
        o == CHOOSE x \in fresh : TRUE
    IN  /\ NextChain(t) /\ StorageFree
        /\ local[r] = "kept" /\ fresh # {}
        /\ outbox' = [outbox EXCEPT ![o].state = "active", ![o].rec = r]
        /\ inserted' = Append(inserted, o)
        /\ Begin(t, <<[entry |-> o, upload |-> FALSE, job |-> FALSE]>>)
        /\ asked' = asked \union {t}
        /\ UNCHANGED <<local, file, feedback, tombstone, deletion, network, server>>

\* Mutants of Pending: a submitted entry is not listed; a deletion is not.
PendingUnsubmitted(e) ==
    IF e \in Ops THEN outbox[e].state = "active" /\ ~outbox[e].job ELSE tombstone[e] = "active"
PendingEntriesOnly(e) == e \in Ops /\ outbox[e].state = "active"

Pending(e) == IF e \in Ops THEN outbox[e].state = "active" ELSE tombstone[e] = "active"

Copy(e) == [entry  |-> e,
            upload |-> e \in Ops /\ outbox[e].upload,
            job    |-> e \in Ops /\ outbox[e].job]

\* listOutbox: what is neither completed nor failed, the newest first.
Listed ==
    LET pending == {i \in DOMAIN inserted : Pending(inserted[i])}
        Newest(n) == CHOOSE i \in pending : Cardinality({j \in pending : j >= i}) = n
    IN  [n \in 1..Cardinality(pending) |-> Copy(inserted[Newest(n)])]

\* drainOutbox, whenever the home screen appears; nothing keeps a second one, or
\* one beside a request, from starting.
StartDrain(t) ==
    /\ NextChain(t)
    /\ Listed # <<>>
    /\ Begin(t, Listed)
    /\ UNCHANGED <<asked, device, network, server>>

\* updateOutbox writes to the row as it is, not to the copy.
Update(o, state) == outbox' = [outbox EXCEPT ![o].state = state]

\* processEntry: the row is marked, then the file is read into memory.
StartEntry(t) ==
    LET item == Current(t)
    IN  /\ pc[t] = "next" /\ item.entry \in Ops /\ StorageFree
        /\ Update(item.entry, "active")
        /\ Goto(t, IF RecordingOf(item.entry) \notin file THEN "retry"
                   ELSE IF item.upload THEN "put" ELSE "create")
        /\ UNCHANGED <<local, file, feedback, tombstone, inserted, deletion,
                       network, server>>

StartDeletion(t) ==
    LET r == Current(t).entry
    IN  /\ pc[t] = "next" /\ r \in Recordings /\ StorageFree
        /\ tombstone' = [tombstone EXCEPT ![r] = "active"]
        /\ Goto(t, "delete")
        /\ UNCHANGED <<local, file, feedback, outbox, inserted, deletion,
                       network, server>>

Sent(t) == [kind |-> pc[t], entry |-> Current(t).entry]

\* A request and its answer.  The write to the row of the entry that follows an
\* answer is part of the action: what can fall between them commutes with one
\* of the two, and an app that dies between them is one that got no answer.
Exchange(t, at) == pc[t] = at /\ StorageFree /\ Handle(Sent(t))

Create(t) ==
    /\ Exchange(t, "create")
    /\ outbox' = [outbox EXCEPT ![Current(t).entry].upload = TRUE, ![Current(t).entry].state = "active"]
    /\ Goto(t, "put")
    /\ UNCHANGED <<local, file, feedback, tombstone, inserted, deletion, network>>

Put(t) ==
    /\ Exchange(t, "put")
    /\ Goto(t, "finalize")
    /\ UNCHANGED <<device, network>>

Finalize(t) ==
    /\ Exchange(t, "finalize")
    /\ outbox' = [outbox EXCEPT ![Current(t).entry].upload = TRUE, ![Current(t).entry].state = "active"]
    /\ Goto(t, IF Current(t).job THEN "poll" ELSE "submit")
    /\ UNCHANGED <<local, file, feedback, tombstone, inserted, deletion, network>>

Submit(t) ==
    LET o == Current(t).entry
    IN  /\ Exchange(t, "submit")
        /\ IF Accepts(o)
           THEN /\ outbox' = [outbox EXCEPT ![o].job = TRUE, ![o].state = "active"]
                /\ Goto(t, "poll")
           ELSE Goto(t, "fail") /\ UNCHANGED outbox
        /\ UNCHANGED <<local, file, feedback, tombstone, inserted, deletion, network>>

\* Mutant of Poll: the result is not saved before the entry is closed.
PollUnsaved(t) ==
    LET seen == jobs[Current(t).entry]
    IN  /\ Exchange(t, "poll")
        /\ Goto(t, IF seen = "completed" THEN "complete" ELSE IF seen = "open" THEN "retry" ELSE "fail")
        /\ UNCHANGED <<device, network>>

\* A poll that finds the job open comes back a second later, and after 120 of
\* them the entry is left for a later drain.
Poll(t) ==
    LET seen == jobs[Current(t).entry]
    IN  /\ Exchange(t, "poll")
        /\ Goto(t, IF seen = "completed" THEN "save" ELSE IF seen = "open" THEN "retry" ELSE "fail")
        /\ UNCHANGED <<device, network>>

Delete(t) ==
    /\ Exchange(t, "delete")
    /\ tombstone' = [tombstone EXCEPT ![Current(t).entry] = "completed"]
    /\ Finish(t)
    /\ UNCHANGED <<local, file, feedback, outbox, inserted, deletion, network>>

\* A cap refuses: the byte cap of the recordings, or the monthly cap.
CapRefuses(t) ==
    /\ \/ pc[t] = "finalize" /\ uploads[Current(t).entry] = "uploaded"
       \/ pc[t] = "submit" /\ jobs[Current(t).entry] = "absent"
    /\ StorageFree
    /\ Goto(t, "fail")
    /\ UNCHANGED <<device, network, server>>

\* No answer: a timeout, a lost connection, 401, 403, 408, 429 or a 5xx.
Unanswered(t) ==
    /\ pc[t] \in Sending /\ lost < MaxLost /\ MayFail
    /\ late' = late \union {Sent(t)}
    /\ lost' = lost + 1
    /\ Goto(t, "retry")
    /\ UNCHANGED <<device, restarts, server>>

Arrive(req) ==
    /\ Handle(req)
    /\ late' = late \ {req}
    /\ UNCHANGED <<device, chains, lost, restarts>>

\* saveAnalysis, whose foreign key fails when the recording is gone, then
\* updateRecordingFeedback.
SaveResult(t) ==
    LET r == RecordingOf(Current(t).entry)
    IN  /\ pc[t] = "save" /\ StorageFree
        /\ IF local[r] = "kept"
           THEN feedback' = feedback \union {r} /\ Goto(t, "complete")
           ELSE Goto(t, "retry") /\ UNCHANGED feedback
        /\ UNCHANGED <<local, file, outbox, tombstone, inserted, deletion,
                       network, server>>

\* The last write of an entry, whichever it is.
Close(t, at, state) ==
    /\ pc[t] = at /\ StorageFree
    /\ Update(Current(t).entry, state)
    /\ Finish(t)
    /\ UNCHANGED <<local, file, feedback, tombstone, inserted, deletion, network, server>>

CompleteEntry(t) == Close(t, "complete", "completed")
FailEntry(t)     == Close(t, "fail", "failed")
RetryEntry(t)    == /\ pc[t] = "retry" /\ Current(t).entry \in Ops
                    /\ Close(t, "retry", "active")

RetryDeletion(t) ==
    /\ pc[t] = "retry" /\ Current(t).entry \in Recordings /\ StorageFree
    /\ tombstone' = [tombstone EXCEPT ![Current(t).entry] = "active"]
    /\ Finish(t)
    /\ UNCHANGED <<local, file, feedback, outbox, inserted, deletion, network, server>>

-----------------------------------------------------------------------------
(* Removing takes                                                          *)

\* deleteRun, from the history: queueServerDeletion fails the entries of the
\* recording, then inserts the tombstone; then the rows go, then the file.
\* Bound: a deletion the app died in is begun again only when it has left no
\* tombstone.
CancelEntries(r) ==
    /\ deletion[r] = "none" /\ local[r] = "kept" /\ tombstone[r] = "none" /\ StorageFree
    /\ outbox' = [o \in Ops |-> IF outbox[o].rec = r /\ outbox[o].state = "active"
                                THEN [outbox[o] EXCEPT !.state = "failed"] ELSE outbox[o]]
    /\ deletion' = [deletion EXCEPT ![r] = "queue"]
    /\ UNCHANGED <<local, file, feedback, tombstone, inserted, chains, network, server>>

\* Mutant of InsertTombstone: nothing is queued for the server.
InsertTombstoneNot(r) ==
    /\ deletion[r] = "queue"
    /\ deletion' = [deletion EXCEPT ![r] = "remove"]
    /\ UNCHANGED <<local, file, feedback, outbox, tombstone, inserted, chains, network, server>>

InsertTombstone(r) ==
    /\ deletion[r] = "queue"
    /\ tombstone' = [tombstone EXCEPT ![r] = "active"]
    /\ inserted' = Append(inserted, r)
    /\ deletion' = [deletion EXCEPT ![r] = "remove"]
    /\ UNCHANGED <<local, file, feedback, outbox, chains, network, server>>

RemoveRows(r) ==
    /\ deletion[r] = "remove" /\ StorageFree
    /\ local' = [local EXCEPT ![r] = "deleted"]
    /\ feedback' = feedback \ {r}
    /\ deletion' = [deletion EXCEPT ![r] = "file"]
    /\ UNCHANGED <<file, outbox, tombstone, inserted, chains, network, server>>

RemoveFile(r) ==
    /\ deletion[r] = "file"
    /\ file' = file \ {r}
    /\ deletion' = [deletion EXCEPT ![r] = "none"]
    /\ UNCHANGED <<local, feedback, outbox, tombstone, inserted, chains, network, server>>

\* "Discard this take?" on the practice screen, when no request of the screen is
\* in flight: the row goes, the file and the outbox stay.
Discard(r) ==
    /\ asked = {}
    /\ local[r] = "kept" /\ deletion[r] = "none" /\ StorageFree
    /\ local' = [local EXCEPT ![r] = "discarded"]
    /\ feedback' = feedback \ {r}
    /\ UNCHANGED <<file, outbox, tombstone, inserted, deletion, chains, network, server>>

\* The app dies at any await; a request it has out is one that fails before.
Restart ==
    /\ restarts < MaxRestarts /\ MayFail
    /\ pc' = [t \in Tasks |-> "idle"] /\ todo' = [t \in Tasks |-> <<>>] /\ asked' = {}
    /\ deletion' = [r \in Recordings |-> "none"]
    /\ restarts' = restarts + 1
    /\ UNCHANGED <<local, file, feedback, outbox, tombstone, inserted, late, lost, server>>

-----------------------------------------------------------------------------
TaskStep(t) ==
    \/ StartEntry(t)
    \/ StartDeletion(t)
    \/ Create(t)
    \/ Put(t)
    \/ Finalize(t)
    \/ Submit(t)
    \/ Poll(t)
    \/ Delete(t)
    \/ CapRefuses(t)
    \/ Unanswered(t)
    \/ SaveResult(t)
    \/ CompleteEntry(t)
    \/ FailEntry(t)
    \/ RetryEntry(t)
    \/ RetryDeletion(t)

DeletionStep(r) == InsertTombstone(r) \/ RemoveRows(r) \/ RemoveFile(r)

Next ==
    \/ \E t \in Tasks :
         \/ \E r \in Recordings : RequestFeedback(t, r)
         \/ StartDrain(t)
         \/ TaskStep(t)
    \/ \E r \in Recordings : CancelEntries(r) \/ DeletionStep(r) \/ Discard(r) \/ ServerExpires(r)
    \/ \E o \in Ops : WorkerCloses(o)
    \/ \E req \in late : Arrive(req)
    \/ Restart

\* Every await ends, the learner comes back to the home screen, and the queue
\* closes its jobs.  Every step of a chain changes its pc, a step of a deletion
\* where it is, and a closing the job.
Fairness ==
    /\ \A t \in Tasks : WF_pc(TaskStep(t) \/ StartDrain(t))
    /\ \A r \in Recordings : WF_deletion(DeletionStep(r))
    /\ \A o \in Ops : WF_jobs(WorkerCloses(o))

SafeSpec == Init /\ [][Next]_vars
Spec == SafeSpec /\ Fairness

-----------------------------------------------------------------------------
(* Properties                                                              *)

\* An entry that says completed has brought its result to the device: the drain
\* never lists it again.
CompletedHasFeedback ==
    \A o \in Ops, r \in Recordings :
        (outbox[o].state = "completed" /\ RecordingOf(o) = r /\ local[r] = "kept")
            => r \in feedback

\* The steps of a deletion are in an order that is right wherever the app dies: a
\* take that is still shown has its audio, and a run is gone from the device only
\* when its deletion on the server is queued or done.
RemovalIsOrdered ==
    \A r \in Recordings :
        /\ local[r] = "kept" => r \in file
        /\ local[r] = "deleted" => tombstone[r] # "none"

\* A submission whose take stays on the device ends, although a request may fail
\* and arrive later, the app may die, and drains and the request itself work on
\* the entry at once.
EntriesEnd ==
    \A o \in Ops :
        outbox[o].state = "active"
            ~> (outbox[o].state # "active" \/ local[RecordingOf(o)] # "kept")

\* A queued deletion is told to the server in the end, entries before it that can
\* never succeed notwithstanding.
DeletionTold == \A r \in Recordings : tombstone[r] = "active" ~> tombstone[r] = "completed"

=============================================================================

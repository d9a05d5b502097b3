--------------------------- MODULE PracticeUploads ---------------------------
(***************************************************************************)
(* The media store of the practice backend, src/src/practice/mod.rs: the   *)
(* handlers that declare, receive, finalize and delete a recording, and    *)
(* the part of the worker's cleanup that expires media.  Each of them      *)
(* moves between two stores that share no transaction, the SQLite file and *)
(* the media directory, and several requests run at once.  Each action is  *)
(* one statement (or transaction) or one file operation; what a handler    *)
(* read before stays in its local state.                                   *)
(*                                                                         *)
(* Abstractions.  The path of a finalized file is a function of the        *)
(* recording id: one MIME type is declared per id, as the app does.  A     *)
(* file holds the bytes whose hash was declared, or others of that size.   *)
(* A file is written at once: a torn one is refused by finalize as an      *)
(* absent one is.  What the queue does to a deleted recording is in        *)
(* PracticeJobs.                                                           *)
(***************************************************************************)
EXTENDS Naturals, FiniteSets, FiniteSetsExt

CONSTANTS
    Calls,        \* API requests that can be in flight at once
    Recordings,   \* recording ids, chosen by the client
    UploadIds,    \* the UUIDs given to uploads
    Requests,     \* bodies POST /uploads may carry
    Contents,     \* what PUT may carry: "declared", "other"
    AudioCap,     \* server_audio_cap_bytes
    MaxBytes,     \* MAX_AUDIO_BYTES, what one upload may declare at most
    AudioTTL,     \* SERVER_AUDIO_TTL, 24 hours
    UploadTTL,    \* ABANDONED_MEDIA_TTL, 7 days
    MaxTime,      \* bound: the last instant
    MaxCrashes,   \* bound: restarts of the API and worker processes
    MaxApiCrashes,  \* bound: the API restarts only while there were fewer than these
    NoUpload, NoRecording, NoRequest

Time == 0..MaxTime

ASSUME UploadTimeAssumption ==
    /\ MaxTime \in Nat /\ AudioTTL \in Nat /\ UploadTTL \in Nat
    /\ MaxCrashes \in Nat /\ MaxApiCrashes \in 0..MaxCrashes
ASSUME UploadRequestAssumption ==
    /\ AudioCap \in Nat /\ MaxBytes \in Nat /\ Contents \subseteq {"declared", "other"}
    /\ \A q \in Requests : q.recording \in Recordings /\ q.bytes \in Nat /\ q.audio \in BOOLEAN
ASSUME UploadCallsAssumption == IsFiniteSet(Calls) /\ Calls # {}
ASSUME UploadNullAssumption ==
    NoUpload \notin UploadIds /\ NoRecording \notin Recordings /\ NoRequest \notin Requests

VARIABLES
    now,
    uploads,      \* practice_uploads
    recordings,   \* practice_recordings
    staging,      \* the file at the staging path of each upload
    media,        \* the file at the final path of each recording
    api,          \* local state of every API request in flight
    cleaner,      \* local state of the worker's cleanup
    deleteAcked,  \* recordings whose DELETE was answered 204, no finalize begun since
    overlapped,   \* recordings that two requests have worked on at once
    crashes

disk == <<staging, media>>
rows == <<uploads, recordings>>
vars == <<now, uploads, recordings, staging, media, api, cleaner, deleteAcked, overlapped, crashes>>

-----------------------------------------------------------------------------
(* Rows, files and local states                                            *)

File == {"none", "declared", "other"}

UploadRow == [status  : {"none", "created", "uploaded", "finalized", "removed"},
              req     : Requests \union {NoRequest},
              expires : Nat]

RecordingRow == [status  : {"none", "ready", "deleted", "expired"},
                 upload  : UploadIds \union {NoUpload},
                 bytes   : Nat,
                 audio   : BOOLEAN,
                 expires : Nat]

ApiCall == [at     : {"idle", "write", "mark", "read", "rename", "cap", "commit", "unlink"},
            upload : UploadIds \union {NoUpload},
            rec    : Recordings \union {NoRecording}]

Cleaner == [at    : {"idle", "unlink", "expire", "uploads"},
            todo  : SUBSET Recordings,                 \* paths selected, not yet removed
            rec   : Recordings \union {NoRecording},
            since : Time]

IdleCall    == [at |-> "idle", upload |-> NoUpload, rec |-> NoRecording]
IdleCleaner == [at |-> "idle", todo |-> {}, rec |-> NoRecording, since |-> 0]

Exists(u)  == uploads[u].status \in {"created", "uploaded", "finalized"}
Present(r) == recordings[r].status # "none"
Target(u)  == uploads[u].req.recording

TypeOK ==
    /\ now \in Time
    /\ uploads \in [UploadIds -> UploadRow]
    /\ recordings \in [Recordings -> RecordingRow]
    /\ staging \in [UploadIds -> File] /\ media \in [Recordings -> File]
    /\ api \in [Calls -> ApiCall]
    /\ cleaner \in Cleaner
    /\ deleteAcked \subseteq Recordings /\ overlapped \subseteq Recordings
    /\ crashes \in 0..MaxCrashes

Init ==
    /\ now = 0
    /\ uploads = [u \in UploadIds |-> [status |-> "none", req |-> NoRequest, expires |-> 0]]
    /\ recordings = [r \in Recordings |-> [status |-> "none", upload |-> NoUpload, bytes |-> 0,
                                           audio |-> FALSE, expires |-> 0]]
    /\ staging = [u \in UploadIds |-> "none"] /\ media = [r \in Recordings |-> "none"]
    /\ api = [c \in Calls |-> IdleCall]
    /\ cleaner = IdleCleaner
    /\ deleteAcked = {} /\ overlapped = {}
    /\ crashes = 0

-----------------------------------------------------------------------------
(* The handlers                                                            *)

\* A request starts to work on a recording; another one may be at it.
InFlight(r) == \E c \in Calls : api[c].at # "idle" /\ api[c].rec = r
Meets(r)    == overlapped' = IF InFlight(r) THEN overlapped \union {r} ELSE overlapped

Begin(c, at, u) ==
    /\ api[c].at = "idle"
    /\ api' = [api EXCEPT ![c] = [at |-> at, upload |-> u, rec |-> Target(u)]]
    /\ Meets(Target(u))
Goto(c, at) == api' = [api EXCEPT ![c].at = at]
Answer(c)   == api' = [api EXCEPT ![c] = IdleCall]

\* create_upload, after the validation of the declared size: a key that is known replays its row (or is refused) and
\* changes nothing; a new one inserts a row.
CreateUpload(q) ==
    LET fresh == {u \in UploadIds : uploads[u].status = "none"}
        u == CHOOSE x \in fresh : TRUE
    IN  /\ q.bytes \in 1..MaxBytes
        /\ \A v \in UploadIds : Exists(v) => uploads[v].req.key # q.key
        /\ fresh # {}
        /\ uploads' = [uploads EXCEPT ![u] = [status |-> "created", req |-> q,
                                              expires |-> now + UploadTTL]]
        /\ UNCHANGED <<now, recordings, disk, api, cleaner, deleteAcked, overlapped, crashes>>

\* PUT content: the row is read; a finalized one is answered at once.
BeginPut(c, u) ==
    /\ Exists(u) /\ uploads[u].status # "finalized"
    /\ Begin(c, "write", u)
    /\ UNCHANGED <<now, rows, disk, cleaner, deleteAcked, crashes>>

WriteStaging(c) ==
    /\ api[c].at = "write"
    /\ \E content \in Contents : staging' = [staging EXCEPT ![api[c].upload] = content]
    /\ Goto(c, "mark")
    /\ UNCHANGED <<now, rows, media, cleaner, deleteAcked, overlapped, crashes>>

\* mark_upload_written has no condition on the status it overwrites.
MarkWritten(c) ==
    LET u == api[c].upload
    IN  /\ api[c].at = "mark"
        /\ uploads' = IF Exists(u) THEN [uploads EXCEPT ![u].status = "uploaded"] ELSE uploads
        /\ Answer(c)
        /\ UNCHANGED <<now, recordings, disk, cleaner, deleteAcked, overlapped, crashes>>

\* POST finalize: the row is read; a finalized one replays the answer.
BeginFinalize(c, u) ==
    /\ Exists(u) /\ uploads[u].status # "finalized"
    /\ Begin(c, "read", u)
    /\ deleteAcked' = deleteAcked \ {Target(u)}
    /\ UNCHANGED <<now, rows, disk, cleaner, crashes>>

\* Mutant of ReadStaging: the size is checked, the hash is not.
ReadStagingSizeOnly(c) ==
    /\ api[c].at = "read"
    /\ IF staging[api[c].upload] # "none" THEN Goto(c, "rename") ELSE Answer(c)
    /\ UNCHANGED <<now, rows, disk, cleaner, deleteAcked, overlapped, crashes>>

\* The size and the hash of the staged bytes are checked.
ReadStaging(c) ==
    /\ api[c].at = "read"
    /\ IF staging[api[c].upload] = "declared" THEN Goto(c, "rename") ELSE Answer(c)
    /\ UNCHANGED <<now, rows, disk, cleaner, deleteAcked, overlapped, crashes>>

\* fs::rename, or the copy when it fails; both fail when the file is gone.
Rename(c) ==
    LET u == api[c].upload
        moved == staging[u] # "none"
    IN  /\ api[c].at = "rename"
        /\ media' = IF moved THEN [media EXCEPT ![api[c].rec] = staging[u]] ELSE media
        /\ staging' = [staging EXCEPT ![u] = "none"]
        /\ IF moved THEN Goto(c, "cap") ELSE Answer(c)
        /\ UNCHANGED <<now, rows, cleaner, deleteAcked, overlapped, crashes>>

\* current_audio_bytes: what is ready counts, the row to be replaced included.
ReadyAudio == {r \in Recordings : recordings[r].status = "ready" /\ recordings[r].audio}
AudioBytes == SumFunctionOnSet([r \in Recordings |-> recordings[r].bytes], ReadyAudio)

\* Mutant of FitsCap: only what is stored already is compared.
FitsCapWithoutNew(q) == ~q.audio \/ AudioBytes <= AudioCap

FitsCap(q) == ~q.audio \/ AudioBytes + q.bytes <= AudioCap

\* The cap is looked at in a store call of its own, after the file was moved.
CheckCap(c) ==
    /\ api[c].at = "cap"
    /\ IF FitsCap(uploads[api[c].upload].req) THEN Goto(c, "commit") ELSE Answer(c)
    /\ UNCHANGED <<now, rows, disk, cleaner, deleteAcked, overlapped, crashes>>

\* The transaction: both rows, or none when the upload is gone (foreign key).
CommitFinalize(c) ==
    LET u == api[c].upload
        q == uploads[u].req
    IN  /\ api[c].at = "commit"
        /\ IF Exists(u)
           THEN /\ uploads' = [uploads EXCEPT ![u].status = "finalized"]
                /\ recordings' = [recordings EXCEPT ![api[c].rec] =
                     [status |-> "ready", upload |-> u, bytes |-> q.bytes, audio |-> q.audio,
                      expires |-> now + AudioTTL]]
           ELSE UNCHANGED rows
        /\ Answer(c)
        /\ UNCHANGED <<now, disk, cleaner, deleteAcked, overlapped, crashes>>

\* DELETE /recordings/{id}: without a row it is answered at once.
DeleteAbsent(c, r) ==
    /\ api[c].at = "idle" /\ ~Present(r)
    /\ deleteAcked' = deleteAcked \union {r}
    /\ UNCHANGED <<now, rows, disk, api, cleaner, overlapped, crashes>>

DeleteRecording(c, r) ==
    /\ api[c].at = "idle" /\ Present(r)
    /\ recordings' = [recordings EXCEPT ![r].status = "deleted"]
    /\ Meets(r)
    /\ api' = [api EXCEPT ![c] = [at |-> "unlink", upload |-> NoUpload, rec |-> r]]
    /\ UNCHANGED <<now, uploads, disk, cleaner, deleteAcked, crashes>>

UnlinkDeleted(c) ==
    /\ api[c].at = "unlink"
    /\ media' = [media EXCEPT ![api[c].rec] = "none"]
    /\ deleteAcked' = deleteAcked \union {api[c].rec}
    /\ Answer(c)
    /\ UNCHANGED <<now, rows, staging, cleaner, overlapped, crashes>>

ApiCrash ==
    /\ crashes < MaxApiCrashes
    /\ \E c \in Calls : api[c].at # "idle"
    /\ api' = [c \in Calls |-> IdleCall]
    /\ crashes' = crashes + 1
    /\ UNCHANGED <<now, rows, disk, cleaner, deleteAcked, overlapped>>

-----------------------------------------------------------------------------
(* cleanup_expired.  worker_once calls it when claim_job found no work, and  *)
(* only then.  A statement that fails ends the pass as the death of the      *)
(* worker does.                                                              *)

Overdue(t) == {r \in Recordings : recordings[r].status = "ready" /\ recordings[r].expires < t}

SelectOverdue ==
    /\ cleaner.at = "idle"
    /\ cleaner' = [at |-> "unlink", todo |-> Overdue(now), rec |-> NoRecording, since |-> now]
    /\ UNCHANGED <<now, rows, disk, api, deleteAcked, overlapped, crashes>>

UnlinkOverdue(r) ==
    /\ cleaner.at = "unlink" /\ r \in cleaner.todo
    /\ media' = [media EXCEPT ![r] = "none"]
    /\ cleaner' = [cleaner EXCEPT !.at = "expire", !.rec = r, !.todo = @ \ {r}]
    /\ UNCHANGED <<now, rows, staging, api, deleteAcked, overlapped, crashes>>

\* Mutant of MarkExpired: the row is left as it was.
MarkExpiredNothing ==
    /\ cleaner.at = "expire"
    /\ cleaner' = [cleaner EXCEPT !.at = "unlink", !.rec = NoRecording]
    /\ UNCHANGED <<now, rows, disk, api, deleteAcked, overlapped, crashes>>

MarkExpired ==
    LET r == cleaner.rec
    IN  /\ cleaner.at = "expire"
        /\ recordings' = IF recordings[r].status = "ready"
                         THEN [recordings EXCEPT ![r].status = "expired"] ELSE recordings
        /\ cleaner' = [cleaner EXCEPT !.at = "unlink", !.rec = NoRecording]
        /\ UNCHANGED <<now, uploads, disk, api, deleteAcked, overlapped, crashes>>

AllUnlinked ==
    /\ cleaner.at = "unlink" /\ cleaner.todo = {}
    /\ cleaner' = [cleaner EXCEPT !.at = "uploads"]
    /\ UNCHANGED <<now, rows, disk, api, deleteAcked, overlapped, crashes>>

Abandoned(t) == {u \in UploadIds : /\ Exists(u) /\ uploads[u].status # "finalized"
                                   /\ uploads[u].expires < t}

\* Mutant of Referenced: foreign keys are off.
ReferencedNever(S) == FALSE

\* A recording row, in whatever status, keeps its upload row (foreign key).
Referenced(S) == \E r \in Recordings : Present(r) /\ recordings[r].upload \in S

\* One DELETE for all of them: when one is referenced it fails as a whole, and
\* with it the rest of the pass.
RemoveUploads ==
    LET gone == Abandoned(cleaner.since)
    IN  /\ cleaner.at = "uploads"
        /\ uploads' = IF Referenced(gone) THEN uploads
                      ELSE [u \in UploadIds |-> IF u \in gone
                              THEN [status |-> "removed", req |-> uploads[u].req, expires |-> 0]
                              ELSE uploads[u]]
        /\ cleaner' = IdleCleaner
        /\ UNCHANGED <<now, recordings, disk, api, deleteAcked, overlapped, crashes>>

WorkerCrash ==
    /\ crashes < MaxCrashes
    /\ cleaner.at # "idle"
    /\ cleaner' = IdleCleaner
    /\ crashes' = crashes + 1
    /\ UNCHANGED <<now, rows, disk, api, deleteAcked, overlapped>>

Tick ==
    /\ now < MaxTime
    /\ now' = now + 1
    /\ UNCHANGED <<rows, disk, api, cleaner, deleteAcked, overlapped, crashes>>

-----------------------------------------------------------------------------
ApiStep ==
    \/ \E q \in Requests : CreateUpload(q)
    \/ \E c \in Calls :
         \/ \E u \in UploadIds : BeginPut(c, u) \/ BeginFinalize(c, u)
         \/ WriteStaging(c)
         \/ MarkWritten(c)
         \/ ReadStaging(c)
         \/ Rename(c)
         \/ CheckCap(c)
         \/ CommitFinalize(c)
         \/ \E r \in Recordings : DeleteAbsent(c, r) \/ DeleteRecording(c, r)
         \/ UnlinkDeleted(c)

\* What a pass does once it has begun.
PassStep ==
    \/ \E r \in Recordings : UnlinkOverdue(r)
    \/ MarkExpired
    \/ AllUnlinked
    \/ RemoveUploads

CleanerStep == SelectOverdue \/ PassStep

Next == ApiStep \/ ApiCrash \/ CleanerStep \/ WorkerCrash \/ Tick

SafeSpec == Init /\ [][Next]_vars

\* A pass that has begun goes on.  Whether one begins is up to the queue.
Spec == SafeSpec /\ WF_vars(PassStep)

-----------------------------------------------------------------------------
(* Properties                                                              *)

\* Another upload of this recording was finalized before the one its row names.
Replaced(r) ==
    \E u \in UploadIds : /\ uploads[u].status = "finalized" /\ Target(u) = r
                         /\ u # recordings[r].upload

\* Database and disk share no transaction, and any number of requests, the cleanup
\* and the deaths of both processes interleave between their changes.  A ready
\* recording has its file all the same, with the bytes that were declared and until
\* its time is over (the cleanup unlinks before it marks, and may die in between),
\* unless two requests worked on this very recording at once.  One more exception:
\* when an expired recording is uploaded again, a pass that selected it before
\* unlinks the new file under the new row.
ReadyHasFile ==
    \A r \in Recordings :
        (recordings[r].status = "ready" /\ ~Replaced(r) /\ r \notin overlapped)
            => media[r] = "declared" \/ r \in Overdue(now)

\* Finalizes run at once, and the cap is looked at before the row is written, so
\* ready audio may exceed it.  By how much is bounded all the same, whatever is
\* expired, replaced or deleted meanwhile: by what the other requests that can be in
\* flight may bring.  One after the other, they keep the cap.
AudioNearCap == AudioBytes <= AudioCap + (Cardinality(Calls) - 1) * MaxBytes

\* The upload a recording row names is there, even when a late PUT has taken
\* the status of a finalized upload back and its row has expired.
NoDanglingUpload ==
    \A r \in Recordings :
        Present(r) => /\ Exists(recordings[r].upload)
                      /\ Target(recordings[r].upload) = r

\* If the worker finds the queue empty again and again, a ready recording whose time
\* is over stops being ready, whatever is finalized and deleted meanwhile, although
\* the worker dies in a pass and RemoveUploads fails in each.  A queue that never
\* drains keeps the recording: nothing else calls the cleanup.
QueueDrains == []<><<SelectOverdue>>_vars
OverdueExpires ==
    QueueDrains => \A r \in Recordings : r \in Overdue(now) ~> r \notin Overdue(now)

\* A finalize that began before the DELETE was answered does not bring the
\* recording back.
DeletedStaysDeleted ==
    [][\A r \in deleteAcked :
         ~(recordings[r].status # "ready" /\ recordings'[r].status = "ready")]_vars
=============================================================================

------------------------ MODULE PracticeUploadsProofs ------------------------
(***************************************************************************)
(* Theorems about PracticeUploads, for every number of uploads, recordings *)
(* and crashes and any number of requests in flight: the two tables agree; *)
(* what is ready has its file unless two requests met on it; and the byte  *)
(* cap is exceeded by no more than what requests that overlap may bring.   *)
(***************************************************************************)
EXTENDS PracticeUploads, FoldTheorems

\* What the proof needs of the types: the shape of the tables and of the calls,
\* nothing of the files or of the cleanup.
Tables ==
    /\ now \in Nat
    /\ uploads \in [UploadIds -> UploadRow]
    /\ recordings \in [Recordings -> RecordingRow]
    /\ api \in [Calls -> ApiCall]

\* Rows that were inserted name a request and an upload.
Named ==
    /\ \A u \in UploadIds : uploads[u].status # "none" => uploads[u].req \in Requests
    /\ \A r \in Recordings : Present(r) => recordings[r].upload \in UploadIds

\* A call between its read of the upload row and its last statement works on an
\* upload that was declared, for the recording it was declared for.
OnUpload == {"write", "mark", "read", "rename", "cap", "commit"}
CallsAgree ==
    \A c \in Calls :
        api[c].at \in OnUpload
            => /\ api[c].upload \in UploadIds
               /\ uploads[api[c].upload].status # "none"
               /\ api[c].rec = Target(api[c].upload)

TablesInv == Tables /\ Named /\ CallsAgree /\ NoDanglingUpload

USE UploadTimeAssumption, UploadRequestAssumption, UploadCallsAssumption, UploadNullAssumption

LEMMA TablesInit == Init => TablesInv
<1> SUFFICES ASSUME Init PROVE TablesInv
  OBVIOUS
<1>1. Tables
  BY DEF Init, Tables, UploadRow, RecordingRow, ApiCall, IdleCall
<1>2. Named /\ CallsAgree
  BY DEF Init, Named, CallsAgree, OnUpload, IdleCall, Present
<1>3. NoDanglingUpload
  BY DEF Init, NoDanglingUpload, Present
<1>4. QED
  BY <1>1, <1>2, <1>3 DEF TablesInv

-----------------------------------------------------------------------------
(* The statements that write a row, one lemma each.                          *)

\* An inserted upload row keeps its request and is never absent again.
UploadsFollow ==
    \A u \in UploadIds :
        uploads[u].status # "none" => /\ uploads'[u].status # "none"
                                      /\ uploads'[u].req = uploads[u].req

RowsKept ==
    /\ uploads' \in [UploadIds -> UploadRow]
    /\ recordings' \in [Recordings -> RecordingRow]
    /\ UploadsFollow /\ Named' /\ NoDanglingUpload'

LEMMA CreateKeeps == ASSUME TablesInv, NEW q \in Requests, CreateUpload(q) PROVE RowsKept
<1> DEFINE new == [status |-> "created", req |-> q, expires |-> now + UploadTTL]
<1>1. new \in UploadRow /\ new.status = "created" /\ new.req = q
  BY DEF TablesInv, Tables, UploadRow
<1>2. /\ \E u \in UploadIds : uploads[u].status = "none" /\ uploads' = [uploads EXCEPT ![u] = new]
      /\ UNCHANGED recordings
  BY DEF CreateUpload
<1> HIDE DEF new
<1>3. /\ uploads' \in [UploadIds -> UploadRow]
      /\ \A u \in UploadIds : uploads'[u] = uploads[u] \/ (uploads[u].status = "none" /\ uploads'[u] = new)
  BY <1>1, <1>2 DEF TablesInv, Tables
<1>4. recordings' \in [Recordings -> RecordingRow] /\ UploadsFollow /\ Named'
  BY <1>1, <1>2, <1>3 DEF TablesInv, Tables, Named, UploadsFollow, Present
<1>5. NoDanglingUpload'
  BY <1>1, <1>2, <1>3 DEF TablesInv, Named, NoDanglingUpload, Present,
     Exists, Target
<1>6. QED
  BY <1>3, <1>4, <1>5 DEF RowsKept

LEMMA MarkKeeps == ASSUME TablesInv, NEW c \in Calls, MarkWritten(c) PROVE RowsKept
<1>1. api[c].upload \in UploadIds
  BY DEF MarkWritten, TablesInv, CallsAgree, OnUpload
<1>2. /\ uploads' \in [UploadIds -> UploadRow] /\ UNCHANGED recordings
      /\ \A u \in UploadIds :
           \/ uploads'[u] = uploads[u]
           \/ Exists(u) /\ uploads'[u].status = "uploaded" /\ uploads'[u].req = uploads[u].req
  BY <1>1 DEF MarkWritten, TablesInv, Tables, UploadRow
<1>3. recordings' \in [Recordings -> RecordingRow] /\ UploadsFollow /\ Named'
  BY <1>2 DEF TablesInv, Tables, Named, UploadsFollow, Present, Exists
<1>4. NoDanglingUpload'
  BY <1>2 DEF TablesInv, Named, NoDanglingUpload, Present, Exists, Target
<1>5. QED
  BY <1>2, <1>3, <1>4 DEF RowsKept

LEMMA CommitKeeps == ASSUME TablesInv, NEW c \in Calls, CommitFinalize(c) PROVE RowsKept
<1> DEFINE u == api[c].upload
           r == api[c].rec
           row == [status |-> "ready", upload |-> u, bytes |-> uploads[u].req.bytes,
                   audio |-> uploads[u].req.audio, expires |-> now + AudioTTL]
<1>1. u \in UploadIds /\ uploads[u].status # "none" /\ r = Target(u) /\ uploads[u].req \in Requests
  BY DEF CommitFinalize, TablesInv, CallsAgree, OnUpload, Named
<1>2. r \in Recordings /\ row \in RecordingRow /\ row.status = "ready" /\ row.upload = u
  BY <1>1 DEF Target, RecordingRow, TablesInv, Tables
<1>3. \/ UNCHANGED rows
      \/ /\ uploads' = [uploads EXCEPT ![u].status = "finalized"]
         /\ recordings' = [recordings EXCEPT ![r] = row]
  BY DEF CommitFinalize, rows
<1> HIDE DEF u, r, row
<1>4. CASE UNCHANGED rows
  BY <1>4 DEF rows, RowsKept, TablesInv, Tables, Named, UploadsFollow, 
     NoDanglingUpload, Present, Exists, Target
<1>5. CASE /\ uploads' = [uploads EXCEPT ![u].status = "finalized"]
           /\ recordings' = [recordings EXCEPT ![r] = row]
  <2>1. /\ uploads' \in [UploadIds -> UploadRow] /\ recordings' \in [Recordings -> RecordingRow]
        /\ uploads'[u].status = "finalized" /\ uploads'[u].req = uploads[u].req
        /\ \A v \in UploadIds : v # u => uploads'[v] = uploads[v]
        /\ recordings'[r] = row /\ \A x \in Recordings : x # r => recordings'[x] = recordings[x]
    <3> DEFINE done == [uploads[u] EXCEPT !.status = "finalized"]
    <3>1. done \in UploadRow /\ done.status = "finalized" /\ done.req = uploads[u].req
      BY <1>1 DEF TablesInv, Tables, UploadRow
    <3>2. uploads' = [uploads EXCEPT ![u] = done]
      BY <1>1, <1>5 DEF TablesInv, Tables
    <3> HIDE DEF done
    <3>3. QED
      BY <1>1, <1>2, <1>5, <3>1, <3>2 DEF TablesInv, Tables
  <2>2. UploadsFollow
    BY <1>1, <2>1 DEF UploadsFollow
  <2>3. Named'
    BY <1>1, <1>2, <2>1 DEF TablesInv, Named, Present
  <2>4. NoDanglingUpload'
    BY <1>1, <1>2, <2>1 DEF TablesInv, Named, NoDanglingUpload, Present, Exists, Target
  <2>5. QED
    BY <2>1, <2>2, <2>3, <2>4 DEF RowsKept
<1>6. QED
  BY <1>3, <1>4, <1>5

\* DELETE and the cleanup only move a recording that is present to another status.
LEMMA RetireKeeps ==
  ASSUME TablesInv, NEW r \in Recordings, NEW s \in {"deleted", "expired"}, Present(r),
         recordings' = [recordings EXCEPT ![r].status = s], UNCHANGED uploads
  PROVE  RowsKept
<1>1. /\ recordings' \in [Recordings -> RecordingRow]
      /\ recordings'[r].status # "none" /\ recordings'[r].upload = recordings[r].upload
      /\ \A x \in Recordings : x # r => recordings'[x] = recordings[x]
  BY DEF TablesInv, Tables, RecordingRow
<1>2. uploads' \in [UploadIds -> UploadRow] /\ UploadsFollow
  BY DEF TablesInv, Tables, UploadsFollow
<1>3. Named'
  BY <1>1 DEF TablesInv, Named, Present
<1>4. NoDanglingUpload'
  BY <1>1 DEF TablesInv, NoDanglingUpload, Present, Exists, Target
<1>5. QED
  BY <1>1, <1>2, <1>3, <1>4 DEF RowsKept

LEMMA RemoveKeeps == ASSUME TablesInv, RemoveUploads PROVE RowsKept
<1> DEFINE gone == Abandoned(cleaner.since)
<1>1. /\ UNCHANGED recordings
      /\ \A u \in UploadIds :
           \/ uploads'[u] = uploads[u]
           \/ u \in gone /\ ~Referenced(gone)
              /\ uploads'[u] = [status |-> "removed", req |-> uploads[u].req, expires |-> 0]
      /\ uploads' \in [UploadIds -> UploadRow]
  BY DEF RemoveUploads, TablesInv, Tables, UploadRow
<1>2. \A u \in UploadIds : u \in gone => uploads[u].status # "none"
  BY DEF Abandoned, Exists
<1>3. recordings' \in [Recordings -> RecordingRow] /\ UploadsFollow /\ Named'
  BY <1>1, <1>2 DEF TablesInv, Tables, Named, UploadsFollow, Present
<1>4. NoDanglingUpload'
  BY <1>1 DEF TablesInv, Named, NoDanglingUpload, Present, Exists, Target, Referenced
<1>5. QED
  BY <1>1, <1>3, <1>4 DEF RowsKept

LEMMA RowsStep == TablesInv /\ [Next]_vars => RowsKept
<1> SUFFICES ASSUME TablesInv, [Next]_vars PROVE RowsKept
  OBVIOUS
<1>1. ASSUME UNCHANGED rows PROVE RowsKept
  BY <1>1 DEF rows, RowsKept, TablesInv, Tables, Named, UploadsFollow, 
     NoDanglingUpload, Present, Exists, Target
<1>2. ASSUME NEW c \in Calls, NEW r \in Recordings, DeleteRecording(c, r) PROVE RowsKept
  BY <1>2, RetireKeeps DEF DeleteRecording
<1>3. ASSUME MarkExpired PROVE RowsKept
  <2>1. CASE recordings' = recordings
    BY <1>1, <1>3, <2>1 DEF MarkExpired, rows
  <2>2. CASE recordings' # recordings
    <3>1. cleaner.rec \in Recordings /\ Present(cleaner.rec)
      BY <1>3, <2>2 DEF MarkExpired, TablesInv, Tables, Present
    <3>2. QED
      BY <1>3, <2>2, <3>1, RetireKeeps DEF MarkExpired
  <2>3. QED
    BY <2>1, <2>2
<1>4. CASE ApiStep
  BY <1>1, <1>2, <1>4, CreateKeeps, MarkKeeps, CommitKeeps DEF ApiStep, BeginPut, WriteStaging,
     BeginFinalize, ReadStaging, Rename, CheckCap, DeleteAbsent, UnlinkDeleted, rows
<1>5. CASE CleanerStep
  BY <1>1, <1>3, <1>5, RemoveKeeps DEF CleanerStep, PassStep, SelectOverdue, UnlinkOverdue, AllUnlinked, rows
<1>6. CASE UNCHANGED vars \/ ApiCrash \/ WorkerCrash \/ Tick
  BY <1>1, <1>6 DEF vars, ApiCrash, WorkerCrash, Tick, rows
<1>7. QED
  BY <1>4, <1>5, <1>6 DEF Next

-----------------------------------------------------------------------------
(* The calls.                                                                *)

LEMMA CallsStep == TablesInv /\ [Next]_vars => api' \in [Calls -> ApiCall] /\ CallsAgree'
<1> SUFFICES ASSUME TablesInv, [Next]_vars PROVE api' \in [Calls -> ApiCall] /\ CallsAgree'
  OBVIOUS
<1> DEFINE Goal == api' \in [Calls -> ApiCall] /\ CallsAgree'
<1>1. /\ api \in [Calls -> ApiCall] /\ UploadsFollow
      /\ IdleCall \in ApiCall /\ IdleCall.at = "idle"
  BY RowsStep DEF TablesInv, Tables, RowsKept, ApiCall, IdleCall
<1>2. \A c \in Calls :
        api[c].at \in OnUpload
            => /\ api[c].upload \in UploadIds
               /\ uploads'[api[c].upload].status # "none"
               /\ api[c].rec = uploads'[api[c].upload].req.recording
  BY <1>1 DEF TablesInv, CallsAgree, UploadsFollow, Target
<1>3. CASE UNCHANGED api
  BY <1>1, <1>2, <1>3 DEF CallsAgree, Target
<1>4. ASSUME NEW c \in Calls, NEW at \in {"write", "read"}, NEW u \in UploadIds,
             Begin(c, at, u), Exists(u)
      PROVE  Goal
  <2> DEFINE new == [at |-> at, upload |-> u, rec |-> Target(u)]
  <2>1. Target(u) \in Recordings /\ uploads'[u].status # "none" /\ Target(u)' = Target(u)
    BY <1>1, <1>4 DEF Exists, Target, TablesInv, Named, UploadsFollow
  <2>2. new \in ApiCall /\ new.upload = u /\ new.rec = Target(u)
    BY <2>1 DEF ApiCall
  <2>3. api' = [api EXCEPT ![c] = new]
    BY <1>4 DEF Begin
  <2> HIDE DEF new
  <2>4. api' \in [Calls -> ApiCall]
    BY <1>1, <2>2, <2>3
  <2>5. CallsAgree'
    BY <1>1, <1>2, <2>1, <2>2, <2>3 DEF CallsAgree, Target
  <2>6. QED
    BY <2>4, <2>5
<1>5. ASSUME NEW c \in Calls, NEW at \in OnUpload, Goto(c, at), api[c].at \in OnUpload PROVE Goal
  <2> DEFINE new == [api[c] EXCEPT !.at = at]
  <2>1. new \in ApiCall /\ new.upload = api[c].upload /\ new.rec = api[c].rec
    BY <1>1, <1>5 DEF ApiCall, OnUpload
  <2>2. api' = [api EXCEPT ![c] = new]
    BY <1>1, <1>5 DEF Goto
  <2> HIDE DEF new
  <2>3. api' \in [Calls -> ApiCall]
    BY <1>1, <2>1, <2>2
  <2>4. CallsAgree'
    BY <1>1, <1>2, <1>5, <2>1, <2>2 DEF CallsAgree, Target
  <2>5. QED
    BY <2>3, <2>4
<1>6. ASSUME NEW c \in Calls, Answer(c) PROVE Goal
  BY <1>1, <1>2, <1>6 DEF Answer, CallsAgree, OnUpload, Target
<1>7. ASSUME NEW c \in Calls, NEW r \in Recordings, DeleteRecording(c, r) PROVE Goal
  <2> DEFINE new == [at |-> "unlink", upload |-> NoUpload, rec |-> r]
  <2>1. new \in ApiCall /\ new.at = "unlink"
    BY DEF ApiCall
  <2>2. api' = [api EXCEPT ![c] = new]
    BY <1>7 DEF DeleteRecording
  <2> HIDE DEF new
  <2>3. QED
    BY <1>1, <1>2, <2>1, <2>2 DEF CallsAgree, OnUpload, Target
<1>8. CASE ApiCrash
  BY <1>1, <1>8 DEF ApiCrash, CallsAgree, OnUpload
<1>9. ASSUME NEW c \in Calls, NEW u \in UploadIds, BeginPut(c, u) \/ BeginFinalize(c, u) PROVE Goal
  BY <1>4, <1>9 DEF BeginPut, BeginFinalize
<1>10. ASSUME NEW c \in Calls,
              \/ WriteStaging(c) \/ MarkWritten(c) \/ ReadStaging(c) \/ Rename(c) \/ CheckCap(c)
              \/ CommitFinalize(c) \/ UnlinkDeleted(c)
       PROVE  Goal
  BY <1>5, <1>6, <1>10 DEF WriteStaging, MarkWritten, ReadStaging, Rename, CheckCap,
     CommitFinalize, UnlinkDeleted, OnUpload
<1>11. CASE ApiStep
  BY <1>3, <1>7, <1>9, <1>10, <1>11 DEF ApiStep, CreateUpload, DeleteAbsent
<1>12. CASE UNCHANGED vars \/ CleanerStep \/ WorkerCrash \/ Tick
  BY <1>3, <1>12 DEF vars, CleanerStep, PassStep, SelectOverdue, UnlinkOverdue, MarkExpired, AllUnlinked,
     RemoveUploads, WorkerCrash, Tick
<1>13. QED
  BY <1>8, <1>11, <1>12 DEF Next

LEMMA ClockStep == TablesInv /\ [Next]_vars => now' \in Nat
<1> SUFFICES ASSUME TablesInv, [Next]_vars PROVE now' \in Nat
  OBVIOUS
<1>1. now' = now \/ now' = now + 1
  BY DEF Next, ApiStep, CleanerStep, PassStep, CreateUpload, BeginPut, WriteStaging, MarkWritten,
     BeginFinalize, ReadStaging, Rename, CheckCap, CommitFinalize, DeleteAbsent, DeleteRecording,
     UnlinkDeleted, ApiCrash, SelectOverdue, UnlinkOverdue, MarkExpired, AllUnlinked,
     RemoveUploads, WorkerCrash, Tick, vars
<1>2. QED
  BY <1>1 DEF TablesInv, Tables

LEMMA TablesStep == TablesInv /\ [Next]_vars => TablesInv'
BY RowsStep, CallsStep, ClockStep DEF TablesInv, Tables, RowsKept

\* NoDanglingUpload of PracticeUploads: no expiry takes away the upload row that a
\* recording row names, even after a late PUT has taken back its status.
THEOREM UploadsOutliveRecordings == SafeSpec => []NoDanglingUpload
<1>1. TablesInv => NoDanglingUpload
  BY DEF TablesInv
<1>2. QED
  BY TablesInit, TablesStep, <1>1, PTL DEF SafeSpec

-----------------------------------------------------------------------------
(* The files and the cleanup, which no row depends on.                       *)

MediaTypes ==
    /\ staging \in [UploadIds -> File] /\ media \in [Recordings -> File]
    /\ cleaner \in Cleaner
    /\ deleteAcked \subseteq Recordings /\ overlapped \subseteq Recordings
    /\ now \in Time /\ crashes \in 0..MaxCrashes
    /\ \A c \in Calls : api[c].at = "unlink" => api[c].rec \in Recordings

TypesInv == TablesInv /\ MediaTypes

LEMMA MediaInit == Init => MediaTypes
BY DEF Init, MediaTypes, File, Cleaner, IdleCleaner, IdleCall, Time

LEMMA FilesStep == ASSUME TypesInv, [Next]_vars
                   PROVE  staging' \in [UploadIds -> File] /\ media' \in [Recordings -> File]
<1> DEFINE Goal == staging' \in [UploadIds -> File] /\ media' \in [Recordings -> File]
<1>1. ASSUME UNCHANGED disk PROVE Goal
  BY <1>1 DEF TypesInv, MediaTypes, disk
<1>2. ASSUME NEW c \in Calls, WriteStaging(c) \/ Rename(c) \/ UnlinkDeleted(c) PROVE Goal
  <2>1. CASE WriteStaging(c)
    BY <2>1 DEF TypesInv, MediaTypes, WriteStaging, File
  <2>2. CASE Rename(c)
    <3>1. api[c].upload \in UploadIds
      BY <2>2 DEF TypesInv, TablesInv, CallsAgree, OnUpload, Rename
    <3>2. QED
      BY <2>2, <3>1 DEF TypesInv, MediaTypes, Rename, File
  <2>3. CASE UnlinkDeleted(c)
    BY <2>3 DEF TypesInv, MediaTypes, UnlinkDeleted, File
  <2>4. QED
    BY <1>2, <2>1, <2>2, <2>3
<1>3. ASSUME NEW r \in Recordings, UnlinkOverdue(r) PROVE Goal
  BY <1>3 DEF TypesInv, MediaTypes, UnlinkOverdue, File
<1>4. CASE ApiStep
  BY <1>1, <1>2, <1>4 DEF ApiStep, CreateUpload, BeginPut, BeginFinalize, MarkWritten, ReadStaging,
     CheckCap, CommitFinalize, DeleteAbsent, DeleteRecording
<1>5. CASE CleanerStep
  BY <1>1, <1>3, <1>5 DEF CleanerStep, PassStep, SelectOverdue, MarkExpired, AllUnlinked, RemoveUploads
<1>6. CASE UNCHANGED vars \/ ApiCrash \/ WorkerCrash \/ Tick
  BY <1>1, <1>6 DEF vars, disk, ApiCrash, WorkerCrash, Tick
<1>7. QED
  BY <1>4, <1>5, <1>6 DEF Next

LEMMA CleanerTypes == ASSUME TypesInv, [Next]_vars PROVE cleaner' \in Cleaner
<1>1. ASSUME UNCHANGED cleaner PROVE cleaner' \in Cleaner
  BY <1>1 DEF TypesInv, MediaTypes
<1>2. IdleCleaner \in Cleaner
  BY DEF IdleCleaner, Cleaner, Time
<1>3. CASE CleanerStep
  <2>1. CASE SelectOverdue
    BY <2>1 DEF SelectOverdue, Cleaner, Overdue, TypesInv, MediaTypes
  <2>2. ASSUME NEW r \in Recordings, UnlinkOverdue(r) PROVE cleaner' \in Cleaner
    BY <2>2 DEF UnlinkOverdue, Cleaner, TypesInv, MediaTypes
  <2>3. CASE MarkExpired
    BY <2>3 DEF MarkExpired, Cleaner, TypesInv, MediaTypes
  <2>4. CASE AllUnlinked
    BY <2>4 DEF AllUnlinked, Cleaner, TypesInv, MediaTypes
  <2>5. CASE RemoveUploads
    BY <1>2, <2>5 DEF RemoveUploads
  <2>6. QED
    BY <1>3, <2>1, <2>2, <2>3, <2>4, <2>5 DEF CleanerStep, PassStep
<1>4. CASE ApiStep
  BY <1>1, <1>4 DEF ApiStep, CreateUpload, BeginPut, BeginFinalize, WriteStaging, MarkWritten,
     ReadStaging, Rename, CheckCap, CommitFinalize, DeleteAbsent, DeleteRecording, UnlinkDeleted
<1>5. CASE UNCHANGED vars \/ ApiCrash \/ WorkerCrash \/ Tick
  BY <1>1, <1>2, <1>5 DEF vars, ApiCrash, WorkerCrash, Tick
<1>6. QED
  BY <1>3, <1>4, <1>5 DEF Next

LEMMA DeletionsStep ==
  ASSUME TypesInv, [Next]_vars
  PROVE  /\ deleteAcked' \subseteq Recordings
         /\ \A c \in Calls : api'[c].at = "unlink" => api'[c].rec \in Recordings
<1> DEFINE Unlinks == \A c \in Calls : api'[c].at = "unlink" => api'[c].rec \in Recordings
           Goal == deleteAcked' \subseteq Recordings /\ Unlinks
<1>1. /\ api \in [Calls -> ApiCall] /\ IdleCall.at = "idle" /\ deleteAcked \subseteq Recordings
      /\ \A c \in Calls : api[c].at = "unlink" => api[c].rec \in Recordings
  BY DEF TypesInv, TablesInv, Tables, MediaTypes, IdleCall
<1>2. ASSUME UNCHANGED api PROVE Unlinks
  BY <1>1, <1>2
<1>3. ASSUME NEW c \in Calls, Answer(c) PROVE Unlinks
  BY <1>1, <1>3 DEF Answer
<1>4. ASSUME NEW c \in Calls, NEW at \in OnUpload, Goto(c, at) PROVE Unlinks
  BY <1>1, <1>4 DEF Goto, OnUpload, ApiCall
<1>5. ASSUME NEW c \in Calls, NEW u \in UploadIds, BeginPut(c, u) \/ BeginFinalize(c, u) PROVE Goal
  BY <1>1, <1>5 DEF BeginPut, BeginFinalize, Begin
<1>6. ASSUME NEW c \in Calls, WriteStaging(c) \/ MarkWritten(c) \/ ReadStaging(c) \/ Rename(c)
                             \/ CheckCap(c) \/ CommitFinalize(c)
      PROVE  Goal
  BY <1>1, <1>3, <1>4, <1>6 DEF WriteStaging, MarkWritten, ReadStaging, Rename, CheckCap,
     CommitFinalize, OnUpload
<1>7. ASSUME NEW c \in Calls, NEW r \in Recordings, DeleteAbsent(c, r) \/ DeleteRecording(c, r)
      PROVE  Goal
  BY <1>1, <1>2, <1>7 DEF DeleteAbsent, DeleteRecording
<1>8. ASSUME NEW c \in Calls, UnlinkDeleted(c) PROVE Goal
  BY <1>1, <1>3, <1>8 DEF UnlinkDeleted
<1>9. CASE ApiStep
  BY <1>1, <1>2, <1>5, <1>6, <1>7, <1>8, <1>9 DEF ApiStep, CreateUpload
<1>10. CASE ApiCrash
  BY <1>1, <1>10 DEF ApiCrash
<1>11. CASE UNCHANGED vars \/ CleanerStep \/ WorkerCrash \/ Tick
  BY <1>1, <1>2, <1>11 DEF vars, CleanerStep, PassStep, SelectOverdue, UnlinkOverdue, MarkExpired,
     AllUnlinked, RemoveUploads, WorkerCrash, Tick
<1>12. QED
  BY <1>9, <1>10, <1>11 DEF Next

\* Overlaps are never forgotten, and only a request that begins adds one.
LEMMA OverlapsStep ==
  ASSUME TypesInv, [Next]_vars
  PROVE  overlapped \subseteq overlapped' /\ overlapped' \subseteq Recordings
<1> DEFINE Goal == overlapped \subseteq overlapped' /\ overlapped' \subseteq Recordings
<1>1. overlapped \subseteq Recordings
  BY DEF TypesInv, MediaTypes
<1>2. ASSUME UNCHANGED overlapped PROVE Goal
  BY <1>1, <1>2
<1>3. ASSUME NEW r \in Recordings, Meets(r) PROVE Goal
  BY <1>1, <1>3 DEF Meets
<1>4. ASSUME NEW c \in Calls, NEW u \in UploadIds, BeginPut(c, u) \/ BeginFinalize(c, u) PROVE Goal
  <2>1. Target(u) \in Recordings
    BY <1>4 DEF BeginPut, BeginFinalize, Exists, Target, TypesInv, TablesInv, Named
  <2>2. QED
    BY <1>3, <1>4, <2>1 DEF BeginPut, BeginFinalize, Begin
<1>5. ASSUME NEW c \in Calls, NEW r \in Recordings, DeleteRecording(c, r) PROVE Goal
  BY <1>3, <1>5 DEF DeleteRecording
<1>6. CASE ApiStep
  BY <1>2, <1>4, <1>5, <1>6 DEF ApiStep, CreateUpload, WriteStaging, MarkWritten, ReadStaging,
     Rename, CheckCap, CommitFinalize, DeleteAbsent, UnlinkDeleted
<1>7. CASE UNCHANGED vars \/ ApiCrash \/ CleanerStep \/ WorkerCrash \/ Tick
  BY <1>2, <1>7 DEF vars, ApiCrash, CleanerStep, PassStep, SelectOverdue, UnlinkOverdue, MarkExpired,
     AllUnlinked, RemoveUploads, WorkerCrash, Tick
<1>8. QED
  BY <1>6, <1>7 DEF Next

LEMMA BoundsStep == ASSUME TypesInv, [Next]_vars PROVE now' \in Time /\ crashes' \in 0..MaxCrashes
<1>1. /\ now' = now \/ (now < MaxTime /\ now' = now + 1)
      /\ \/ crashes' = crashes
         \/ (crashes < MaxCrashes \/ crashes < MaxApiCrashes) /\ crashes' = crashes + 1
  BY DEF Next, ApiStep, CleanerStep, PassStep, CreateUpload, BeginPut, WriteStaging, MarkWritten,
     BeginFinalize, ReadStaging, Rename, CheckCap, CommitFinalize, DeleteAbsent, DeleteRecording,
     UnlinkDeleted, ApiCrash, SelectOverdue, UnlinkOverdue, MarkExpired, AllUnlinked,
     RemoveUploads, WorkerCrash, Tick, vars
<1>2. QED
  BY <1>1 DEF TypesInv, MediaTypes, Time

LEMMA TypesStep == TypesInv /\ [Next]_vars => TypesInv'
BY TablesStep, FilesStep, CleanerTypes, DeletionsStep, OverlapsStep, BoundsStep DEF TypesInv, MediaTypes

\* TypeOK of PracticeUploads, for every number of requests, uploads and crashes.  A
\* call that is about to unlink names a recording: what a DELETE acknowledges is one.
THEOREM TypeCorrect == SafeSpec => []TypeOK
<1>1. Init => TypesInv
  BY TablesInit, MediaInit DEF TypesInv
<1>2. TypesInv => TypeOK
  BY DEF TypesInv, TablesInv, Tables, MediaTypes, TypeOK
<1>3. QED
  BY <1>1, <1>2, TypesStep, PTL DEF SafeSpec

-----------------------------------------------------------------------------
(* What one statement does to the tables.                                    *)

Commits(c, r) ==
    /\ CommitFinalize(c) /\ api[c].rec = r
    /\ recordings'[r].status = "ready" /\ recordings'[r].upload = api[c].upload
    /\ uploads'[api[c].upload].status = "finalized"

\* Only the commit makes a recording ready.
RecordingMoves ==
    \A r \in Recordings :
        \/ recordings'[r] = recordings[r]
        \/ /\ Present(r) /\ recordings'[r].upload = recordings[r].upload
           /\ recordings'[r].status \in {"deleted", "expired"}
        \/ \E c \in Calls : Commits(c, r)

\* Only the commit writes `finalized`, and only a late PUT takes it back.
UploadMoves ==
    \A u \in UploadIds :
        /\ uploads'[u].status = "finalized"
             => uploads[u].status = "finalized" \/ \E c \in Calls : CommitFinalize(c) /\ api[c].upload = u
        /\ uploads[u].status = "finalized"
             => uploads'[u].status = "finalized" \/ \E c \in Calls : MarkWritten(c) /\ api[c].upload = u

TableMoves == RecordingMoves /\ UploadMoves

LEMMA TablesMove == ASSUME TypesInv, [Next]_vars PROVE TableMoves
<1>1. /\ uploads \in [UploadIds -> UploadRow] /\ recordings \in [Recordings -> RecordingRow]
  BY DEF TypesInv, TablesInv, Tables
<1>2. ASSUME UNCHANGED rows PROVE TableMoves
  BY <1>2 DEF rows, TableMoves, RecordingMoves, UploadMoves
<1>3. ASSUME NEW q \in Requests, CreateUpload(q) PROVE TableMoves
  <2>1. PICK u \in UploadIds :
          /\ uploads[u].status = "none" /\ UNCHANGED recordings
          /\ uploads' = [uploads EXCEPT ![u] = [status |-> "created", req |-> q,
                                                expires |-> now + UploadTTL]]
    BY <1>3 DEF CreateUpload
  <2>2. QED
    BY <1>1, <2>1 DEF TableMoves, RecordingMoves, UploadMoves
<1>4. ASSUME NEW c \in Calls, MarkWritten(c) PROVE TableMoves
  <2>1. api[c].upload \in UploadIds
    BY <1>4 DEF TypesInv, TablesInv, CallsAgree, OnUpload, MarkWritten
  <2>2. \A u \in UploadIds : uploads'[u] = uploads[u] \/
           (u = api[c].upload /\ uploads'[u].status = "uploaded")
    BY <1>1, <1>4, <2>1 DEF MarkWritten, UploadRow
  <2>3. RecordingMoves
    BY <1>4 DEF MarkWritten, RecordingMoves
  <2>4. UploadMoves
    BY <1>4, <2>2 DEF UploadMoves
  <2>5. QED
    BY <2>3, <2>4 DEF TableMoves
<1>5. ASSUME NEW c \in Calls, CommitFinalize(c) PROVE TableMoves
  <2> DEFINE u == api[c].upload
             r == api[c].rec
  <2>1. u \in UploadIds /\ r \in Recordings
    BY <1>5 DEF TypesInv, TablesInv, CallsAgree, Named, Target, OnUpload, CommitFinalize
  <2>2. CASE ~Exists(u)
    BY <1>2, <1>5, <2>2 DEF CommitFinalize, rows
  <2>3. CASE Exists(u)
    <3>1. /\ uploads' = [uploads EXCEPT ![u].status = "finalized"]
          /\ recordings' = [recordings EXCEPT ![r] =
               [status |-> "ready", upload |-> u, bytes |-> uploads[u].req.bytes,
                audio |-> uploads[u].req.audio, expires |-> now + AudioTTL]]
      BY <1>5, <2>3 DEF CommitFinalize
    <3>2. uploads'[u].status = "finalized" /\ \A v \in UploadIds : v # u => uploads'[v] = uploads[v]
      BY <1>1, <2>1, <3>1 DEF UploadRow
    <3>3. Commits(c, r) /\ \A x \in Recordings : x # r => recordings'[x] = recordings[x]
      BY <1>1, <1>5, <2>1, <3>1, <3>2 DEF Commits
    <3>4. QED
      BY <1>5, <3>2, <3>3 DEF TableMoves, RecordingMoves, UploadMoves
  <2>4. QED
    BY <2>2, <2>3
<1>6. ASSUME NEW c \in Calls, NEW r \in Recordings, DeleteRecording(c, r) PROVE TableMoves
  BY <1>1, <1>6 DEF DeleteRecording, TableMoves, RecordingMoves, UploadMoves, RecordingRow
<1>7. CASE MarkExpired
  BY <1>1, <1>7 DEF MarkExpired, TableMoves, RecordingMoves, UploadMoves, Present, RecordingRow
<1>8. CASE RemoveUploads
  BY <1>1, <1>8 DEF RemoveUploads, TableMoves, RecordingMoves, UploadMoves, Abandoned
<1>9. CASE ApiStep
  BY <1>2, <1>3, <1>4, <1>5, <1>6, <1>9 DEF ApiStep, BeginPut, WriteStaging,
     BeginFinalize, ReadStaging, Rename, CheckCap, DeleteAbsent, UnlinkDeleted, rows
<1>10. CASE CleanerStep
  BY <1>2, <1>7, <1>8, <1>10 DEF CleanerStep, PassStep, SelectOverdue, UnlinkOverdue, AllUnlinked, rows
<1>11. CASE UNCHANGED vars \/ ApiCrash \/ WorkerCrash \/ Tick
  BY <1>2, <1>11 DEF vars, ApiCrash, WorkerCrash, Tick, rows
<1>12. QED
  BY <1>9, <1>10, <1>11 DEF Next

-----------------------------------------------------------------------------
(* Who works on a recording.                                                 *)

\* Two requests on one recording have met.
OneEach ==
    \A c, d \in Calls :
        (c # d /\ api[c].at # "idle" /\ api[d].at # "idle" /\ api[c].rec = api[d].rec)
            => api[c].rec \in overlapped

\* What a step does to the requests: it moves one on or ends it, it ends all of
\* them, or one begins, on a recording that it may share.
Begins(c) ==
    /\ api[c].at = "idle" /\ Meets(api'[c].rec)
    /\ \A d \in Calls \ {c} : api'[d] = api[d]
Continues(c) ==
    /\ api[c].at # "idle"
    /\ api'[c].at = "idle" \/ (api'[c].at # "idle" /\ api'[c].rec = api[c].rec)
    /\ \A d \in Calls \ {c} : api'[d] = api[d]

LEMMA WhoMoves ==
  ASSUME TypesInv, [Next]_vars
  PROVE  \/ \A c \in Calls : api'[c] = api[c]
         \/ \A c \in Calls : api'[c].at = "idle"
         \/ \E c \in Calls : Begins(c) \/ Continues(c)
<1> DEFINE Goal == \/ \A c \in Calls : api'[c] = api[c]
                   \/ \A c \in Calls : api'[c].at = "idle"
                   \/ \E c \in Calls : Begins(c) \/ Continues(c)
<1>1. api \in [Calls -> ApiCall] /\ IdleCall.at = "idle"
  BY DEF TypesInv, TablesInv, Tables, IdleCall
<1>2. ASSUME UNCHANGED api PROVE Goal
  BY <1>2
<1>3. ASSUME NEW c \in Calls, api[c].at # "idle", Answer(c) PROVE Goal
  BY <1>1, <1>3 DEF Answer, Continues
<1>4. ASSUME NEW c \in Calls, api[c].at # "idle", NEW at \in OnUpload, Goto(c, at) PROVE Goal
  <2>1. api'[c].at = at /\ at # "idle" /\ api'[c].rec = api[c].rec
        /\ \A d \in Calls \ {c} : api'[d] = api[d]
    BY <1>1, <1>4 DEF Goto, OnUpload, ApiCall
  <2>2. QED
    BY <1>4, <2>1 DEF Continues
<1>5. ASSUME NEW c \in Calls, NEW u \in UploadIds, BeginPut(c, u) \/ BeginFinalize(c, u) PROVE Goal
  BY <1>1, <1>5 DEF BeginPut, BeginFinalize, Begin, Begins
<1>6. ASSUME NEW c \in Calls, NEW r \in Recordings, DeleteRecording(c, r) PROVE Goal
  BY <1>1, <1>6 DEF DeleteRecording, Begins
<1>7. ASSUME NEW c \in Calls,
             \/ WriteStaging(c) \/ MarkWritten(c) \/ ReadStaging(c) \/ Rename(c) \/ CheckCap(c)
             \/ CommitFinalize(c) \/ UnlinkDeleted(c)
      PROVE  Goal
  BY <1>3, <1>4, <1>7 DEF WriteStaging, MarkWritten, ReadStaging, Rename, CheckCap,
     CommitFinalize, UnlinkDeleted, OnUpload
<1>8. CASE ApiStep
  BY <1>2, <1>5, <1>6, <1>7, <1>8 DEF ApiStep, CreateUpload, DeleteAbsent
<1>9. CASE ApiCrash
  BY <1>1, <1>9 DEF ApiCrash
<1>10. CASE UNCHANGED vars \/ CleanerStep \/ WorkerCrash \/ Tick
  BY <1>2, <1>10 DEF vars, CleanerStep, PassStep, SelectOverdue, UnlinkOverdue, MarkExpired,
     AllUnlinked, RemoveUploads, WorkerCrash, Tick
<1>11. QED
  BY <1>8, <1>9, <1>10 DEF Next

LEMMA OneEachStep == ASSUME TypesInv, OneEach, [Next]_vars PROVE OneEach'
<1> SUFFICES ASSUME NEW c \in Calls, NEW d \in Calls, c # d,
                    api'[c].at # "idle", api'[d].at # "idle", api'[c].rec = api'[d].rec
             PROVE  api'[c].rec \in overlapped'
  BY DEF OneEach
<1>1. overlapped \subseteq overlapped'
  BY OverlapsStep
<1>2. ASSUME \A x \in {c, d} : api[x].at # "idle" /\ api'[x].rec = api[x].rec
      PROVE  api'[c].rec \in overlapped'
  BY <1>1, <1>2 DEF OneEach
<1>3. ASSUME NEW x \in {c, d}, Begins(x) PROVE api'[c].rec \in overlapped'
  BY <1>3 DEF Begins, Meets, InFlight
<1>4. ASSUME NEW x \in Calls, Begins(x) \/ Continues(x), ~(x \in {c, d} /\ Begins(x))
      PROVE  \A y \in {c, d} : api[y].at # "idle" /\ api'[y].rec = api[y].rec
  BY <1>4 DEF Begins, Continues
<1>5. QED
  BY <1>2, <1>3, <1>4, WhoMoves

-----------------------------------------------------------------------------
(* The two stores: what holds of a recording no two requests have met on, with *)
(* any number of requests on others, the cleanup and the restarts.             *)

Alone(r) == r \notin overlapped

RowsFinalized ==
    \A r \in Recordings : Alone(r) /\ Present(r) => uploads[recordings[r].upload].status = "finalized"

\* What a call relies on: the upload is not finalized yet, the bytes were verified,
\* and the file it moved is in place unless the cleanup had selected an earlier row
\* of the recording.
Relies(c) ==
    /\ api[c].at \in OnUpload => uploads[api[c].upload].status # "finalized"
    /\ api[c].at = "rename" => staging[api[c].upload] = "declared"
    /\ api[c].at \in {"cap", "commit"} => media[api[c].rec] = "declared" \/ Present(api[c].rec)
    /\ api[c].at = "unlink" => recordings[api[c].rec].status # "ready"
CallRelies == \A c \in Calls : (api[c].at # "idle" /\ Alone(api[c].rec)) => Relies(c)

\* A ready row that no other one preceded.
Fresh(r) == recordings[r].status = "ready" /\ ~Replaced(r)

PassSelected ==
    \A r \in cleaner.todo : Present(r) /\ (Alone(r) /\ Fresh(r) => r \in Overdue(now))

ServedInv ==
    /\ TypesInv /\ OneEach
    /\ RowsFinalized /\ CallRelies /\ PassSelected /\ ReadyHasFile

LEMMA ServedInit == Init => ServedInv
<1> SUFFICES ASSUME Init PROVE ServedInv
  OBVIOUS
<1>1. OneEach /\ RowsFinalized /\ CallRelies /\ PassSelected /\ ReadyHasFile
  BY DEF Init, OneEach, RowsFinalized, CallRelies, PassSelected, ReadyHasFile, Present, IdleCall,
     IdleCleaner
<1>2. QED
  BY <1>1, TablesInit, MediaInit DEF ServedInv, TypesInv

\* A request that works on an upload works on its recording.
LEMMA CallTarget ==
  ASSUME TypesInv, NEW c \in Calls, api[c].at \in OnUpload
  PROVE  /\ api[c].upload \in UploadIds /\ api[c].rec = Target(api[c].upload)
         /\ api[c].rec \in Recordings /\ api[c].at # "idle"
BY DEF TypesInv, TablesInv, CallsAgree, Named, Target, OnUpload

\* No late PUT reaches a finalized upload of a recording no two requests met on.
LEMMA FinalizedStays ==
  ASSUME ServedInv, [Next]_vars, NEW u \in UploadIds, uploads[u].status = "finalized",
         Alone(Target(u))
  PROVE  uploads'[u].status = "finalized" /\ Target(u)' = Target(u)
<1>1. ASSUME NEW c \in Calls, MarkWritten(c), api[c].upload = u PROVE FALSE
  <2>1. api[c].at \in OnUpload
    BY <1>1 DEF MarkWritten, OnUpload
  <2>2. api[c].rec = Target(u) /\ api[c].at # "idle"
    BY <1>1, <2>1, CallTarget DEF ServedInv
  <2>3. QED
    BY <1>1, <2>1, <2>2 DEF ServedInv, CallRelies, Relies
<1>2. QED
  BY <1>1, TablesMove, RowsStep DEF TableMoves, UploadMoves, ServedInv, TypesInv, RowsKept,
     UploadsFollow, Target

LEMMA RowsFinalizedStep == ASSUME ServedInv, [Next]_vars
                           PROVE  /\ RowsFinalized'
                                  /\ \A r \in Recordings : Present(r) => Present(r)'
<1>1. RecordingMoves /\ TypesInv /\ TablesInv /\ overlapped \subseteq overlapped'
  BY TablesMove, OverlapsStep DEF ServedInv, TypesInv, TableMoves
<1>2. ASSUME NEW r \in Recordings, Present(r)', Alone(r)'
      PROVE  uploads'[recordings'[r].upload].status = "finalized"
  <2>1. CASE Present(r) /\ recordings'[r].upload = recordings[r].upload
    <3> DEFINE u == recordings[r].upload
    <3>1. u \in UploadIds /\ uploads[u].status = "finalized" /\ Target(u) = r /\ Alone(r)
      BY <1>1, <1>2, <2>1 DEF TablesInv, Named, NoDanglingUpload, ServedInv, RowsFinalized, Alone
    <3>2. QED
      BY <2>1, <3>1, FinalizedStays
  <2>2. ASSUME NEW c \in Calls, Commits(c, r) PROVE uploads'[recordings'[r].upload].status = "finalized"
    BY <2>2 DEF Commits
  <2>3. QED
    BY <1>1, <1>2, <2>1, <2>2 DEF RecordingMoves, Present
<1>3. QED
  BY <1>1, <1>2 DEF RowsFinalized, RecordingMoves, Present, Commits

\* A fresh row was one, or has just been written for a recording that had none.
LEMMA FreshStep ==
  ASSUME ServedInv, [Next]_vars, NEW r \in Recordings, Alone(r)', Fresh(r)'
  PROVE  \/ Fresh(r) /\ recordings'[r] = recordings[r]
         \/ ~Present(r) /\ \E c \in Calls : CommitFinalize(c) /\ api[c].rec = r
<1>1. RecordingMoves /\ TypesInv /\ TablesInv /\ Alone(r)
  BY TablesMove, OverlapsStep DEF ServedInv, TypesInv, TableMoves, Alone
<1>2. CASE recordings'[r] = recordings[r]
  <2>1. ASSUME NEW u \in UploadIds, uploads[u].status = "finalized", Target(u) = r,
               u # recordings[r].upload
        PROVE  Replaced(r)'
    BY <1>1, <1>2, <2>1, FinalizedStays DEF Replaced
  <2>2. QED
    BY <1>2, <2>1 DEF Fresh, Replaced
<1>3. ASSUME NEW c \in Calls, Commits(c, r), Present(r) PROVE FALSE
  <2> DEFINE u == recordings[r].upload
  <2>1. u \in UploadIds /\ uploads[u].status = "finalized" /\ Target(u) = r
    BY <1>1, <1>3 DEF TablesInv, Named, NoDanglingUpload, ServedInv, RowsFinalized
  <2>2. uploads[api[c].upload].status # "finalized"
    BY <1>1, <1>3 DEF Commits, CommitFinalize, ServedInv, CallRelies, Relies, OnUpload
  <2>3. Replaced(r)'
    BY <1>1, <1>3, <2>1, <2>2, FinalizedStays DEF Replaced, Commits
  <2>4. QED
    BY <2>3 DEF Fresh
<1>4. QED
  BY <1>1, <1>2, <1>3 DEF RecordingMoves, Fresh, Commits

-----------------------------------------------------------------------------
(* A request on a recording no other one has met it on.                      *)

\* Others move: they work on other recordings, so on other uploads and files.
Waits(c) ==
    /\ api[c].at # "idle" /\ api'[c] = api[c]
    /\ api[c].at \in OnUpload => staging'[api[c].upload] = staging[api[c].upload]
    /\ media'[api[c].rec] = media[api[c].rec] \/ UnlinkOverdue(api[c].rec)
    /\ \A d \in Calls : ~(CommitFinalize(d) /\ api[d].rec = api[c].rec)
Opens(c) ==
    \/ /\ api'[c].at \in {"write", "read"} /\ api'[c].upload \in UploadIds
       /\ uploads[api'[c].upload].status # "finalized"
    \/ /\ api'[c].at = "unlink" /\ recordings'[api'[c].rec].status = "deleted"
Advances(c) ==
    /\ api[c].at \in OnUpload /\ api'[c].at \in {"mark", "rename", "cap", "commit"}
    /\ api'[c].upload = api[c].upload /\ api'[c].rec = api[c].rec
    /\ api'[c].at = "rename" => staging'[api[c].upload] = "declared"
    /\ api'[c].at = "cap" => api[c].at = "rename" /\ media'[api[c].rec] = staging[api[c].upload]
    /\ api'[c].at = "commit" => api[c].at = "cap" /\ media' = media
Moves(c) == UNCHANGED uploads /\ (Opens(c) \/ (Advances(c) /\ UNCHANGED recordings))

\* The step of another request leaves a request alone with its upload and its file.
LEMMA OthersMove ==
  ASSUME ServedInv, NEW c \in Calls, NEW d \in Calls, c # d, api[c].at # "idle", Alone(api[c].rec),
         \/ WriteStaging(d) \/ MarkWritten(d) \/ ReadStaging(d) \/ Rename(d) \/ CheckCap(d)
         \/ CommitFinalize(d) \/ UnlinkDeleted(d)
  PROVE  Waits(c)
<1>1. /\ api \in [Calls -> ApiCall] /\ staging \in [UploadIds -> File] /\ media \in [Recordings -> File]
  BY DEF ServedInv, TypesInv, TablesInv, Tables, MediaTypes
<1>0. api[c].rec \in Recordings
  BY <1>1, CallTarget DEF ServedInv, TypesInv, MediaTypes, OnUpload, ApiCall
<1>2. api[d].at # "idle" /\ api[d].rec # api[c].rec
  BY DEF ServedInv, OneEach, Alone, WriteStaging, MarkWritten, ReadStaging, Rename, CheckCap,
     CommitFinalize, UnlinkDeleted
<1>3. api'[c] = api[c]
  BY <1>1 DEF WriteStaging, MarkWritten, ReadStaging, Rename, CheckCap, CommitFinalize,
     UnlinkDeleted, Answer, Goto
<1>4. ASSUME api[c].at \in OnUpload PROVE staging'[api[c].upload] = staging[api[c].upload]
  <2>1. api[c].upload \in UploadIds /\ api[c].rec = Target(api[c].upload)
    BY <1>4, CallTarget DEF ServedInv
  <2>2. api[d].at \in OnUpload => api[d].upload # api[c].upload
    BY <1>2, <2>1, CallTarget DEF ServedInv
  <2>3. QED
    BY <1>1, <2>1, <2>2 DEF WriteStaging, MarkWritten, ReadStaging, Rename, CheckCap, CommitFinalize,
       UnlinkDeleted, OnUpload, disk
<1>5. media'[api[c].rec] = media[api[c].rec]
  BY <1>1, <1>2, <1>0 DEF WriteStaging, MarkWritten, ReadStaging, Rename, CheckCap, CommitFinalize,
     UnlinkDeleted, disk
<1>6. ASSUME NEW e \in Calls, CommitFinalize(e), api[e].rec = api[c].rec PROVE FALSE
  <2>1. e = c
    BY <1>6 DEF ServedInv, OneEach, Alone, CommitFinalize
  <2>2. api'[c] = IdleCall
    BY <1>1, <1>6, <2>1 DEF CommitFinalize, Answer
  <2>3. QED
    BY <1>3, <2>2 DEF IdleCall
<1>7. QED
  BY <1>3, <1>4, <1>5, <1>6 DEF Waits

LEMMA CallMoves ==
  ASSUME ServedInv, [Next]_vars, NEW c \in Calls, api'[c].at # "idle", api'[c].rec \notin overlapped'
  PROVE  Waits(c) \/ Moves(c)
<1> DEFINE Goal == Waits(c) \/ Moves(c)
<1>1. /\ api \in [Calls -> ApiCall] /\ recordings \in [Recordings -> RecordingRow]
      /\ media \in [Recordings -> File] /\ IdleCall.at = "idle" /\ overlapped \subseteq overlapped'
      /\ TypesInv
  BY OverlapsStep DEF ServedInv, TypesInv, TablesInv, Tables, MediaTypes, IdleCall
<1>2. ASSUME NEW d \in Calls, Answer(d) PROVE d # c
  BY <1>1, <1>2 DEF Answer
\* Steps that leave the requests as they are.
<1>3. ASSUME UNCHANGED <<api, staging>>, api[c].rec \in Recordings => \/ UNCHANGED media
                                            \/ \E r \in Recordings : UnlinkOverdue(r)
      PROVE  Goal
  <2>1. \A d \in Calls : ~CommitFinalize(d)
    BY <1>1, <1>3 DEF CommitFinalize, Answer
  <2>2. api[c].rec \in Recordings
    BY <1>1, <1>3 DEF CallsAgree, TypesInv, TablesInv, MediaTypes, Named, Target, OnUpload, ApiCall
  <2>3. media'[api[c].rec] = media[api[c].rec] \/ UnlinkOverdue(api[c].rec)
    BY <1>1, <1>3, <2>2 DEF UnlinkOverdue
  <2>4. QED
    BY <1>3, <2>1, <2>3 DEF Waits
\* A request begins.
<1>4. ASSUME NEW d \in Calls, d # c, UNCHANGED disk, api[d].at = "idle",
             \A e \in Calls \ {d} : api'[e] = api[e]
      PROVE  Goal
  <2>1. \A e \in Calls : ~(CommitFinalize(e) /\ api[e].rec = api[c].rec)
    <3>1. ASSUME NEW e \in Calls, CommitFinalize(e) PROVE FALSE
      <4>1. e # d /\ api'[e].at = "idle" /\ api[e].at = "commit"
        BY <1>1, <1>4, <3>1 DEF CommitFinalize, Answer
      <4>2. QED
        BY <1>4, <4>1
    <3>2. QED
      BY <3>1
  <2>2. QED
    BY <1>4, <2>1 DEF Waits, disk
<1>5. ASSUME NEW d \in Calls, NEW u \in UploadIds, BeginPut(d, u) \/ BeginFinalize(d, u) PROVE Goal
  <2>1. PICK at \in {"write", "read"} :
          api' = [api EXCEPT ![d] = [at |-> at, upload |-> u, rec |-> Target(u)]]
    BY <1>5 DEF BeginPut, BeginFinalize, Begin
  <2>2. /\ api'[d].at = at /\ api'[d].upload = u /\ \A e \in Calls \ {d} : api'[e] = api[e]
        /\ api[d].at = "idle"
    BY <1>1, <1>5, <2>1 DEF BeginPut, BeginFinalize, Begin
  <2>3. CASE d = c
    BY <1>5, <2>1, <2>2, <2>3 DEF BeginPut, BeginFinalize, Opens, Moves, rows
  <2>4. CASE d # c
    BY <1>4, <1>5, <2>2, <2>4 DEF BeginPut, BeginFinalize
  <2>5. QED
    BY <2>3, <2>4
<1>6. ASSUME NEW d \in Calls, NEW r \in Recordings, DeleteRecording(d, r) PROVE Goal
  <2>1. api' = [api EXCEPT ![d] = [at |-> "unlink", upload |-> NoUpload, rec |-> r]]
        /\ api[d].at = "idle"
    BY <1>6 DEF DeleteRecording
  <2>2. CASE d = c
    <3>1. api'[c].at = "unlink" /\ api'[c].rec = r
      BY <1>1, <2>1, <2>2
    <3>2. recordings'[r].status = "deleted" /\ UNCHANGED uploads
      BY <1>1, <1>6 DEF DeleteRecording, RecordingRow
    <3>3. QED
      BY <3>1, <3>2 DEF Opens, Moves
  <2>3. CASE d # c
    BY <1>1, <1>4, <1>6, <2>1, <2>3 DEF DeleteRecording
  <2>4. QED
    BY <2>2, <2>3
\* A request goes on: this one, or another one.
<1>7. ASSUME NEW d \in Calls,
             \/ WriteStaging(d) \/ MarkWritten(d) \/ ReadStaging(d) \/ Rename(d) \/ CheckCap(d)
             \/ CommitFinalize(d) \/ UnlinkDeleted(d)
      PROVE  Goal
  <2>1. CASE d # c
    <3>1. api'[c] = api[c]
      BY <1>1, <1>7, <2>1 DEF WriteStaging, MarkWritten, ReadStaging, Rename, CheckCap,
         CommitFinalize, UnlinkDeleted, Answer, Goto
    <3>2. api[c].at # "idle" /\ Alone(api[c].rec)
      BY <1>1, <3>1 DEF Alone
    <3>3. QED
      BY <1>7, <2>1, <3>2, OthersMove
  <2>2. CASE d = c
    <3>1. ~Answer(c)
      BY <1>2
    <3>2. ASSUME NEW at \in {"mark", "rename", "cap", "commit"}, Goto(c, at)
          PROVE  api'[c].at = at /\ api'[c].upload = api[c].upload /\ api'[c].rec = api[c].rec
      BY <1>1, <3>2 DEF Goto, ApiCall
    <3>3. CASE WriteStaging(c)
      BY <3>2, <3>3 DEF WriteStaging, Advances, Moves, OnUpload, rows
    <3>4. CASE ReadStaging(c)
      BY <3>1, <3>2, <3>4 DEF ReadStaging, Advances, Moves, OnUpload, rows, disk
    <3>5. CASE Rename(c)
      <4>1. api[c].rec \in Recordings /\ api[c].at = "rename"
        BY <1>1, <3>5, CallTarget DEF OnUpload, Rename
      <4>2. /\ Goto(c, "cap") /\ media' = [media EXCEPT ![api[c].rec] = staging[api[c].upload]]
            /\ UNCHANGED rows
        BY <3>1, <3>5 DEF Rename
      <4>3. media'[api[c].rec] = staging[api[c].upload]
        BY <1>1, <4>1, <4>2
      <4>4. QED
        BY <3>2, <4>1, <4>2, <4>3 DEF Advances, Moves, OnUpload, rows
    <3>6. CASE CheckCap(c)
      BY <3>1, <3>2, <3>6 DEF CheckCap, Advances, Moves, OnUpload, rows, disk
    <3>7. QED
      BY <1>7, <2>2, <3>1, <3>3, <3>4, <3>5, <3>6 DEF MarkWritten, CommitFinalize, UnlinkDeleted
  <2>3. QED
    BY <2>1, <2>2
<1>8. CASE ApiStep
  BY <1>3, <1>5, <1>6, <1>7, <1>8 DEF ApiStep, CreateUpload, DeleteAbsent, disk
<1>9. CASE CleanerStep
  BY <1>3, <1>9 DEF CleanerStep, PassStep, SelectOverdue, UnlinkOverdue, MarkExpired, AllUnlinked,
     RemoveUploads, disk
<1>10. CASE UNCHANGED vars \/ WorkerCrash \/ Tick
  BY <1>3, <1>10 DEF vars, WorkerCrash, Tick, disk
<1>11. ~ApiCrash
  BY <1>1 DEF ApiCrash
<1>12. QED
  BY <1>8, <1>9, <1>10, <1>11 DEF Next

LEMMA CallReliesStep == ASSUME ServedInv, [Next]_vars PROVE CallRelies'
<1> SUFFICES ASSUME NEW c \in Calls, api'[c].at # "idle", api'[c].rec \notin overlapped'
             PROVE  /\ api'[c].at \in OnUpload => uploads'[api'[c].upload].status # "finalized"
                    /\ api'[c].at = "rename" => staging'[api'[c].upload] = "declared"
                    /\ api'[c].at \in {"cap", "commit"}
                         => media'[api'[c].rec] = "declared" \/ recordings'[api'[c].rec].status # "none"
                    /\ api'[c].at = "unlink" => recordings'[api'[c].rec].status # "ready"
  BY DEF CallRelies, Relies, Present, Alone
<1>1. /\ TypesInv /\ RecordingMoves /\ UploadMoves /\ overlapped \subseteq overlapped'
      /\ media \in [Recordings -> File] /\ \A r \in Recordings : Present(r) => Present(r)'
  BY TablesMove, OverlapsStep, RowsFinalizedStep DEF ServedInv, TypesInv, MediaTypes, TableMoves
<1>2. CASE Waits(c)
  <2>1. /\ api'[c] = api[c] /\ api[c].at # "idle" /\ Relies(c)
    BY <1>1, <1>2 DEF Waits, ServedInv, CallRelies, Alone
  <2>2. api[c].at \in OnUpload => uploads'[api[c].upload].status # "finalized"
    <3>1. ASSUME api[c].at \in OnUpload, NEW d \in Calls, CommitFinalize(d),
                 api[d].upload = api[c].upload
          PROVE  FALSE
      <4>1. api[d].rec = api[c].rec
        BY <1>1, <3>1, CallTarget DEF CommitFinalize, OnUpload
      <4>2. QED
        BY <1>2, <3>1, <4>1 DEF Waits
    <3>2. api[c].at \in OnUpload => api[c].upload \in UploadIds
      BY <1>1, CallTarget
    <3>3. QED
      BY <1>1, <2>1, <3>1, <3>2 DEF UploadMoves, Relies
  <2>3. api[c].at \in {"cap", "commit"}
           => media'[api[c].rec] = "declared" \/ recordings'[api[c].rec].status # "none"
    <3>1. ASSUME api[c].at \in {"cap", "commit"} PROVE api[c].rec \in Recordings
      BY <1>1, <3>1, CallTarget DEF OnUpload
    <3>2. UnlinkOverdue(api[c].rec) => Present(api[c].rec)
      BY DEF UnlinkOverdue, ServedInv, PassSelected
    <3>3. QED
      BY <1>1, <1>2, <2>1, <3>1, <3>2 DEF Waits, Relies, Present
  <2>4. api[c].at = "unlink" => recordings'[api[c].rec].status # "ready"
    <3>1. api[c].at = "unlink" => api[c].rec \in Recordings /\ recordings[api[c].rec].status # "ready"
      BY <1>1, <2>1 DEF TypesInv, MediaTypes, Relies
    <3>2. \A d \in Calls : ~Commits(d, api[c].rec)
      BY <1>2 DEF Waits, Commits
    <3>3. QED
      BY <1>1, <3>1, <3>2 DEF RecordingMoves
  <2>5. api[c].at = "rename" => staging'[api[c].upload] = "declared"
    BY <1>2, <2>1 DEF Waits, Relies, OnUpload
  <2>6. QED
    BY <2>1, <2>2, <2>3, <2>4, <2>5
<1>3. CASE UNCHANGED uploads /\ Opens(c)
  <2>1. CASE api'[c].at = "unlink" /\ recordings'[api'[c].rec].status = "deleted"
    BY <2>1 DEF OnUpload
  <2>2. CASE /\ api'[c].at \in {"write", "read"} /\ uploads[api'[c].upload].status # "finalized"
    BY <1>3, <2>2 DEF OnUpload
  <2>3. QED
    BY <1>3, <2>1, <2>2 DEF Opens
<1>4. CASE UNCHANGED uploads /\ UNCHANGED recordings /\ Advances(c)
  <2>1. api[c].at # "idle" /\ Relies(c)
    BY <1>1, <1>4 DEF Advances, ServedInv, CallRelies, Alone, OnUpload
  <2>2. uploads'[api'[c].upload].status # "finalized"
    BY <1>4, <2>1 DEF Advances, Relies
  <2>3. api'[c].at = "rename" => staging'[api'[c].upload] = "declared"
    BY <1>4 DEF Advances
  <2>4. api'[c].at = "cap" => media'[api'[c].rec] = "declared"
    BY <1>4, <2>1 DEF Advances, Relies
  <2>5. api'[c].at = "commit"
           => media'[api'[c].rec] = "declared" \/ recordings'[api'[c].rec].status # "none"
    BY <1>4, <2>1 DEF Advances, Relies, Present
  <2>6. QED
    BY <1>4, <2>2, <2>3, <2>4, <2>5 DEF Advances
<1>5. QED
  BY <1>2, <1>3, <1>4, CallMoves DEF Moves

LEMMA SelectedStep == ASSUME ServedInv, [Next]_vars PROVE PassSelected'
<1> SUFFICES ASSUME NEW r \in cleaner'.todo
             PROVE  Present(r)' /\ (Alone(r)' /\ Fresh(r)' => recordings'[r].status = "ready" /\ recordings'[r].expires < now')
  BY CleanerTypes DEF PassSelected, Overdue, ServedInv, Cleaner
<1>1. r \in Recordings /\ now \in Nat /\ recordings \in [Recordings -> RecordingRow]
  BY CleanerTypes DEF Cleaner, ServedInv, TypesInv, TablesInv, Tables
<1>2. r \in cleaner.todo \/ (SelectOverdue /\ r \in Overdue(now))
  <2>1. ASSUME UNCHANGED cleaner PROVE r \in cleaner.todo
    BY <2>1
  <2>2. CASE SelectOverdue
    BY <2>2 DEF SelectOverdue
  <2>3. ASSUME RemoveUploads \/ WorkerCrash PROVE FALSE
    BY <2>3 DEF RemoveUploads, WorkerCrash, IdleCleaner
  <2>4. ASSUME (\E x \in Recordings : UnlinkOverdue(x)) \/ MarkExpired \/ AllUnlinked
        PROVE  r \in cleaner.todo
    <3>1. cleaner \in Cleaner
      BY DEF ServedInv, TypesInv, MediaTypes
    <3>2. ASSUME NEW x \in Recordings, UnlinkOverdue(x) PROVE cleaner'.todo = cleaner.todo \ {x}
      BY <3>1, <3>2 DEF UnlinkOverdue, Cleaner
    <3>3. MarkExpired => cleaner'.todo = cleaner.todo
      BY <3>1 DEF MarkExpired, Cleaner
    <3>4. AllUnlinked => cleaner'.todo = cleaner.todo
      BY <3>1 DEF AllUnlinked, Cleaner
    <3>5. QED
      BY <2>4, <3>2, <3>3, <3>4
  <2>5. CASE ApiStep \/ ApiCrash \/ Tick \/ UNCHANGED vars
    BY <2>1, <2>5 DEF ApiStep, CreateUpload, BeginPut, BeginFinalize, WriteStaging, MarkWritten,
       ReadStaging, Rename, CheckCap, CommitFinalize, DeleteAbsent, DeleteRecording, UnlinkDeleted,
       ApiCrash, Tick, vars
  <2>6. QED
    BY <2>2, <2>3, <2>4, <2>5 DEF Next, CleanerStep, PassStep
<1>3. Present(r) /\ (Alone(r) /\ Fresh(r) => recordings[r].expires < now)
  BY <1>1, <1>2 DEF Overdue, Present, ServedInv, PassSelected
<1>4. now' \in Nat /\ now <= now'
  <2>1. now' = now \/ now' = now + 1
    BY DEF Next, ApiStep, CleanerStep, PassStep, CreateUpload, BeginPut, WriteStaging, MarkWritten,
       BeginFinalize, ReadStaging, Rename, CheckCap, CommitFinalize, DeleteAbsent, DeleteRecording,
       UnlinkDeleted, ApiCrash, SelectOverdue, UnlinkOverdue, MarkExpired, AllUnlinked,
       RemoveUploads, WorkerCrash, Tick, vars
  <2>2. QED
    BY <1>1, <2>1
<1>5. Present(r)'
  BY <1>1, <1>3, RowsFinalizedStep
<1>6. ASSUME Alone(r)', Fresh(r)' PROVE recordings'[r].status = "ready" /\ recordings'[r].expires < now'
  <2>1. Alone(r) /\ Fresh(r) /\ recordings'[r] = recordings[r]
    BY <1>1, <1>3, <1>6, FreshStep, OverlapsStep DEF Alone, ServedInv
  <2>2. QED
    BY <1>1, <1>3, <1>4, <2>1 DEF RecordingRow, Fresh
<1>7. QED
  BY <1>5, <1>6

LEMMA FileStep == ASSUME ServedInv, [Next]_vars PROVE ReadyHasFile'
<1> SUFFICES ASSUME NEW r \in Recordings, Fresh(r)', Alone(r)'
             PROVE  media'[r] = "declared" \/ recordings'[r].expires < now'
  BY DEF ReadyHasFile, Fresh, Overdue, Alone
<1>1. /\ now \in Nat /\ recordings \in [Recordings -> RecordingRow]
      /\ media \in [Recordings -> File] /\ IdleCall.at = "idle"
      /\ Alone(r)
  BY OverlapsStep DEF ServedInv, TypesInv, TablesInv, Tables, MediaTypes, IdleCall, Alone
<1>2. now' = now \/ now' = now + 1
  BY DEF Next, ApiStep, CleanerStep, PassStep, CreateUpload, BeginPut, WriteStaging, MarkWritten,
     BeginFinalize, ReadStaging, Rename, CheckCap, CommitFinalize, DeleteAbsent, DeleteRecording,
     UnlinkDeleted, ApiCrash, SelectOverdue, UnlinkOverdue, MarkExpired, AllUnlinked,
     RemoveUploads, WorkerCrash, Tick, vars
<1>3. CASE Fresh(r) /\ recordings'[r] = recordings[r]
  <2>1. media[r] = "declared" \/ recordings[r].expires < now
    BY <1>1, <1>3 DEF ServedInv, ReadyHasFile, Fresh, Overdue, Alone
  <2>2. recordings[r].expires < now => recordings'[r].expires < now'
    BY <1>1, <1>2, <1>3 DEF RecordingRow
  <2>3. media'[r] = media[r] \/ media'[r] = "declared" \/ recordings[r].expires < now
    <3>1. ASSUME NEW c \in Calls, Rename(c) PROVE media'[r] = media[r] \/ media'[r] = "declared"
      BY <1>1, <3>1 DEF Rename, ServedInv, CallRelies, Relies
    <3>2. ASSUME NEW c \in Calls, UnlinkDeleted(c) PROVE media'[r] = media[r]
      BY <1>1, <1>3, <3>2 DEF UnlinkDeleted, ServedInv, CallRelies, Relies, Fresh
    <3>3. ASSUME NEW x \in Recordings, UnlinkOverdue(x)
          PROVE  media'[r] = media[r] \/ recordings[r].expires < now
      BY <1>1, <1>3, <3>3 DEF UnlinkOverdue, ServedInv, PassSelected, Overdue
    <3>4. CASE UNCHANGED media
      BY <3>4
    <3>5. QED
      BY <3>1, <3>2, <3>3, <3>4 DEF Next, ApiStep, CleanerStep, PassStep, CreateUpload, BeginPut,
         WriteStaging, MarkWritten, BeginFinalize, ReadStaging, CheckCap, CommitFinalize,
         DeleteAbsent, DeleteRecording, ApiCrash, SelectOverdue, MarkExpired, AllUnlinked,
         RemoveUploads, WorkerCrash, Tick, vars, disk
  <2>4. QED
    BY <2>1, <2>2, <2>3
<1>4. ASSUME NEW c \in Calls, CommitFinalize(c), api[c].rec = r, ~Present(r)
      PROVE  media'[r] = "declared"
  BY <1>1, <1>4 DEF CommitFinalize, disk, ServedInv, CallRelies, Relies
<1>5. QED
  BY <1>3, <1>4, FreshStep

LEMMA ServedStep == ServedInv /\ [Next]_vars => ServedInv'
BY TypesStep, OneEachStep, RowsFinalizedStep, CallReliesStep, SelectedStep, FileStep DEF ServedInv

\* ReadyHasFile of PracticeUploads, for every number of requests at once, recordings,
\* uploads and crashes: unless two requests met on one recording, the order of the
\* file operations and the statements never leaves a row without its file, wherever
\* they stop and whatever others do.
THEOREM FilesBackRows == SafeSpec => []ReadyHasFile
<1>1. ServedInv => ReadyHasFile
  BY DEF ServedInv
<1>2. QED
  BY ServedInit, ServedStep, <1>1, PTL DEF SafeSpec

-----------------------------------------------------------------------------
(* The byte cap, with any number of requests at once.                        *)

Bytes == [r \in Recordings |-> recordings[r].bytes]

\* What was declared passed the validation.
Validated == \A u \in UploadIds : uploads[u].status # "none" => uploads[u].req.bytes <= MaxBytes

\* The audio a call is about to add: its look at the cap is behind it.
Coming(c) ==
    IF api[c].at = "commit" /\ uploads[api[c].upload].req.audio
    THEN uploads[api[c].upload].req.bytes ELSE 0
ComingOf == [c \in Calls |-> Coming(c)]
Pending  == SumFunctionOnSet(ComingOf, Calls)

Slack == (Cardinality(Calls) - 1) * MaxBytes

\* The strengthening of AudioNearCap: what is ready and what was let through fit
\* the cap, but for what the calls beside the last one let through bring.
RoomKept == AudioBytes + Pending <= AudioCap + Slack

CapInv == TypesInv /\ Validated /\ IsFiniteSet(ReadyAudio) /\ RoomKept

LEMMA AudioSum == AudioBytes = SumFunctionOnSet(Bytes, ReadyAudio)
BY DEF AudioBytes, Bytes

LEMMA SlackNat == Cardinality(Calls) \in Nat /\ Cardinality(Calls) >= 1 /\ Slack \in Nat
<1>1. Cardinality(Calls) \in Nat /\ Cardinality(Calls) # 0
  BY FS_CardinalityType, FS_EmptySet
<1>2. Cardinality(Calls) - 1 \in Nat
  BY <1>1
<1>3. \A n \in Nat : n * MaxBytes \in Nat
  OBVIOUS
<1> QED
  BY <1>1, <1>2, <1>3 DEF Slack

\* A call that was let through names an upload of the requests.
LEMMA ComingTypes ==
  ASSUME TypesInv, Validated, NEW c \in Calls
  PROVE  Coming(c) \in Nat /\ Coming(c) <= MaxBytes
<1>1. CASE api[c].at = "commit"
  <2>1. /\ api[c].upload \in UploadIds /\ uploads[api[c].upload].status # "none"
        /\ uploads[api[c].upload].req \in Requests
    BY <1>1 DEF TypesInv, TablesInv, CallsAgree, OnUpload, Named
  <2> QED
    BY <1>1, <2>1 DEF Coming, Validated
<1> QED
  BY <1>1 DEF Coming

LEMMA ValidatedStep == ASSUME TypesInv, Validated, [Next]_vars PROVE Validated'
<1> SUFFICES ASSUME NEW u \in UploadIds, uploads'[u].status # "none"
             PROVE  uploads'[u].req.bytes <= MaxBytes
  BY DEF Validated
<1>1. uploads \in [UploadIds -> UploadRow] /\ UploadsFollow
  BY RowsStep DEF TypesInv, TablesInv, Tables, RowsKept
<1>2. CASE uploads[u].status # "none"
  BY <1>1, <1>2 DEF Validated, UploadsFollow
<1>3. CASE uploads[u].status = "none"
  <2>1. ASSUME NEW q \in Requests, CreateUpload(q) PROVE uploads'[u].req.bytes <= MaxBytes
    <3>1. q.bytes <= MaxBytes
      BY <2>1 DEF CreateUpload
    <3>2. \E v \in UploadIds : uploads' = [uploads EXCEPT ![v] = [status |-> "created", req |-> q,
                                                               expires |-> now + UploadTTL]]
      BY <2>1 DEF CreateUpload
    <3>3. uploads'[u].status = "none" \/ uploads'[u].req = q
      BY <1>1, <1>3, <3>2
    <3>4. QED
      BY <3>1, <3>3
  <2>2. ASSUME NEW c \in Calls, MarkWritten(c) \/ CommitFinalize(c) PROVE uploads'[u] = uploads[u]
    <3>1. api[c].upload # u
      BY <1>3, <2>2 DEF MarkWritten, CommitFinalize, TypesInv, TablesInv, CallsAgree, OnUpload
    <3>2. QED
      BY <1>1, <2>2, <3>1 DEF MarkWritten, CommitFinalize, rows
  <2>3. RemoveUploads => uploads'[u] = uploads[u]
    BY <1>3 DEF RemoveUploads, Abandoned, Exists
  <2>4. CASE UNCHANGED uploads
    BY <1>3, <2>4
  <2>5. CASE ApiStep
    BY <1>3, <2>1, <2>2, <2>4, <2>5 DEF ApiStep, BeginPut, BeginFinalize, WriteStaging, ReadStaging,
       Rename, CheckCap, DeleteAbsent, DeleteRecording, UnlinkDeleted, rows
  <2>6. CASE ~ApiStep
    BY <1>3, <2>3, <2>4, <2>6 DEF Next, vars, ApiCrash, CleanerStep, PassStep, SelectOverdue,
       UnlinkOverdue, MarkExpired, AllUnlinked, WorkerCrash, Tick, rows
  <2>7. QED
    BY <2>5, <2>6
<1>4. QED
  BY <1>2, <1>3

\* Without a commit nothing becomes ready, and no ready recording changes size.
LEMMA AudioShrinks ==
  ASSUME CapInv, TypesInv', [Next]_vars, \A c \in Calls : ~CommitFinalize(c)
  PROVE  /\ IsFiniteSet(ReadyAudio') /\ AudioBytes \in Nat /\ AudioBytes' \in Nat
         /\ AudioBytes' <= AudioBytes
<1>1. RecordingMoves /\ recordings \in [Recordings -> RecordingRow]
      /\ recordings' \in [Recordings -> RecordingRow]
  BY TablesMove DEF CapInv, TypesInv, TablesInv, Tables, TableMoves
<1>2. \A r \in Recordings : recordings'[r] = recordings[r] \/ recordings'[r].status # "ready"
  BY <1>1 DEF RecordingMoves, Commits
<1>3. ReadyAudio' \subseteq ReadyAudio
  BY <1>2 DEF ReadyAudio
<1>4. /\ \A r \in ReadyAudio : Bytes[r] \in Nat
      /\ \A r \in ReadyAudio' : Bytes'[r] = Bytes[r]
  BY <1>1, <1>2 DEF ReadyAudio, Bytes, RecordingRow
<1>5. IsFiniteSet(ReadyAudio) /\ IsFiniteSet(ReadyAudio')
  BY <1>3, FS_Subset DEF CapInv
<1>6. AudioBytes' = SumFunctionOnSet(Bytes', ReadyAudio')
  BY AudioSum DEF AudioBytes, Bytes
<1>7. \A r \in ReadyAudio' : Bytes'[r] \in Nat /\ Bytes'[r] <= Bytes[r]
  BY <1>3, <1>4
<1>8. SumFunctionOnSet(Bytes', ReadyAudio') <= SumFunctionOnSet(Bytes, ReadyAudio)
  BY <1>3, <1>4, <1>5, <1>7, SumMonotone
<1>9. SumFunctionOnSet(Bytes', ReadyAudio') \in Nat /\ SumFunctionOnSet(Bytes, ReadyAudio) \in Nat
  BY <1>4, <1>5, <1>7, SumNat
<1> QED
  BY <1>5, <1>6, <1>8, <1>9, AudioSum

LEMMA AudioCommitted ==
  ASSUME CapInv, TypesInv', [Next]_vars, NEW c \in Calls, CommitFinalize(c)
  PROVE  /\ IsFiniteSet(ReadyAudio') /\ AudioBytes \in Nat /\ AudioBytes' \in Nat
         /\ AudioBytes' <= AudioBytes + Coming(c)
<1> DEFINE r == api[c].rec
           q == uploads[api[c].upload].req
<1>1. /\ r \in Recordings /\ q \in Requests /\ Coming(c) = (IF q.audio THEN q.bytes ELSE 0)
      /\ recordings \in [Recordings -> RecordingRow]
  BY DEF CapInv, Coming, CommitFinalize, TypesInv, TablesInv, Tables, CallsAgree,
     OnUpload, Named, Target
<1>2. q.bytes \in Nat /\ q.audio \in BOOLEAN
  BY <1>1
<1> HIDE DEF r, q
<1>3. \/ UNCHANGED recordings
      \/ /\ \A x \in Recordings : x # r => recordings'[x] = recordings[x]
         /\ recordings'[r].bytes = q.bytes /\ recordings'[r].audio = q.audio
         /\ recordings'[r].status = "ready"
  BY <1>1 DEF CommitFinalize, r, q, rows
<1>4. AudioBytes' = SumFunctionOnSet(Bytes', ReadyAudio') /\ AudioBytes = SumFunctionOnSet(Bytes, ReadyAudio)
  BY DEF AudioBytes, Bytes
<1>5. CASE UNCHANGED recordings
  <2>1. IsFiniteSet(ReadyAudio) /\ ReadyAudio' = ReadyAudio /\ AudioBytes' = AudioBytes
    BY <1>5 DEF CapInv, AudioBytes, ReadyAudio
  <2>2. \A x \in ReadyAudio : Bytes[x] \in Nat
    BY <1>1 DEF ReadyAudio, Bytes, RecordingRow
  <2>3. AudioBytes \in Nat
    BY <1>4, <2>1, <2>2, SumNat
  <2> QED
    BY <1>1, <1>2, <2>1, <2>3
<1>6. CASE /\ \A x \in Recordings : x # r => recordings'[x] = recordings[x]
           /\ recordings'[r].bytes = q.bytes /\ recordings'[r].audio = q.audio
           /\ recordings'[r].status = "ready"
  <2> DEFINE Others == ReadyAudio' \ {r}
  <2>1. /\ Others \subseteq ReadyAudio /\ IsFiniteSet(ReadyAudio) /\ IsFiniteSet(Others)
        /\ ReadyAudio' \subseteq Others \cup {r}
    <3>1. Others \subseteq ReadyAudio
      BY <1>6 DEF ReadyAudio
    <3> QED
      BY <3>1, FS_Subset DEF CapInv
  <2>2. IsFiniteSet(ReadyAudio')
    BY <2>1, FS_AddElement, FS_Subset
  <2>3. /\ \A x \in ReadyAudio : Bytes[x] \in Nat
        /\ \A x \in Others : Bytes'[x] = Bytes[x]
        /\ Bytes'[r] = q.bytes
    BY <1>1, <1>6, <2>1 DEF ReadyAudio, Bytes, RecordingRow
  <2>4. \A x \in Others : Bytes'[x] \in Nat /\ Bytes'[x] <= Bytes[x]
    BY <2>1, <2>3
  <2>5. SumFunctionOnSet(Bytes', Others) <= SumFunctionOnSet(Bytes, ReadyAudio)
    BY <2>1, <2>3, <2>4, SumMonotone
  <2>6. SumFunctionOnSet(Bytes', Others) \in Nat /\ SumFunctionOnSet(Bytes, ReadyAudio) \in Nat
    BY <2>1, <2>3, <2>4, SumNat
  <2>7. CASE q.audio
    <3>1. r \in ReadyAudio' /\ \A x \in ReadyAudio' : Bytes'[x] \in Nat
      BY <1>1, <1>2, <1>6, <2>1, <2>3, <2>4, <2>7 DEF ReadyAudio
    <3>2. AudioBytes' = q.bytes + SumFunctionOnSet(Bytes', Others)
      BY <1>4, <2>2, <2>3, <3>1, SumRemove
    <3> HIDE DEF Others
    <3> QED
      BY <1>1, <1>2, <1>4, <2>2, <2>5, <2>6, <2>7, <3>2
  <2>8. CASE ~q.audio
    <3>1. ReadyAudio' = Others
      BY <1>6, <2>1, <2>8 DEF ReadyAudio
    <3>2. SumFunctionOnSet(Bytes', ReadyAudio') = SumFunctionOnSet(Bytes', Others)
      BY <3>1
    <3> HIDE DEF Others
    <3> QED
      BY <1>1, <1>4, <2>2, <2>5, <2>6, <2>8, <3>2
  <2> QED
    BY <2>7, <2>8
<1> QED
  BY <1>3, <1>5, <1>6

\* What is coming is what was coming, unless a call is let through.
LEMMA ComingStep ==
  ASSUME CapInv, [Next]_vars, NEW c \in Calls
  PROVE  Coming(c)' = Coming(c) \/ Coming(c)' = 0 \/ CheckCap(c)
<1>1. api \in [Calls -> ApiCall] /\ IdleCall.at = "idle" /\ UploadsFollow
  BY RowsStep DEF CapInv, TypesInv, TablesInv, Tables, IdleCall, RowsKept
<1>2. CASE api'[c] = api[c]
  <2>1. CASE api[c].at = "commit"
    <3>1. api[c].upload \in UploadIds /\ uploads[api[c].upload].status # "none"
      BY <2>1 DEF CapInv, TypesInv, TablesInv, CallsAgree, OnUpload
    <3>2. uploads'[api[c].upload].req = uploads[api[c].upload].req
      BY <1>1, <3>1 DEF UploadsFollow
    <3> QED
      BY <1>2, <3>2 DEF Coming
  <2> QED
    BY <1>2, <2>1 DEF Coming
<1>3. CASE api'[c].at # "commit"
  BY <1>3 DEF Coming
<1>4. CASE api'[c] # api[c] /\ api'[c].at = "commit"
  <2>1. ASSUME NEW d \in Calls, NEW at, Goto(d, at) PROVE d = c /\ at = "commit"
    BY <1>1, <1>4, <2>1 DEF Goto, ApiCall
  <2>2. ASSUME NEW d \in Calls, Answer(d) PROVE FALSE
    BY <1>1, <1>4, <2>2 DEF Answer
  <2>3. ASSUME NEW d \in Calls, NEW u \in UploadIds, BeginPut(d, u) \/ BeginFinalize(d, u) PROVE FALSE
    BY <1>1, <1>4, <2>3 DEF BeginPut, BeginFinalize, Begin
  <2>4. ASSUME NEW d \in Calls, NEW r \in Recordings, DeleteRecording(d, r) PROVE FALSE
    BY <1>1, <1>4, <2>4 DEF DeleteRecording
  <2>5. ~ApiCrash
    BY <1>1, <1>4 DEF ApiCrash
  <2>6. ASSUME NEW d \in Calls, CheckCap(d) PROVE CheckCap(c)
    BY <2>1, <2>2, <2>6 DEF CheckCap
  <2>7. ASSUME NEW d \in Calls,
               \/ WriteStaging(d) \/ MarkWritten(d) \/ ReadStaging(d) \/ Rename(d)
               \/ CommitFinalize(d) \/ UnlinkDeleted(d)
        PROVE  FALSE
    BY <2>1, <2>2, <2>7 DEF WriteStaging, MarkWritten, ReadStaging, Rename, CommitFinalize,
       UnlinkDeleted
  <2>8. CASE ApiStep
    BY <1>4, <2>3, <2>4, <2>6, <2>7, <2>8 DEF ApiStep, CreateUpload, DeleteAbsent
  <2>9. ApiStep
    BY <1>4, <2>5 DEF Next, vars, CleanerStep, PassStep, SelectOverdue, UnlinkOverdue, MarkExpired,
       AllUnlinked, RemoveUploads, WorkerCrash, Tick
  <2> QED
    BY <2>8, <2>9
<1> QED
  BY <1>2, <1>3, <1>4

\* The sum over the calls, and what one of them contributes.
LEMMA PendingParts ==
  ASSUME TypesInv, Validated, NEW c \in Calls
  PROVE  /\ Pending = Coming(c) + SumFunctionOnSet(ComingOf, Calls \ {c})
         /\ SumFunctionOnSet(ComingOf, Calls \ {c}) \in Nat
         /\ SumFunctionOnSet(ComingOf, Calls \ {c}) <= Slack
<1> DEFINE Others == Calls \ {c}
           Most == [d \in Others |-> MaxBytes]
<1>1. \A d \in Calls : ComingOf[d] \in Nat /\ ComingOf[d] <= MaxBytes
  BY ComingTypes DEF ComingOf
<1>2. Others \subseteq Calls /\ IsFiniteSet(Others) /\ Cardinality(Others) = Cardinality(Calls) - 1
  BY FS_Subset, FS_RemoveElement
<1>3. Pending = ComingOf[c] + SumFunctionOnSet(ComingOf, Others)
  BY <1>1, SumRemove DEF Pending
<1>4. SumFunctionOnSet(ComingOf, Others) \in Nat
  BY <1>1, <1>2, SumNat
<1>5. /\ \A d \in Others : ComingOf[d] \in Nat /\ ComingOf[d] <= Most[d]
      /\ \A d \in Others : Most[d] \in Nat
  BY <1>1
<1>6. SumFunctionOnSet(Most, Others) = (Cardinality(Calls) - 1) * MaxBytes
  <2>1. SumFunctionOnSet(Most, Others) = MaxBytes * Cardinality(Others)
    BY <1>2, SumConstant
  <2>2. Cardinality(Calls) \in Nat
    BY FS_CardinalityType
  <2>3. \A n \in Nat : MaxBytes * (n - 1) = (n - 1) * MaxBytes
    OBVIOUS
  <2> HIDE DEF Others, Most
  <2> QED
    BY <1>2, <2>1, <2>2, <2>3
<1> HIDE DEF Others, Most
<1>7. SumFunctionOnSet(ComingOf, Others) <= SumFunctionOnSet(Most, Others)
  BY <1>2, <1>5, SumMonotone
<1> USE DEF Others
<1> QED
  BY <1>2, <1>3, <1>4, <1>6, <1>7 DEF ComingOf, Slack

LEMMA PendingNat == ASSUME TypesInv, Validated PROVE Pending \in Nat
BY ComingTypes, SumNat DEF Pending, ComingOf

\* A commit turns what was coming into what is ready.
LEMMA RoomCommitted ==
  ASSUME CapInv, TypesInv', Validated', [Next]_vars, NEW c \in Calls, CommitFinalize(c)
  PROVE  RoomKept'
<1> DEFINE Others == SumFunctionOnSet(ComingOf, Calls \ {c})
           OthersNew == SumFunctionOnSet(ComingOf', Calls \ {c})
<1>1. api'[c].at = "idle" /\ \A d \in Calls : ~CheckCap(d)
  <2>1. api' = [api EXCEPT ![c] = IdleCall] /\ api \in [Calls -> ApiCall] /\ api[c].at = "commit"
    BY DEF CommitFinalize, Answer, CapInv, TypesInv, TablesInv, Tables
  <2>2. ASSUME NEW d \in Calls, CheckCap(d) PROVE FALSE
    BY <2>1, <2>2 DEF CheckCap, Goto, Answer, IdleCall, ApiCall
  <2> QED
    BY <2>1, <2>2 DEF IdleCall
<1>2. Coming(c)' = 0
  BY <1>1 DEF Coming
<1>3. Pending' = Coming(c)' + OthersNew /\ OthersNew \in Nat
  <2>1. \A d \in Calls : ComingOf'[d] \in Nat
    BY ComingStep, ComingTypes, <1>1 DEF ComingOf, CapInv
  <2>2. IsFiniteSet(Calls \ {c})
    BY FS_Subset
  <2>3. Pending' = SumFunctionOnSet(ComingOf', Calls) /\ ComingOf'[c] = Coming(c)'
    BY DEF Pending, ComingOf
  <2>4. SumFunctionOnSet(ComingOf', Calls) = ComingOf'[c] + SumFunctionOnSet(ComingOf', Calls \ {c})
    BY <2>1, SumRemove
  <2>5. SumFunctionOnSet(ComingOf', Calls \ {c}) \in Nat
    BY <2>1, <2>2, SumNat
  <2> QED
    BY <2>3, <2>4, <2>5
<1>4. Pending = Coming(c) + Others /\ Others \in Nat /\ Coming(c) \in Nat
  BY PendingParts, ComingTypes DEF CapInv
<1>5. OthersNew <= Others
  <2>1. /\ \A d \in Calls \ {c} : ComingOf'[d] \in Nat /\ ComingOf'[d] <= ComingOf[d]
        /\ \A d \in Calls \ {c} : ComingOf[d] \in Nat
    BY <1>1, ComingStep, ComingTypes DEF ComingOf, CapInv
  <2>2. IsFiniteSet(Calls \ {c})
    BY FS_Subset
  <2> QED
    BY <2>1, <2>2, SumMonotone
<1>6. AudioBytes \in Nat /\ AudioBytes' \in Nat /\ AudioBytes' <= AudioBytes + Coming(c)
  BY AudioCommitted
<1>7. AudioBytes + Pending <= AudioCap + Slack /\ Slack \in Nat /\ Slack' = Slack
  BY SlackNat DEF CapInv, RoomKept, Slack
<1> HIDE DEF Others, OthersNew
<1>8. AudioBytes' + Pending' <= AudioCap + Slack
  <2>1. ASSUME NEW a \in Nat, NEW b \in Nat, NEW x \in Nat, NEW o \in Nat, NEW n \in Nat, NEW m \in Nat,
               b <= a + x, n <= o, a + (x + o) <= m
        PROVE  b + (0 + n) <= m
    BY <2>1
  <2>2. AudioCap + Slack \in Nat
    BY <1>7
  <2> HIDE DEF Pending, AudioBytes, Coming, Slack
  <2>3. AudioBytes + (Coming(c) + Others) <= AudioCap + Slack
    BY <1>4, <1>7
  <2>4. AudioBytes' + (0 + OthersNew) <= AudioCap + Slack
    BY <1>3, <1>4, <1>5, <1>6, <2>1, <2>2, <2>3
  <2> QED
    BY <1>2, <1>3, <2>4
<1> QED
  BY <1>7, <1>8 DEF RoomKept

\* A call is let through only if what is ready and its own bytes fit.
LEMMA RoomLetThrough ==
  ASSUME CapInv, TypesInv', Validated', [Next]_vars, NEW c \in Calls, CheckCap(c)
  PROVE  RoomKept'
<1> DEFINE OthersNew == SumFunctionOnSet(ComingOf', Calls \ {c})
<1>1. \A d \in Calls \ {c} : api'[d] = api[d] /\ uploads'[api[d].upload] = uploads[api[d].upload]
  BY DEF CheckCap, Goto, Answer, CapInv, TypesInv, TablesInv, Tables, rows
<1>2. \A d \in Calls \ {c} : ComingOf'[d] = ComingOf[d]
  BY <1>1 DEF ComingOf, Coming
<1>3. /\ api'[c].at \in {"commit", "idle"} /\ api[c].at = "cap"
      /\ api'[c].at = "commit" => /\ FitsCap(uploads[api[c].upload].req)
                                  /\ api'[c].upload = api[c].upload
  <2>1. api[c] \in ApiCall /\ IdleCall.at = "idle" /\ api \in [Calls -> ApiCall]
    BY DEF CapInv, TypesInv, TablesInv, Tables, IdleCall
  <2>2. CASE FitsCap(uploads[api[c].upload].req)
    BY <2>1, <2>2 DEF CheckCap, Goto, ApiCall
  <2>3. CASE ~FitsCap(uploads[api[c].upload].req)
    BY <2>1, <2>3 DEF CheckCap, Answer
  <2> QED
    BY <2>2, <2>3 DEF CheckCap
<1> DEFINE q == uploads[api[c].upload].req
<1>4. q \in Requests /\ uploads'[api[c].upload].req = q
  BY <1>3 DEF CheckCap, rows, CapInv, TypesInv, TablesInv, CallsAgree, OnUpload, Named
<1>5. /\ Coming(c)' \in Nat
      /\ Coming(c)' = 0 \/ (Coming(c)' = q.bytes /\ FitsCap(q) /\ q.audio)
  BY <1>3, <1>4 DEF Coming
<1>6. Pending' = Coming(c)' + OthersNew /\ OthersNew = SumFunctionOnSet(ComingOf, Calls \ {c})
  <2>1. \A d \in Calls : ComingOf'[d] \in Nat
    BY <1>2, <1>5, ComingTypes DEF ComingOf, CapInv
  <2>2. IsFiniteSet(Calls \ {c})
    BY FS_Subset
  <2>3. Pending' = SumFunctionOnSet(ComingOf', Calls) /\ ComingOf'[c] = Coming(c)'
    BY DEF Pending, ComingOf
  <2>4. SumFunctionOnSet(ComingOf', Calls) = ComingOf'[c] + SumFunctionOnSet(ComingOf', Calls \ {c})
    BY <2>1, SumRemove
  <2>5. OthersNew = SumFunctionOnSet(ComingOf, Calls \ {c})
    BY <1>2, <2>2, SumEqual
  <2> QED
    BY <2>3, <2>4, <2>5
<1>7. /\ OthersNew \in Nat /\ OthersNew <= Slack /\ Pending = Coming(c) + OthersNew
      /\ Coming(c) = 0 /\ Slack \in Nat /\ Slack' = Slack
  BY <1>3, <1>6, PendingParts, SlackNat DEF CapInv, Coming, Slack
<1>8. AudioBytes \in Nat /\ AudioBytes' = AudioBytes /\ AudioBytes + Pending <= AudioCap + Slack
  <2>1. ASSUME NEW d \in Calls, CommitFinalize(d) PROVE FALSE
    BY <2>1, <1>3 DEF CheckCap, CommitFinalize, Goto, Answer, IdleCall, ApiCall, CapInv, TypesInv,
       TablesInv, Tables
  <2>2. AudioBytes \in Nat
    BY <2>1, AudioShrinks
  <2> QED
    BY <2>2 DEF CheckCap, rows, AudioBytes, ReadyAudio, CapInv, RoomKept
<1> HIDE DEF OthersNew, q
<1>9. CASE Coming(c)' = 0
  <2> HIDE DEF Pending, AudioBytes, Coming, Slack
  <2>1. Pending' = Pending
    BY <1>6, <1>7, <1>9
  <2> QED
    BY <1>7, <1>8, <2>1 DEF RoomKept
<1>10. CASE Coming(c)' = q.bytes /\ FitsCap(q) /\ q.audio
  <2>1. AudioBytes + q.bytes <= AudioCap /\ q.bytes \in Nat
    BY <1>4, <1>10 DEF FitsCap
  <2>2. ASSUME NEW a \in Nat, NEW b \in Nat, NEW o \in Nat, NEW sl \in Nat,
               a + b <= AudioCap, o <= sl
        PROVE  a + (b + o) <= AudioCap + sl
    BY <2>2
  <2> HIDE DEF Pending, AudioBytes, Coming, Slack
  <2>3. AudioBytes + (q.bytes + OthersNew) <= AudioCap + Slack
    BY <1>7, <1>8, <2>1, <2>2
  <2>4. AudioBytes' + Pending' <= AudioCap + Slack'
    BY <1>6, <1>7, <1>8, <1>10, <2>3
  <2> QED
    BY <2>4 DEF RoomKept
<1> QED
  BY <1>5, <1>9, <1>10

\* The other steps add nothing to either sum.
LEMMA RoomElse ==
  ASSUME CapInv, TypesInv', Validated', [Next]_vars,
         \A c \in Calls : ~CommitFinalize(c) /\ ~CheckCap(c)
  PROVE  RoomKept'
<1>1. /\ \A c \in Calls : ComingOf'[c] \in Nat /\ ComingOf'[c] <= ComingOf[c]
      /\ \A c \in Calls : ComingOf[c] \in Nat
  BY ComingStep, ComingTypes DEF ComingOf, CapInv
<1>2. Pending' <= Pending /\ Pending \in Nat /\ Pending' \in Nat
  <2>1. Pending' = SumFunctionOnSet(ComingOf', Calls) /\ Pending = SumFunctionOnSet(ComingOf, Calls)
    BY DEF Pending
  <2>2. /\ SumFunctionOnSet(ComingOf', Calls) <= SumFunctionOnSet(ComingOf, Calls)
        /\ SumFunctionOnSet(ComingOf', Calls) \in Nat /\ SumFunctionOnSet(ComingOf, Calls) \in Nat
    BY <1>1, SumMonotone, SumNat
  <2> QED
    BY <2>1, <2>2
<1>3. AudioBytes' <= AudioBytes /\ AudioBytes \in Nat /\ AudioBytes' \in Nat
  BY AudioShrinks
<1>4. AudioBytes + Pending <= AudioCap + Slack /\ Slack \in Nat /\ Slack' = Slack
  BY SlackNat DEF CapInv, RoomKept, Slack
<1> HIDE DEF Pending, AudioBytes, Slack
<1>5. ASSUME NEW a \in Nat, NEW b \in Nat, NEW x \in Nat, NEW y \in Nat, NEW m \in Nat,
             b <= a, y <= x, a + x <= m
      PROVE  b + y <= m
  BY <1>5
<1>6. AudioCap + Slack \in Nat
  BY <1>4
<1>7. AudioBytes' + Pending' <= AudioCap + Slack
  BY <1>2, <1>3, <1>4, <1>5, <1>6
<1> QED
  BY <1>4, <1>7 DEF RoomKept

\* AudioNearCap of PracticeUploads, for every number of requests at once, recordings,
\* uploads and crashes and every cap: what may exceed the cap is what all requests in
\* flight but one may bring.
THEOREM CapNearlyKept == SafeSpec => []AudioNearCap
<1>1. Init => CapInv
  <2> SUFFICES ASSUME Init PROVE CapInv
    OBVIOUS
  <2>1. ReadyAudio = {} /\ Validated /\ \A c \in Calls : ComingOf[c] = 0
    BY DEF Init, ReadyAudio, Validated, ComingOf, Coming, IdleCall
  <2>2. AudioBytes = 0 /\ IsFiniteSet(ReadyAudio)
    BY <2>1, SumEmpty, FS_EmptySet DEF AudioBytes
  <2>3. Pending = 0
    <3>1. SumFunctionOnSet(ComingOf, Calls) = SumFunctionOnSet([c \in Calls |-> 0], Calls)
      BY <2>1, SumEqual
    <3>2. SumFunctionOnSet([c \in Calls |-> 0], Calls) = 0 * Cardinality(Calls)
      BY SumConstant
    <3> QED
      BY <3>1, <3>2, SlackNat DEF Pending
  <2> QED
    BY <2>1, <2>2, <2>3, SlackNat, TablesInit, MediaInit DEF CapInv, TypesInv, RoomKept
<1>2. CapInv /\ [Next]_vars => CapInv'
  <2> SUFFICES ASSUME CapInv, [Next]_vars PROVE CapInv'
    OBVIOUS
  <2>1. TypesInv' /\ Validated'
    BY TypesStep, ValidatedStep DEF CapInv
  <2>2. IsFiniteSet(ReadyAudio')
    BY <2>1, AudioShrinks, AudioCommitted
  <2>3. RoomKept'
    BY <2>1, RoomElse, RoomCommitted, RoomLetThrough
  <2> QED
    BY <2>1, <2>2, <2>3 DEF CapInv
<1>3. CapInv => AudioNearCap
  <2> SUFFICES ASSUME CapInv PROVE AudioNearCap
    OBVIOUS
  <2>1. Pending \in Nat /\ Slack \in Nat
    BY PendingNat, SlackNat DEF CapInv
  <2>2. AudioBytes \in Nat
    <3>1. \A r \in ReadyAudio : Bytes[r] \in Nat
      BY DEF CapInv, TypesInv, TablesInv, Tables, ReadyAudio, Bytes, RecordingRow
    <3> QED
      BY <3>1, AudioSum, SumNat DEF CapInv
  <2> QED
    BY <2>1, <2>2 DEF CapInv, RoomKept, AudioNearCap, Slack
<1> QED
  BY <1>1, <1>2, <1>3, PTL DEF SafeSpec
=============================================================================

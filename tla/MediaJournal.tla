---------------------------- MODULE MediaJournal ----------------------------
(***************************************************************************)
(* The recordings a phone keeps: src/apps/practice/lib/storage/repository.ts *)
(* with its quota (quota.ts), lib/media/recording.ts and the recording       *)
(* panel.  A take has a file and three kinds of row: its recording, its       *)
(* entry in the journal media_operations (which reserves bytes for it and     *)
(* later names its file), and entries of the outbox that need it.  SQLite     *)
(* and the file system share no transaction.                                  *)
(*                                                                         *)
(* Every storage operation waits in one queue (serialized) and is awaited by  *)
(* its caller, or by nobody.  An action is one statement or one file          *)
(* operation of the operation at the head; what its caller queues as it        *)
(* resumes is part of it, because nothing but that caller runs in between.     *)
(*                                                                         *)
(* Abstractions.  A run and its round are one.  Each capture records one       *)
(* take.  What an entry of the outbox goes through is in PracticeSync; here    *)
(* it is active or closed.  createdOrder is a counter.                        *)
(***************************************************************************)
EXTENDS Naturals, Sequences, FiniteSetsExt

CONSTANTS
    Takes,        \* captures, and the ids recording-<time> of what they record
    Rounds,       \* practice rounds
    Sizes,        \* bytes a finalized file may have
    Reservation,  \* DEFAULT_CAPTURE_RESERVATION_BYTES
    Levels,       \* quotaGb in the settings
    QuotaBytes,   \* quotaBytes(level)
    Default,      \* DEFAULT_QUOTA_GB
    FreeRound,    \* the round the free practice screen creates for a take that has none
    MaxCrashes,   \* bound: deaths of the app
    MaxFaults,    \* bound: statements and file operations that throw
    MaxAsks,      \* bound: operations on takes and settings the learner asks for
    MaxWaiting,   \* bound: operations waiting when a capture starts or one is asked for
    Unsaved,      \* "unsaved-round"
    NoTake

ASSUME JournalNameAssumption ==
    /\ IsFiniteSet(Takes) /\ NoTake \notin Takes /\ Unsaved \notin Rounds /\ Default \in Levels
    /\ FreeRound \in [Takes -> Rounds]
    /\ \A t, u \in Takes : t # u => FreeRound[t] # FreeRound[u]
\* A take may be larger than what is reserved for it: only the recorder of Android
\* stops at maxFileSize, and the panel saves a larger take and tells the learner.
ASSUME JournalSizeAssumption ==
    /\ Reservation \in Nat \ {0} /\ Sizes \subseteq Nat \ {0}
    /\ QuotaBytes \in [Levels -> Nat]
ASSUME JournalBoundAssumption ==
    MaxCrashes \in Nat /\ MaxFaults \in Nat /\ MaxWaiting \in Nat /\ MaxAsks \in Nat

VARIABLES
    \* what survives the app
    round,     \* status of each round
    rec,       \* rows of recordings
    op,        \* rows of media_operations, one per capture
    outbox,    \* entries of the outbox, per take
    quota,     \* quotaGb in the settings
    file,      \* bytes at recordings/<id>, 0 when there is no file
    \* what dies with it
    launch,    \* where initializeNative is
    queue,     \* operationQueue
    running,   \* where the operation at its head is
    capture,   \* where each capture is
    target,    \* the round its panel was opened for
    removal,   \* where deleteRun is, per round
    \* counters and history
    order,     \* createdOrder of each take, in its row or about to be
    clock, crashes, faults, asks,
    half       \* evicted files whose row could not be updated since the launch

tables   == <<round, rec, op, outbox, quota>>
disk     == <<tables, file>>
panels   == <<capture, target>>
counters == <<order, clock, crashes, faults, asks, half>>
vars     == <<disk, launch, queue, running, panels, removal, counters>>

-----------------------------------------------------------------------------
(* Rows and operations                                                     *)

AnyTake  == Takes \union {NoTake}
AnyRound == Rounds \union {Unsaved}

Row == [round : AnyRound, bytes : Nat,
        media : {"none", "ready", "evicted", "missing"}]      \* "none": no such row

Operation == [state : {"none", "pending", "committed", "failed"},
              round : AnyRound, path : BOOLEAN]

Status == {"none", "ready", "recording", "finalizing", "interrupted", "round_saved", "deleted"}

\* In these a capture waits for the operation of the queue that carries its name.
Awaiting == {"reserve", "mark", "artifact", "journal", "save", "status", "commit", "giveup"}
Stages   == Awaiting \union {"idle", "recording", "stopped", "moved", "done", "failed", "left", "dead"}

\* An operation that waits: its take, its round, and the value it writes.
Task ==
    [kind : {"reserve", "artifact", "upsert", "close", "discard"},
     take : Takes, round : AnyRound, to : {""}]
    \union [kind : {"createRound", "save", "cancel", "deleteRun"},
            take : AnyTake, round : Rounds, to : {""}]
    \union [kind : {"status"}, take : AnyTake, round : Rounds, to : Status]
    \union [kind : {"settle"}, take : Takes, round : AnyRound, to : {"committed", "failed"}]
    \union [kind : {"settings"}, take : {NoTake}, round : {Unsaved}, to : Levels]

TypeOK ==
    /\ round \in [Rounds -> Status]
    /\ rec \in [Takes -> Row] /\ op \in [Takes -> Operation]
    /\ outbox \in [Takes -> {"none", "active", "closed"}]
    /\ quota \in Levels
    /\ file \in [Takes -> Nat]
    /\ launch \in [phase : {"rows", "artifacts", "round", "commit", "release", "up", "broken"},
                   todo : SUBSET Takes, at : AnyTake]
    /\ queue \in Seq(Task)
    /\ running \in [at : {"begin", "unlink", "mark", "write"}, victims : SUBSET Takes, take : AnyTake]
    /\ capture \in [Takes -> Stages] /\ target \in [Takes -> AnyRound]
    /\ removal \in [Rounds -> [at : {"none", "cancel", "rows", "files"}, takes : SUBSET Takes]]
    /\ order \in [Takes -> Nat] /\ clock \in Nat
    /\ crashes \in 0..MaxCrashes /\ faults \in 0..MaxFaults /\ asks \in 0..MaxAsks
    /\ half \subseteq Takes

Idle == [at |-> "begin", victims |-> {}, take |-> NoTake]

Init ==
    /\ round = [r \in Rounds |-> "none"]
    /\ rec = [t \in Takes |-> [round |-> Unsaved, bytes |-> 0, media |-> "none"]]
    /\ op = [t \in Takes |-> [state |-> "none", round |-> Unsaved, path |-> FALSE]]
    /\ outbox = [t \in Takes |-> "none"] /\ quota = Default
    /\ file = [t \in Takes |-> 0]
    /\ launch = [phase |-> "up", todo |-> {}, at |-> NoTake]
    /\ queue = <<>> /\ running = Idle
    /\ capture = [t \in Takes |-> "idle"] /\ target = [t \in Takes |-> Unsaved]
    /\ removal = [r \in Rounds |-> [at |-> "none", takes |-> {}]]
    /\ order = [t \in Takes |-> 0] /\ clock = 0
    /\ crashes = 0 /\ faults = 0 /\ asks = 0 /\ half = {}

Stored(t) == rec[t].media # "none"
Ready(t)  == rec[t].media = "ready"

Up == launch.phase = "up"

Do(kind, t, r, to) == [kind |-> kind, take |-> t, round |-> r, to |-> to]

\* The operation at the head of the queue is at this point of its code; it is about
\* this take, whose capture awaits it.
Serve(kind, at) == Up /\ queue # <<>> /\ Head(queue).kind = kind /\ running.at = at
About(t)        == Head(queue).take = t
Awaited(t, stage) == About(t) /\ capture[t] = stage

\* It ends, and its caller queues what it does next.
EndWith(next) == queue' = Tail(queue) \o next /\ running' = Idle

Enter(t, stage) == capture' = [capture EXCEPT ![t] = stage] /\ UNCHANGED target

-----------------------------------------------------------------------------
(* enforceQuota                                                            *)

StoredBytes(S) == SumFunctionOnSet([t \in Takes |-> rec[t].bytes], S)

ActualBytes   == StoredBytes({t \in Takes : Ready(t)})
ReservedBytes == Reservation * Cardinality({t \in Takes : op[t].state = "pending"})

Protected(t) == round[rec[t].round] # "round_saved" \/ outbox[t] = "active"

\* Mutant of Evictable: what an upload needs is not looked at.
EvictableUnsent(t) == Ready(t) /\ round[rec[t].round] = "round_saved"
Evictable(t) == Ready(t) /\ ~Protected(t)

\* Mutant of Older: the newest go first.
Newer(t) == {u \in Takes : Evictable(u) /\ order[u] > order[t]}

Older(t) == {u \in Takes : Evictable(u) /\ order[u] < order[t]}

\* selectEvictions: the oldest ones, until the rest fits; nothing when it cannot.
Victims(wanted, limit) ==
    LET chosen == {t \in Takes : Evictable(t) /\ wanted > limit + StoredBytes(Older(t))}
    IN  IF wanted <= limit + StoredBytes(chosen) THEN chosen ELSE {}

\* Mutant of Wanted: what is reserved is not counted.
WantedActual(task) == ActualBytes + (IF task.kind = "reserve" THEN Reservation ELSE 0)

\* The bytes there would be.
Wanted(task) == ActualBytes + ReservedBytes + (IF task.kind = "reserve" THEN Reservation ELSE 0)

\* Mutant of Limit: a change of the quota is measured against the old one.
LimitStored(task) == QuotaBytes[quota]

\* The quota they are measured against.
Limit(task) == QuotaBytes[IF task.kind = "settings" THEN task.to ELSE quota]

Fits(task) == Wanted(task) <= Limit(task)

Admission == {"reserve", "settings"}

\* The usage and the candidates are read; later steps work on what was selected.
SelectVictims ==
    \E kind \in Admission :
        /\ Serve(kind, "begin")
        /\ LET victims == Victims(Wanted(Head(queue)), Limit(Head(queue)))
           IN  /\ Fits(Head(queue)) \/ victims # {}
               /\ running' = IF Fits(Head(queue)) THEN [Idle EXCEPT !.at = "write"]
                             ELSE [Idle EXCEPT !.at = "unlink", !.victims = victims]
        /\ UNCHANGED <<disk, launch, queue, panels, removal, counters>>

\* The loop, oldest first: the file, then the row.
Unlink(t) ==
    /\ \E kind \in Admission : Serve(kind, "unlink")
    /\ t \in running.victims /\ \A u \in running.victims : order[t] <= order[u]
    /\ file' = [file EXCEPT ![t] = 0]
    /\ running' = [at |-> "mark", victims |-> running.victims \ {t}, take |-> t]
    /\ UNCHANGED <<tables, launch, queue, panels, removal, counters>>

MarkEvicted(t) ==
    /\ \E kind \in Admission : Serve(kind, "mark")
    /\ t = running.take
    /\ rec' = [rec EXCEPT ![t].media = IF @ = "ready" THEN "evicted" ELSE @]
    /\ running' = [running EXCEPT !.at = IF running.victims = {} THEN "write" ELSE "unlink"]
    /\ UNCHANGED <<round, op, outbox, quota, file, launch, queue, panels, removal, counters>>

-----------------------------------------------------------------------------
(* A capture: RecordingPanel                                               *)

\* A round that is shown can be recorded in; the free practice screen has none yet.
StartRecording(t, r) ==
    /\ Up /\ capture[t] = "idle" /\ Len(queue) < MaxWaiting
    /\ r # Unsaved => round[r] \notin {"none", "deleted"}
    /\ capture' = [capture EXCEPT ![t] = "reserve"]
    /\ target' = [target EXCEPT ![t] = r]
    /\ queue' = Append(queue, Do("reserve", t, r, ""))
    /\ UNCHANGED <<disk, launch, running, removal, counters>>

\* The last statement of reserveMediaBytes.
Reserve(t) ==
    /\ Serve("reserve", "write") /\ Awaited(t, "reserve")
    /\ op' = [op EXCEPT ![t] = [state |-> "pending", round |-> target[t], path |-> FALSE]]
    /\ IF target[t] = Unsaved
       THEN Enter(t, "recording") /\ EndWith(<<>>)
       ELSE Enter(t, "mark") /\ EndWith(<<Do("status", t, target[t], "recording")>>)
    /\ UNCHANGED <<round, rec, outbox, quota, file, launch, removal, counters>>

\* finishRecording, once: the status is written when the queue comes to it.
StopRecording(t) ==
    /\ Up /\ capture[t] = "recording"
    /\ Enter(t, "stopped")
    /\ queue' = IF target[t] = Unsaved THEN queue
                ELSE Append(queue, Do("status", NoTake, target[t], "finalizing"))
    /\ UNCHANGED <<disk, launch, running, removal, counters>>

\* The screen is left while the microphone runs: nothing stops or finalizes it.
LeaveScreen(t) ==
    /\ Up /\ capture[t] = "recording"
    /\ Enter(t, "left")
    /\ UNCHANGED <<disk, launch, queue, running, removal, counters>>

\* finalizeNative: the file is moved into place, then read and hashed.
MoveFile(t) ==
    /\ Up /\ capture[t] = "stopped"
    /\ \E bytes \in Sizes : file' = [file EXCEPT ![t] = bytes]
    /\ Enter(t, "moved")
    /\ UNCHANGED <<tables, launch, queue, running, removal, counters>>

HashFile(t) ==
    /\ Up /\ capture[t] = "moved"
    /\ clock' = clock + 1 /\ order' = [order EXCEPT ![t] = clock + 1]
    /\ Enter(t, "artifact")
    /\ queue' = Append(queue, Do("artifact", t, target[t], ""))
    /\ UNCHANGED <<disk, launch, running, removal, crashes, faults, asks, half>>

\* recordMediaArtifact; then onRecorded, which on the free practice screen first
\* creates the round.
RecordArtifact(t) ==
    /\ Serve("artifact", "begin") /\ Awaited(t, "artifact")
    /\ op' = [op EXCEPT ![t].path = @ \/ op[t].state = "pending"]
    /\ IF target[t] = Unsaved
       THEN Enter(t, "journal") /\ EndWith(<<Do("createRound", t, FreeRound[t], "")>>)
       ELSE Enter(t, "save") /\ EndWith(<<Do("save", t, target[t], "")>>)
    /\ UNCHANGED <<round, rec, outbox, quota, file, launch, removal, counters>>

\* createRun and createRound, for a screen that opens or for a take.
CreateRound ==
    LET r == Head(queue).round
        t == Head(queue).take
    IN  /\ Serve("createRound", "begin")
        /\ round' = [round EXCEPT ![r] = "ready"]
        /\ IF t = NoTake THEN EndWith(<<>>) /\ UNCHANGED panels
           ELSE Awaited(t, "journal") /\ Enter(t, "save") /\ EndWith(<<Do("save", t, r, "")>>)
        /\ UNCHANGED <<rec, op, outbox, quota, file, launch, removal, counters>>

\* Mutant of SaveRecording: the journal entry is settled at once.
SaveRecordingOnly(t) ==
    LET r == Head(queue).round
    IN  /\ Serve("save", "begin") /\ Awaited(t, "save") /\ round[r] # "deleted"
        /\ rec' = [rec EXCEPT ![t] = [round |-> r, bytes |-> file[t], media |-> "ready"]]
        /\ Enter(t, "commit") /\ EndWith(<<Do("settle", t, r, "committed")>>)
        /\ UNCHANGED <<round, op, outbox, quota, file, launch, removal, counters>>

\* The foreign key fails when the round was deleted.
SaveRecording(t) ==
    LET r == Head(queue).round
    IN  /\ Serve("save", "begin") /\ Awaited(t, "save") /\ round[r] # "deleted"
        /\ rec' = [rec EXCEPT ![t] = [round |-> r, bytes |-> file[t], media |-> "ready"]]
        /\ Enter(t, "status") /\ EndWith(<<Do("status", t, r, "round_saved")>>)
        /\ UNCHANGED <<round, op, outbox, quota, file, launch, removal, counters>>

\* updateRoundStatus, which nobody may be waiting for and which a deleted round ignores.
UpdateRoundStatus ==
    LET task == Head(queue)
    IN  /\ Serve("status", "begin")
        /\ round' = [round EXCEPT ![task.round] = IF @ = "deleted" THEN @ ELSE task.to]
        /\ \/ /\ task.take = NoTake /\ EndWith(<<>>) /\ UNCHANGED panels
           \/ \E t \in Takes : /\ Awaited(t, "mark") /\ task.to = "recording"
                              /\ Enter(t, "recording") /\ EndWith(<<>>)
           \/ \E t \in Takes : /\ Awaited(t, "status") /\ task.to = "round_saved"
                              /\ Enter(t, "commit")
                              /\ EndWith(<<Do("settle", t, task.round, "committed")>>)
        /\ UNCHANGED <<rec, op, outbox, quota, file, launch, removal, counters>>

\* completeMediaOperation.
SettleOperation(t) ==
    LET to == Head(queue).to
    IN  /\ Serve("settle", "begin") /\ Awaited(t, IF to = "committed" THEN "commit" ELSE "giveup")
        /\ op' = [op EXCEPT ![t].state = to]
        /\ Enter(t, IF to = "committed" THEN "done" ELSE "failed") /\ EndWith(<<>>)
        /\ UNCHANGED <<round, rec, outbox, quota, file, launch, removal, counters>>

\* The catch block of finishRecording, which awaits only its last operation.
CatchTasks(t) ==
    (IF target[t] = Unsaved THEN <<>> ELSE <<Do("status", NoTake, target[t], "interrupted")>>)
        \o <<Do("settle", t, target[t], "failed")>>

\* stop, move, stat or hash throws, before or after the file is in place.
FinalizeFails(t) ==
    /\ Up /\ capture[t] \in {"stopped", "moved"} /\ faults < MaxFaults
    /\ faults' = faults + 1
    /\ Enter(t, "giveup")
    /\ queue' = queue \o CatchTasks(t)
    /\ UNCHANGED <<disk, launch, running, removal, order, clock, crashes, asks, half>>

-----------------------------------------------------------------------------
(* An operation that throws                                                *)

\* Full storage that nothing evictable can free, and a foreign key that is gone.
Refused == \/ Serve("save", "begin") /\ round[Head(queue).round] = "deleted"
           \/ /\ \E kind \in Admission : Serve(kind, "begin")
              /\ ~Fits(Head(queue)) /\ Victims(Wanted(Head(queue)), Limit(Head(queue))) = {}

\* What the caller of a failed operation goes on with.
AfterFailure(t) ==
    CASE capture[t] = "reserve" -> Enter(t, "failed") /\ EndWith(<<>>)
      [] capture[t] = "mark"    -> Enter(t, "left") /\ EndWith(<<>>)   \* the reservation stays
      [] capture[t] = "giveup"  -> Enter(t, "failed") /\ EndWith(<<>>)
      [] OTHER -> Enter(t, "giveup") /\ EndWith(CatchTasks(t))

\* Mutant of OperationThrows: a failed operation is not taken from the queue.
OperationThrowsStuck ==
    /\ Up /\ queue # <<>> /\ faults < MaxFaults /\ running.at # "stuck"
    /\ faults' = faults + 1 /\ running' = [running EXCEPT !.at = "stuck"]
    /\ UNCHANGED <<disk, launch, queue, panels, removal, order, clock, crashes, asks, half>>

\* serialized goes on with the next one, whatever became of this one.
OperationThrows ==
    LET task == Head(queue)
    IN  /\ Up /\ queue # <<>>
        /\ IF Refused THEN UNCHANGED faults
           ELSE faults < MaxFaults /\ faults' = faults + 1
        /\ half' = IF running.at = "mark" THEN half \union {running.take} ELSE half
        /\ IF task.take # NoTake /\ task.kind \notin {"upsert", "close", "discard"}
           THEN AfterFailure(task.take)
           ELSE EndWith(<<>>) /\ UNCHANGED panels
        /\ removal' = IF task.kind \in {"cancel", "deleteRun"}
                      THEN [removal EXCEPT ![task.round] = [at |-> "none", takes |-> {}]]
                      ELSE removal
        /\ UNCHANGED <<disk, launch, order, clock, crashes, asks>>

-----------------------------------------------------------------------------
(* What the learner and the outbox ask for                                 *)

Ask(task) ==
    /\ Up /\ Len(queue) < MaxWaiting
    /\ IF task.kind = "close" THEN UNCHANGED asks    \* the outbox does that, not the learner
       ELSE asks < MaxAsks /\ asks' = asks + 1
    /\ queue' = Append(queue, task)
    /\ UNCHANGED <<disk, launch, running, panels, order, clock, crashes, faults, half>>

\* A screen opens; a photo or timed screen creates its round at once.
OpenScreen(r) ==
    LET task == Do("createRound", NoTake, r, "")
    IN  /\ Up /\ round[r] = "none" /\ (\A t \in Takes : FreeRound[t] # r)
        /\ \A i \in DOMAIN queue : queue[i] # task
        /\ queue' = Append(queue, task)
        /\ UNCHANGED <<disk, launch, running, panels, removal, counters>>

\* requestDurableFeedback, from a screen that holds the take; drainOutbox closes entries.
RequestFeedback(t) == /\ Stored(t) /\ capture[t] \notin Awaiting \ {"commit"}
                      /\ outbox[t] # "active"
                      /\ Ask(Do("upsert", t, Unsaved, "")) /\ UNCHANGED removal
EntryEnds(t) == /\ outbox[t] = "active" /\ (\A i \in DOMAIN queue : queue[i] # Do("close", t, Unsaved, ""))
                /\ Ask(Do("close", t, Unsaved, "")) /\ UNCHANGED removal

ChangeQuota(level) == level # quota /\ Ask(Do("settings", NoTake, Unsaved, level)) /\ UNCHANGED removal

DiscardTake(t) == /\ Stored(t) /\ capture[t] \notin Awaiting \ {"commit"}
                  /\ Ask(Do("discard", t, Unsaved, "")) /\ UNCHANGED removal

UpsertOutbox(t) ==
    /\ Serve("upsert", "begin") /\ About(t)
    /\ outbox' = [outbox EXCEPT ![t] = "active"]
    /\ EndWith(<<>>)
    /\ UNCHANGED <<round, rec, op, quota, file, launch, panels, removal, counters>>

CloseEntry(t) ==
    /\ Serve("close", "begin") /\ About(t)
    /\ outbox' = [outbox EXCEPT ![t] = "closed"]
    /\ EndWith(<<>>)
    /\ UNCHANGED <<round, rec, op, quota, file, launch, panels, removal, counters>>

\* The last statement of updateSettings.
WriteSettings ==
    /\ Serve("settings", "write")
    /\ quota' = Head(queue).to
    /\ EndWith(<<>>)
    /\ UNCHANGED <<round, rec, op, outbox, file, launch, panels, removal, counters>>

Without(S) == [t \in Takes |-> IF t \in S THEN [rec[t] EXCEPT !.media = "none"] ELSE rec[t]]

\* deleteRecording: the row, and on a phone nothing else.
DeleteRecording(t) ==
    /\ Serve("discard", "begin") /\ About(t)
    /\ rec' = Without({t})
    /\ EndWith(<<>>)
    /\ UNCHANGED <<round, op, outbox, quota, file, launch, panels, removal, counters>>

OfRound(r) == {t \in Takes : Stored(t) /\ rec[t].round = r}

\* deleteRun: the recordings are listed outside the queue; the entries of each are
\* cancelled and one that tells the server is queued for it (the calls of
\* queueServerDeletion wait side by side), then the rows go by cascade, then the caller removes the files that were listed.
StartRemoval(r) ==
    /\ round[r] \notin {"none", "deleted"} /\ removal[r].at = "none"
    /\ IF OfRound(r) = {}
       THEN /\ Ask(Do("deleteRun", NoTake, r, ""))
            /\ removal' = [removal EXCEPT ![r] = [at |-> "rows", takes |-> {}]]
       ELSE /\ Ask(Do("cancel", NoTake, r, ""))
            /\ removal' = [removal EXCEPT ![r] = [at |-> "cancel", takes |-> OfRound(r)]]

QueueServerDeletion ==
    LET r == Head(queue).round
    IN  /\ Serve("cancel", "begin")
        /\ outbox' = [t \in Takes |-> IF t \in removal[r].takes THEN "active" ELSE outbox[t]]
        /\ removal' = [removal EXCEPT ![r].at = "rows"]
        /\ EndWith(<<Do("deleteRun", NoTake, r, "")>>)
        /\ UNCHANGED <<round, rec, op, quota, file, launch, panels, counters>>

DeleteRun ==
    LET r == Head(queue).round
    IN  /\ Serve("deleteRun", "begin")
        /\ round' = [round EXCEPT ![r] = "deleted"]
        /\ rec' = Without(OfRound(r))
        /\ removal' = [removal EXCEPT ![r].at = "files"]
        /\ EndWith(<<>>)
        /\ UNCHANGED <<op, outbox, quota, file, launch, panels, counters>>

RemoveFiles(r) ==
    /\ Up /\ removal[r].at = "files"
    /\ file' = [t \in Takes |-> IF t \in removal[r].takes THEN 0 ELSE file[t]]
    /\ removal' = [removal EXCEPT ![r] = [at |-> "none", takes |-> {}]]
    /\ UNCHANGED <<tables, launch, queue, running, panels, counters>>

-----------------------------------------------------------------------------
(* The app dies, and is launched again                                     *)

Crash ==
    /\ crashes < MaxCrashes
    /\ crashes' = crashes + 1
    /\ launch' = [phase |-> "rows", todo |-> {}, at |-> NoTake]
    /\ queue' = <<>> /\ running' = Idle
    /\ capture' = [t \in Takes |-> IF capture[t] \in {"idle", "done", "failed"}
                                   THEN capture[t] ELSE "dead"]
    /\ removal' = [r \in Rounds |-> [at |-> "none", takes |-> {}]]
    /\ half' = {}
    /\ UNCHANGED <<disk, target, order, clock, faults, asks>>

\* Mutant of ReconcileRows: only rows without a path are looked at.
ReconcileRowsNot ==
    /\ launch.phase = "rows"
    /\ launch' = [phase |-> "artifacts", at |-> NoTake,
                  todo |-> {t \in Takes : op[t].state = "pending" /\ op[t].path}]
    /\ UNCHANGED <<disk, queue, running, panels, removal, counters>>

\* reconcileNativeFiles.  Every row by itself, so one step: a launch that dies in
\* between does the rest the next time.
ReconcileRows ==
    /\ launch.phase = "rows"
    /\ rec' = [t \in Takes |-> IF Ready(t) /\ file[t] = 0
                               THEN [rec[t] EXCEPT !.media = "missing"] ELSE rec[t]]
    /\ launch' = [phase |-> "artifacts", at |-> NoTake,
                  todo |-> {t \in Takes : op[t].state = "pending" /\ op[t].path}]
    /\ UNCHANGED <<round, op, outbox, quota, file, queue, running, panels, removal, counters>>

\* A candidate is done with; the loop goes on.
Settled(t, state) ==
    /\ op' = [op EXCEPT ![t].state = state]
    /\ launch' = [phase |-> "artifacts", todo |-> launch.todo \ {t}, at |-> NoTake]

NextArtifact(t) == launch.phase = "artifacts" /\ t \in launch.todo

Recoverable(t) == file[t] # 0 /\ op[t].round # Unsaved

\* Without a file or a round, or with a round that is gone, there is nothing to insert.
DropArtifact(t) ==
    /\ NextArtifact(t)
    /\ Recoverable(t) => ~Stored(t) /\ round[op[t].round] = "deleted"
    /\ Settled(t, "failed")
    /\ UNCHANGED <<round, rec, outbox, quota, file, queue, running, panels, removal, counters>>

KnownArtifact(t) ==
    /\ NextArtifact(t) /\ Recoverable(t) /\ Stored(t)
    /\ launch' = [launch EXCEPT !.phase = "commit", !.at = t]
    /\ UNCHANGED <<disk, queue, running, panels, removal, counters>>

RecoverRow(t) ==
    /\ NextArtifact(t) /\ Recoverable(t) /\ ~Stored(t) /\ round[op[t].round] # "deleted"
    /\ rec' = [rec EXCEPT ![t] = [round |-> op[t].round, bytes |-> file[t], media |-> "ready"]]
    /\ clock' = clock + 1 /\ order' = [order EXCEPT ![t] = clock + 1]
    /\ launch' = [launch EXCEPT !.phase = "round", !.at = t]
    /\ UNCHANGED <<round, op, outbox, quota, file, queue, running, panels, removal,
                   crashes, faults, asks, half>>

RecoverRound ==
    LET r == op[launch.at].round
    IN  /\ launch.phase = "round"
        /\ round' = [round EXCEPT ![r] = IF @ \in {"recording", "finalizing"} THEN "interrupted" ELSE @]
        /\ launch' = [launch EXCEPT !.phase = "commit"]
        /\ UNCHANGED <<rec, op, outbox, quota, file, queue, running, panels, removal, counters>>

RecoverCommit ==
    /\ launch.phase = "commit"
    /\ Settled(launch.at, "committed")
    /\ UNCHANGED <<round, rec, outbox, quota, file, queue, running, panels, removal, counters>>

\* The catch of the loop: a read, a hash or a statement threw.
ArtifactFails ==
    /\ faults < MaxFaults /\ faults' = faults + 1
    /\ \/ launch.phase \in {"round", "commit"} /\ Settled(launch.at, "failed")
       \/ \E t \in Takes : NextArtifact(t) /\ Settled(t, "failed")
    /\ UNCHANGED <<round, rec, outbox, quota, file, queue, running, panels, removal,
                   order, clock, crashes, asks, half>>

\* Mutant of ReleaseReservations: no reservation is released.
ReleaseReservationsNot ==
    /\ launch.phase = "artifacts" /\ launch.todo = {}
    /\ launch' = [launch EXCEPT !.phase = "up"]
    /\ UNCHANGED <<disk, queue, running, panels, removal, counters>>

\* What was reserved by captures that never named a file.
ReleaseReservations ==
    /\ launch.phase = "artifacts" /\ launch.todo = {}
    /\ op' = [t \in Takes |-> IF op[t].state = "pending" /\ ~op[t].path
                              THEN [op[t] EXCEPT !.state = "failed"] ELSE op[t]]
    /\ launch' = [launch EXCEPT !.phase = "up"]
    /\ UNCHANGED <<round, rec, outbox, quota, file, queue, running, panels, removal, counters>>

\* A statement outside the loop's try throws: the promise stays rejected, and
\* with it every storage call until the app is started again.
LaunchThrows ==
    /\ launch.phase \in {"rows", "artifacts"} /\ faults < MaxFaults
    /\ faults' = faults + 1
    /\ launch' = [launch EXCEPT !.phase = "broken"]
    /\ UNCHANGED <<disk, queue, running, panels, removal, order, clock, crashes, asks, half>>

-----------------------------------------------------------------------------
Admitting == SelectVictims \/ \E t \in Takes : Unlink(t) \/ MarkEvicted(t)

TakeOperation(t) ==
    \/ Reserve(t)
    \/ RecordArtifact(t)
    \/ SaveRecording(t)
    \/ SettleOperation(t)
    \/ UpsertOutbox(t)
    \/ CloseEntry(t)
    \/ DeleteRecording(t)

\* A step of the operation at the head of the queue.
Operate ==
    \/ Admitting
    \/ \E t \in Takes : TakeOperation(t)
    \/ CreateRound
    \/ UpdateRoundStatus
    \/ WriteSettings
    \/ QueueServerDeletion
    \/ DeleteRun

Finalizing(t) == MoveFile(t) \/ HashFile(t)

Learner ==
    \/ \E t \in Takes, r \in Rounds \union {Unsaved} : StartRecording(t, r)
    \/ \E t \in Takes : StopRecording(t) \/ LeaveScreen(t) \/ RequestFeedback(t)
                        \/ EntryEnds(t) \/ DiscardTake(t)
    \/ \E r \in Rounds : OpenScreen(r) \/ StartRemoval(r)
    \/ \E level \in Levels : ChangeQuota(level)

Launching ==
    \/ ReconcileRows
    \/ \E t \in Takes : DropArtifact(t) \/ KnownArtifact(t) \/ RecoverRow(t)
    \/ RecoverRound
    \/ RecoverCommit
    \/ ReleaseReservations

Failing == OperationThrows \/ ArtifactFails \/ LaunchThrows \/ \E t \in Takes : FinalizeFails(t)

Next ==
    \/ Operate
    \/ \E t \in Takes : Finalizing(t)
    \/ \E r \in Rounds : RemoveFiles(r)
    \/ Learner
    \/ Launching
    \/ Failing
    \/ Crash

SafeSpec == Init /\ [][Next]_vars

\* Promises and awaits resume while the app lives.  The learner need not act, and
\* nothing has to fail.
Fairness ==
    /\ WF_vars(Operate \/ (Refused /\ OperationThrows))
    /\ \A t \in Takes : WF_vars(Finalizing(t))
    /\ \A r \in Rounds : WF_vars(RemoveFiles(r))
    /\ WF_vars(Launching)

Spec == SafeSpec /\ Fairness

-----------------------------------------------------------------------------
(* Properties                                                              *)

\* A take accounts for what it reserved until its journal entry is settled, and from
\* then on for the bytes of its row.
Accounted(t) == IF op[t].state = "pending" THEN Reservation
                ELSE IF Ready(t) THEN rec[t].bytes ELSE 0
Total        == SumFunctionOnSet([t \in Takes |-> Accounted(t)], Takes)

Charged(t) == IF Accounted(t) <= Reservation THEN Accounted(t) ELSE Reservation

\* The takes of the phone stay within the quota of the settings, whatever is recorded,
\* evicted and recovered at the same time, but for the bytes by which single takes
\* outgrew what was reserved for them (enforceQuota, reserveMediaBytes, updateSettings).
QuotaKept == SumFunctionOnSet([t \in Takes |-> Charged(t)], Takes) <= QuotaBytes[quota]

\* Even those are made up for: when a recording is admitted or another quota stored, all
\* of it fits, although the room for it was found many steps before (enforceQuota, which
\* reads the usage once, in reserveMediaBytes and updateSettings).
AdmissionsFit ==
    [][(\E t \in Takes : Reserve(t)) \/ WriteSettings => Total' <= QuotaBytes[quota']]_vars

\* A take that is shown as ready can be played: once the app has launched, its file
\* is there, unless eviction is between the file and the row, or threw there.
ReadyHasFile ==
    Up => \A t \in Takes : Ready(t) /\ file[t] = 0 =>
              t \in half \/ (running.at = "mark" /\ t = running.take)

\* Every reservation still pending was made since the launch: those of captures the
\* app died in are settled by the time it takes a new one.
ReservationsAreLive ==
    Up => \A t \in Takes : op[t].state = "pending" => capture[t] \notin {"idle", "dead"}

\* Eviction never takes the file of a take whose round is not saved or which an
\* upload still needs, although it selects its victims long before it removes the
\* last of them (mobile-plan.md:94, "Never silently delete an unsent assessment
\* request's only input").
Evicted(t) == file[t] # 0 /\ file'[t] = 0 /\ Stored(t)
EvictionSparesUploads == [][\A t \in Takes : Evicted(t) =>
                                outbox[t] # "active" /\ round[rec[t].round] = "round_saved"]_vars

\* Files go oldest first and only while they are in the way: when one is removed, no
\* older one could have been, and without it there was no room (selectEvictions; the
\* loop of enforceQuota works on what was selected before).
EvictionIsMinimal ==
    [][\A t \in Takes : Evicted(t) =>
           /\ ~\E u \in Takes : Evictable(u) /\ order[u] < order[t]
           /\ ~Fits(Head(queue))]_vars

\* A saved take does not hold on to the quota for ever: when its capture is over and no
\* other one works on its round, the round is saved and eviction may have the take,
\* whatever of "finalizing", which nobody awaits, was written when.
SavedTakeIsReleased ==
    \A t \in Takes :
        LET r == rec[t].round
        IN  capture[t] = "done" /\ Ready(t) /\ (\A u \in Takes \ {t} : r \notin {target[u], FreeRound[u]})
                => round[r] = "round_saved"

\* A capture that was stopped comes to an end: saved, told to have failed, or dead
\* with the app; no operation that throws holds up those behind it.
CapturesEnd == \A t \in Takes :
    (capture[t] \in Awaiting \union {"stopped", "moved"})
        ~> (capture[t] \in {"recording", "done", "failed", "left", "dead"})

=============================================================================

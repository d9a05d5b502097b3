------------------------- MODULE MediaJournalProofs -------------------------
(***************************************************************************)
(* What is shown as ready can be played, reservations are those of this    *)
(* launch, the quota is kept, and eviction never takes what an upload      *)
(* needs, goes oldest first, stops when there is room and may have every   *)
(* take that was saved: for every number of captures, rounds, crashes,     *)
(* failing statements and requests, every quota and every size.            *)
(***************************************************************************)
EXTENDS MediaJournal, SequenceTheorems, FoldTheorems

USE DEF vars, disk, tables, panels, counters, AnyTake, AnyRound

-----------------------------------------------------------------------------
(* The invariant                                                           *)

\* Before its take is saved.
PreSave == {"idle", "reserve", "mark", "recording", "stopped", "moved", "artifact", "journal", "save"}

\* What was selected is still evictable when its turn comes: the queue keeps out
\* whoever would write to its round or its entries.
SelectionInv ==
    /\ running.at # "begin" => Up
    /\ running.at \in {"unlink", "mark"} => \A t \in running.victims : Evictable(t)
    /\ running.at = "mark" => running.take \in Takes \ running.victims

\* Where a capture is tells which rows and files its take has.
StageInv == \A t \in Takes :
    /\ capture[t] \in PreSave => ~Stored(t)
    /\ capture[t] \in {"moved", "artifact", "journal", "save"} => file[t] # 0
    /\ capture[t] = "idle" => op[t].state = "none"

\* Until the app is up nobody else acts, and the candidates of the journal are listed.
LaunchInv ==
    /\ ~Up => (\A t \in Takes : capture[t] \in {"idle", "done", "failed", "dead"})
              /\ (\A r \in Rounds : removal[r].takes = {})
    /\ Up => launch.todo = {}
    /\ \A t \in launch.todo : op[t].state # "none"
    /\ launch.phase \in {"artifacts", "round", "commit"} =>
           \A t \in Takes : op[t].state = "pending" /\ op[t].path => t \in launch.todo
    /\ launch.phase \in {"round", "commit"} => launch.at \in launch.todo

\* The files deleteRun is going to remove have no row, or one that goes before them.
RemovalInv == \A r \in Rounds : \A t \in removal[r].takes :
    /\ capture[t] \notin PreSave
    /\ Stored(t) => removal[r].at # "files" /\ rec[t].round = r

\* The first thing a launch does is to look for the file of every ready row.
FilesInv == launch.phase \notin {"rows", "broken"} =>
    \A t \in Takes : Ready(t) /\ file[t] = 0 => t \in half \/ (running.at = "mark" /\ t = running.take)

JournalInv == /\ TypeOK /\ SelectionInv /\ StageInv /\ LaunchInv /\ RemovalInv /\ FilesInv
              /\ ReservationsAreLive

-----------------------------------------------------------------------------
(* The queue                                                               *)

LEMMA QueueAppend == ASSUME NEW S, NEW q \in Seq(S), NEW x \in S PROVE Append(q, x) \in Seq(S)
OBVIOUS

LEMMA QueueEnd ==
    ASSUME NEW S, NEW q \in Seq(S), q # <<>>, NEW next \in Seq(S)
    PROVE  Tail(q) \o next \in Seq(S) /\ Head(q) \in S
<1>1. Tail(q) \in Seq(S) /\ Head(q) \in S BY HeadTailProperties
<1> QED BY <1>1, ConcatProperties

LEMMA QueueConcat == ASSUME NEW S, NEW q \in Seq(S), NEW next \in Seq(S) PROVE q \o next \in Seq(S)
BY ConcatProperties

LEMMA HeadTask == ASSUME TypeOK, queue # <<>> PROVE Head(queue) \in Task
BY HeadTailProperties DEF TypeOK

LEMMA TaskTypes ==
    /\ \A t \in Takes, r \in AnyRound :
        /\ \A kind \in {"reserve", "artifact", "upsert", "close", "discard"} : Do(kind, t, r, "") \in Task
        /\ \A to \in {"committed", "failed"} : Do("settle", t, r, to) \in Task
    /\ \A t \in AnyTake, r \in Rounds :
        /\ \A kind \in {"createRound", "save", "cancel", "deleteRun"} : Do(kind, t, r, "") \in Task
        /\ \A to \in Status : Do("status", t, r, to) \in Task
    /\ \A level \in Levels : Do("settings", NoTake, Unsaved, level) \in Task
BY DEF Do, Task

LEMMA TaskFields ==
    ASSUME NEW task \in Task
    PROVE  /\ task.kind = "createRound" => task.round \in Rounds /\ task.take \in AnyTake
           /\ task.kind = "save" => task.round \in Rounds /\ task.take \in AnyTake
           /\ task.kind \in {"cancel", "deleteRun"} => task.round \in Rounds
           /\ task.kind = "status" => task.round \in Rounds /\ task.take \in AnyTake /\ task.to \in Status
           /\ task.kind = "settle" => task.to \in {"committed", "failed"}
           /\ task.kind = "settings" => task.to \in Levels
           /\ task.take \in AnyTake
BY DEF Task

-----------------------------------------------------------------------------
(* Types                                                                   *)

\* The head of the queue goes, the operations of its caller come.
LEMMA QueueServed ==
    ASSUME TypeOK, queue # <<>>, NEW next \in Seq(Task), EndWith(next)
    PROVE  queue' \in Seq(Task) /\ running' = Idle
BY QueueEnd DEF TypeOK, EndWith

LEMMA NothingNext == <<>> \in Seq(Task)
OBVIOUS

LEMMA OneNext == \A task \in Task : <<task>> \in Seq(Task)
OBVIOUS

LEMMA CatchTasksType == ASSUME TypeOK, NEW t \in Takes PROVE CatchTasks(t) \in Seq(Task)
<1>1. target[t] \in AnyRound BY DEF TypeOK
<1>2. <<Do("settle", t, target[t], "failed")>> \in Seq(Task) BY <1>1, TaskTypes, OneNext
<1>3. CASE target[t] = Unsaved BY <1>2, <1>3, NothingNext, QueueConcat DEF CatchTasks
<1>4. CASE target[t] # Unsaved
  <2>1. Do("status", NoTake, target[t], "interrupted") \in Task
    BY <1>1, <1>4, TaskTypes DEF Status
  <2> QED BY <1>2, <1>4, <2>1, OneNext, QueueConcat DEF CatchTasks
<1> QED BY <1>3, <1>4


LEMMA VictimsEvictable == \A w, l : \A t \in Victims(w, l) : t \in Takes /\ Evictable(t)
BY DEF Victims

\* Rows that are updated in one field.
LEMMA RowMedia ==
    ASSUME NEW row \in Row, NEW m \in {"none", "ready", "evicted", "missing"}
    PROVE  /\ [row EXCEPT !.media = m] \in Row
           /\ [row EXCEPT !.media = m].media = m
           /\ [row EXCEPT !.media = m].round = row.round
BY DEF Row

LEMMA OperationState ==
    ASSUME NEW o \in Operation, NEW s \in {"none", "pending", "committed", "failed"}
    PROVE  /\ [o EXCEPT !.state = s] \in Operation
           /\ [o EXCEPT !.state = s].state = s
           /\ [o EXCEPT !.state = s].path = o.path
           /\ [o EXCEPT !.state = s].round = o.round
BY DEF Operation

LEMMA OperationPath ==
    ASSUME NEW o \in Operation, NEW p \in BOOLEAN
    PROVE  /\ [o EXCEPT !.path = p] \in Operation
           /\ [o EXCEPT !.path = p].state = o.state
           /\ [o EXCEPT !.path = p].path = p
           /\ [o EXCEPT !.path = p].round = o.round
BY DEF Operation

Removal == [at : {"none", "cancel", "rows", "files"}, takes : SUBSET Takes]
Running == [at : {"begin", "unlink", "mark", "write"}, victims : SUBSET Takes, take : AnyTake]

LEMMA IdleType == Idle \in Running
BY DEF Idle, Running

LEMMA RemovalAt ==
    ASSUME NEW x \in Removal, NEW a \in {"none", "cancel", "rows", "files"}
    PROVE  /\ [x EXCEPT !.at = a] \in Removal
           /\ [x EXCEPT !.at = a].at = a
           /\ [x EXCEPT !.at = a].takes = x.takes
BY DEF Removal

LEMMA WithoutRow ==
    ASSUME rec \in [Takes -> Row], NEW S
    PROVE  /\ Without(S) \in [Takes -> Row]
           /\ \A t \in Takes : /\ Without(S)[t].round = rec[t].round
                               /\ Without(S)[t].media = IF t \in S THEN "none" ELSE rec[t].media
<1>1. \A t \in Takes : /\ rec[t] \in Row
                       /\ [rec[t] EXCEPT !.media = "none"] \in Row
                       /\ [rec[t] EXCEPT !.media = "none"].media = "none"
                       /\ [rec[t] EXCEPT !.media = "none"].round = rec[t].round
  BY RowMedia
<1> QED BY <1>1 DEF Without

\* The steps of the operation at the head of the queue.
LEMMA TypeOperate == ASSUME TypeOK, Operate PROVE TypeOK'
<1> USE JournalNameAssumption, JournalSizeAssumption
<1>0. Idle \in [at : {"begin", "unlink", "mark", "write"}, victims : SUBSET Takes, take : AnyTake]
  BY IdleType DEF Running
<1> USE <1>0
<1>1. CASE SelectVictims
  <2>1. [Idle EXCEPT !.at = "write"] \in Running BY DEF Idle, Running
  <2>2. \A w, l : [Idle EXCEPT !.at = "unlink", !.victims = Victims(w, l)] \in Running
    BY VictimsEvictable DEF Idle, Running
  <2>3. CASE Fits(Head(queue))
    <3>1. running' = [Idle EXCEPT !.at = "write"] BY <1>1, <2>3 DEF SelectVictims
    <3> QED BY <1>1, <2>1, <3>1 DEF SelectVictims, TypeOK, Running
  <2>4. CASE ~Fits(Head(queue))
    <3>1. running' = [Idle EXCEPT !.at = "unlink",
                              !.victims = Victims(Wanted(Head(queue)), Limit(Head(queue)))]
      BY <1>1, <2>4 DEF SelectVictims
    <3> QED BY <1>1, <2>2, <3>1 DEF SelectVictims, TypeOK, Running
  <2> QED BY <2>3, <2>4
<1>2. ASSUME NEW t \in Takes, Unlink(t) PROVE TypeOK'
  BY <1>2 DEF Unlink, TypeOK
<1>3. ASSUME NEW t \in Takes, MarkEvicted(t) PROVE TypeOK'
  <2>1. rec' = [rec EXCEPT ![t].media = IF @ = "ready" THEN "evicted" ELSE @] BY <1>3 DEF MarkEvicted
  <2>2. rec[t] \in Row /\ (IF rec[t].media = "ready" THEN "evicted" ELSE rec[t].media)
                              \in {"none", "ready", "evicted", "missing"}
    BY DEF TypeOK, Row
  <2>3. rec' \in [Takes -> Row] BY <2>1, <2>2, RowMedia DEF TypeOK
  <2>4. running' \in Running
    BY <1>3 DEF MarkEvicted, TypeOK, Running
  <2> QED BY <1>3, <2>3, <2>4 DEF MarkEvicted, TypeOK, Running
<1>4. ASSUME NEW t \in Takes, Reserve(t) PROVE TypeOK'
  <2>1. target[t] \in AnyRound /\ queue # <<>> BY <1>4 DEF TypeOK, Reserve, Serve
  <2>2. op' \in [Takes -> Operation] BY <1>4, <2>1 DEF Reserve, TypeOK, Operation
  <2>3. CASE target[t] = Unsaved
    <3>1. queue' \in Seq(Task) /\ running' = Idle BY <1>4, <2>1, <2>3, QueueServed, NothingNext DEF Reserve
    <3> QED BY <1>4, <2>2, <2>3, <3>1 DEF Reserve, Enter, TypeOK, Stages, Awaiting
  <2>4. CASE target[t] # Unsaved
    <3>1. Do("status", t, target[t], "recording") \in Task BY <2>1, <2>4, TaskTypes DEF Status
    <3>2. queue' \in Seq(Task) /\ running' = Idle BY <1>4, <2>1, <2>4, <3>1, QueueServed, OneNext DEF Reserve
    <3> QED BY <1>4, <2>2, <2>4, <3>2 DEF Reserve, Enter, TypeOK, Stages, Awaiting
  <2> QED BY <2>3, <2>4
<1>5. ASSUME NEW t \in Takes, RecordArtifact(t) PROVE TypeOK'
  <2>1. target[t] \in AnyRound /\ FreeRound[t] \in Rounds /\ queue # <<>>
    BY <1>5 DEF TypeOK, RecordArtifact, Serve
  <2>2. op' \in [Takes -> Operation]
    <3>1. op' = [op EXCEPT ![t].path = @ \/ op[t].state = "pending"] BY <1>5 DEF RecordArtifact
    <3>2. op[t] \in Operation /\ (op[t].path \/ op[t].state = "pending") \in BOOLEAN
      BY DEF TypeOK, Operation
    <3> QED BY <3>1, <3>2, OperationPath DEF TypeOK
  <2>3. CASE target[t] = Unsaved
    <3>1. Do("createRound", t, FreeRound[t], "") \in Task BY <2>1, TaskTypes
    <3>2. queue' \in Seq(Task) /\ running' = Idle
      BY <1>5, <2>1, <2>3, <3>1, QueueServed, OneNext DEF RecordArtifact
    <3> QED BY <1>5, <2>2, <2>3, <3>2 DEF RecordArtifact, Enter, TypeOK, Stages, Awaiting
  <2>4. CASE target[t] # Unsaved
    <3>1. Do("save", t, target[t], "") \in Task BY <2>1, <2>4, TaskTypes
    <3>2. queue' \in Seq(Task) /\ running' = Idle
      BY <1>5, <2>1, <2>4, <3>1, QueueServed, OneNext DEF RecordArtifact
    <3> QED BY <1>5, <2>2, <2>4, <3>2 DEF RecordArtifact, Enter, TypeOK, Stages, Awaiting
  <2> QED BY <2>3, <2>4
<1>6. ASSUME NEW t \in Takes, SaveRecording(t) PROVE TypeOK'
  <2> DEFINE r == Head(queue).round
  <2>1. queue # <<>> /\ Head(queue) \in Task /\ Head(queue).kind = "save"
    BY <1>6, HeadTask DEF SaveRecording, Serve
  <2>2. r \in Rounds BY <2>1, TaskFields
  <2> HIDE DEF r
  <2>3. Do("status", t, r, "round_saved") \in Task BY <2>2, TaskTypes DEF Status
  <2>4. queue' \in Seq(Task) /\ running' = Idle
    BY <1>6, <2>1, <2>3, QueueServed, OneNext DEF SaveRecording, r
  <2>5. rec' = [rec EXCEPT ![t] = [round |-> r, bytes |-> file[t], media |-> "ready"]]
    BY <1>6 DEF SaveRecording, r
  <2>6. rec' \in [Takes -> Row] BY <2>2, <2>5 DEF TypeOK, Row
  <2> QED BY <1>6, <2>4, <2>6 DEF SaveRecording, Enter, TypeOK, Stages, Awaiting
<1>7. ASSUME NEW t \in Takes, SettleOperation(t) PROVE TypeOK'
  <2>1. queue # <<>> /\ Head(queue) \in Task /\ Head(queue).kind = "settle"
    BY <1>7, HeadTask DEF SettleOperation, Serve
  <2>2. Head(queue).to \in {"committed", "failed"} BY <2>1, TaskFields
  <2>3. op' \in [Takes -> Operation] BY <1>7, <2>2, OperationState DEF SettleOperation, TypeOK
  <2>4. queue' \in Seq(Task) /\ running' = Idle
    BY <1>7, <2>1, QueueServed, NothingNext DEF SettleOperation
  <2> QED BY <1>7, <2>3, <2>4 DEF SettleOperation, Enter, TypeOK, Stages
<1>8. ASSUME NEW t \in Takes, UpsertOutbox(t) \/ CloseEntry(t) PROVE TypeOK'
  <2>1. queue # <<>> BY <1>8 DEF UpsertOutbox, CloseEntry, Serve
  <2>2. queue' \in Seq(Task) /\ running' = Idle
    BY <1>8, <2>1, QueueServed, NothingNext DEF UpsertOutbox, CloseEntry
  <2>3. outbox' \in [Takes -> {"none", "active", "closed"}] BY <1>8 DEF UpsertOutbox, CloseEntry, TypeOK
  <2>4. UNCHANGED <<round, rec, op, quota, file, launch, panels, removal, counters>>
    BY <1>8 DEF UpsertOutbox, CloseEntry
  <2> QED BY <2>2, <2>3, <2>4, IdleType DEF TypeOK, Running
<1>9. ASSUME NEW t \in Takes, DeleteRecording(t) PROVE TypeOK'
  <2>1. queue # <<>> BY <1>9 DEF DeleteRecording, Serve
  <2>2. queue' \in Seq(Task) /\ running' = Idle
    BY <1>9, <2>1, QueueServed, NothingNext DEF DeleteRecording
  <2>3. rec' \in [Takes -> Row] BY <1>9, WithoutRow DEF DeleteRecording, TypeOK
  <2> QED BY <1>9, <2>2, <2>3 DEF DeleteRecording, TypeOK
<1>10. CASE CreateRound
  <2> DEFINE r == Head(queue).round
             t == Head(queue).take
  <2>1. queue # <<>> /\ Head(queue) \in Task /\ Head(queue).kind = "createRound"
    BY <1>10, HeadTask DEF CreateRound, Serve
  <2>2. r \in Rounds /\ t \in AnyTake BY <2>1, TaskFields
  <2> HIDE DEF r, t
  <2>3. round' \in [Rounds -> Status] BY <1>10 DEF CreateRound, TypeOK, Status
  <2>4. CASE t = NoTake
    <3>1. EndWith(<<>>) /\ UNCHANGED panels BY <1>10, <2>4 DEF CreateRound, t
    <3>2. queue' \in Seq(Task) /\ running' = Idle BY <2>1, <3>1, QueueServed, NothingNext
    <3> QED BY <1>10, <2>3, <3>1, <3>2 DEF CreateRound, TypeOK
  <2>5. CASE t # NoTake
    <3>1. EndWith(<<Do("save", t, r, "")>>) /\ Enter(t, "save") BY <1>10, <2>5 DEF CreateRound, t, r
    <3>2. Do("save", t, r, "") \in Task BY <2>2, TaskTypes
    <3>3. queue' \in Seq(Task) /\ running' = Idle BY <2>1, <3>1, <3>2, QueueServed, OneNext
    <3> QED BY <1>10, <2>3, <3>1, <3>3 DEF CreateRound, TypeOK, Enter, Stages, Awaiting
  <2> QED BY <2>4, <2>5
<1>11. CASE UpdateRoundStatus
  <2> DEFINE task == Head(queue)
  <2>1. queue # <<>> /\ task \in Task /\ task.kind = "status"
    BY <1>11, HeadTask DEF UpdateRoundStatus, Serve
  <2>2. task.round \in Rounds /\ task.to \in Status BY <2>1, TaskFields
  <2>3. round' \in [Rounds -> Status]
    BY <1>11, <2>2 DEF UpdateRoundStatus, TypeOK
  <2>4. CASE EndWith(<<>>) /\ UNCHANGED panels
    <3>1. queue' \in Seq(Task) /\ running' = Idle BY <2>1, <2>4, QueueServed, NothingNext
    <3> QED BY <1>11, <2>3, <2>4, <3>1 DEF UpdateRoundStatus, TypeOK
  <2>5. ASSUME NEW t \in Takes, Enter(t, "recording"), EndWith(<<>>) PROVE TypeOK'
    <3>1. queue' \in Seq(Task) /\ running' = Idle BY <2>1, <2>5, QueueServed, NothingNext
    <3> QED BY <1>11, <2>3, <2>5, <3>1 DEF UpdateRoundStatus, TypeOK, Enter, Stages
  <2>6. ASSUME NEW t \in Takes, Enter(t, "commit"), EndWith(<<Do("settle", t, task.round, "committed")>>)
        PROVE  TypeOK'
    <3>1. Do("settle", t, task.round, "committed") \in Task BY <2>2, TaskTypes
    <3>2. queue' \in Seq(Task) /\ running' = Idle BY <2>1, <2>6, <3>1, QueueServed, OneNext
    <3> QED BY <1>11, <2>3, <2>6, <3>2 DEF UpdateRoundStatus, TypeOK, Enter, Stages, Awaiting
  <2> QED BY <1>11, <2>4, <2>5, <2>6 DEF UpdateRoundStatus
<1>12. CASE WriteSettings
  <2>1. queue # <<>> /\ Head(queue) \in Task /\ Head(queue).kind = "settings"
    BY <1>12, HeadTask DEF WriteSettings, Serve
  <2>2. queue' \in Seq(Task) /\ running' = Idle
    BY <1>12, <2>1, QueueServed, NothingNext DEF WriteSettings
  <2>3. quota' \in Levels BY <1>12, <2>1, TaskFields DEF WriteSettings
  <2> QED BY <1>12, <2>2, <2>3 DEF WriteSettings, TypeOK
<1>13. CASE QueueServerDeletion
  <2> DEFINE r == Head(queue).round
  <2>1. queue # <<>> /\ Head(queue) \in Task /\ Head(queue).kind = "cancel"
    BY <1>13, HeadTask DEF QueueServerDeletion, Serve
  <2>2. r \in Rounds BY <2>1, TaskFields
  <2> HIDE DEF r
  <2>3. EndWith(<<Do("deleteRun", NoTake, r, "")>>) BY <1>13 DEF QueueServerDeletion, r
  <2>4. Do("deleteRun", NoTake, r, "") \in Task BY <2>2, TaskTypes
  <2>5. queue' \in Seq(Task) /\ running' = Idle BY <2>1, <2>3, <2>4, QueueServed, OneNext
  <2>6. removal' = [removal EXCEPT ![r].at = "rows"] BY <1>13 DEF QueueServerDeletion, r
  <2>7. removal' \in [Rounds -> Removal]
    BY <2>2, <2>6, RemovalAt DEF TypeOK, Removal
  <2>8. outbox' \in [Takes -> {"none", "active", "closed"}] BY <1>13 DEF QueueServerDeletion, TypeOK
  <2> QED BY <1>13, <2>5, <2>7, <2>8 DEF QueueServerDeletion, TypeOK, Removal
<1>14. CASE DeleteRun
  <2> DEFINE r == Head(queue).round
  <2>1. queue # <<>> /\ Head(queue) \in Task /\ Head(queue).kind = "deleteRun"
    BY <1>14, HeadTask DEF DeleteRun, Serve
  <2>2. queue' \in Seq(Task) /\ running' = Idle BY <1>14, <2>1, QueueServed, NothingNext DEF DeleteRun
  <2>3. removal' \in [Rounds -> Removal]
    BY <1>14, RemovalAt DEF DeleteRun, TypeOK, Removal
  <2>4. rec' \in [Takes -> Row] BY <1>14, WithoutRow DEF DeleteRun, TypeOK
  <2>5. round' \in [Rounds -> Status] BY <1>14 DEF DeleteRun, TypeOK, Status
  <2> QED BY <1>14, <2>2, <2>3, <2>4, <2>5 DEF DeleteRun, TypeOK, Removal
<1> QED
  BY <1>1, <1>2, <1>3, <1>4, <1>5, <1>6, <1>7, <1>8, <1>9, <1>10, <1>11, <1>12, <1>13, <1>14
  DEF Operate, Admitting, TakeOperation

LEMMA TypeFinalizing == ASSUME TypeOK, NEW t \in Takes, Finalizing(t) PROVE TypeOK'
<1> USE JournalNameAssumption, JournalSizeAssumption
<1>1. CASE MoveFile(t)
  <2>1. Sizes \subseteq Nat OBVIOUS
  <2>2. file' \in [Takes -> Nat] BY <1>1, <2>1 DEF MoveFile, TypeOK
  <2> QED BY <1>1, <2>2 DEF MoveFile, Enter, TypeOK, Stages
<1>2. CASE HashFile(t)
  <2>1. Do("artifact", t, target[t], "") \in Task BY TaskTypes DEF TypeOK
  <2>2. queue' \in Seq(Task) BY <1>2, <2>1, QueueAppend DEF HashFile, TypeOK
  <2>3. clock + 1 \in Nat BY DEF TypeOK
  <2>4. clock' \in Nat /\ order' \in [Takes -> Nat] BY <1>2, <2>3 DEF HashFile, TypeOK
  <2> QED BY <1>2, <2>2, <2>4 DEF HashFile, Enter, TypeOK, Stages, Awaiting
<1> QED BY <1>1, <1>2 DEF Finalizing

LEMMA TypeRemoveFiles == ASSUME TypeOK, NEW r \in Rounds, RemoveFiles(r) PROVE TypeOK'
<1>1. file' \in [Takes -> Nat] BY DEF RemoveFiles, TypeOK
<1>2. [at |-> "none", takes |-> {}] \in Removal BY DEF Removal
<1>3. removal' \in [Rounds -> Removal] BY <1>2 DEF RemoveFiles, TypeOK, Removal
<1> QED BY <1>1, <1>3 DEF RemoveFiles, TypeOK, Removal

LEMMA TypeAsk ==
    ASSUME TypeOK, NEW task \in Task, Ask(task), removal' \in [Rounds -> Removal]
    PROVE  TypeOK'
<1>1. queue' \in Seq(Task) BY QueueAppend DEF Ask, TypeOK
<1>2. asks' \in 0..MaxAsks BY JournalBoundAssumption DEF Ask, TypeOK
<1> QED BY <1>1, <1>2 DEF Ask, TypeOK, Removal

\* What the learner and the outbox ask for.
LEMMA TypeLearner == ASSUME TypeOK, Learner PROVE TypeOK'
<1> USE JournalNameAssumption
<1>1. removal \in [Rounds -> Removal] BY DEF TypeOK, Removal
<1>2. ASSUME NEW t \in Takes, NEW r \in Rounds \union {Unsaved}, StartRecording(t, r) PROVE TypeOK'
  <2>1. Do("reserve", t, r, "") \in Task BY TaskTypes
  <2>2. queue' \in Seq(Task) BY <1>2, <2>1, QueueAppend DEF StartRecording, TypeOK
  <2> QED BY <1>2, <2>2 DEF StartRecording, TypeOK, Stages, Awaiting
<1>3. ASSUME NEW t \in Takes, StopRecording(t) PROVE TypeOK'
  <2>1. target[t] \in AnyRound BY DEF TypeOK
  <2>2. CASE target[t] = Unsaved BY <1>3, <2>2 DEF StopRecording, Enter, TypeOK, Stages
  <2>3. CASE target[t] # Unsaved
    <3>1. Do("status", NoTake, target[t], "finalizing") \in Task BY <2>1, <2>3, TaskTypes DEF Status
    <3>2. queue' \in Seq(Task) BY <1>3, <2>3, <3>1, QueueAppend DEF StopRecording, TypeOK
    <3> QED BY <1>3, <3>2 DEF StopRecording, Enter, TypeOK, Stages
  <2> QED BY <2>2, <2>3
<1>4. ASSUME NEW t \in Takes, LeaveScreen(t) PROVE TypeOK'
  BY <1>4 DEF LeaveScreen, Enter, TypeOK, Stages
<1>5. ASSUME NEW t \in Takes, RequestFeedback(t) \/ EntryEnds(t) \/ DiscardTake(t) PROVE TypeOK'
  <2>1. \A kind \in {"upsert", "close", "discard"} : Do(kind, t, Unsaved, "") \in Task BY TaskTypes
  <2>2. PICK kind \in {"upsert", "close", "discard"} : Ask(Do(kind, t, Unsaved, ""))
    BY <1>5 DEF RequestFeedback, EntryEnds, DiscardTake
  <2>3. UNCHANGED removal BY <1>5 DEF RequestFeedback, EntryEnds, DiscardTake
  <2> QED BY <1>1, <2>1, <2>2, <2>3, TypeAsk
<1>6. ASSUME NEW r \in Rounds, OpenScreen(r) PROVE TypeOK'
  <2>1. Do("createRound", NoTake, r, "") \in Task BY TaskTypes
  <2>2. queue' \in Seq(Task) BY <1>6, <2>1, QueueAppend DEF OpenScreen, TypeOK
  <2> QED BY <1>6, <2>2 DEF OpenScreen, TypeOK
<1>7. ASSUME NEW r \in Rounds, StartRemoval(r) PROVE TypeOK'
  <2>1. \A kind \in {"deleteRun", "cancel"} : Do(kind, NoTake, r, "") \in Task BY TaskTypes
  <2>2. PICK kind \in {"deleteRun", "cancel"} : Ask(Do(kind, NoTake, r, ""))
    BY <1>7 DEF StartRemoval
  <2>3. OfRound(r) \subseteq Takes BY DEF OfRound
  <2>4. /\ [at |-> "rows", takes |-> {}] \in Removal
        /\ [at |-> "cancel", takes |-> OfRound(r)] \in Removal
    BY <2>3 DEF Removal
  <2>5. removal' \in [Rounds -> Removal] BY <1>1, <1>7, <2>4 DEF StartRemoval
  <2> QED BY <2>1, <2>2, <2>5, TypeAsk
<1>8. ASSUME NEW level \in Levels, ChangeQuota(level) PROVE TypeOK'
  <2>1. Do("settings", NoTake, Unsaved, level) \in Task BY TaskTypes
  <2> QED BY <1>1, <1>8, <2>1, TypeAsk DEF ChangeQuota
<1> QED BY <1>2, <1>3, <1>4, <1>5, <1>6, <1>7, <1>8 DEF Learner

LaunchType == [phase : {"rows", "artifacts", "round", "commit", "release", "up", "broken"},
               todo : SUBSET Takes, at : AnyTake]

LEMMA SettledType ==
    ASSUME TypeOK, NEW t \in Takes, NEW s \in {"committed", "failed"}, Settled(t, s)
    PROVE  op' \in [Takes -> Operation] /\ launch' \in LaunchType
<1>1. op' \in [Takes -> Operation] BY OperationState DEF Settled, TypeOK
<1>2. launch.todo \ {t} \in SUBSET Takes BY DEF TypeOK
<1> QED BY <1>1, <1>2 DEF Settled, LaunchType

\* The launch.
LEMMA TypeLaunching == ASSUME TypeOK, LaunchInv, Launching PROVE TypeOK'
<1>1. CASE ReconcileRows
  <2>1. \A t \in Takes : rec[t] \in Row BY DEF TypeOK
  <2>2. rec' \in [Takes -> Row] BY <1>1, <2>1, RowMedia DEF ReconcileRows
  <2>3. launch' \in LaunchType BY <1>1 DEF ReconcileRows, LaunchType
  <2> QED BY <1>1, <2>2, <2>3 DEF ReconcileRows, TypeOK, LaunchType
<1>2. ASSUME NEW t \in Takes, DropArtifact(t) PROVE TypeOK'
  <2>1. op' \in [Takes -> Operation] /\ launch' \in LaunchType BY <1>2, SettledType DEF DropArtifact
  <2> QED BY <1>2, <2>1 DEF DropArtifact, TypeOK, LaunchType
<1>3. ASSUME NEW t \in Takes, KnownArtifact(t) PROVE TypeOK'
  <2>1. launch' \in LaunchType BY <1>3 DEF KnownArtifact, TypeOK, LaunchType
  <2> QED BY <1>3, <2>1 DEF KnownArtifact, TypeOK, LaunchType
<1>4. ASSUME NEW t \in Takes, RecoverRow(t) PROVE TypeOK'
  <2>1. launch' \in LaunchType BY <1>4 DEF RecoverRow, TypeOK, LaunchType
  <2>2. op[t] \in Operation BY DEF TypeOK
  <2>3. [round |-> op[t].round, bytes |-> file[t], media |-> "ready"] \in Row
    BY <2>2 DEF TypeOK, Row, Operation
  <2>4. rec' \in [Takes -> Row] BY <1>4, <2>3 DEF RecoverRow, TypeOK
  <2> QED BY <1>4, <2>1, <2>4 DEF RecoverRow, TypeOK, LaunchType
<1>5. CASE RecoverRound
  <2>1. launch' \in LaunchType BY <1>5 DEF RecoverRound, TypeOK, LaunchType
  <2>2. round' \in [Rounds -> Status] BY <1>5 DEF RecoverRound, TypeOK, Status
  <2> QED BY <1>5, <2>1, <2>2 DEF RecoverRound, TypeOK, LaunchType
<1>6. CASE RecoverCommit
  <2>1. launch.at \in Takes BY <1>6 DEF RecoverCommit, LaunchInv, TypeOK
  <2>2. op' \in [Takes -> Operation] /\ launch' \in LaunchType BY <1>6, <2>1, SettledType DEF RecoverCommit
  <2> QED BY <1>6, <2>2 DEF RecoverCommit, TypeOK, LaunchType
<1>7. CASE ReleaseReservations
  <2>1. launch' \in LaunchType BY <1>7 DEF ReleaseReservations, TypeOK, LaunchType
  <2>2. \A t \in Takes : op[t] \in Operation BY DEF TypeOK
  <2>3. op' \in [Takes -> Operation] BY <1>7, <2>2, OperationState DEF ReleaseReservations
  <2> QED BY <1>7, <2>1, <2>3 DEF ReleaseReservations, TypeOK, LaunchType
<1> QED BY <1>1, <1>2, <1>3, <1>4, <1>5, <1>6, <1>7 DEF Launching

\* What throws.
LEMMA TypeFailing == ASSUME TypeOK, LaunchInv, SelectionInv, Failing PROVE TypeOK'
<1> USE JournalNameAssumption, JournalBoundAssumption
<1>1. CASE OperationThrows
  <2> DEFINE task == Head(queue)
  <2>1. queue # <<>> /\ task \in Task BY <1>1, HeadTask DEF OperationThrows
  <2>2. task.take \in AnyTake BY <2>1, TaskFields
  <2>3. faults' \in 0..MaxFaults BY <1>1 DEF OperationThrows, TypeOK
  <2>4. half' \subseteq Takes BY <1>1 DEF OperationThrows, TypeOK, SelectionInv
  <2>5. [at |-> "none", takes |-> {}] \in Removal BY DEF Removal
  <2>6. removal' \in [Rounds -> Removal]
    BY <1>1, <2>5 DEF OperationThrows, TypeOK, Removal
  <2>7. UNCHANGED <<disk, launch, order, clock, crashes, asks>> BY <1>1 DEF OperationThrows
  <2>8. SUFFICES /\ queue' \in Seq(Task) /\ running' = Idle
                 /\ capture' \in [Takes -> Stages] /\ UNCHANGED target
    BY <2>3, <2>4, <2>6, <2>7, IdleType DEF TypeOK, Running, Removal
  <2>9. CASE EndWith(<<>>) /\ UNCHANGED panels
    <3>1. queue' \in Seq(Task) /\ running' = Idle BY <2>1, <2>9, QueueServed, NothingNext
    <3> QED BY <2>9, <3>1 DEF TypeOK
  <2>10. CASE task.take # NoTake /\ AfterFailure(task.take)
    <3> DEFINE t == task.take
    <3>1. t \in Takes BY <2>2, <2>10
    <3>2. PICK stage \in {"failed", "left", "giveup"} :
              Enter(t, stage) /\ (EndWith(<<>>) \/ EndWith(CatchTasks(t)))
      BY <2>10, Zenon DEF AfterFailure
    <3>3. queue' \in Seq(Task) /\ running' = Idle
      BY <2>1, <3>1, <3>2, QueueServed, NothingNext, CatchTasksType
    <3> QED BY <3>1, <3>2, <3>3 DEF Enter, TypeOK, Stages, Awaiting
  <2> QED BY <1>1, <2>9, <2>10 DEF OperationThrows
<1>2. CASE ArtifactFails
  <2>1. faults' \in 0..MaxFaults BY <1>2 DEF ArtifactFails, TypeOK
  <2>2. PICK t \in Takes : Settled(t, "failed") BY <1>2 DEF ArtifactFails, LaunchInv, TypeOK
  <2>3. op' \in [Takes -> Operation] /\ launch' \in LaunchType BY <2>2, SettledType
  <2> QED BY <1>2, <2>1, <2>3 DEF ArtifactFails, TypeOK, LaunchType
<1>3. CASE LaunchThrows
  <2>1. faults' \in 0..MaxFaults BY <1>3 DEF LaunchThrows, TypeOK
  <2>2. launch' \in LaunchType BY <1>3 DEF LaunchThrows, TypeOK, LaunchType
  <2> QED BY <1>3, <2>1, <2>2 DEF LaunchThrows, TypeOK, LaunchType
<1>4. ASSUME NEW t \in Takes, FinalizeFails(t) PROVE TypeOK'
  <2>1. faults' \in 0..MaxFaults BY <1>4 DEF FinalizeFails, TypeOK
  <2>2. queue' \in Seq(Task) BY <1>4, CatchTasksType, QueueConcat DEF FinalizeFails, TypeOK
  <2> QED BY <1>4, <2>1, <2>2 DEF FinalizeFails, Enter, TypeOK, Stages, Awaiting
<1> QED BY <1>1, <1>2, <1>3, <1>4 DEF Failing

LEMMA TypeCrash == ASSUME TypeOK, Crash PROVE TypeOK'
<1>1. crashes' \in 0..MaxCrashes BY JournalBoundAssumption DEF Crash, TypeOK
<1>2. capture' \in [Takes -> Stages] BY DEF Crash, TypeOK, Stages
<1>3. queue' \in Seq(Task) BY NothingNext DEF Crash
<1>4. launch' \in LaunchType BY DEF Crash, LaunchType
<1>5. removal' \in [Rounds -> Removal] BY DEF Crash, Removal
<1> QED BY <1>1, <1>2, <1>3, <1>4, <1>5, IdleType DEF Crash, TypeOK, LaunchType, Removal, Running

LEMMA TypeStep == ASSUME TypeOK, LaunchInv, SelectionInv, [Next]_vars PROVE TypeOK'
<1>1. CASE UNCHANGED vars BY <1>1 DEF TypeOK
<1>2. CASE Next
  BY <1>2, TypeOperate, TypeFinalizing, TypeRemoveFiles, TypeLearner, TypeLaunching, TypeFailing, TypeCrash
  DEF Next
<1> QED BY <1>1, <1>2

-----------------------------------------------------------------------------
(* Where captures, rows and files stand                                    *)

\* What a step of the operation at the head leaves alone, and what it needs.
LEMMA OperateFrame ==
    ASSUME Operate
    PROVE  Up /\ UNCHANGED launch /\ UNCHANGED half /\ UNCHANGED order
           /\ (file' = file \/ \E t \in Takes : Unlink(t))
BY DEF Operate, Admitting, TakeOperation, SelectVictims, Unlink, MarkEvicted, Reserve, RecordArtifact,
       SaveRecording, SettleOperation, UpsertOutbox, CloseEntry, DeleteRecording, CreateRound,
       UpdateRoundStatus, WriteSettings, QueueServerDeletion, DeleteRun, Serve

LEMMA LearnerFrame ==
    ASSUME Learner
    PROVE  Up /\ UNCHANGED <<disk, launch, running, half, order>>
BY DEF Learner, StartRecording, StopRecording, LeaveScreen, RequestFeedback, EntryEnds, DiscardTake,
       OpenScreen, StartRemoval, ChangeQuota, Ask

LEMMA LaunchingFrame ==
    ASSUME Launching
    PROVE  ~Up /\ UNCHANGED <<file, queue, running, panels, removal, half>>
BY DEF Launching, ReconcileRows, DropArtifact, KnownArtifact, RecoverRow, RecoverRound, RecoverCommit,
       ReleaseReservations, NextArtifact, Up

\* Until its take is saved, a capture goes through the stages in their order.
LEMMA StageStep == ASSUME JournalInv, Next PROVE StageInv'
<1> USE DEF JournalInv
<1>0. /\ capture \in [Takes -> Stages] /\ rec \in [Takes -> Row] /\ op \in [Takes -> Operation]
      /\ file \in [Takes -> Nat]
  BY DEF TypeOK
<1>1. CASE Operate
  <2>1. CASE SelectVictims BY <2>1 DEF SelectVictims, StageInv, Stored
  <2>2. ASSUME NEW t \in Takes, Unlink(t) PROVE StageInv'
    <3>1. Ready(t) BY <2>2 DEF Unlink, Serve, SelectionInv, Evictable
    <3>2. capture[t] \notin PreSave BY <3>1 DEF StageInv, Stored, Ready
    <3> QED BY <1>0, <2>2, <3>2 DEF Unlink, StageInv, Stored, PreSave
  <2>3. ASSUME NEW t \in Takes, MarkEvicted(t) PROVE StageInv'
    <3>1. \A u \in Takes : rec'[u].media = "none" <=> rec[u].media = "none"
      BY <1>0, <2>3 DEF MarkEvicted, Row
    <3> QED BY <2>3, <3>1 DEF MarkEvicted, StageInv, Stored
  <2>4. ASSUME NEW t \in Takes, Reserve(t) PROVE StageInv'
    <3>1. capture[t] = "reserve" BY <2>4 DEF Reserve, Awaited
    <3>2. \E s \in {"recording", "mark"} : capture' = [capture EXCEPT ![t] = s]
      BY <2>4 DEF Reserve, Enter
    <3>3. \A u \in Takes \ {t} : op'[u] = op[u] BY <1>0, <2>4 DEF Reserve
    <3> QED BY <1>0, <2>4, <3>1, <3>2, <3>3 DEF Reserve, StageInv, Stored, PreSave
  <2>5. ASSUME NEW t \in Takes, RecordArtifact(t) PROVE StageInv'
    <3>1. capture[t] = "artifact" BY <2>5 DEF RecordArtifact, Awaited
    <3>2. \E s \in {"journal", "save"} : capture' = [capture EXCEPT ![t] = s]
      BY <2>5 DEF RecordArtifact, Enter
    <3>3. \A u \in Takes \ {t} : op'[u] = op[u] BY <1>0, <2>5 DEF RecordArtifact
    <3> QED BY <1>0, <2>5, <3>1, <3>2, <3>3 DEF RecordArtifact, StageInv, Stored, PreSave
  <2>6. ASSUME NEW t \in Takes, SaveRecording(t) PROVE StageInv'
    <3>1. capture' = [capture EXCEPT ![t] = "status"] BY <2>6 DEF SaveRecording, Enter
    <3>2. \A u \in Takes \ {t} : rec'[u] = rec[u] BY <1>0, <2>6 DEF SaveRecording
    <3> QED BY <1>0, <2>6, <3>1, <3>2 DEF SaveRecording, StageInv, Stored, PreSave
  <2>7. ASSUME NEW t \in Takes, SettleOperation(t) PROVE StageInv'
    <3>1. \E s \in {"done", "failed"} : capture' = [capture EXCEPT ![t] = s]
      BY <2>7 DEF SettleOperation, Enter
    <3>2. \A u \in Takes \ {t} : op'[u] = op[u] BY <1>0, <2>7 DEF SettleOperation
    <3> QED BY <1>0, <2>7, <3>1, <3>2 DEF SettleOperation, StageInv, Stored, PreSave
  <2>8. ASSUME NEW t \in Takes, UpsertOutbox(t) \/ CloseEntry(t) PROVE StageInv'
    BY <2>8 DEF UpsertOutbox, CloseEntry, StageInv, Stored
  <2>9. CASE DeleteRun \/ \E t \in Takes : DeleteRecording(t)
    <3>1. \A u \in Takes : rec[u].media = "none" => rec'[u].media = "none"
      <4>1. PICK S : rec' = Without(S) BY <2>9 DEF DeleteRun, DeleteRecording
      <4> QED BY <1>0, <4>1, WithoutRow
    <3> QED BY <2>9, <3>1 DEF DeleteRun, DeleteRecording, StageInv, Stored
  <2>10. CASE CreateRound
    <3>1. CASE UNCHANGED capture BY <2>10, <3>1 DEF CreateRound, StageInv, Stored
    <3>2. CASE \E t : capture[t] = "journal" /\ capture' = [capture EXCEPT ![t] = "save"]
      BY <1>0, <2>10, <3>2 DEF CreateRound, StageInv, Stored, PreSave
    <3> QED BY <2>10, <3>1, <3>2 DEF CreateRound, Awaited, Enter
  <2>11. CASE UpdateRoundStatus
    <3>1. CASE UNCHANGED capture BY <2>11, <3>1 DEF UpdateRoundStatus, StageInv, Stored
    <3>2. CASE \E t : capture[t] = "mark" /\ capture' = [capture EXCEPT ![t] = "recording"]
      BY <1>0, <2>11, <3>2 DEF UpdateRoundStatus, StageInv, Stored, PreSave
    <3>3. CASE \E t : capture' = [capture EXCEPT ![t] = "commit"]
      BY <1>0, <2>11, <3>3 DEF UpdateRoundStatus, StageInv, Stored, PreSave
    <3> QED BY <2>11, <3>1, <3>2, <3>3 DEF UpdateRoundStatus, Awaited, Enter
  <2>12. CASE WriteSettings \/ QueueServerDeletion
    BY <2>12 DEF WriteSettings, QueueServerDeletion, StageInv, Stored
  <2> QED BY <1>1, <2>1, <2>2, <2>3, <2>4, <2>5, <2>6, <2>7, <2>8, <2>9, <2>10, <2>11, <2>12
          DEF Operate, Admitting, TakeOperation
<1>2. ASSUME NEW t \in Takes, Finalizing(t) PROVE StageInv'
  <2>1. CASE MoveFile(t)
    <3>1. PICK bytes \in Sizes : file' = [file EXCEPT ![t] = bytes] BY <2>1 DEF MoveFile
    <3>2. bytes # 0 BY JournalSizeAssumption
    <3> QED BY <1>0, <2>1, <3>1, <3>2 DEF MoveFile, Enter, StageInv, Stored, PreSave
  <2>2. CASE HashFile(t)
    BY <1>0, <2>2 DEF HashFile, Enter, StageInv, Stored, PreSave
  <2> QED BY <1>2, <2>1, <2>2 DEF Finalizing
<1>3. ASSUME NEW r \in Rounds, RemoveFiles(r) PROVE StageInv'
  <2>1. \A t \in Takes : capture[t] \in PreSave => file'[t] = file[t]
    BY <1>0, <1>3 DEF RemoveFiles, RemovalInv
  <2> QED BY <1>3, <2>1 DEF RemoveFiles, StageInv, Stored, PreSave
<1>4. CASE Learner
  <2>1. UNCHANGED <<rec, op, file>> BY <1>4, LearnerFrame
  <2>2. CASE UNCHANGED capture BY <2>1, <2>2 DEF StageInv, Stored
  <2>3. ASSUME NEW t \in Takes, capture[t] = "idle", capture' = [capture EXCEPT ![t] = "reserve"]
        PROVE  StageInv'
    BY <1>0, <2>1, <2>3 DEF StageInv, Stored, PreSave
  <2>4. ASSUME NEW t \in Takes, NEW s \in {"stopped", "left"}, capture[t] = "recording",
               capture' = [capture EXCEPT ![t] = s]
        PROVE  StageInv'
    BY <1>0, <2>1, <2>4 DEF StageInv, Stored, PreSave
  <2> QED BY <1>4, <2>2, <2>3, <2>4
          DEF Learner, StartRecording, StopRecording, LeaveScreen, RequestFeedback, EntryEnds,
              DiscardTake, OpenScreen, StartRemoval, ChangeQuota, Ask, Enter
<1>5. CASE Launching
  <2>1. UNCHANGED <<file, capture>> /\ ~Up BY <1>5, LaunchingFrame
  <2>2. \A t \in Takes : capture[t] \in PreSave => capture[t] = "idle" BY <2>1 DEF LaunchInv, PreSave
  <2>3. \A t \in Takes : op'[t].state = "none" <=> op[t].state = "none"
    <3>1. ASSUME NEW t \in Takes, NEW s \in {"committed", "failed"}, Settled(t, s), op[t].state # "none"
          PROVE  \A u \in Takes : op'[u].state = "none" <=> op[u].state = "none"
      <4>1. op'[t] = [op[t] EXCEPT !.state = s] /\ \A u \in Takes \ {t} : op'[u] = op[u]
        BY <1>0, <3>1 DEF Settled
      <4>2. op'[t].state = s BY <1>0, <4>1, OperationState
      <4> QED BY <3>1, <4>1, <4>2
    <3>2. CASE ReconcileRows \/ RecoverRound \/ \E t \in Takes : KnownArtifact(t) \/ RecoverRow(t)
      BY <3>2 DEF ReconcileRows, RecoverRound, KnownArtifact, RecoverRow
    <3>3. ASSUME NEW t \in Takes, DropArtifact(t)
          PROVE \A u \in Takes : op'[u].state = "none" <=> op[u].state = "none"
      BY <3>1, <3>3 DEF DropArtifact, NextArtifact, LaunchInv
    <3>4. CASE RecoverCommit
      <4>1. launch.at \in Takes /\ op[launch.at].state # "none"
        BY <3>4 DEF RecoverCommit, LaunchInv, TypeOK
      <4> QED BY <3>1, <3>4, <4>1 DEF RecoverCommit
    <3>5. CASE ReleaseReservations
      <4>1. \A u \in Takes : [op[u] EXCEPT !.state = "failed"].state = "failed" BY <1>0, OperationState
      <4> QED BY <3>5, <4>1 DEF ReleaseReservations
    <3> QED BY <1>5, <3>2, <3>3, <3>4, <3>5 DEF Launching
  <2>4. \A t \in Takes : op[t].state = "none" /\ rec[t].media = "none" => rec'[t].media = "none"
    <3>1. CASE ReconcileRows BY <3>1 DEF ReconcileRows, Ready
    <3>2. ASSUME NEW t \in Takes, RecoverRow(t)
          PROVE  \A u \in Takes : op[u].state = "none" /\ rec[u].media = "none" => rec'[u].media = "none"
      <4>1. op[t].state # "none" BY <3>2 DEF RecoverRow, NextArtifact, LaunchInv
      <4> QED BY <1>0, <3>2, <4>1 DEF RecoverRow
    <3>3. CASE RecoverRound \/ RecoverCommit \/ ReleaseReservations
               \/ \E t \in Takes : KnownArtifact(t) \/ DropArtifact(t)
      BY <3>3 DEF RecoverRound, RecoverCommit, ReleaseReservations, KnownArtifact, DropArtifact
    <3> QED BY <1>5, <3>1, <3>2, <3>3 DEF Launching
  <2> QED BY <2>1, <2>2, <2>3, <2>4 DEF StageInv, Stored
<1>6. CASE Failing
  <2>1. CASE OperationThrows \/ \E t \in Takes : FinalizeFails(t)
    <3>1. UNCHANGED <<rec, op, file>> BY <2>1 DEF OperationThrows, FinalizeFails
    <3>2. UNCHANGED capture
          \/ \E t, s : s \in {"failed", "left", "giveup"} /\ capture' = [capture EXCEPT ![t] = s]
      <4>1. CASE OperationThrows
        <5>1. CASE UNCHANGED panels BY <5>1
        <5>2. ASSUME NEW t, AfterFailure(t)
              PROVE  \E s \in {"failed", "left", "giveup"} : capture' = [capture EXCEPT ![t] = s]
          BY <5>2, Zenon DEF AfterFailure, Enter
        <5> QED BY <4>1, <5>1, <5>2 DEF OperationThrows
      <4>2. CASE \E t \in Takes : FinalizeFails(t) BY <4>2 DEF FinalizeFails, Enter
      <4> QED BY <2>1, <4>1, <4>2
    <3> QED BY <1>0, <3>1, <3>2 DEF StageInv, Stored, PreSave
  <2>2. CASE LaunchThrows BY <2>2 DEF LaunchThrows, StageInv, Stored
  <2>3. CASE ArtifactFails
    <3>1. PICK t \in Takes : Settled(t, "failed") /\ op[t].state # "none"
      BY <2>3 DEF ArtifactFails, NextArtifact, LaunchInv, TypeOK
    <3> QED BY <1>0, <2>3, <3>1 DEF ArtifactFails, Settled, StageInv, Stored
  <2> QED BY <1>6, <2>1, <2>2, <2>3 DEF Failing
<1>7. CASE Crash
  <2>1. \A t \in Takes : capture'[t] \in PreSave => capture'[t] = "idle" /\ capture[t] = "idle"
    BY <1>7 DEF Crash, PreSave
  <2> QED BY <1>7, <2>1 DEF Crash, StageInv, Stored, PreSave
<1> QED BY <1>1, <1>2, <1>3, <1>4, <1>5, <1>6, <1>7 DEF Next

-----------------------------------------------------------------------------
(* Eviction                                                                *)

LEMMA EvictableKept ==
    ASSUME UNCHANGED <<round, outbox, rec>>, NEW t \in Takes, Evictable(t)
    PROVE  Evictable(t)'
BY DEF Evictable, Ready, Protected

\* Whoever writes to a table waits for the eviction to end, in the queue or for the launch.
LEMMA SelectionStep == ASSUME JournalInv, TypeOK', Next PROVE SelectionInv'
<1> USE DEF JournalInv
<1>0. rec \in [Takes -> Row] /\ running \in Running /\ running' \in Running
  BY DEF TypeOK, Running
<1>1. CASE running' = Idle BY <1>1 DEF SelectionInv, Idle
<1>2. CASE UNCHANGED <<running, round, outbox, rec>> /\ (running.at # "begin" => Up')
  <2>1. running.at \in {"unlink", "mark"} => \A t \in running.victims : Evictable(t)'
    BY <1>0, <1>2, EvictableKept DEF SelectionInv, Running
  <2> QED BY <1>2, <2>1 DEF SelectionInv
<1>3. CASE SelectVictims
  <2>1. \A w, l : \A t \in Victims(w, l) : t \in Takes /\ Evictable(t) BY VictimsEvictable
  <2>2. Up' /\ UNCHANGED <<round, outbox, rec>> BY <1>3 DEF SelectVictims, Serve, Up
  <2>3. CASE Fits(Head(queue))
    <3>1. running' = [Idle EXCEPT !.at = "write"] BY <1>3, <2>3 DEF SelectVictims
    <3>2. running'.at = "write" BY <3>1 DEF Idle
    <3> QED BY <2>2, <3>2 DEF SelectionInv
  <2>4. CASE ~Fits(Head(queue))
    <3>1. running' = [Idle EXCEPT !.at = "unlink",
                              !.victims = Victims(Wanted(Head(queue)), Limit(Head(queue)))]
      BY <1>3, <2>4 DEF SelectVictims
    <3>2. /\ running'.at = "unlink"
          /\ running'.victims = Victims(Wanted(Head(queue)), Limit(Head(queue)))
      BY <3>1 DEF Idle
    <3>3. \A t \in running'.victims : Evictable(t)' BY <2>1, <2>2, <3>2, EvictableKept
    <3> QED BY <2>2, <3>2, <3>3 DEF SelectionInv
  <2> QED BY <2>3, <2>4
<1>4. ASSUME NEW t \in Takes, Unlink(t) PROVE SelectionInv'
  <2>1. /\ running.at = "unlink" /\ Up' /\ UNCHANGED <<round, outbox, rec>>
        /\ running'.at = "mark" /\ running'.take = t /\ running'.victims = running.victims \ {t}
    BY <1>4 DEF Unlink, Serve, Up
  <2>2. \A u \in running.victims : u \in Takes /\ Evictable(u) BY <1>0, <2>1 DEF SelectionInv, Running
  <2>3. \A u \in running'.victims : Evictable(u)' BY <2>1, <2>2, EvictableKept
  <2> QED BY <2>1, <2>3 DEF SelectionInv
<1>5. ASSUME NEW t \in Takes, MarkEvicted(t) PROVE SelectionInv'
  <2>1. /\ running.at = "mark" /\ running.take = t /\ Up' /\ UNCHANGED <<round, outbox>>
        /\ \A u \in Takes \ {t} : rec'[u] = rec[u]
    BY <1>0, <1>5 DEF MarkEvicted, Serve, Up
  <2>2. running'.victims = running.victims /\ running'.at # "mark"
    BY <1>0, <1>5 DEF MarkEvicted, Running
  <2>3. \A u \in running.victims : u \in Takes \ {t} /\ Evictable(u)
    BY <1>0, <2>1 DEF SelectionInv, Running
  <2>4. \A u \in running.victims : Evictable(u)'
    BY <2>1, <2>3 DEF Evictable, Ready, Protected
  <2> QED BY <2>1, <2>2, <2>4 DEF SelectionInv
<1>6. CASE Launching
  <2>1. ~Up /\ UNCHANGED running BY <1>6, LaunchingFrame
  <2>2. running.at = "begin" BY <2>1 DEF SelectionInv
  <2> QED BY <2>1, <2>2 DEF SelectionInv
<1>7. CASE LaunchThrows \/ ArtifactFails
  <2>1. UNCHANGED running /\ ~Up
    BY <1>7 DEF LaunchThrows, ArtifactFails, NextArtifact, Up
  <2>2. running.at = "begin" BY <2>1 DEF SelectionInv
  <2> QED BY <2>1, <2>2 DEF SelectionInv
<1>8. CASE Operate
  <2>1. SelectVictims \/ (\E t \in Takes : Unlink(t) \/ MarkEvicted(t)) \/ running' = Idle
    BY <1>8 DEF Operate, Admitting, TakeOperation, Reserve, RecordArtifact, SaveRecording, SettleOperation,
                UpsertOutbox, CloseEntry, DeleteRecording, CreateRound, UpdateRoundStatus, WriteSettings,
                QueueServerDeletion, DeleteRun, EndWith
  <2> QED BY <1>1, <1>3, <1>4, <1>5, <2>1
<1>9. CASE Learner BY <1>2, <1>9, LearnerFrame DEF Up, SelectionInv
<1>10. ASSUME NEW t \in Takes, Finalizing(t) \/ FinalizeFails(t) PROVE SelectionInv'
  BY <1>2, <1>10 DEF Finalizing, MoveFile, HashFile, FinalizeFails, Up, SelectionInv
<1>11. ASSUME NEW r \in Rounds, RemoveFiles(r) PROVE SelectionInv'
  BY <1>2, <1>11 DEF RemoveFiles, Up, SelectionInv
<1>12. CASE OperationThrows
  <2>1. ASSUME NEW t, AfterFailure(t) PROVE running' = Idle BY <2>1, Zenon DEF AfterFailure, EndWith
  <2> QED BY <1>1, <1>12, <2>1 DEF OperationThrows, EndWith
<1>13. CASE Crash BY <1>1, <1>13 DEF Crash
<1> QED BY <1>6, <1>7, <1>8, <1>9, <1>10, <1>11, <1>12, <1>13 DEF Next, Failing

-----------------------------------------------------------------------------
(* Removal and the launch                                                  *)

\* Stages before the save follow only from stages before the save.
LEMMA PreSaveStep ==
    ASSUME JournalInv, Next, NEW t \in Takes, capture'[t] \in PreSave
    PROVE  capture[t] \in PreSave
<1> USE DEF JournalInv
<1>0. capture \in [Takes -> Stages] BY DEF TypeOK
<1>1. CASE UNCHANGED capture BY <1>1
<1>2. CASE \E u, s : capture' = [capture EXCEPT ![u] = s] /\ (capture[u] \in PreSave \/ s \notin PreSave)
  BY <1>0, <1>2
<1>3. CASE Operate
  <2>1. CASE UNCHANGED panels BY <1>1, <2>1
  <2>2. ASSUME NEW u \in Takes, Reserve(u) \/ RecordArtifact(u) \/ SaveRecording(u) \/ SettleOperation(u)
        PROVE  capture[t] \in PreSave
    <3>1. CASE Reserve(u) BY <1>2, <3>1 DEF Reserve, Awaited, Enter, PreSave
    <3>2. CASE RecordArtifact(u) BY <1>2, <3>2 DEF RecordArtifact, Awaited, Enter, PreSave
    <3>3. CASE SaveRecording(u) BY <1>2, <3>3 DEF SaveRecording, Awaited, Enter, PreSave
    <3>4. CASE SettleOperation(u) BY <1>2, <3>4 DEF SettleOperation, Awaited, Enter, PreSave
    <3> QED BY <2>2, <3>1, <3>2, <3>3, <3>4
  <2>3. CASE CreateRound BY <1>1, <1>2, <2>3 DEF CreateRound, Awaited, Enter, PreSave
  <2>4. CASE UpdateRoundStatus
    <3>1. ASSUME NEW u, NEW x, NEW y, Awaited(u, x), Enter(u, y), x \in PreSave \/ y \notin PreSave
          PROVE  capture[t] \in PreSave
      BY <1>2, <3>1 DEF Awaited, Enter
    <3>2. "mark" \in PreSave /\ "commit" \notin PreSave BY DEF PreSave
    <3> QED BY <2>1, <2>4, <3>1, <3>2 DEF UpdateRoundStatus
  <2> QED BY <1>3, <2>1, <2>2, <2>3, <2>4
          DEF Operate, Admitting, TakeOperation, SelectVictims, Unlink, MarkEvicted, UpsertOutbox,
              CloseEntry, DeleteRecording, WriteSettings, QueueServerDeletion, DeleteRun
<1>4. CASE Learner
  BY <1>1, <1>2, <1>4
  DEF Learner, StartRecording, StopRecording, LeaveScreen, RequestFeedback, EntryEnds, DiscardTake,
      OpenScreen, StartRemoval, ChangeQuota, Ask, Enter, PreSave
<1>5. CASE \E u \in Takes : Finalizing(u) \/ FinalizeFails(u)
  BY <1>1, <1>2, <1>5 DEF Finalizing, MoveFile, HashFile, FinalizeFails, Enter, PreSave
<1>6. CASE \E r \in Rounds : RemoveFiles(r) BY <1>1, <1>6 DEF RemoveFiles
<1>7. CASE Launching BY <1>1, <1>7, LaunchingFrame
<1>8. CASE ArtifactFails \/ LaunchThrows BY <1>1, <1>8 DEF ArtifactFails, LaunchThrows
<1>9. CASE OperationThrows
  <2>1. ASSUME NEW u, AfterFailure(u)
        PROVE  \E s \in {"failed", "left", "giveup"} : capture' = [capture EXCEPT ![u] = s]
    BY <2>1, Zenon DEF AfterFailure, Enter
  <2>2. \A s \in {"failed", "left", "giveup"} : s \notin PreSave BY DEF PreSave
  <2> QED BY <1>1, <1>2, <1>9, <2>1, <2>2 DEF OperationThrows
<1>10. CASE Crash BY <1>10 DEF Crash, PreSave
<1> QED BY <1>3, <1>4, <1>5, <1>6, <1>7, <1>8, <1>9, <1>10 DEF Next, Failing

\* Where rows appear, and whose round they get.
LEMMA RowStep ==
    ASSUME JournalInv, Next, NEW t \in Takes, Stored(t)', rec'[t].round # rec[t].round \/ ~Stored(t)
    PROVE  capture[t] \in PreSave \/ ~Up
<1> USE DEF JournalInv
<1>0. rec \in [Takes -> Row] /\ rec[t] \in Row BY DEF TypeOK
<1>1. CASE rec' = rec BY <1>1 DEF Stored
<1>2. ASSUME NEW S, rec' = Without(S) PROVE FALSE
  BY <1>0, <1>2, WithoutRow DEF Stored
<1>3. ASSUME NEW u \in Takes, MarkEvicted(u) PROVE FALSE
  <2>1. rec'[t].round = rec[t].round /\ (rec'[t].media = "none" <=> rec[t].media = "none")
    BY <1>0, <1>3 DEF MarkEvicted, Row
  <2> QED BY <2>1 DEF Stored
<1>4. ASSUME NEW u \in Takes, SaveRecording(u) PROVE capture[t] \in PreSave
  <2>1. capture[u] = "save" /\ (t # u => rec'[t] = rec[t]) BY <1>0, <1>4 DEF SaveRecording, Awaited
  <2> QED BY <2>1 DEF Stored, PreSave
<1>5. CASE Operate
  BY <1>1, <1>2, <1>3, <1>4, <1>5
  DEF Operate, Admitting, TakeOperation, SelectVictims, Unlink, Reserve, RecordArtifact,
      SettleOperation, UpsertOutbox, CloseEntry, DeleteRecording, CreateRound,
      UpdateRoundStatus, WriteSettings, QueueServerDeletion, DeleteRun
<1>6. CASE Learner BY <1>1, <1>6, LearnerFrame
<1>7. CASE Launching BY <1>7, LaunchingFrame
<1> QED BY <1>1, <1>5, <1>6, <1>7
        DEF Next, Finalizing, MoveFile, HashFile, FinalizeFails, RemoveFiles, Failing, ArtifactFails,
            LaunchThrows, OperationThrows, Crash

\* What is listed for removal has had its row, and loses it before its file.
LEMMA RemovalStep == ASSUME JournalInv, Next PROVE RemovalInv'
<1> USE DEF JournalInv
<1>0. removal \in [Rounds -> Removal] /\ rec \in [Takes -> Row] BY DEF TypeOK, Removal
<1>1. CASE UNCHANGED removal
  <2> SUFFICES ASSUME NEW r \in Rounds, NEW t \in removal[r].takes
               PROVE  /\ capture'[t] \notin PreSave
                      /\ Stored(t)' => removal[r].at # "files" /\ rec'[t].round = r
    BY <1>1 DEF RemovalInv
  <2>1. t \in Takes /\ Up BY <1>0 DEF Removal, LaunchInv
  <2>2. capture[t] \notin PreSave /\ capture'[t] \notin PreSave BY <2>1, PreSaveStep DEF RemovalInv
  <2>3. Stored(t)' => Stored(t) /\ rec'[t].round = rec[t].round BY <2>1, <2>2, RowStep
  <2> QED BY <2>2, <2>3 DEF RemovalInv
<1>2. ASSUME NEW r \in Rounds, StartRemoval(r) PROVE RemovalInv'
  <2>1. UNCHANGED <<rec, capture>> BY <1>2 DEF StartRemoval, Ask
  <2>2. \A u \in OfRound(r) : u \in Takes /\ Stored(u) /\ rec[u].round = r BY DEF OfRound
  <2>3. \A u \in OfRound(r) : capture[u] \notin PreSave BY <2>2 DEF StageInv
  <2>4. PICK x \in {[at |-> "rows", takes |-> {}], [at |-> "cancel", takes |-> OfRound(r)]} :
             removal' = [removal EXCEPT ![r] = x]
    BY <1>2 DEF StartRemoval
  <2>5. (\A q \in Rounds \ {r} : removal'[q] = removal[q]) /\ removal'[r] = x BY <1>0, <2>4
  <2>6. x.takes \subseteq OfRound(r) /\ x.at # "files" OBVIOUS
  <2> QED BY <2>1, <2>2, <2>3, <2>5, <2>6 DEF RemovalInv, Stored
<1>3. CASE QueueServerDeletion
  <2> DEFINE r == Head(queue).round
  <2>1. queue # <<>> /\ Head(queue) \in Task /\ Head(queue).kind = "cancel"
    BY <1>3, HeadTask DEF QueueServerDeletion, Serve
  <2>2. r \in Rounds BY <2>1, TaskFields
  <2>3. removal' = [removal EXCEPT ![r].at = "rows"] /\ UNCHANGED <<rec, capture>>
    BY <1>3 DEF QueueServerDeletion
  <2> HIDE DEF r
  <2>4. /\ \A q \in Rounds \ {r} : removal'[q] = removal[q]
        /\ removal'[r] = [removal[r] EXCEPT !.at = "rows"]
    BY <1>0, <2>2, <2>3
  <2>5. removal'[r].takes = removal[r].takes /\ removal'[r].at = "rows"
    BY <1>0, <2>2, <2>4, RemovalAt
  <2> QED BY <2>3, <2>4, <2>5 DEF RemovalInv, Stored
<1>4. CASE DeleteRun
  <2> DEFINE r == Head(queue).round
  <2>1. queue # <<>> /\ Head(queue) \in Task /\ Head(queue).kind = "deleteRun"
    BY <1>4, HeadTask DEF DeleteRun, Serve
  <2>2. r \in Rounds BY <2>1, TaskFields
  <2>3. removal' = [removal EXCEPT ![r].at = "files"] /\ rec' = Without(OfRound(r)) /\ UNCHANGED capture
    BY <1>4 DEF DeleteRun
  <2> HIDE DEF r
  <2>4. /\ \A q \in Rounds \ {r} : removal'[q] = removal[q]
        /\ removal'[r] = [removal[r] EXCEPT !.at = "files"]
    BY <1>0, <2>2, <2>3
  <2>5. removal'[r].takes = removal[r].takes BY <1>0, <2>2, <2>4, RemovalAt
  <2>6. \A t \in Takes : Stored(t)' => Stored(t) /\ t \notin OfRound(r) /\ rec'[t].round = rec[t].round
    BY <1>0, <2>3, WithoutRow DEF Stored
  <2>7. \A q \in Rounds : removal[q].takes \subseteq Takes BY <1>0 DEF Removal
  <2>8. \A t \in removal[r].takes : ~Stored(t)' BY <2>2, <2>6, <2>7 DEF RemovalInv, OfRound
  <2>9. \A q \in Rounds \ {r} : \A t \in removal[q].takes :
            /\ capture'[t] \notin PreSave
            /\ Stored(t)' => removal'[q].at # "files" /\ rec'[t].round = q
    BY <2>3, <2>4, <2>6, <2>7 DEF RemovalInv
  <2> QED BY <2>2, <2>3, <2>4, <2>5, <2>8, <2>9 DEF RemovalInv
<1>5. CASE UNCHANGED <<rec, capture>> /\ \E q : removal' = [removal EXCEPT ![q] = [at |-> "none", takes |-> {}]]
  BY <1>0, <1>5 DEF RemovalInv, Stored
<1>6. CASE OperationThrows /\ removal' # removal
  <2> DEFINE q == Head(queue).round
  <2>1. queue # <<>> /\ Head(queue) \in Task /\ Head(queue).kind \in {"cancel", "deleteRun"}
    BY <1>6, HeadTask DEF OperationThrows
  <2>2. removal' = [removal EXCEPT ![q] = [at |-> "none", takes |-> {}]] /\ UNCHANGED rec
    BY <1>6 DEF OperationThrows
  <2>3. \A t \in Takes : capture'[t] \in PreSave => capture[t] \in PreSave BY PreSaveStep
  <2> HIDE DEF q
  <2>4. \A r \in Rounds : removal'[r] = removal[r] \/ removal'[r] = [at |-> "none", takes |-> {}]
    BY <1>0, <2>2
  <2>5. \A r \in Rounds : removal[r].takes \subseteq Takes BY <1>0 DEF Removal
  <2> QED BY <2>2, <2>3, <2>4, <2>5 DEF RemovalInv, Stored
<1>7. CASE Crash BY <1>7 DEF Crash, RemovalInv
<1>8. CASE Operate
  BY <1>1, <1>3, <1>4, <1>8
  DEF Operate, Admitting, TakeOperation, SelectVictims, Unlink, MarkEvicted, Reserve, RecordArtifact,
      SaveRecording, SettleOperation, UpsertOutbox, CloseEntry, DeleteRecording, CreateRound,
      UpdateRoundStatus, WriteSettings
<1>9. CASE Learner
  BY <1>1, <1>2, <1>9
  DEF Learner, StartRecording, StopRecording, LeaveScreen, RequestFeedback, EntryEnds, DiscardTake,
      OpenScreen, ChangeQuota
<1>10. CASE Launching BY <1>1, <1>10, LaunchingFrame
<1>11. ASSUME NEW t \in Takes, Finalizing(t) \/ FinalizeFails(t) PROVE RemovalInv'
  BY <1>1, <1>11 DEF Finalizing, MoveFile, HashFile, FinalizeFails
<1>12. ASSUME NEW r \in Rounds, RemoveFiles(r) PROVE RemovalInv' BY <1>5, <1>12 DEF RemoveFiles
<1>13. CASE ArtifactFails \/ LaunchThrows BY <1>1, <1>13 DEF ArtifactFails, LaunchThrows
<1> QED BY <1>1, <1>6, <1>7, <1>8, <1>9, <1>10, <1>11, <1>12, <1>13 DEF Next, Failing

\* The journal entries a launch looks at are those the last one left pending.
LEMMA LaunchStep == ASSUME JournalInv, Next PROVE LaunchInv'
<1> USE DEF JournalInv
<1>0. op \in [Takes -> Operation] /\ launch \in LaunchType /\ launch.todo \in SUBSET Takes
  BY DEF TypeOK, LaunchType
<1>1. CASE Up /\ UNCHANGED launch BY <1>1 DEF LaunchInv, Up
<1>2. ASSUME ~Up, ~Up', UNCHANGED <<capture, removal>>
      PROVE  /\ \A t \in Takes : capture'[t] \in {"idle", "done", "failed", "dead"}
             /\ \A r \in Rounds : removal'[r].takes = {}
  BY <1>2 DEF LaunchInv
<1>3. CASE Operate BY <1>1, <1>3, OperateFrame
<1>4. CASE Learner BY <1>1, <1>4, LearnerFrame
<1>5. CASE Launching
  <2>0. ~Up /\ UNCHANGED <<capture, removal>> BY <1>5, LaunchingFrame
  <2>1. CASE ReconcileRows
    <3>1. /\ launch'.phase = "artifacts" /\ UNCHANGED op
          /\ launch'.todo = {t \in Takes : op[t].state = "pending" /\ op[t].path}
      BY <2>1 DEF ReconcileRows
    <3> QED BY <1>2, <2>0, <3>1 DEF LaunchInv, Up
  <2>2. ASSUME NEW t \in launch.todo, NEW s \in {"committed", "failed"}, Settled(t, s),
               launch.phase \in {"artifacts", "round", "commit"}
        PROVE  LaunchInv'
    <3>1. launch'.phase = "artifacts" /\ launch'.todo = launch.todo \ {t} BY <2>2 DEF Settled
    <3>2. op' = [op EXCEPT ![t].state = s] BY <2>2 DEF Settled
    <3>3. op'[t].state = s /\ \A u \in Takes \ {t} : op'[u] = op[u] BY <1>0, <3>2, OperationState
    <3> QED BY <1>0, <1>2, <2>0, <2>2, <3>1, <3>3 DEF LaunchInv, Up
  <2>3. ASSUME NEW t \in Takes, DropArtifact(t) PROVE LaunchInv'
    BY <2>2, <2>3 DEF DropArtifact, NextArtifact
  <2>4. ASSUME NEW t \in Takes, KnownArtifact(t) \/ RecoverRow(t) PROVE LaunchInv'
    <3>1. /\ launch.phase = "artifacts" /\ t \in launch.todo /\ UNCHANGED op
          /\ launch' \in {[launch EXCEPT !.phase = "commit", !.at = t], [launch EXCEPT !.phase = "round", !.at = t]}
      BY <2>4 DEF KnownArtifact, RecoverRow, NextArtifact
    <3>2. launch'.phase \in {"commit", "round"} /\ launch'.at = t /\ launch'.todo = launch.todo
      BY <1>0, <3>1 DEF LaunchType
    <3> QED BY <1>2, <2>0, <3>1, <3>2 DEF LaunchInv, Up
  <2>5. CASE RecoverRound
    <3>1. launch.phase = "round" /\ launch' = [launch EXCEPT !.phase = "commit"] /\ UNCHANGED op
      BY <2>5 DEF RecoverRound
    <3>2. launch'.phase = "commit" /\ launch'.at = launch.at /\ launch'.todo = launch.todo
      BY <1>0, <3>1 DEF LaunchType
    <3> QED BY <1>2, <2>0, <3>1, <3>2 DEF LaunchInv, Up
  <2>6. CASE RecoverCommit BY <2>2, <2>6 DEF RecoverCommit, LaunchInv
  <2>7. CASE ReleaseReservations
    <3>1. launch.todo = {} /\ launch' = [launch EXCEPT !.phase = "up"] BY <2>7 DEF ReleaseReservations
    <3>2. launch'.phase = "up" /\ launch'.todo = {} BY <1>0, <3>1 DEF LaunchType
    <3> QED BY <3>2 DEF LaunchInv, Up
  <2> QED BY <1>5, <2>1, <2>3, <2>4, <2>5, <2>6, <2>7 DEF Launching
<1>6. CASE ArtifactFails
  <2>1. PICK t \in launch.todo : Settled(t, "failed")
    BY <1>6 DEF ArtifactFails, NextArtifact, LaunchInv
  <2>2. ~Up /\ UNCHANGED <<capture, removal>> BY <1>6 DEF ArtifactFails, NextArtifact, Up
  <2>3. launch.phase \in {"artifacts", "round", "commit"} BY <1>6 DEF ArtifactFails, NextArtifact
  <2>4. launch'.phase = "artifacts" /\ launch'.todo = launch.todo \ {t} BY <2>1 DEF Settled
  <2>5. op' = [op EXCEPT ![t].state = "failed"] BY <2>1 DEF Settled
  <2>6. op'[t].state = "failed" /\ \A u \in Takes \ {t} : op'[u] = op[u] BY <1>0, <2>5, OperationState
  <2> QED BY <1>0, <1>2, <2>2, <2>3, <2>4, <2>6 DEF LaunchInv, Up
<1>7. CASE LaunchThrows
  <2>1. ~Up /\ UNCHANGED <<capture, removal, op>> /\ launch' = [launch EXCEPT !.phase = "broken"]
    BY <1>7 DEF LaunchThrows, Up
  <2>2. launch'.phase = "broken" /\ launch'.todo = launch.todo BY <1>0, <2>1 DEF LaunchType
  <2> QED BY <1>2, <2>1, <2>2 DEF LaunchInv, Up
<1>8. CASE OperationThrows \/ (\E r \in Rounds : RemoveFiles(r))
           \/ \E t \in Takes : Finalizing(t) \/ FinalizeFails(t)
  BY <1>1, <1>8 DEF OperationThrows, RemoveFiles, Finalizing, MoveFile, HashFile, FinalizeFails
<1>9. CASE Crash
  <2>1. launch'.phase = "rows" /\ launch'.todo = {} BY <1>9 DEF Crash
  <2>2. \A t \in Takes : capture'[t] \in {"idle", "done", "failed", "dead"} BY <1>9 DEF Crash
  <2>3. \A r \in Rounds : removal'[r].takes = {} BY <1>9 DEF Crash
  <2> QED BY <2>1, <2>2, <2>3 DEF LaunchInv, Up
<1> QED BY <1>3, <1>4, <1>5, <1>6, <1>7, <1>8, <1>9 DEF Next, Failing

\* A row that is ready has its file from the moment it is written.
LEMMA FilesStep == ASSUME JournalInv, TypeOK', Next PROVE FilesInv'
<1> USE DEF JournalInv
<1>0. /\ rec \in [Takes -> Row] /\ file \in [Takes -> Nat] /\ running \in Running
      /\ removal \in [Rounds -> Removal]
  BY DEF TypeOK, Running, Removal
\* Only a row that was ready before or has a file now is ready.
<1>1. ASSUME UNCHANGED half,
             launch'.phase \notin {"rows", "broken"} => launch.phase \notin {"rows", "broken"},
             running.at # "mark" \/ UNCHANGED running,
             \A t \in Takes : Ready(t)' /\ file'[t] = 0 => Ready(t) /\ file[t] = 0
      PROVE  FilesInv'
  BY <1>1 DEF FilesInv
<1>2. CASE Operate
  <2>0. Up /\ UNCHANGED <<half, launch>> BY <1>2, OperateFrame
  <2>1. ASSUME NEW t \in Takes, Unlink(t) PROVE FilesInv'
    <3>1. /\ running.at = "unlink" /\ running'.at = "mark" /\ running'.take = t /\ UNCHANGED rec
          /\ \A u \in Takes \ {t} : file'[u] = file[u]
      BY <1>0, <2>1 DEF Unlink, Serve
    <3> QED BY <2>0, <3>1 DEF FilesInv, Ready
  <2>2. ASSUME NEW t \in Takes, MarkEvicted(t) PROVE FilesInv'
    <3>1. running.take = t /\ UNCHANGED file /\ \A u \in Takes \ {t} : rec'[u] = rec[u]
      BY <1>0, <2>2 DEF MarkEvicted
    <3>2. rec'[t].media # "ready" BY <1>0, <2>2 DEF MarkEvicted, Row
    <3> QED BY <2>0, <3>1, <3>2 DEF FilesInv, Ready
  <2>3. ASSUME NEW t \in Takes, SaveRecording(t) PROVE FilesInv'
    <3>1. file[t] # 0 BY <2>3 DEF SaveRecording, Awaited, StageInv
    <3>2. running.at = "begin" /\ UNCHANGED file /\ \A u \in Takes \ {t} : rec'[u] = rec[u]
      BY <1>0, <2>3 DEF SaveRecording, Serve
    <3> QED BY <1>1, <2>0, <3>1, <3>2 DEF Ready
  <2>4. CASE running.at \in {"begin", "write"} /\ UNCHANGED file
             /\ (UNCHANGED rec \/ \E S : rec' = Without(S))
    <3>1. \A t \in Takes : Ready(t)' => Ready(t) BY <1>0, <2>4, WithoutRow DEF Ready
    <3> QED BY <1>1, <2>0, <2>4, <3>1
  <2> QED BY <1>2, <2>1, <2>2, <2>3, <2>4
          DEF Operate, Admitting, TakeOperation, SelectVictims, Reserve, RecordArtifact, SettleOperation,
              UpsertOutbox, CloseEntry, DeleteRecording, CreateRound, UpdateRoundStatus, WriteSettings,
              QueueServerDeletion, DeleteRun, Serve
<1>3. CASE Learner
  <2>1. UNCHANGED <<rec, file, launch, running, half>> BY <1>3, LearnerFrame
  <2> QED BY <1>1, <2>1 DEF Ready
<1>4. ASSUME NEW t \in Takes, MoveFile(t) PROVE FilesInv'
  <2>1. PICK bytes \in Sizes : file' = [file EXCEPT ![t] = bytes] BY <1>4 DEF MoveFile
  <2>2. bytes # 0 BY JournalSizeAssumption
  <2>3. UNCHANGED <<rec, launch, running, half>> BY <1>4 DEF MoveFile
  <2> QED BY <1>0, <1>1, <2>1, <2>2, <2>3 DEF Ready
<1>5. ASSUME NEW r \in Rounds, RemoveFiles(r) PROVE FilesInv'
  <2>1. UNCHANGED <<rec, launch, running, half>> BY <1>5 DEF RemoveFiles
  <2>2. \A t \in removal[r].takes : ~Ready(t) BY <1>5 DEF RemoveFiles, RemovalInv, Ready, Stored
  <2>3. \A t \in Takes \ removal[r].takes : file'[t] = file[t] BY <1>5 DEF RemoveFiles
  <2> QED BY <1>1, <2>1, <2>2, <2>3 DEF Ready
<1>6. CASE \E t \in Takes : HashFile(t) \/ FinalizeFails(t)
  BY <1>1, <1>6 DEF HashFile, FinalizeFails, Ready
<1>7. CASE Launching
  <2>0. UNCHANGED <<file, running, half>> BY <1>7, LaunchingFrame
  <2>1. CASE ReconcileRows
    <3>1. \A t \in Takes : ~(Ready(t)' /\ file'[t] = 0)
      <4>1. ASSUME NEW t \in Takes, file[t] = 0 PROVE rec'[t].media # "ready"
        <5>1. [rec[t] EXCEPT !.media = "missing"].media = "missing" BY <1>0, RowMedia
        <5> QED BY <2>1, <4>1, <5>1 DEF ReconcileRows, Ready
      <4> QED BY <2>0, <4>1 DEF Ready
    <3> QED BY <3>1 DEF FilesInv
  <2>2. ASSUME NEW t \in Takes, RecoverRow(t) PROVE FilesInv'
    <3>1. /\ file[t] # 0 /\ \A u \in Takes \ {t} : rec'[u] = rec[u]
          /\ launch.phase = "artifacts"
      BY <1>0, <2>2 DEF RecoverRow, Recoverable, NextArtifact
    <3> QED BY <1>1, <2>0, <3>1 DEF Ready
  <2>3. CASE UNCHANGED rec /\ launch.phase \notin {"rows", "broken"}
    BY <1>1, <2>0, <2>3 DEF Ready
  <2> QED BY <1>7, <2>1, <2>2, <2>3
          DEF Launching, DropArtifact, KnownArtifact, NextArtifact, RecoverRound, RecoverCommit,
              ReleaseReservations
<1>8. CASE ArtifactFails
  <2>1. UNCHANGED <<rec, file, running, half>> /\ launch.phase \notin {"rows", "broken"}
    BY <1>8 DEF ArtifactFails, NextArtifact
  <2> QED BY <1>1, <2>1 DEF Ready
<1>9. CASE LaunchThrows
  <2>1. launch'.phase = "broken" BY <1>9 DEF LaunchThrows, TypeOK
  <2> QED BY <2>1 DEF FilesInv
<1>10. CASE OperationThrows
  <2>1. /\ UNCHANGED <<rec, file, launch>>
        /\ half' = IF running.at = "mark" THEN half \union {running.take} ELSE half
    BY <1>10 DEF OperationThrows
  <2> QED BY <2>1 DEF FilesInv, Ready
<1>11. CASE Crash BY <1>11 DEF Crash, FilesInv
<1> QED BY <1>2, <1>3, <1>4, <1>5, <1>6, <1>7, <1>8, <1>9, <1>10, <1>11 DEF Next, Failing, Finalizing

\* What is pending when the app comes up is settled; what is reserved from then on
\* belongs to a capture that runs.
LEMMA ReservationsStep == ASSUME JournalInv, Next PROVE ReservationsAreLive'
<1> USE DEF JournalInv
<1>0. op \in [Takes -> Operation] /\ capture \in [Takes -> Stages] BY DEF TypeOK
<1>1. ASSUME Up \/ ~Up',
             \A t \in Takes : op'[t].state = "pending" => op[t].state = "pending",
             \A t \in Takes : capture'[t] \in {"idle", "dead"} => capture[t] \in {"idle", "dead"}
      PROVE  ReservationsAreLive'
  BY <1>1 DEF ReservationsAreLive
<1>2. ASSUME Up, UNCHANGED op, NEW t, NEW s, s \notin {"idle", "dead"}, capture' = [capture EXCEPT ![t] = s]
      PROVE  ReservationsAreLive'
  BY <1>0, <1>1, <1>2
<1>3. CASE Up /\ UNCHANGED <<op, capture>> BY <1>1, <1>3
<1>4. CASE Operate
  <2>0. Up BY <1>4, OperateFrame
  <2>1. ASSUME NEW t \in Takes, Reserve(t) PROVE ReservationsAreLive'
    <3>1. PICK s \in {"recording", "mark"} : capture' = [capture EXCEPT ![t] = s]
      BY <2>1 DEF Reserve, Enter
    <3>2. \A u \in Takes \ {t} : op'[u] = op[u] BY <1>0, <2>1 DEF Reserve
    <3> QED BY <1>0, <2>0, <3>1, <3>2 DEF ReservationsAreLive
  <2>2. ASSUME NEW t \in Takes, RecordArtifact(t) PROVE ReservationsAreLive'
    <3>1. PICK s \in {"journal", "save"} : capture' = [capture EXCEPT ![t] = s]
      BY <2>2 DEF RecordArtifact, Enter
    <3>2. op' = [op EXCEPT ![t].path = @ \/ op[t].state = "pending"] BY <2>2 DEF RecordArtifact
    <3>3. \A u \in Takes : op'[u].state = op[u].state BY <1>0, <3>2 DEF Operation
    <3> QED BY <1>0, <1>1, <2>0, <3>1, <3>3
  <2>3. ASSUME NEW t \in Takes, SettleOperation(t) PROVE ReservationsAreLive'
    <3>1. PICK s \in {"done", "failed"} : capture' = [capture EXCEPT ![t] = s]
      BY <2>3 DEF SettleOperation, Enter
    <3>2. \A u \in Takes \ {t} : op'[u] = op[u] BY <1>0, <2>3 DEF SettleOperation
    <3> QED BY <1>0, <2>0, <3>1, <3>2 DEF ReservationsAreLive
  <2>4. ASSUME NEW t \in Takes, SaveRecording(t) PROVE ReservationsAreLive'
    BY <1>2, <2>0, <2>4 DEF SaveRecording, Enter
  <2>5. CASE CreateRound BY <1>2, <1>3, <2>0, <2>5 DEF CreateRound, Enter
  <2>6. CASE UpdateRoundStatus
    <3>1. UNCHANGED op BY <2>6 DEF UpdateRoundStatus
    <3>2. UNCHANGED panels \/ (\E t \in Takes : Enter(t, "recording") \/ Enter(t, "commit"))
      BY <2>6 DEF UpdateRoundStatus
    <3> QED BY <1>2, <1>3, <2>0, <3>1, <3>2 DEF Enter
  <2> QED BY <1>3, <1>4, <2>0, <2>1, <2>2, <2>3, <2>4, <2>5, <2>6
          DEF Operate, Admitting, TakeOperation, SelectVictims, Unlink, MarkEvicted, UpsertOutbox,
              CloseEntry, DeleteRecording, WriteSettings, QueueServerDeletion, DeleteRun
<1>5. CASE Learner
  <2>1. Up /\ UNCHANGED op BY <1>5, LearnerFrame
  <2>2. UNCHANGED capture \/ \E t \in Takes : \E s \in {"reserve", "stopped", "left"} :
                               capture' = [capture EXCEPT ![t] = s]
    BY <1>5 DEF Learner, StartRecording, StopRecording, LeaveScreen, RequestFeedback, EntryEnds, DiscardTake,
                OpenScreen, StartRemoval, ChangeQuota, Ask, Enter
  <2> QED BY <1>2, <1>3, <2>1, <2>2
<1>6. CASE Launching
  <2>0. ~Up BY <1>6, LaunchingFrame
  <2>1. CASE ReleaseReservations
    <3>1. \A t \in Takes : op'[t].state # "pending"
      <4>1. ASSUME NEW t \in Takes PROVE op'[t].state # "pending"
        <5>1. [op[t] EXCEPT !.state = "failed"].state = "failed" BY <1>0, OperationState
        <5>2. op[t].state = "pending" => ~op[t].path BY <2>1 DEF ReleaseReservations, LaunchInv
        <5> QED BY <2>1, <5>1, <5>2 DEF ReleaseReservations
      <4> QED BY <4>1
    <3> QED BY <3>1 DEF ReservationsAreLive
  <2>2. CASE ~Up' BY <2>2 DEF ReservationsAreLive
  <2>3. launch \in LaunchType BY DEF TypeOK, LaunchType
  <2>4. CASE ReconcileRows \/ RecoverRound \/ RecoverCommit
             \/ \E t \in Takes : DropArtifact(t) \/ KnownArtifact(t) \/ RecoverRow(t)
    <3>1. CASE launch'.phase = "artifacts" BY <2>2, <3>1 DEF Up
    <3>2. ASSUME NEW p \in {"commit", "round"}, NEW t,
                 launch' = [launch EXCEPT !.phase = p] \/ launch' = [launch EXCEPT !.phase = p, !.at = t]
          PROVE  ReservationsAreLive'
      <4>1. launch'.phase = p BY <2>3, <3>2 DEF LaunchType
      <4> QED BY <2>2, <4>1 DEF Up
    <3>3. CASE ReconcileRows \/ RecoverCommit \/ \E t \in Takes : DropArtifact(t)
      <4>1. launch'.phase = "artifacts" BY <3>3 DEF ReconcileRows, RecoverCommit, DropArtifact, Settled
      <4> QED BY <3>1, <4>1
    <3>4. CASE RecoverRound BY <3>2, <3>4 DEF RecoverRound
    <3>5. ASSUME NEW t \in Takes, KnownArtifact(t) \/ RecoverRow(t) PROVE ReservationsAreLive'
      BY <3>2, <3>5 DEF KnownArtifact, RecoverRow
    <3> QED BY <2>4, <3>3, <3>4, <3>5
  <2> QED BY <1>6, <2>1, <2>4 DEF Launching
<1>7. CASE ArtifactFails \/ LaunchThrows \/ Crash
  <2>1. launch \in LaunchType BY DEF TypeOK, LaunchType
  <2>2. launch'.phase \in {"artifacts", "broken", "rows"}
    BY <1>7, <2>1 DEF ArtifactFails, Settled, LaunchThrows, Crash, LaunchType
  <2> QED BY <2>2 DEF ReservationsAreLive, Up
<1>8. ASSUME NEW t \in Takes, Finalizing(t) \/ FinalizeFails(t) PROVE ReservationsAreLive'
  BY <1>2, <1>8 DEF Finalizing, MoveFile, HashFile, FinalizeFails, Enter
<1>9. ASSUME NEW r \in Rounds, RemoveFiles(r) PROVE ReservationsAreLive'
  BY <1>3, <1>9 DEF RemoveFiles
<1>10. CASE OperationThrows
  <2>1. Up /\ UNCHANGED op BY <1>10 DEF OperationThrows
  <2>2. ASSUME NEW t, AfterFailure(t)
        PROVE  \E s \in {"failed", "left", "giveup"} : capture' = [capture EXCEPT ![t] = s]
    BY <2>2, Zenon DEF AfterFailure, Enter
  <2> QED BY <1>2, <1>3, <1>10, <2>1, <2>2 DEF OperationThrows
<1> QED BY <1>4, <1>5, <1>6, <1>7, <1>8, <1>9, <1>10 DEF Next, Failing

-----------------------------------------------------------------------------
(* The theorems                                                            *)

LEMMA InitJournal == Init => JournalInv
<1> SUFFICES ASSUME Init PROVE JournalInv OBVIOUS
<1> USE JournalNameAssumption, JournalBoundAssumption DEF Init
<1>1. TypeOK
  <2>1. [round |-> Unsaved, bytes |-> 0, media |-> "none"] \in Row BY DEF Row
  <2>2. [state |-> "none", round |-> Unsaved, path |-> FALSE] \in Operation BY DEF Operation
  <2>3. [at |-> "none", takes |-> {}] \in Removal BY DEF Removal
  <2> QED BY <2>1, <2>2, <2>3, IdleType, NothingNext DEF TypeOK, Removal, Running, Status, Stages
<1>2. SelectionInv /\ StageInv /\ RemovalInv /\ FilesInv
  BY DEF SelectionInv, StageInv, RemovalInv, FilesInv, Idle, Stored, Ready
<1>3. LaunchInv /\ ReservationsAreLive BY DEF LaunchInv, ReservationsAreLive, Up
<1> QED BY <1>1, <1>2, <1>3 DEF JournalInv

LEMMA JournalStep == JournalInv /\ [Next]_vars => JournalInv'
<1> SUFFICES ASSUME JournalInv, [Next]_vars PROVE JournalInv' OBVIOUS
<1>1. CASE UNCHANGED vars
  BY <1>1 DEF JournalInv, TypeOK, SelectionInv, StageInv, LaunchInv, RemovalInv, FilesInv,
              ReservationsAreLive, Evictable, Protected, Stored, Ready, Up
<1>2. CASE Next
  <2>1. TypeOK' BY <1>2, TypeStep DEF JournalInv
  <2> QED BY <1>2, <2>1, StageStep, SelectionStep, RemovalStep, LaunchStep, FilesStep, ReservationsStep
          DEF JournalInv
<1> QED BY <1>1, <1>2

THEOREM JournalInvariant == SafeSpec => []JournalInv
BY InitJournal, JournalStep, PTL DEF SafeSpec

\* The rows, files, journal, queue and captures of the repository keep their shape,
\* and a waiting operation carries what its code expects.
THEOREM JournalTypes == SafeSpec => []TypeOK
<1>1. JournalInv => TypeOK BY DEF JournalInv
<1> QED BY <1>1, JournalInvariant, PTL

\* A take shown as ready has its file, after any number of crashes, whenever the app
\* is up, but for the one eviction is at and those where eviction threw.
THEOREM ReadyIsPlayable == SafeSpec => []ReadyHasFile
<1>1. JournalInv => ReadyHasFile
  BY DEF JournalInv, FilesInv, ReadyHasFile, Up
<1> QED BY <1>1, JournalInvariant, PTL

\* No reservation outlives the launch after the crash its capture died in.
THEOREM ReservationsEnd == SafeSpec => []ReservationsAreLive
<1>1. JournalInv => ReservationsAreLive BY DEF JournalInv
<1> QED BY <1>1, JournalInvariant, PTL

\* The file of a stored take goes only when eviction takes it.
LEMMA EvictionUnlinks == ASSUME JournalInv, Next, NEW t \in Takes, Evicted(t) PROVE Unlink(t)
<1> USE DEF JournalInv
<1>1. file \in [Takes -> Nat] /\ file[t] # 0 /\ file'[t] = 0 /\ Stored(t) BY DEF TypeOK, Evicted
<1>2. ASSUME NEW u \in Takes, Unlink(u) PROVE u = t BY <1>1, <1>2 DEF Unlink
<1>3. ASSUME NEW r \in Rounds, RemoveFiles(r) PROVE FALSE BY <1>1, <1>3 DEF RemoveFiles, RemovalInv
<1>4. ASSUME NEW u \in Takes, MoveFile(u) PROVE FALSE BY <1>1, <1>4, JournalSizeAssumption DEF MoveFile
<1>5. CASE Operate BY <1>1, <1>2, <1>5, OperateFrame
<1>6. CASE Learner BY <1>1, <1>6, LearnerFrame
<1>7. CASE Launching BY <1>1, <1>7, LaunchingFrame
<1> QED BY <1>1, <1>3, <1>4, <1>5, <1>6, <1>7
        DEF Next, Finalizing, HashFile, Failing, FinalizeFails, OperationThrows, ArtifactFails,
            LaunchThrows, Crash

\* Eviction removes no file of an unsaved round or of an upload that is not done,
\* although the rows it decided on were read many steps before.
THEOREM EvictionIsSafe == SafeSpec => EvictionSparesUploads
<1>1. ASSUME JournalInv, [Next]_vars
      PROVE  [\A t \in Takes : Evicted(t) => outbox[t] # "active" /\ round[rec[t].round] = "round_saved"]_vars
  <2> SUFFICES ASSUME Next, NEW t \in Takes, file[t] # 0, file'[t] = 0, Stored(t)
               PROVE  outbox[t] # "active" /\ round[rec[t].round] = "round_saved"
    BY <1>1 DEF Evicted
  <2> USE DEF JournalInv
  <2>1. Unlink(t) BY <1>1, EvictionUnlinks DEF Evicted
  <2>2. Evictable(t) BY <1>1, <2>1 DEF Unlink, Serve, SelectionInv
  <2> QED BY <2>2 DEF Evictable, Protected
<1> QED BY <1>1, JournalInvariant, PTL DEF SafeSpec, EvictionSparesUploads

-----------------------------------------------------------------------------
(* The quota                                                               *)

Pending(t) == op[t].state = "pending"

\* From the reservation to the commit, a capture holds its reservation.
Held == {"mark", "recording", "stopped", "moved", "artifact", "journal", "save", "status", "commit"}

\* Who works on a take, its capture or the launch, works on a reserved one.
ReservedInv ==
    /\ \A t \in Takes : capture[t] \in Held => Pending(t)
    /\ \A t \in launch.todo : Pending(t)

\* What the admission under way is going to evict, what a take accounts for after
\* that, and what is asked for.
Doomed == running.victims \union (IF running.at = "mark" THEN {running.take} ELSE {})

LeftOf(t, gone) ==
    IF Pending(t) THEN Reservation ELSE IF Ready(t) /\ t \notin gone THEN rec[t].bytes ELSE 0

Need(task) == IF task.kind = "reserve" THEN Reservation ELSE 0

\* From the selection on there is room for what is asked for, once the victims are
\* gone: nobody reserves, saves or changes the quota in between.
RoomInv == running.at # "begin" =>
    /\ queue # <<>> /\ Head(queue).kind \in Admission
    /\ SumFunctionOnSet([t \in Takes |-> LeftOf(t, Doomed)], Takes) + Need(Head(queue))
           <= Limit(Head(queue))
    /\ running.at = "write" => running.victims = {}

LEMMA AccountedType ==
    ASSUME TypeOK, NEW t \in Takes, NEW gone
    PROVE  /\ Accounted(t) \in Nat /\ LeftOf(t, gone) \in Nat
           /\ LeftOf(t, gone) <= Accounted(t) /\ LeftOf(t, {}) = Accounted(t)
<1>1. rec[t].bytes \in Nat /\ Reservation \in Nat
  BY JournalSizeAssumption DEF TypeOK, Row
<1> QED
  BY <1>1 DEF Accounted, LeftOf, Pending

\* A take is charged no more than it accounts for.
LEMMA ChargedType ==
    ASSUME TypeOK, NEW t \in Takes
    PROVE  Accounted(t) \in Nat /\ Charged(t) \in Nat /\ Charged(t) <= Accounted(t)
<1>1. Accounted(t) \in Nat /\ Reservation \in Nat
  BY AccountedType, JournalSizeAssumption
<1> QED
  BY <1>1 DEF Charged

LEMMA ChargedNext ==
    ASSUME TypeOK', NEW t \in Takes
    PROVE  Accounted(t)' \in Nat /\ Charged(t)' \in Nat /\ Charged(t)' <= Accounted(t)'
<1>1. rec'[t].bytes \in Nat /\ Reservation \in Nat
  BY JournalSizeAssumption DEF TypeOK, Row
<1>2. Accounted(t)' \in Nat
  BY <1>1 DEF Accounted, Ready
<1> QED
  BY <1>1, <1>2 DEF Charged

\* What is charged does not grow when no take is charged more.
LEMMA QuotaFrame ==
    ASSUME TypeOK, TypeOK', QuotaKept, UNCHANGED quota,
           \A t \in Takes : Charged(t)' <= Charged(t)
    PROVE  QuotaKept'
<1> DEFINE f == [t \in Takes |-> Charged(t)]
           g == [t \in Takes |-> Charged(t)']
<1>1. \A t \in Takes : g[t] \in Nat /\ f[t] \in Nat /\ g[t] <= f[t]
  BY ChargedType, ChargedNext
<1>2. IsFiniteSet(Takes) /\ Takes \subseteq Takes
  BY JournalNameAssumption
<1> HIDE DEF f, g
<1>3. SumFunctionOnSet(g, Takes) <= SumFunctionOnSet(f, Takes)
  BY <1>1, <1>2, SumMonotone
<1>4. SumFunctionOnSet(g, Takes) \in Nat /\ SumFunctionOnSet(f, Takes) \in Nat
  BY <1>1, <1>2, SumNat
<1>5. SumFunctionOnSet(f, Takes) <= QuotaBytes[quota] /\ QuotaBytes[quota] \in Nat
  BY JournalSizeAssumption DEF QuotaKept, f, TypeOK
<1>6. SumFunctionOnSet(g, Takes) <= QuotaBytes[quota']
  BY <1>3, <1>4, <1>5
<1> QED
  BY <1>6 DEF QuotaKept, g

\* Bytes that are stored and bytes that are reserved, as sums over all takes.
LEMMA StoredSum ==
    ASSUME TypeOK, NEW S \in SUBSET Takes
    PROVE  /\ StoredBytes(S) \in Nat
           /\ SumFunctionOnSet([t \in Takes |-> IF t \in S THEN rec[t].bytes ELSE 0], Takes)
                  = StoredBytes(S)
<1> DEFINE g == [t \in Takes |-> rec[t].bytes]
           h == [t \in Takes |-> IF t \in S THEN g[t] ELSE 0]
<1>1. IsFiniteSet(Takes) /\ IsFiniteSet(S)
  BY JournalNameAssumption, FS_Subset
<1>2. \A t \in S : g[t] \in Nat
  BY DEF TypeOK, Row
<1>3. h = [t \in Takes |-> IF t \in S THEN rec[t].bytes ELSE 0]
  OBVIOUS
<1> HIDE DEF g
<1>4. SumFunctionOnSet(h, Takes) = SumFunctionOnSet(g, S)
  BY <1>1, <1>2, SumSupport
<1>5. SumFunctionOnSet(g, S) \in Nat
  BY <1>1, <1>2, SumNat
<1> QED
  BY <1>3, <1>4, <1>5 DEF StoredBytes, g

LEMMA ReservedSum ==
    ASSUME TypeOK
    PROVE  /\ ReservedBytes \in Nat
           /\ SumFunctionOnSet([t \in Takes |-> IF Pending(t) THEN Reservation ELSE 0], Takes)
                  = ReservedBytes
<1> DEFINE S == {t \in Takes : Pending(t)}
           g == [t \in S |-> Reservation]
           h == [t \in Takes |-> IF t \in S THEN g[t] ELSE 0]
<1>1. IsFiniteSet(Takes) /\ IsFiniteSet(S) /\ S \in SUBSET Takes /\ Reservation \in Nat
  BY JournalNameAssumption, JournalSizeAssumption, FS_Subset
<1>2. \A t \in S : g[t] \in Nat
  BY <1>1
<1>3. h = [t \in Takes |-> IF Pending(t) THEN Reservation ELSE 0]
  OBVIOUS
<1>4. S = {t \in Takes : op[t].state = "pending"}
  BY DEF Pending
<1>5. SumFunctionOnSet(g, S) = Reservation * Cardinality(S)
  <2> HIDE DEF S
  <2> QED
    BY <1>1, SumConstant
<1>6. SumFunctionOnSet(h, Takes) = SumFunctionOnSet(g, S)
  <2> HIDE DEF S, g
  <2> QED
    BY <1>1, <1>2, SumSupport
<1>7. SumFunctionOnSet(g, S) \in Nat
  <2> HIDE DEF S, g
  <2> QED
    BY <1>1, <1>2, SumNat
<1>8. SumFunctionOnSet(h, Takes) = ReservedBytes
  <2> HIDE DEF g, h
  <2> QED
    BY <1>4, <1>5, <1>6 DEF ReservedBytes
<1> QED
  BY <1>3, <1>6, <1>7, <1>8

LEMMA LimitType ==
    ASSUME TypeOK, NEW task \in Task
    PROVE  Limit(task) \in Nat /\ Need(task) \in Nat /\ Wanted(task) \in Nat
           /\ Wanted(task) = ActualBytes + ReservedBytes + Need(task)
<1>1. Limit(task) \in Nat
  BY TaskFields, JournalSizeAssumption DEF Limit, TypeOK
<1>2. Need(task) \in Nat
  BY JournalSizeAssumption DEF Need
<1>3. ActualBytes \in Nat /\ ReservedBytes \in Nat
  <2>1. {t \in Takes : Ready(t)} \in SUBSET Takes
    OBVIOUS
  <2> QED
    BY <2>1, StoredSum, ReservedSum DEF ActualBytes
<1>4. Wanted(task) = ActualBytes + ReservedBytes + Need(task)
  BY DEF Wanted, Need
<1> QED
  BY <1>1, <1>2, <1>3, <1>4

\* What selectEvictions chose makes room: its victims are counted among what there
\* would be, and what is left of all takes and what is asked for fit into the quota.
LEMMA ChosenRoom ==
    ASSUME TypeOK, NEW task \in Task, NEW chosen \in SUBSET Takes,
           \A t \in chosen : Ready(t), Wanted(task) <= Limit(task) + StoredBytes(chosen)
    PROVE  SumFunctionOnSet([t \in Takes |-> LeftOf(t, chosen)], Takes) + Need(task) <= Limit(task)
<1> DEFINE ready == {t \in Takes : Ready(t)}
           l == [t \in Takes |-> LeftOf(t, chosen)]
           c == [t \in Takes |-> IF t \in chosen THEN rec[t].bytes ELSE 0]
           a == [t \in Takes |-> IF t \in ready THEN rec[t].bytes ELSE 0]
           r == [t \in Takes |-> IF Pending(t) THEN Reservation ELSE 0]
<1>1. IsFiniteSet(Takes) /\ ready \in SUBSET Takes
  BY JournalNameAssumption
<1>2. \A t \in Takes : /\ l[t] \in Nat /\ c[t] \in Nat /\ a[t] \in Nat /\ r[t] \in Nat
                       /\ l[t] + c[t] <= a[t] + r[t]
  <2> TAKE t \in Takes
  <2>1. rec[t].bytes \in Nat /\ Reservation \in Nat
    BY JournalSizeAssumption DEF TypeOK, Row
  <2> QED
    BY <2>1 DEF LeftOf
<1>3. /\ SumFunctionOnSet(c, Takes) = StoredBytes(chosen)
      /\ SumFunctionOnSet(a, Takes) = ActualBytes
      /\ SumFunctionOnSet(r, Takes) = ReservedBytes
  BY <1>1, StoredSum, ReservedSum DEF ActualBytes
<1> HIDE DEF l, c, a, r
<1> DEFINE lc == [t \in Takes |-> l[t] + c[t]]
           ar == [t \in Takes |-> a[t] + r[t]]
<1>4. /\ SumFunctionOnSet(lc, Takes) = SumFunctionOnSet(l, Takes) + SumFunctionOnSet(c, Takes)
      /\ SumFunctionOnSet(ar, Takes) = SumFunctionOnSet(a, Takes) + SumFunctionOnSet(r, Takes)
  BY <1>1, <1>2, SumPlus
<1>5. SumFunctionOnSet(lc, Takes) <= SumFunctionOnSet(ar, Takes)
  <2>1. \A t \in Takes : lc[t] \in Nat /\ lc[t] <= ar[t] /\ ar[t] \in Nat
    BY <1>2
  <2> HIDE DEF lc, ar
  <2> QED
    BY <1>1, <2>1, SumMonotone
<1>6. SumFunctionOnSet(l, Takes) \in Nat /\ StoredBytes(chosen) \in Nat
  BY <1>1, <1>2, SumNat, StoredSum
<1>7. /\ ActualBytes \in Nat /\ ReservedBytes \in Nat /\ Need(task) \in Nat /\ Limit(task) \in Nat
      /\ Wanted(task) = ActualBytes + ReservedBytes + Need(task)
  BY <1>1, LimitType, StoredSum, ReservedSum DEF ActualBytes
<1> HIDE DEF lc, ar
<1>8. SumFunctionOnSet(l, Takes) + Need(task) <= Limit(task)
  BY <1>3, <1>4, <1>5, <1>6, <1>7
<1> QED
  BY <1>8 DEF l

LEMMA SelectedRoom ==
    ASSUME TypeOK, NEW task \in Task, NEW chosen, chosen = Victims(Wanted(task), Limit(task)),
           chosen # {}
    PROVE  /\ chosen \in SUBSET Takes /\ \A t \in chosen : Ready(t)
           /\ Wanted(task) <= Limit(task) + StoredBytes(chosen)
<1>1. chosen \in SUBSET Takes /\ \A t \in chosen : Evictable(t)
  BY VictimsEvictable
<1>2. Wanted(task) <= Limit(task) + StoredBytes(chosen)
  BY Zenon DEF Victims
<1> QED
  BY <1>1, <1>2 DEF Evictable

\* A row gets bytes and becomes ready only when its take is saved or recovered.
LEMMA RowBytes ==
    ASSUME NEW row \in Row, NEW m \in {"none", "ready", "evicted", "missing"}
    PROVE  [row EXCEPT !.media = m].bytes = row.bytes
BY DEF Row

LEMMA RowsStep ==
    ASSUME JournalInv, Next, NEW t \in Takes
    PROVE  \/ SaveRecording(t) \/ RecoverRow(t)
           \/ /\ rec'[t].bytes = rec[t].bytes
              /\ Ready(t)' => Ready(t)
              /\ Stored(t)' => Stored(t)
<1> USE DEF JournalInv
<1>0. rec \in [Takes -> Row] /\ rec[t] \in Row BY DEF TypeOK
<1>1. CASE rec'[t] = rec[t] BY <1>1 DEF Stored, Ready
<1>2. ASSUME NEW m \in {"none", "evicted", "missing"}, rec'[t] = [rec[t] EXCEPT !.media = m],
             m = "none" \/ Stored(t)
      PROVE  /\ rec'[t].bytes = rec[t].bytes
             /\ Ready(t)' => Ready(t)
             /\ Stored(t)' => Stored(t)
  BY <1>0, <1>2, RowBytes, RowMedia DEF Stored, Ready
<1>3. ASSUME NEW S, rec' = Without(S) PROVE rec'[t] = rec[t] \/ rec'[t] = [rec[t] EXCEPT !.media = "none"]
  BY <1>3 DEF Without
<1>4. ASSUME NEW u \in Takes, MarkEvicted(u)
      PROVE  rec'[t] = rec[t] \/ (Ready(t) /\ rec'[t] = [rec[t] EXCEPT !.media = "evicted"])
  <2>1. rec' = [rec EXCEPT ![u].media = IF rec[u].media = "ready" THEN "evicted" ELSE rec[u].media]
    BY <1>4 DEF MarkEvicted
  <2>2. [rec[t] EXCEPT !.media = rec[t].media] = rec[t] BY <1>0 DEF Row
  <2> QED BY <1>0, <2>1, <2>2 DEF Ready
<1>5. ASSUME NEW u \in Takes, SaveRecording(u) \/ RecoverRow(u), u # t PROVE rec'[t] = rec[t]
  BY <1>0, <1>5 DEF SaveRecording, RecoverRow
<1>6. ASSUME ReconcileRows
      PROVE  rec'[t] = rec[t] \/ (Ready(t) /\ rec'[t] = [rec[t] EXCEPT !.media = "missing"])
  BY <1>6 DEF ReconcileRows
<1>7. CASE rec' = rec BY <1>1, <1>7
<1>8. CASE Operate
  <2>1. CASE \E u \in Takes : MarkEvicted(u) BY <1>1, <1>2, <1>4, <2>1 DEF Ready, Stored
  <2>2. CASE \E u \in Takes : SaveRecording(u) BY <1>1, <1>5, <2>2
  <2>3. CASE DeleteRun \/ \E u \in Takes : DeleteRecording(u)
    BY <1>1, <1>2, <1>3, <2>3 DEF DeleteRun, DeleteRecording
  <2> QED BY <1>7, <1>8, <2>1, <2>2, <2>3
          DEF Operate, Admitting, TakeOperation, SelectVictims, Unlink, Reserve, RecordArtifact,
              SettleOperation, UpsertOutbox, CloseEntry, CreateRound, UpdateRoundStatus, WriteSettings,
              QueueServerDeletion
<1>9. CASE Learner BY <1>7, <1>9, LearnerFrame
<1>10. CASE Launching
  <2>1. CASE \E u \in Takes : RecoverRow(u) BY <1>1, <1>5, <2>1
  <2>2. CASE ReconcileRows BY <1>1, <1>2, <1>6, <2>2 DEF Ready, Stored
  <2> QED BY <1>7, <1>10, <2>1, <2>2
          DEF Launching, DropArtifact, KnownArtifact, RecoverRound, RecoverCommit, ReleaseReservations
<1> QED BY <1>7, <1>8, <1>9, <1>10
        DEF Next, Finalizing, MoveFile, HashFile, FinalizeFails, RemoveFiles, Failing, ArtifactFails,
            LaunchThrows, OperationThrows, Crash

\* A reservation comes and goes with its capture, or goes at the launch.
LEMMA OperationsStep ==
    ASSUME JournalInv, ReservedInv, Next, NEW t \in Takes
    PROVE  \/ op'[t].state = op[t].state
           \/ Reserve(t) /\ Pending(t)'
           \/ SettleOperation(t) /\ ~Pending(t)'
           \/ ~Up /\ ~Pending(t)' /\ Pending(t) /\ (Launching \/ ArtifactFails)
<1> USE DEF JournalInv
<1>0. op \in [Takes -> Operation] /\ op[t] \in Operation BY DEF TypeOK
<1>1. CASE op' = op BY <1>1
<1>2. CASE Operate
  <2>1. ASSUME NEW u \in Takes, Reserve(u) PROVE op'[t].state = op[t].state \/ (Reserve(t) /\ Pending(t)')
    <3>1. CASE u = t BY <1>0, <2>1, <3>1 DEF Reserve, Pending
    <3>2. CASE u # t BY <1>0, <2>1, <3>2 DEF Reserve
    <3> QED BY <3>1, <3>2
  <2>2. ASSUME NEW u \in Takes, RecordArtifact(u) PROVE op'[t].state = op[t].state
    <3>1. op' = [op EXCEPT ![u].path = @ \/ op[u].state = "pending"] BY <2>2 DEF RecordArtifact
    <3> QED BY <1>0, <3>1 DEF Operation
  <2>3. ASSUME NEW u \in Takes, SettleOperation(u)
        PROVE  op'[t].state = op[t].state \/ (SettleOperation(t) /\ ~Pending(t)')
    <3>1. CASE u = t
      <4>1. queue # <<>> /\ Head(queue) \in Task /\ Head(queue).kind = "settle"
        BY <2>3, HeadTask DEF SettleOperation, Serve
      <4>2. Head(queue).to \in {"committed", "failed"} BY <4>1, TaskFields
      <4>3. op'[t] = [op[t] EXCEPT !.state = Head(queue).to] BY <1>0, <2>3, <3>1 DEF SettleOperation
      <4>4. op'[t].state = Head(queue).to BY <1>0, <4>2, <4>3, OperationState
      <4>5. op'[t].state # "pending" BY <4>2, <4>4
      <4> QED BY <2>3, <3>1, <4>5 DEF Pending
    <3>2. CASE u # t BY <1>0, <2>3, <3>2 DEF SettleOperation
    <3> QED BY <3>1, <3>2
  <2> QED BY <1>1, <1>2, <2>1, <2>2, <2>3
          DEF Operate, Admitting, TakeOperation, SelectVictims, Unlink, MarkEvicted, SaveRecording,
              UpsertOutbox, CloseEntry, DeleteRecording, CreateRound, UpdateRoundStatus, WriteSettings,
              QueueServerDeletion, DeleteRun
<1>3. ASSUME NEW u \in launch.todo, NEW s \in {"committed", "failed"}, Settled(u, s)
      PROVE  op'[t].state = op[t].state \/ (~Pending(t)' /\ Pending(t))
  <2>1. op'[u] = [op[u] EXCEPT !.state = s] /\ (t # u => op'[t] = op[t])
    BY <1>0, <1>3 DEF Settled, TypeOK
  <2>2. op[u] \in Operation BY <1>0 DEF TypeOK
  <2>3. op'[u].state = s BY <2>1, <2>2, OperationState
  <2> QED BY <2>1, <2>3 DEF ReservedInv, Pending
<1>4. CASE Launching
  <2>0. ~Up BY <1>4, LaunchingFrame
  <2>1. ASSUME NEW u \in Takes, DropArtifact(u) PROVE op'[t].state = op[t].state \/ (~Pending(t)' /\ Pending(t))
    BY <1>3, <2>1 DEF DropArtifact, NextArtifact
  <2>2. ASSUME RecoverCommit PROVE op'[t].state = op[t].state \/ (~Pending(t)' /\ Pending(t))
    BY <1>3, <2>2 DEF RecoverCommit, LaunchInv
  <2>3. ASSUME ReleaseReservations PROVE op'[t].state = op[t].state \/ (~Pending(t)' /\ Pending(t))
    <3>1. op'[t] = op[t] \/ (Pending(t) /\ op'[t] = [op[t] EXCEPT !.state = "failed"])
      BY <2>3 DEF ReleaseReservations, Pending
    <3> QED BY <1>0, <3>1, OperationState DEF Pending
  <2> QED BY <1>1, <1>4, <2>0, <2>1, <2>2, <2>3
          DEF Launching, ReconcileRows, KnownArtifact, RecoverRow, RecoverRound
<1>5. CASE ArtifactFails
  <2>1. PICK u \in launch.todo : Settled(u, "failed") BY <1>5 DEF ArtifactFails, LaunchInv, NextArtifact
  <2>2. ~Up BY <1>5 DEF ArtifactFails, NextArtifact, Up
  <2> QED BY <1>3, <1>5, <2>1, <2>2
<1>6. CASE Learner BY <1>1, <1>6, LearnerFrame
<1> QED BY <1>1, <1>2, <1>4, <1>5, <1>6
        DEF Next, Finalizing, MoveFile, HashFile, FinalizeFails, RemoveFiles, Failing,
            LaunchThrows, OperationThrows, Crash

\* A capture comes to hold a reservation by making it, and settling ends that.
LEMMA HeldStep ==
    ASSUME JournalInv, Next, NEW t \in Takes, capture'[t] \in Held
    PROVE  /\ capture[t] \in Held \/ Reserve(t)
           /\ ~SettleOperation(t)
<1> USE DEF JournalInv
<1>0. capture \in [Takes -> Stages] BY DEF TypeOK
<1>1. ~SettleOperation(t)
  <2> SUFFICES ASSUME SettleOperation(t) PROVE FALSE OBVIOUS
  <2>1. capture'[t] \in {"done", "failed"} BY <1>0 DEF SettleOperation, Enter
  <2> QED BY <2>1 DEF Held
<1> SUFFICES capture[t] \in Held \/ Reserve(t)
  BY <1>1
<1>2. CASE UNCHANGED capture BY <1>2
<1>3. CASE \E u, s : capture' = [capture EXCEPT ![u] = s] /\ (capture[u] \in Held \/ s \notin Held)
  BY <1>0, <1>3
<1>4. CASE Operate
  <2>1. CASE UNCHANGED panels BY <1>2, <2>1
  <2>2. ASSUME NEW u \in Takes, Reserve(u) PROVE capture[t] \in Held \/ Reserve(t)
    BY <1>0, <2>2 DEF Reserve, Enter
  <2>3. CASE \E u \in Takes : RecordArtifact(u)
    BY <1>3, <2>3 DEF RecordArtifact, Awaited, Enter, Held
  <2>4. CASE \E u \in Takes : SaveRecording(u)
    BY <1>3, <2>4 DEF SaveRecording, Awaited, Enter, Held
  <2>5. CASE \E u \in Takes : SettleOperation(u)
    BY <1>3, <2>5 DEF SettleOperation, Awaited, Enter, Held
  <2>6. CASE CreateRound BY <1>2, <1>3, <2>6 DEF CreateRound, Awaited, Enter, Held
  <2>7. CASE UpdateRoundStatus
    <3>1. ASSUME NEW u, NEW x, NEW y, Awaited(u, x), Enter(u, y), x \in Held
          PROVE  capture[t] \in Held \/ Reserve(t)
      BY <1>3, <3>1 DEF Awaited, Enter
    <3>2. "mark" \in Held /\ "status" \in Held BY DEF Held
    <3> QED BY <2>1, <2>7, <3>1, <3>2 DEF UpdateRoundStatus
  <2> QED BY <1>4, <2>1, <2>2, <2>3, <2>4, <2>5, <2>6, <2>7
          DEF Operate, Admitting, TakeOperation, SelectVictims, Unlink, MarkEvicted, UpsertOutbox,
              CloseEntry, DeleteRecording, WriteSettings, QueueServerDeletion, DeleteRun
<1>5. CASE Learner
  <2>1. ASSUME NEW u \in Takes, StopRecording(u) PROVE capture[t] \in Held
    BY <1>3, <2>1 DEF StopRecording, Enter, Held
  <2>2. ASSUME NEW u, NEW s \in {"reserve", "left"}, capture' = [capture EXCEPT ![u] = s]
        PROVE  capture[t] \in Held
    BY <1>0, <2>2 DEF Held
  <2> QED
    BY <1>2, <1>5, <2>1, <2>2
    DEF Learner, StartRecording, LeaveScreen, RequestFeedback, EntryEnds, DiscardTake,
        OpenScreen, StartRemoval, ChangeQuota, Ask, Enter
<1>6. CASE \E u \in Takes : Finalizing(u) \/ FinalizeFails(u)
  BY <1>2, <1>3, <1>6 DEF Finalizing, MoveFile, HashFile, FinalizeFails, Enter, Held
<1>7. CASE \E r \in Rounds : RemoveFiles(r) BY <1>2, <1>7 DEF RemoveFiles
<1>8. CASE Launching BY <1>2, <1>8, LaunchingFrame
<1>9. CASE ArtifactFails \/ LaunchThrows BY <1>2, <1>9 DEF ArtifactFails, LaunchThrows
<1>10. CASE OperationThrows
  <2>1. ASSUME NEW u, AfterFailure(u)
        PROVE  \E s \in {"failed", "left", "giveup"} : capture' = [capture EXCEPT ![u] = s]
    BY <2>1, Zenon DEF AfterFailure, Enter
  <2>2. \A s \in {"failed", "left", "giveup"} : s \notin Held BY DEF Held
  <2> QED BY <1>2, <1>3, <1>10, <2>1, <2>2 DEF OperationThrows
<1>11. CASE Crash BY <1>11 DEF Crash, Held
<1> QED BY <1>4, <1>5, <1>6, <1>7, <1>8, <1>9, <1>10, <1>11 DEF Next, Failing

LEMMA ReservedStep == ASSUME JournalInv, ReservedInv, Next PROVE ReservedInv'
<1> USE DEF JournalInv
<1>0. /\ rec \in [Takes -> Row] /\ op \in [Takes -> Operation] /\ file \in [Takes -> Nat]
      /\ launch.todo \in SUBSET Takes /\ launch \in LaunchType
  BY DEF TypeOK, LaunchType
<1>1. ASSUME NEW t \in Takes, capture'[t] \in Held PROVE Pending(t)'
  <2>1. /\ capture[t] \in Held \/ Reserve(t)
        /\ ~SettleOperation(t)
    BY <1>1, HeldStep
  <2>2. CASE Reserve(t) BY <1>0, <2>2 DEF Reserve, Pending
  <2>3. CASE capture[t] \in Held
    <3>1. Pending(t) BY <2>3 DEF ReservedInv
    <3>2. Up BY <2>3 DEF LaunchInv, Held
    <3>3. \/ op'[t].state = op[t].state
          \/ Pending(t)'
      BY <2>1, <3>2, OperationsStep
    <3> QED BY <3>1, <3>3 DEF Pending
  <2> QED BY <2>1, <2>2, <2>3
<1>2. ASSUME NEW t \in launch'.todo PROVE Pending(t)'
  <2>1. ASSUME NEW u \in Takes, NEW s \in {"committed", "failed"}, Settled(u, s) PROVE Pending(t)'
    <3>1. t \in launch.todo /\ t # u BY <1>2, <2>1 DEF Settled
    <3>2. op'[t] = op[t] BY <1>0, <2>1, <3>1 DEF Settled
    <3> QED BY <3>1, <3>2 DEF ReservedInv, Pending
  <2>2. CASE t \in launch.todo /\ UNCHANGED op BY <2>2 DEF ReservedInv, Pending
  <2>3. CASE Up /\ UNCHANGED launch BY <1>2, <2>3 DEF LaunchInv
  <2>4. CASE Launching
    <3>1. CASE ReconcileRows BY <1>2, <3>1 DEF ReconcileRows, Pending
    <3>2. CASE \E u \in Takes : DropArtifact(u) BY <2>1, <3>2 DEF DropArtifact
    <3>3. CASE RecoverCommit BY <1>0, <2>1, <3>3 DEF RecoverCommit, LaunchInv
    <3>4. CASE ReleaseReservations
      <4>1. launch'.todo = {} BY <1>0, <3>4 DEF ReleaseReservations, LaunchType
      <4> QED BY <1>2, <4>1
    <3>5. CASE RecoverRound \/ \E u \in Takes : KnownArtifact(u) \/ RecoverRow(u)
      <4>1. UNCHANGED op /\ launch'.todo = launch.todo
        BY <1>0, <3>5 DEF RecoverRound, KnownArtifact, RecoverRow, LaunchType
      <4> QED BY <1>2, <2>2, <4>1
    <3> QED BY <2>4, <3>1, <3>2, <3>3, <3>4, <3>5 DEF Launching
  <2>5. CASE ArtifactFails
    <3>1. \E u \in Takes : Settled(u, "failed") BY <1>0, <2>5 DEF ArtifactFails, LaunchInv
    <3> QED BY <2>1, <3>1
  <2>6. CASE LaunchThrows
    <3>1. UNCHANGED op /\ launch'.todo = launch.todo BY <1>0, <2>6 DEF LaunchThrows, LaunchType
    <3> QED BY <1>2, <2>2, <3>1
  <2>7. CASE Crash BY <1>2, <2>7 DEF Crash
  <2>8. CASE Operate BY <2>3, <2>8, OperateFrame
  <2>9. CASE Learner BY <2>3, <2>9, LearnerFrame
  <2> QED BY <2>3, <2>4, <2>5, <2>6, <2>7, <2>8, <2>9
          DEF Next, Failing, Finalizing, MoveFile, HashFile, FinalizeFails, OperationThrows, RemoveFiles
<1> QED BY <1>1, <1>2 DEF ReservedInv

\* No take comes to be charged more, but one that makes its reservation.
LEMMA ChargedStep ==
    ASSUME JournalInv, ReservedInv, Next, NEW t \in Takes
    PROVE  Charged(t)' <= Charged(t) \/ Reserve(t)
<1> USE DEF JournalInv
<1>0. /\ rec[t].bytes \in Nat /\ Reservation \in Nat
      /\ op[t] \in Operation
  BY JournalSizeAssumption DEF TypeOK, Row
<1>1. CASE SaveRecording(t)
  <2>1. Pending(t) /\ op' = op BY <1>1 DEF SaveRecording, Awaited, ReservedInv, Held
  <2> QED BY <1>0, <2>1 DEF Charged, Accounted, Pending
<1>2. CASE RecoverRow(t)
  <2>1. Pending(t) /\ op' = op BY <1>2 DEF RecoverRow, NextArtifact, ReservedInv
  <2> QED BY <1>0, <2>1 DEF Charged, Accounted, Pending
<1>3. ASSUME rec'[t].bytes = rec[t].bytes, Ready(t)' => Ready(t), ~Reserve(t)
      PROVE  Charged(t)' <= Charged(t)
  <2>1. op'[t].state = op[t].state \/ ~Pending(t)' BY <1>3, OperationsStep
  <2> QED BY <1>0, <1>3, <2>1 DEF Charged, Accounted, Pending
<1> QED BY <1>1, <1>2, <1>3, RowsStep

\* While an admission is under way, nothing it has read is written but by itself.
LEMMA OutsideFrame ==
    ASSUME JournalInv, Next, running.at # "begin", queue # <<>>, ~Operate
    PROVE  \/ running' = Idle
           \/ /\ UNCHANGED <<running, op, rec, quota, round, outbox>>
              /\ queue' # <<>> /\ Head(queue') = Head(queue)
<1> USE DEF JournalInv
<1>0. Up /\ queue \in Seq(Task) BY DEF SelectionInv, TypeOK
<1>1. ASSUME NEW x, queue' = Append(queue, x) PROVE queue' # <<>> /\ Head(queue') = Head(queue)
  <2>1. Len(queue) > 0 /\ Len(queue) \in Nat BY <1>0
  <2>2. queue' \in Seq(Task \union {x}) /\ Len(queue') = Len(queue) + 1 /\ queue'[1] = queue[1]
    BY <1>0, <1>1, <2>1
  <2> QED BY <2>1, <2>2
<1>2. ASSUME NEW t \in Takes, queue' = queue \o CatchTasks(t)
      PROVE  queue' # <<>> /\ Head(queue') = Head(queue)
  <2>1. CatchTasks(t) \in Seq(Task) BY CatchTasksType
  <2>2. queue' \in Seq(Task) /\ Len(queue') = Len(queue) + Len(CatchTasks(t)) /\ queue'[1] = queue[1]
    BY <1>0, <1>2, <2>1
  <2> QED BY <1>0, <2>1, <2>2
<1>3. CASE Learner
  <2>1. UNCHANGED <<running, op, rec, quota, round, outbox>> BY <1>3, LearnerFrame
  <2>2. queue' = queue \/ \E x : queue' = Append(queue, x)
    BY <1>3 DEF Learner, StartRecording, StopRecording, LeaveScreen, RequestFeedback, EntryEnds,
                DiscardTake, OpenScreen, StartRemoval, ChangeQuota, Ask
  <2> QED BY <1>1, <2>1, <2>2
<1>4. CASE \E t \in Takes : Finalizing(t)
  BY <1>1, <1>4 DEF Finalizing, MoveFile, HashFile
<1>5. CASE \E t \in Takes : FinalizeFails(t) BY <1>2, <1>5 DEF FinalizeFails
<1>6. CASE \E r \in Rounds : RemoveFiles(r) BY <1>6 DEF RemoveFiles
<1>7. ~Launching BY <1>0, LaunchingFrame
<1>8. ~ArtifactFails /\ ~LaunchThrows
  BY <1>0 DEF ArtifactFails, LaunchThrows, NextArtifact, Up
<1>9. CASE OperationThrows
  BY <1>9 DEF OperationThrows, AfterFailure, EndWith
<1>10. CASE Crash BY <1>10 DEF Crash
<1> QED BY <1>3, <1>4, <1>5, <1>6, <1>7, <1>8, <1>9, <1>10 DEF Next, Failing

\* Every other operation ends in one step.
LEMMA OtherOperations ==
    ASSUME Operate
    PROVE  \/ running' = Idle
           \/ SelectVictims
           \/ \E t \in Takes : Unlink(t) \/ MarkEvicted(t)
BY DEF Operate, Admitting, TakeOperation, Reserve, RecordArtifact, SaveRecording, SettleOperation,
       UpsertOutbox, CloseEntry, DeleteRecording, CreateRound, UpdateRoundStatus, WriteSettings,
       QueueServerDeletion, DeleteRun, EndWith

LEMMA RunningOutside == ASSUME Next, ~Operate PROVE UNCHANGED running \/ running' = Idle
<1>1. OperationThrows => running' = Idle BY DEF OperationThrows, AfterFailure, EndWith
<1> QED
  BY <1>1
  DEF Next, Learner, StartRecording, StopRecording, LeaveScreen, RequestFeedback, EntryEnds,
      DiscardTake, OpenScreen, StartRemoval, ChangeQuota, Ask, Finalizing, MoveFile, HashFile,
      RemoveFiles, Launching, ReconcileRows, DropArtifact, KnownArtifact, RecoverRow,
      RecoverRound, RecoverCommit, ReleaseReservations, Failing, ArtifactFails, LaunchThrows,
      FinalizeFails, Crash

LEMMA RoomFrame ==
    ASSUME TypeOK, TypeOK', RoomInv, running.at # "begin", UNCHANGED quota,
           queue' # <<>>, Head(queue') = Head(queue),
           \A t \in Takes : LeftOf(t, Doomed)' <= LeftOf(t, Doomed),
           running'.at = "write" => running'.victims = {}
    PROVE  RoomInv'
<1> DEFINE f == [t \in Takes |-> LeftOf(t, Doomed)]
           g == [t \in Takes |-> LeftOf(t, Doomed)']
<1>1. \A t \in Takes : g[t] \in Nat /\ f[t] \in Nat /\ g[t] <= f[t]
  <2>1. \A t \in Takes : LeftOf(t, Doomed) \in Nat BY AccountedType
  <2>2. \A t \in Takes : LeftOf(t, Doomed)' \in Nat
    <3>1. \A t \in Takes : rec'[t].bytes \in Nat BY DEF TypeOK, Row
    <3> QED BY <3>1, JournalSizeAssumption DEF LeftOf, Ready
  <2> QED BY <2>1, <2>2
<1>2. IsFiniteSet(Takes) /\ Takes \subseteq Takes BY JournalNameAssumption
<1>3. Head(queue) \in Task BY HeadTask DEF RoomInv
<1> HIDE DEF f, g
<1>4. SumFunctionOnSet(g, Takes) <= SumFunctionOnSet(f, Takes) BY <1>1, <1>2, SumMonotone
<1>5. SumFunctionOnSet(g, Takes) \in Nat /\ SumFunctionOnSet(f, Takes) \in Nat BY <1>1, <1>2, SumNat
<1>6. /\ SumFunctionOnSet(f, Takes) + Need(Head(queue)) <= Limit(Head(queue))
      /\ Head(queue).kind \in Admission
  BY DEF RoomInv, f
<1>7. Need(Head(queue)) \in Nat /\ Limit(Head(queue)) \in Nat BY <1>3, LimitType
<1>8. SumFunctionOnSet(g, Takes) + Need(Head(queue)) <= Limit(Head(queue))
  BY <1>4, <1>5, <1>6, <1>7
<1>9. Limit(Head(queue))' = Limit(Head(queue)) /\ Need(Head(queue))' = Need(Head(queue))
  BY DEF Limit, Need
<1>10. SumFunctionOnSet(g, Takes) + Need(Head(queue))' <= Limit(Head(queue))'
  BY <1>8, <1>9
<1> QED
  BY <1>6, <1>10 DEF RoomInv, g

LEMMA RoomSelected ==
    ASSUME JournalInv, SelectVictims
    PROVE  RoomInv'
<1> USE DEF JournalInv
<1> DEFINE task == Head(queue)
           chosen == IF Fits(task) THEN {} ELSE Victims(Wanted(task), Limit(task))
<1>1. /\ queue # <<>> /\ Head(queue).kind \in Admission
      /\ Fits(task) \/ chosen # {}
      /\ UNCHANGED <<queue, op, rec, quota>>
      /\ running' = IF Fits(task) THEN [Idle EXCEPT !.at = "write"]
                    ELSE [Idle EXCEPT !.at = "unlink", !.victims = chosen]
  BY DEF SelectVictims, Serve
<1>2. task \in Task BY <1>1, HeadTask
<1>3. Doomed' = chosen /\ (running'.at = "write" => running'.victims = {})
  BY <1>1 DEF Doomed, Idle
<1>4. /\ chosen \in SUBSET Takes /\ \A t \in chosen : Ready(t)
      /\ Wanted(task) <= Limit(task) + StoredBytes(chosen)
  <2>1. CASE Fits(task)
    <3>1. StoredBytes({}) \in Nat BY StoredSum
    <3>2. Wanted(task) \in Nat /\ Limit(task) \in Nat BY <1>2, LimitType
    <3>3. chosen = {} BY <2>1
    <3>4. Wanted(task) <= Limit(task) BY <2>1 DEF Fits
    <3> HIDE DEF task, chosen
    <3> QED BY <3>1, <3>2, <3>3, <3>4
  <2>2. CASE ~Fits(task)
    <3>1. chosen = Victims(Wanted(task), Limit(task)) /\ chosen # {} BY <1>1, <2>2
    <3> HIDE DEF task, chosen
    <3> QED BY <1>2, <3>1, SelectedRoom
  <2> QED BY <2>1, <2>2
<1> HIDE DEF task, chosen
<1>5. SumFunctionOnSet([t \in Takes |-> LeftOf(t, chosen)], Takes) + Need(task) <= Limit(task)
  BY <1>2, <1>4, ChosenRoom
<1>6. \A t \in Takes : LeftOf(t, Doomed)' = LeftOf(t, chosen)
  BY <1>1, <1>3 DEF LeftOf, Pending, Ready
<1>7. [t \in Takes |-> LeftOf(t, Doomed)'] = [t \in Takes |-> LeftOf(t, chosen)]
  BY <1>6
<1>8. task' = task /\ Limit(task') = Limit(task) /\ Limit(task)' = Limit(task) /\ Need(task)' = Need(task)
  BY <1>1 DEF Limit, Need, task
<1>9. SumFunctionOnSet([t \in Takes |-> LeftOf(t, Doomed)'], Takes) + Need(task)' <= Limit(task)'
  BY <1>5, <1>7, <1>8
<1> QED
  BY <1>1, <1>3, <1>9 DEF RoomInv, task

LEMMA RoomStep == ASSUME JournalInv, TypeOK', RoomInv, Next PROVE RoomInv'
<1> USE DEF JournalInv
<1>1. CASE SelectVictims BY <1>1, RoomSelected
<1>2. CASE running' = Idle BY <1>2 DEF Idle, RoomInv
<1>3. CASE \E t \in Takes : Unlink(t)
  <2>1. PICK t \in Takes : Unlink(t) BY <1>3
  <2>2. /\ UNCHANGED <<queue, op, rec, quota>> /\ queue # <<>>
        /\ running.at = "unlink" /\ running'.at = "mark" /\ Doomed' = Doomed
    BY <2>1 DEF Unlink, Serve, Doomed
  <2>3. \A u \in Takes : LeftOf(u, Doomed)' <= LeftOf(u, Doomed)
    <3> TAKE u \in Takes
    <3>1. LeftOf(u, Doomed)' = LeftOf(u, Doomed) BY <2>2 DEF LeftOf, Pending, Ready
    <3> QED BY <3>1, AccountedType
  <2> QED BY <2>2, <2>3, RoomFrame
<1>4. CASE \E t \in Takes : MarkEvicted(t)
  <2>1. PICK t \in Takes : MarkEvicted(t) BY <1>4
  <2>2. /\ UNCHANGED <<queue, op, quota>> /\ queue # <<>> /\ running.at = "mark" /\ t = running.take
        /\ running' = [running EXCEPT !.at = IF running.victims = {} THEN "write" ELSE "unlink"]
    BY <2>1 DEF MarkEvicted, Serve
  <2>3. /\ Doomed = running.victims \union {t} /\ Doomed' = running.victims
        /\ running'.at = "write" => running'.victims = {}
    BY <2>2 DEF Doomed, TypeOK
  <2>4. \A u \in Takes : LeftOf(u, Doomed)' <= LeftOf(u, Doomed)
    <3> TAKE u \in Takes
    <3>1. rec[u].bytes \in Nat /\ Reservation \in Nat BY JournalSizeAssumption DEF TypeOK, Row
    <3>2. rec \in [Takes -> Row] /\ rec[t] \in Row BY DEF TypeOK
    <3>3. CASE u # t
      <4>1. rec'[u] = rec[u] BY <2>1, <3>2, <3>3 DEF MarkEvicted
      <4> QED BY <2>2, <2>3, <3>1, <3>3, <4>1 DEF LeftOf, Pending, Ready
    <3>4. CASE u = t
      <4>1. ~Ready(t)'
        <5>1. rec'[t] = [rec[t] EXCEPT !.media = IF rec[t].media = "ready" THEN "evicted" ELSE rec[t].media]
          BY <2>1, <3>2 DEF MarkEvicted
        <5>2. rec'[t].media # "ready" BY <3>2, <5>1 DEF Row
        <5> QED BY <5>2 DEF Ready
      <4> QED BY <2>2, <2>3, <3>1, <3>4, <4>1 DEF LeftOf, Pending
    <3> QED BY <3>3, <3>4
  <2> QED BY <2>2, <2>3, <2>4, RoomFrame
<1>5. CASE ~Operate
  <2> SUFFICES ASSUME running.at # "begin", running' # Idle PROVE RoomInv'
    BY <1>2, <1>5, RunningOutside DEF RoomInv
  <2>1. queue # <<>> BY DEF RoomInv
  <2>2. /\ UNCHANGED <<running, op, rec, quota>>
        /\ queue' # <<>> /\ Head(queue') = Head(queue)
    BY <1>5, <2>1, OutsideFrame
  <2>3. \A u \in Takes : LeftOf(u, Doomed)' <= LeftOf(u, Doomed)
    <3> TAKE u \in Takes
    <3>1. LeftOf(u, Doomed)' = LeftOf(u, Doomed) BY <2>2 DEF LeftOf, Pending, Ready, Doomed
    <3> QED BY <3>1, AccountedType
  <2> QED BY <2>2, <2>3, RoomFrame DEF RoomInv
<1> QED BY <1>1, <1>2, <1>3, <1>4, <1>5, OtherOperations

\* What is admitted fits, with all that the takes account for.
LEMMA AdmissionStep ==
    ASSUME JournalInv, TypeOK', RoomInv, (\E t \in Takes : Reserve(t)) \/ WriteSettings
    PROVE  Total' <= QuotaBytes[quota']
<1> USE DEF JournalInv
<1> DEFINE left == [t \in Takes |-> LeftOf(t, Doomed)]
<1>0. IsFiniteSet(Takes) /\ Reservation \in Nat BY JournalNameAssumption, JournalSizeAssumption
<1>1. \A t \in Takes : left[t] \in Nat BY AccountedType
<1>2. SumFunctionOnSet(left, Takes) \in Nat
  <2> HIDE DEF left
  <2> QED BY <1>0, <1>1, SumNat
<1>3. ASSUME running.at = "write"
      PROVE  /\ \A t \in Takes : left[t] = Accounted(t)
             /\ SumFunctionOnSet(left, Takes) + Need(Head(queue)) <= Limit(Head(queue))
             /\ Head(queue) \in Task
  BY <1>3, AccountedType, HeadTask DEF RoomInv, Doomed
<1>4. CASE \E t \in Takes : Reserve(t)
  <2>1. PICK t \in Takes : Reserve(t) BY <1>4
  <2>2. /\ running.at = "write" /\ Head(queue).kind = "reserve" /\ UNCHANGED <<rec, quota>>
        /\ op'[t].state = "pending" /\ \A u \in Takes \ {t} : op'[u] = op[u]
    BY <2>1 DEF Reserve, Serve, TypeOK
  <2> DEFINE next == [u \in Takes |-> Accounted(u)']
  <2>3. next[t] = Reservation /\ \A u \in Takes \ {t} : next[u] = left[u]
    <3>1. next[t] = Reservation BY <2>2 DEF Accounted
    <3>2. \A u \in Takes \ {t} : Accounted(u)' = Accounted(u) BY <2>2 DEF Accounted, Ready
    <3> QED BY <1>3, <2>2, <3>1, <3>2
  <2>4. SumFunctionOnSet(left, Takes) + Reservation <= QuotaBytes[quota]
    BY <1>3, <2>2 DEF Need, Limit
  <2>5. QuotaBytes[quota] \in Nat BY JournalSizeAssumption DEF TypeOK
  <2> HIDE DEF left, next
  <2>6. /\ \A u \in Takes : next[u] \in Nat
        /\ \A u \in Takes \ {t} : next[u] \in Nat /\ next[u] <= left[u]
    BY <1>0, <1>1, <2>3
  <2>7. SumFunctionOnSet(next, Takes) = next[t] + SumFunctionOnSet(next, Takes \ {t})
    BY <1>0, <2>6, SumRemove
  <2>8. SumFunctionOnSet(next, Takes \ {t}) <= SumFunctionOnSet(left, Takes)
    BY <1>0, <1>1, <2>6, SumMonotone
  <2>9. SumFunctionOnSet(next, Takes \ {t}) \in Nat
    BY <1>0, <2>6, SumNat, FS_Subset
  <2>10. SumFunctionOnSet(next, Takes) <= QuotaBytes[quota']
    BY <1>0, <1>2, <2>2, <2>3, <2>4, <2>5, <2>7, <2>8, <2>9
  <2> QED BY <2>10 DEF Total, next
<1>5. CASE WriteSettings
  <2>1. /\ running.at = "write" /\ Head(queue).kind = "settings" /\ quota' = Head(queue).to
        /\ UNCHANGED <<rec, op>>
    BY <1>5 DEF WriteSettings, Serve
  <2>2. SumFunctionOnSet(left, Takes) <= QuotaBytes[quota']
    <3>1. SumFunctionOnSet(left, Takes) + Need(Head(queue)) <= QuotaBytes[quota'] BY <1>3, <2>1 DEF Limit
    <3>2. Need(Head(queue)) = 0 BY <2>1 DEF Need
    <3> HIDE DEF left
    <3> QED BY <1>2, <3>1, <3>2
  <2>3. \A t \in Takes : Accounted(t)' = left[t]
    <3>1. \A t \in Takes : Accounted(t)' = Accounted(t) BY <2>1 DEF Accounted, Ready
    <3> QED BY <1>3, <2>1, <3>1
  <2>4. [t \in Takes |-> Accounted(t)'] = left BY <2>3
  <2> QED BY <2>2, <2>4 DEF Total
<1> QED BY <1>4, <1>5

LEMMA QuotaStep ==
    ASSUME JournalInv, TypeOK', ReservedInv, RoomInv, QuotaKept, Next
    PROVE  QuotaKept'
<1> USE DEF JournalInv
<1>1. CASE (\E t \in Takes : Reserve(t)) \/ WriteSettings
  <2> DEFINE charged == [t \in Takes |-> Charged(t)']
             next == [t \in Takes |-> Accounted(t)']
  <2>1. \A t \in Takes : charged[t] \in Nat /\ next[t] \in Nat /\ charged[t] <= next[t]
    BY ChargedNext
  <2>2. SumFunctionOnSet(next, Takes) <= QuotaBytes[quota'] BY <1>1, AdmissionStep DEF Total
  <2>3. QuotaBytes[quota'] \in Nat BY JournalSizeAssumption DEF TypeOK
  <2>4. IsFiniteSet(Takes) BY JournalNameAssumption
  <2> HIDE DEF charged, next
  <2>5. SumFunctionOnSet(charged, Takes) <= SumFunctionOnSet(next, Takes) BY <2>1, <2>4, SumMonotone
  <2>6. SumFunctionOnSet(charged, Takes) \in Nat /\ SumFunctionOnSet(next, Takes) \in Nat
    BY <2>1, <2>4, SumNat
  <2>7. SumFunctionOnSet(charged, Takes) <= QuotaBytes[quota'] BY <2>2, <2>3, <2>5, <2>6
  <2> QED BY <2>7 DEF QuotaKept, charged
<1>2. CASE ~WriteSettings /\ \A t \in Takes : ~Reserve(t)
  <2>1. UNCHANGED quota
    BY <1>2, OperateFrame
    DEF Next, Operate, Admitting, SelectVictims, Unlink, MarkEvicted, TakeOperation, RecordArtifact,
        SaveRecording, SettleOperation, UpsertOutbox, CloseEntry, DeleteRecording, CreateRound,
        UpdateRoundStatus, QueueServerDeletion, DeleteRun, Learner, StartRecording, StopRecording,
        LeaveScreen, RequestFeedback, EntryEnds, DiscardTake, OpenScreen, StartRemoval, ChangeQuota, Ask,
        Finalizing, MoveFile, HashFile, RemoveFiles, Launching, ReconcileRows, DropArtifact,
        KnownArtifact, RecoverRow, RecoverRound, RecoverCommit, ReleaseReservations, Failing,
        OperationThrows, ArtifactFails, LaunchThrows, FinalizeFails, Crash
  <2>2. \A t \in Takes : Charged(t)' <= Charged(t) BY <1>2, ChargedStep
  <2> QED BY <2>1, <2>2, QuotaFrame
<1> QED BY <1>1, <1>2

QuotaInv == ReservedInv /\ RoomInv /\ QuotaKept

LEMMA InitQuota == Init => QuotaInv
<1> SUFFICES ASSUME Init PROVE QuotaInv OBVIOUS
<1>0. IsFiniteSet(Takes) /\ Reservation \in Nat /\ QuotaBytes[quota] \in Nat /\ 0 \in Nat
  BY JournalNameAssumption, JournalSizeAssumption DEF Init
<1>1. ReservedInv BY <1>0 DEF Init, ReservedInv, Held
<1>2. RoomInv BY DEF Init, RoomInv, Idle
<1>3. \A t \in Takes : Charged(t) = 0 BY <1>0 DEF Init, Charged, Accounted, Ready
<1>4. [t \in Takes |-> Charged(t)] = [t \in Takes |-> 0] BY <1>3
<1>5. SumFunctionOnSet([t \in Takes |-> 0], Takes) = 0 * Cardinality(Takes) BY <1>0, SumConstant
<1>6. 0 * Cardinality(Takes) = 0 BY <1>0, FS_CardinalityType
<1>7. QuotaKept BY <1>0, <1>4, <1>5, <1>6 DEF QuotaKept
<1> QED BY <1>1, <1>2, <1>7 DEF QuotaInv

LEMMA QuotaInvStep == JournalInv /\ QuotaInv /\ [Next]_vars => QuotaInv'
<1> SUFFICES ASSUME JournalInv, QuotaInv, [Next]_vars PROVE QuotaInv' OBVIOUS
<1>1. CASE Next
  <2>1. TypeOK' BY JournalStep DEF JournalInv
  <2> QED BY <1>1, <2>1, ReservedStep, RoomStep, QuotaStep DEF QuotaInv
<1>2. CASE UNCHANGED vars
  BY <1>2 DEF QuotaInv, ReservedInv, Pending, RoomInv, LeftOf, Doomed, Ready, Need, Limit, QuotaKept, Charged, Accounted
<1> QED BY <1>1, <1>2

\* The takes on the phone and what is reserved for captures stay within the quota of the
\* settings, whatever is recorded, evicted, recovered or lowered at the same time, but for
\* the bytes by which single takes outgrew their reservation.
THEOREM QuotaIsKept == SafeSpec => []QuotaKept
<1>1. QuotaInv => QuotaKept BY DEF QuotaInv
<1> QED BY <1>1, InitQuota, QuotaInvStep, JournalInvariant, PTL DEF SafeSpec

\* Each admission finds room for all of it, those bytes included, when it is made,
\* although it looked at the takes before it evicted the first of them.
THEOREM AdmissionsAlwaysFit == SafeSpec => AdmissionsFit
<1>1. ASSUME JournalInv, QuotaInv, [Next]_vars
      PROVE  [(\E t \in Takes : Reserve(t)) \/ WriteSettings => Total' <= QuotaBytes[quota']]_vars
  <2> SUFFICES ASSUME Next, (\E t \in Takes : Reserve(t)) \/ WriteSettings
               PROVE  Total' <= QuotaBytes[quota']
    BY <1>1
  <2>1. TypeOK' BY <1>1, JournalStep DEF JournalInv
  <2> QED BY <1>1, <2>1, AdmissionStep DEF QuotaInv
<1> QED BY <1>1, InitQuota, QuotaInvStep, JournalInvariant, PTL DEF SafeSpec, AdmissionsFit

-----------------------------------------------------------------------------
(* The order of eviction                                                   *)

\* The capture has given its take an order, and no row has it yet.
Named == {"artifact", "journal", "save"}

\* createdOrder tells the takes apart, from the moment the journal or the row may name it.
OrderInv ==
    /\ \A t \in Takes : order[t] <= clock
    /\ \A t \in Takes : Stored(t) \/ capture[t] \in Named => order[t] # 0
    /\ \A t, u \in Takes : order[t] = order[u] /\ order[t] # 0 => t = u

\* What is still to be evicted was selected with everything older, it is needed to make
\* room, and the one whose row is written next is older than those behind it.
TurnInv == running.at \in {"unlink", "mark"} =>
    /\ \A t \in running.victims :
          /\ Older(t) \subseteq Doomed
          /\ Wanted(Head(queue)) > Limit(Head(queue)) + StoredBytes(Older(t))
    /\ running.at = "mark" => /\ Evictable(running.take)
                              /\ \A t \in running.victims : order[running.take] < order[t]

LEMMA OrderStep == ASSUME JournalInv, OrderInv, Next PROVE OrderInv'
<1> USE DEF JournalInv
<1>0. order \in [Takes -> Nat] /\ clock \in Nat /\ capture \in [Takes -> Stages] BY DEF TypeOK
<1>1. ASSUME NEW t \in Takes, capture'[t] \in Named PROVE capture[t] \in Named \/ HashFile(t)
  <2>1. CASE UNCHANGED capture BY <1>1, <2>1
  <2>2. CASE \E u, s : capture' = [capture EXCEPT ![u] = s] /\ (capture[u] \in Named \/ s \notin Named)
    BY <1>0, <1>1, <2>2
  <2>3. CASE Operate
    <3>1. CASE UNCHANGED panels BY <2>1, <3>1
    <3>2. CASE \E u \in Takes : Reserve(u)
      <4>1. \E u \in Takes : \E s \in {"recording", "mark"} : capture' = [capture EXCEPT ![u] = s]
        BY <3>2 DEF Reserve, Enter
      <4> QED BY <2>2, <4>1 DEF Named
    <3>3. CASE \E u \in Takes : RecordArtifact(u) BY <2>2, <3>3 DEF RecordArtifact, Awaited, Enter, Named
    <3>4. CASE \E u \in Takes : SaveRecording(u) BY <2>2, <3>4 DEF SaveRecording, Awaited, Enter, Named
    <3>5. CASE \E u \in Takes : SettleOperation(u)
      <4>1. \E u \in Takes : \E s \in {"done", "failed"} : capture' = [capture EXCEPT ![u] = s]
        BY <3>5 DEF SettleOperation, Enter
      <4> QED BY <2>2, <4>1 DEF Named
    <3>6. CASE CreateRound BY <2>1, <2>2, <3>6 DEF CreateRound, Awaited, Enter, Named
    <3>7. CASE UpdateRoundStatus
      <4>1. UNCHANGED capture
            \/ \E u \in Takes : \E s \in {"recording", "commit"} : capture' = [capture EXCEPT ![u] = s]
        BY <3>7 DEF UpdateRoundStatus, Enter
      <4> QED BY <2>1, <2>2, <4>1 DEF Named
    <3> QED BY <2>3, <3>1, <3>2, <3>3, <3>4, <3>5, <3>6, <3>7
            DEF Operate, Admitting, TakeOperation, SelectVictims, Unlink, MarkEvicted, UpsertOutbox,
                CloseEntry, DeleteRecording, WriteSettings, QueueServerDeletion, DeleteRun
  <2>4. CASE Learner
    <3>1. UNCHANGED capture
          \/ \E u \in Takes : \E s \in {"reserve", "stopped", "left"} : capture' = [capture EXCEPT ![u] = s]
      BY <2>4
      DEF Learner, StartRecording, StopRecording, LeaveScreen, RequestFeedback, EntryEnds, DiscardTake,
          OpenScreen, StartRemoval, ChangeQuota, Ask, Enter
    <3> QED BY <2>1, <2>2, <3>1 DEF Named
  <2>5. CASE \E u \in Takes : HashFile(u) BY <1>0, <1>1, <2>5 DEF HashFile, Enter, Named
  <2>6. CASE \E u \in Takes : MoveFile(u) \/ FinalizeFails(u)
    <3>1. \E u \in Takes : \E s \in {"moved", "giveup"} : capture' = [capture EXCEPT ![u] = s]
      BY <2>6 DEF MoveFile, FinalizeFails, Enter
    <3> QED BY <2>2, <3>1 DEF Named
  <2>7. CASE \E r \in Rounds : RemoveFiles(r) BY <2>1, <2>7 DEF RemoveFiles
  <2>8. CASE Launching BY <2>1, <2>8, LaunchingFrame
  <2>9. CASE ArtifactFails \/ LaunchThrows BY <2>1, <2>9 DEF ArtifactFails, LaunchThrows
  <2>10. CASE OperationThrows
    <3>1. ASSUME NEW u, AfterFailure(u)
          PROVE  \E s \in {"failed", "left", "giveup"} : capture' = [capture EXCEPT ![u] = s]
      BY <3>1, Zenon DEF AfterFailure, Enter, Named
    <3>2. \A s \in {"failed", "left", "giveup"} : s \notin Named BY DEF Named
    <3> QED BY <2>1, <2>2, <2>10, <3>1, <3>2 DEF OperationThrows
  <2>11. CASE Crash BY <1>1, <2>11 DEF Crash, Named
  <2> QED BY <2>3, <2>4, <2>5, <2>6, <2>7, <2>8, <2>9, <2>10, <2>11 DEF Next, Finalizing, Failing
<1>2. CASE \E t \in Takes : HashFile(t) \/ RecoverRow(t)
  <2>1. PICK t \in Takes : HashFile(t) \/ RecoverRow(t) BY <1>2
  <2>2. /\ clock' = clock + 1 /\ order'[t] = clock + 1
        /\ \A u \in Takes \ {t} : order'[u] = order[u]
    BY <1>0, <2>1 DEF HashFile, RecoverRow
  <2>3. \A u \in Takes : order'[u] <= clock' BY <1>0, <2>2 DEF OrderInv
  <2>4. ASSUME NEW u \in Takes, NEW v \in Takes, order'[u] = order'[v], order'[u] # 0 PROVE u = v
    BY <1>0, <2>2, <2>4 DEF OrderInv
  <2>5. ASSUME NEW u \in Takes, Stored(u)' \/ capture'[u] \in Named PROVE order'[u] # 0
    <3>1. CASE u = t BY <1>0, <2>2, <3>1
    <3>2. CASE u # t
      <4>1. rec'[u] = rec[u] /\ capture'[u] = capture[u]
        BY <1>0, <2>1, <3>2 DEF HashFile, Enter, RecoverRow, TypeOK
      <4> QED BY <2>2, <2>5, <3>2, <4>1 DEF OrderInv, Stored
    <3> QED BY <3>1, <3>2
  <2> QED BY <2>3, <2>4, <2>5 DEF OrderInv
<1>3. CASE ~\E t \in Takes : HashFile(t) \/ RecoverRow(t)
  <2>1. UNCHANGED <<order, clock>>
    BY <1>3
    DEF Next, Operate, Admitting, SelectVictims, Unlink, MarkEvicted, TakeOperation, Reserve,
        RecordArtifact, SaveRecording, SettleOperation, UpsertOutbox, CloseEntry, DeleteRecording,
        CreateRound, UpdateRoundStatus, WriteSettings, QueueServerDeletion, DeleteRun, Learner,
        StartRecording, StopRecording, LeaveScreen, RequestFeedback, EntryEnds, DiscardTake, OpenScreen,
        StartRemoval, ChangeQuota, Ask, Finalizing, MoveFile, RemoveFiles, Launching, ReconcileRows,
        DropArtifact, KnownArtifact, RecoverRound, RecoverCommit, ReleaseReservations, Failing,
        OperationThrows, ArtifactFails, LaunchThrows, FinalizeFails, Crash
  <2>2. ASSUME NEW t \in Takes, Stored(t)' \/ capture'[t] \in Named PROVE order'[t] # 0
    <3>1. CASE capture'[t] \in Named BY <1>1, <1>3, <2>1, <3>1 DEF OrderInv
    <3>2. CASE Stored(t)'
      <4>1. Stored(t) \/ SaveRecording(t) BY <1>3, <3>2, RowsStep
      <4> QED BY <2>1, <4>1 DEF SaveRecording, Awaited, OrderInv, Named
    <3> QED BY <2>2, <3>1, <3>2
  <2> QED BY <2>1, <2>2 DEF OrderInv
<1> QED BY <1>2, <1>3

\* selectEvictions takes everything older than what it takes.
LEMMA ChosenOldest ==
    ASSUME TypeOK, NEW w \in Nat, NEW l \in Nat, NEW t \in Victims(w, l)
    PROVE  /\ t \in Takes /\ Older(t) \subseteq Victims(w, l)
           /\ w > l + StoredBytes(Older(t))
<1> DEFINE chosen == {u \in Takes : Evictable(u) /\ w > l + StoredBytes(Older(u))}
<1>1. Victims(w, l) = chosen
  BY DEF Victims
<1>2. t \in Takes /\ Evictable(t) /\ w > l + StoredBytes(Older(t))
  BY <1>1
<1>3. ASSUME NEW u \in Older(t) PROVE u \in chosen
  <2>1. u \in Takes /\ Evictable(u) /\ Older(u) \subseteq Older(t)
    <3>1. order \in [Takes -> Nat] BY DEF TypeOK
    <3> QED BY <1>2, <1>3, <3>1 DEF Older
  <2>2. IsFiniteSet(Older(t)) /\ Older(t) \in SUBSET Takes /\ Older(u) \in SUBSET Takes
    BY JournalNameAssumption, FS_Subset DEF Older
  <2>3. StoredBytes(Older(u)) \in Nat /\ StoredBytes(Older(t)) \in Nat BY <2>2, StoredSum
  <2>4. StoredBytes(Older(u)) <= StoredBytes(Older(t))
    <3> DEFINE g == [v \in Takes |-> rec[v].bytes]
    <3>1. \A v \in Takes : g[v] \in Nat BY DEF TypeOK, Row
    <3> HIDE DEF g
    <3>2. SumFunctionOnSet(g, Older(u)) <= SumFunctionOnSet(g, Older(t))
      <4>1. (\A v \in Older(u) : g[v] \in Nat /\ g[v] <= g[v]) /\ \A v \in Older(t) : g[v] \in Nat
        BY <2>2, <3>1
      <4> QED BY <2>1, <2>2, <4>1, SumMonotone
    <3> QED BY <3>2 DEF StoredBytes, g
  <2> QED BY <1>2, <2>1, <2>3, <2>4
<1> QED BY <1>1, <1>2, <1>3

LEMMA OlderType == ASSUME NEW t \in Takes PROVE Older(t) \in SUBSET Takes /\ IsFiniteSet(Older(t))
BY JournalNameAssumption, FS_Subset DEF Older

\* Outside the admission nothing changes what it is about, nor the order of stored takes.
LEMMA TurnFrame ==
    ASSUME JournalInv, TurnInv, UNCHANGED <<op, rec, quota, round, outbox, running>>,
           Head(queue') = Head(queue), \A t \in Takes : Stored(t) => order'[t] = order[t]
    PROVE  TurnInv'
<1> USE DEF JournalInv
<1> SUFFICES ASSUME running.at \in {"unlink", "mark"} PROVE TurnInv'
  BY DEF TurnInv
<1>1. \A t \in Takes : Evictable(t)' = Evictable(t) /\ (Evictable(t) => Stored(t))
  BY DEF Evictable, Protected, Ready, Stored
<1>2. \A t \in running.victims : t \in Takes /\ Evictable(t)
  BY DEF SelectionInv, TypeOK
<1>3. \A t \in running.victims : Older(t)' = Older(t)
  BY <1>1, <1>2 DEF Older
<1>4. ActualBytes' = ActualBytes /\ ReservedBytes' = ReservedBytes
  BY DEF ActualBytes, ReservedBytes, StoredBytes, Ready
<1>5. Wanted(Head(queue))' = Wanted(Head(queue)) /\ Limit(Head(queue))' = Limit(Head(queue))
  BY <1>4 DEF Wanted, Limit
<1>6. Doomed' = Doomed
  BY DEF Doomed
<1>7. ASSUME NEW t \in running.victims
      PROVE  /\ Older(t)' \subseteq Doomed'
             /\ Wanted(Head(queue))' > Limit(Head(queue))' + StoredBytes(Older(t))'
  <2>1. StoredBytes(Older(t))' = StoredBytes(Older(t)) BY <1>3 DEF StoredBytes
  <2> QED BY <1>3, <1>5, <1>6, <2>1 DEF TurnInv
<1>8. ASSUME running.at = "mark"
      PROVE  Evictable(running.take)' /\ \A t \in running.victims : order'[running.take] < order'[t]
  <2>1. running.take \in Takes BY <1>8 DEF SelectionInv
  <2>2. Evictable(running.take) /\ \A t \in running.victims : order[running.take] < order[t]
    BY <1>8 DEF TurnInv
  <2> QED BY <1>1, <1>2, <2>1, <2>2
<1> QED BY <1>7, <1>8 DEF TurnInv

LEMMA TurnSelected == ASSUME JournalInv, SelectVictims PROVE TurnInv'
<1> USE DEF JournalInv
<1> SUFFICES ASSUME ~Fits(Head(queue)) PROVE TurnInv'
  BY DEF SelectVictims, Idle, TurnInv
<1> DEFINE chosen == Victims(Wanted(Head(queue)), Limit(Head(queue)))
<1>1. /\ queue # <<>> /\ UNCHANGED <<queue, op, rec, quota, round, outbox, order>>
      /\ running' = [Idle EXCEPT !.at = "unlink", !.victims = chosen]
  BY DEF SelectVictims, Serve
<1>2. running'.at = "unlink" /\ running'.victims = chosen /\ Doomed' = chosen
  BY <1>1 DEF Idle, Doomed
<1>3. Wanted(Head(queue)) \in Nat /\ Limit(Head(queue)) \in Nat
  BY <1>1, HeadTask, LimitType
<1>4. ASSUME NEW t \in chosen
      PROVE  /\ Older(t)' \subseteq Doomed'
             /\ Wanted(Head(queue))' > Limit(Head(queue))' + StoredBytes(Older(t))'
  <2>1. /\ t \in Takes /\ Older(t) \subseteq chosen
        /\ Wanted(Head(queue)) > Limit(Head(queue)) + StoredBytes(Older(t))
    BY <1>3, ChosenOldest
  <2>2. Older(t)' = Older(t) BY <1>1 DEF Older, Evictable, Ready, Protected
  <2>3. StoredBytes(Older(t))' = StoredBytes(Older(t)) BY <1>1, <2>2 DEF StoredBytes
  <2>4. ActualBytes' = ActualBytes /\ ReservedBytes' = ReservedBytes
    BY <1>1 DEF ActualBytes, ReservedBytes, StoredBytes, Ready
  <2>5. Wanted(Head(queue))' = Wanted(Head(queue)) /\ Limit(Head(queue))' = Limit(Head(queue))
    BY <1>1, <2>4 DEF Wanted, Limit
  <2> QED BY <1>2, <2>1, <2>2, <2>3, <2>5
<1> QED BY <1>2, <1>4 DEF TurnInv

LEMMA TurnUnlinked == ASSUME JournalInv, OrderInv, TurnInv, NEW t \in Takes, Unlink(t) PROVE TurnInv'
<1> USE DEF JournalInv
<1>1. /\ running.at = "unlink" /\ t \in running.victims /\ \A u \in running.victims : order[t] <= order[u]
      /\ UNCHANGED <<queue, op, rec, quota, round, outbox, order>>
      /\ running' = [at |-> "mark", victims |-> running.victims \ {t}, take |-> t]
  BY DEF Unlink, Serve
<1>2. Doomed' = Doomed
  BY <1>1 DEF Doomed
<1>3. \A u \in running.victims : u \in Takes /\ Evictable(u) /\ Stored(u)
  BY <1>1 DEF SelectionInv, TypeOK, Evictable, Ready, Stored
<1>4. \A u \in running.victims \ {t} : order[t] < order[u]
  <2>1. order \in [Takes -> Nat] BY DEF TypeOK
  <2> QED BY <1>1, <1>3, <2>1 DEF OrderInv
<1>5. Evictable(t)'
  BY <1>1, <1>3 DEF Evictable, Ready, Protected
<1>6. ActualBytes' = ActualBytes /\ ReservedBytes' = ReservedBytes
  BY <1>1 DEF ActualBytes, ReservedBytes, StoredBytes, Ready
<1>7. Wanted(Head(queue))' = Wanted(Head(queue)) /\ Limit(Head(queue))' = Limit(Head(queue))
  BY <1>1, <1>6 DEF Wanted, Limit
<1>8. ASSUME NEW u \in running.victims
      PROVE  /\ Older(u)' \subseteq Doomed'
             /\ Wanted(Head(queue))' > Limit(Head(queue))' + StoredBytes(Older(u))'
  <2>1. Older(u)' = Older(u) BY <1>1 DEF Older, Evictable, Ready, Protected
  <2>2. StoredBytes(Older(u))' = StoredBytes(Older(u)) BY <1>1, <2>1 DEF StoredBytes
  <2> QED BY <1>1, <1>2, <1>7, <2>1, <2>2 DEF TurnInv
<1> QED BY <1>1, <1>4, <1>5, <1>8 DEF TurnInv

\* When a row is marked, what is stored and what is older than the next victims shrink
\* by the same bytes.
LEMMA TurnMarked == ASSUME JournalInv, TurnInv, NEW t \in Takes, MarkEvicted(t) PROVE TurnInv'
<1> USE DEF JournalInv
<1> DEFINE g == [u \in Takes |-> rec[u].bytes]
           ready == {u \in Takes : Ready(u)}
<1>1. /\ queue # <<>> /\ running.at = "mark" /\ t = running.take
      /\ UNCHANGED <<queue, op, quota, round, outbox, order>>
      /\ running' = [running EXCEPT !.at = IF running.victims = {} THEN "write" ELSE "unlink"]
  BY DEF MarkEvicted, Serve
<1>2. /\ Evictable(t) /\ Ready(t) /\ t \notin running.victims
      /\ \A u \in running.victims : u \in Takes /\ order[t] < order[u] /\ Older(u) \subseteq Doomed
  BY <1>1 DEF SelectionInv, TurnInv, TypeOK, Evictable
<1>3. /\ Doomed = running.victims \union {t} /\ Doomed' = running.victims
      /\ running'.victims = running.victims /\ running'.at # "mark"
  BY <1>1 DEF Doomed, TypeOK
<1>4. /\ rec'[t] = [rec[t] EXCEPT !.media = "evicted"] /\ rec[t] \in Row
      /\ \A u \in Takes \ {t} : rec'[u] = rec[u]
  BY <1>2 DEF MarkEvicted, TypeOK, Ready
<1>5. ~Ready(t)' /\ rec'[t].bytes = rec[t].bytes
  BY <1>4 DEF Row, Ready
<1>6. [u \in Takes |-> rec'[u].bytes] = g
  BY <1>4, <1>5
<1>7. {u \in Takes : Ready(u)'} = ready \ {t}
  BY <1>4, <1>5 DEF Ready
<1>8. /\ \A u \in Takes : g[u] \in Nat
      /\ IsFiniteSet(ready) /\ t \in ready
  BY <1>2, JournalNameAssumption, FS_Subset DEF TypeOK, Row
<1>9. ActualBytes = g[t] + ActualBytes' /\ ActualBytes' \in Nat /\ ActualBytes \in Nat
  <2>1. ActualBytes' = SumFunctionOnSet(g, ready \ {t}) BY <1>6, <1>7 DEF ActualBytes, StoredBytes
  <2>2. ActualBytes = SumFunctionOnSet(g, ready) BY DEF ActualBytes, StoredBytes
  <2>3. ready \in SUBSET Takes OBVIOUS
  <2> HIDE DEF g, ready
  <2>4. SumFunctionOnSet(g, ready) = g[t] + SumFunctionOnSet(g, ready \ {t}) BY <1>8, <2>3, SumRemove
  <2>5. IsFiniteSet(ready \ {t}) /\ \A u \in ready \ {t} : g[u] \in Nat BY <1>8, <2>3, FS_Subset
  <2>6. SumFunctionOnSet(g, ready \ {t}) \in Nat /\ SumFunctionOnSet(g, ready) \in Nat
    BY <1>8, <2>3, <2>5, SumNat
  <2> QED BY <2>1, <2>2, <2>4, <2>6
<1>10. ReservedBytes' = ReservedBytes /\ ReservedBytes \in Nat
  BY <1>1, ReservedSum DEF ReservedBytes
<1>11. Head(queue) \in Task /\ Need(Head(queue)) \in Nat /\ Limit(Head(queue)) \in Nat
  BY <1>1, HeadTask, LimitType
<1>12. /\ Wanted(Head(queue)) = ActualBytes + ReservedBytes + Need(Head(queue))
       /\ Wanted(Head(queue))' = ActualBytes' + ReservedBytes' + Need(Head(queue))
       /\ Limit(Head(queue))' = Limit(Head(queue))
  BY <1>1 DEF Wanted, Need, Limit
<1>13. ASSUME NEW u \in running.victims
       PROVE  /\ Older(u)' \subseteq Doomed'
              /\ Wanted(Head(queue))' > Limit(Head(queue))' + StoredBytes(Older(u))'
  <2>1. Older(u)' = Older(u) \ {t}
    <3>1. \A v \in Takes \ {t} : Evictable(v)' = Evictable(v)
      BY <1>1, <1>4 DEF Evictable, Ready, Protected
    <3>2. ~Evictable(t)' BY <1>5 DEF Evictable
    <3> QED BY <1>1, <3>1, <3>2 DEF Older
  <2>2. t \in Older(u) /\ Older(u) \in SUBSET Takes /\ IsFiniteSet(Older(u))
    <3>1. t \in Older(u) BY <1>2 DEF Older
    <3> QED BY <1>2, <3>1, OlderType
  <2>3. StoredBytes(Older(u)) = SumFunctionOnSet(g, Older(u)) BY DEF StoredBytes
  <2>4. StoredBytes(Older(u))' = SumFunctionOnSet(g, Older(u) \ {t}) BY <1>6, <2>1 DEF StoredBytes
  <2>5. /\ SumFunctionOnSet(g, Older(u)) = g[t] + SumFunctionOnSet(g, Older(u) \ {t})
        /\ SumFunctionOnSet(g, Older(u) \ {t}) \in Nat /\ g[t] \in Nat
    <3> HIDE DEF g
    <3>1. \A v \in Older(u) : g[v] \in Nat BY <1>8, <2>2
    <3>2. IsFiniteSet(Older(u) \ {t}) /\ \A v \in Older(u) \ {t} : g[v] \in Nat BY <2>2, <3>1, FS_Subset
    <3>3. SumFunctionOnSet(g, Older(u)) = g[t] + SumFunctionOnSet(g, Older(u) \ {t})
      BY <2>2, <3>1, SumRemove
    <3>4. SumFunctionOnSet(g, Older(u) \ {t}) \in Nat BY <3>2, SumNat
    <3> QED BY <2>2, <3>1, <3>3, <3>4
  <2>6. Wanted(Head(queue)) > Limit(Head(queue)) + StoredBytes(Older(u)) BY <1>1 DEF TurnInv
  <2>7. Older(u)' \subseteq Doomed' BY <1>2, <1>3, <2>1
  <2> HIDE DEF g
  <2> QED BY <1>9, <1>10, <1>11, <1>12, <2>3, <2>4, <2>5, <2>6, <2>7
<1> QED BY <1>3, <1>13 DEF TurnInv

LEMMA TurnStep == ASSUME JournalInv, RoomInv, OrderInv, TurnInv, Next PROVE TurnInv'
<1>1. CASE running' = Idle BY <1>1 DEF Idle, TurnInv
<1>2. CASE Operate BY <1>1, <1>2, OtherOperations, TurnSelected, TurnUnlinked, TurnMarked
<1>3. CASE ~Operate /\ running' # Idle
  <2> SUFFICES ASSUME running'.at \in {"unlink", "mark"} PROVE TurnInv'
    BY DEF TurnInv
  <2>1. UNCHANGED running BY <1>3, RunningOutside
  <2>2. /\ UNCHANGED <<running, op, rec, quota, round, outbox>>
        /\ Head(queue') = Head(queue)
    BY <1>3, <2>1, OutsideFrame DEF RoomInv
  <2>3. ASSUME NEW t \in Takes, Stored(t) PROVE order'[t] = order[t]
    <3>1. ~HashFile(t)
      <4>1. capture[t] # "moved" BY <2>3 DEF JournalInv, StageInv, PreSave
      <4> QED BY <4>1 DEF HashFile
    <3>2. ~Launching BY <2>1, LaunchingFrame DEF JournalInv, SelectionInv
    <3>3. CASE \E u \in Takes : HashFile(u)
      BY <3>1, <3>3 DEF HashFile, JournalInv, TypeOK
    <3>4. CASE UNCHANGED order BY <3>4
    <3> QED
      BY <1>3, <3>2, <3>3, <3>4, LearnerFrame
      DEF Next, Finalizing, MoveFile, RemoveFiles, Failing, OperationThrows, ArtifactFails,
          LaunchThrows, FinalizeFails, Crash
  <2> QED BY <2>2, <2>3, TurnFrame
<1> QED BY <1>1, <1>2, <1>3

TurnsInv == OrderInv /\ TurnInv

LEMMA InitTurns == Init => TurnsInv
BY DEF Init, TurnsInv, OrderInv, TurnInv, Stored, Idle, Named

LEMMA TurnsStep == JournalInv /\ RoomInv /\ TurnsInv /\ [Next]_vars => TurnsInv'
<1> SUFFICES ASSUME JournalInv, RoomInv, TurnsInv, [Next]_vars PROVE TurnsInv' OBVIOUS
<1>1. CASE Next BY <1>1, OrderStep, TurnStep DEF TurnsInv
<1>2. CASE UNCHANGED vars
  <2>1. OrderInv' BY <1>2 DEF TurnsInv, OrderInv, Stored
  <2>2. TurnInv' BY <1>2, TurnFrame DEF TurnsInv
  <2> QED BY <2>1, <2>2 DEF TurnsInv
<1> QED BY <1>1, <1>2

\* Files go oldest first and only while they are in the way, whatever was recorded,
\* sent or deleted since the victims were selected.
THEOREM EvictionIsNeeded == SafeSpec => EvictionIsMinimal
<1>1. ASSUME JournalInv, RoomInv, TurnsInv, [Next]_vars
      PROVE  [\A t \in Takes : Evicted(t) =>
                  /\ ~\E u \in Takes : Evictable(u) /\ order[u] < order[t]
                  /\ ~Fits(Head(queue))]_vars
  <2> SUFFICES ASSUME Next, NEW t \in Takes, Evicted(t)
               PROVE  /\ ~\E u \in Takes : Evictable(u) /\ order[u] < order[t]
                      /\ ~Fits(Head(queue))
    BY <1>1
  <2>1. Unlink(t) BY <1>1, EvictionUnlinks
  <2>2. /\ running.at = "unlink" /\ t \in running.victims /\ queue # <<>>
        /\ \A u \in running.victims : order[t] <= order[u]
    BY <2>1 DEF Unlink, Serve
  <2>3. /\ Older(t) \subseteq running.victims
        /\ Wanted(Head(queue)) > Limit(Head(queue)) + StoredBytes(Older(t))
    BY <1>1, <2>2 DEF TurnsInv, TurnInv, Doomed
  <2>4. ~\E u \in Takes : Evictable(u) /\ order[u] < order[t]
    <3>1. order \in [Takes -> Nat] BY <1>1 DEF JournalInv, TypeOK
    <3> QED BY <2>2, <2>3, <3>1 DEF Older
  <2>5. ~Fits(Head(queue))
    <3>1. TypeOK BY <1>1 DEF JournalInv
    <3>2. Wanted(Head(queue)) \in Nat /\ Limit(Head(queue)) \in Nat
      BY <2>2, <3>1, HeadTask, LimitType
    <3>3. StoredBytes(Older(t)) \in Nat BY <3>1, OlderType, StoredSum
    <3> QED BY <2>3, <3>2, <3>3 DEF Fits
  <2> QED BY <2>4, <2>5
<1>2. QuotaInv => RoomInv BY DEF QuotaInv
<1> QED BY <1>1, <1>2, InitQuota, QuotaInvStep, InitTurns, TurnsStep, JournalInvariant, PTL
        DEF SafeSpec, EvictionIsMinimal

-----------------------------------------------------------------------------
(* Captures that are over let go of their round                            *)

\* An operation a capture waits for, and the stage the capture is in meanwhile.
Owned(task) == task.take \in Takes /\ task.kind \notin {"upsert", "close", "discard"}

StageOf(task) ==
    CASE task.kind = "createRound" -> "journal"
      [] task.kind = "status" -> IF task.to = "recording" THEN "mark" ELSE "status"
      [] task.kind = "settle" -> IF task.to = "committed" THEN "commit" ELSE "giveup"
      [] OTHER -> task.kind

\* The round a capture works on.
RoundOf(t) == IF target[t] = Unsaved THEN FreeRound[t] ELSE target[t]

OnItsRound(task) == task.kind \in {"createRound", "save", "status"} => task.round = RoundOf(task.take)

\* A capture has one operation in the queue at most, the one it waits for.
OwnedInv ==
    /\ \A i \in DOMAIN queue :
          Owned(queue[i]) => capture[queue[i].take] = StageOf(queue[i]) /\ OnItsRound(queue[i])
    /\ \A i, j \in DOMAIN queue :
          Owned(queue[i]) /\ Owned(queue[j]) /\ queue[i].take = queue[j].take => i = j

\* What is recorded in was created, and what has rows was not deleted.
RoundsInv ==
    /\ \A t \in Takes :
          /\ capture[t] = "idle" => target[t] = Unsaved
          /\ target[t] # Unsaved => round[target[t]] # "none"
          /\ Stored(t) => rec[t].round \in Rounds /\ round[rec[t].round] # "deleted"
          /\ capture[t] = "done" => ~Pending(t)
    /\ \A i \in DOMAIN queue : queue[i].kind = "status" => queue[i].to \notin {"none", "deleted"}

Writes(task, r) == task.kind \in {"createRound", "status"} /\ task.round = r

\* No other capture works on the round of t.
Alone(t) == \A u \in Takes \ {t} : RoundOf(t) \notin {target[u], FreeRound[u]}

\* Behind the operation that marks a round as saved nothing writes to it, and after it
\* nothing does, but for another capture.
Closing(t) ==
    IF capture[t] = "status"
    THEN \A i, j \in DOMAIN queue :
             Owned(queue[i]) /\ queue[i].take = t /\ i < j => ~Writes(queue[j], RoundOf(t))
    ELSE /\ round[RoundOf(t)] = "round_saved"
         /\ \A i \in DOMAIN queue : ~Writes(queue[i], RoundOf(t))

ReleaseInv == \A t \in Takes :
    capture[t] \in {"status", "commit", "done"} /\ Ready(t)
        => rec[t].round = RoundOf(t) /\ (Alone(t) => Closing(t))

\* What a step does to the queue: it takes the head away or not, and adds what the
\* captures in T, which had nothing else there, go on with.
Appended(task, T) ==
    /\ task \in Task
    /\ task.kind = "status" => task.to \notin {"none", "deleted"}
    /\ Owned(task) => /\ task.take \in T
                      /\ capture'[task.take] = StageOf(task)
                      /\ (OnItsRound(task))'
    /\ \A r : Writes(task, r) =>
          \/ \E u \in T : r = (RoundOf(u))'
          \/ round[r] = "none" /\ \A u \in Takes : FreeRound[u] # r

QueueMove(base, next, T) ==
    /\ base = queue \/ (queue # <<>> /\ base = Tail(queue))
    /\ next \in Seq(Task) /\ queue' = base \o next
    /\ T = {} \/ \E t \in Takes : T = {t}
    /\ \A u \in Takes \ T : capture'[u] = capture[u]
    /\ \A u \in Takes : target'[u] = target[u] \/ (u \in T /\ capture[u] = "idle")
    /\ \A i \in DOMAIN base : Owned(base[i]) => base[i].take \notin T
    /\ \A i \in DOMAIN next : Appended(next[i], T)
    /\ \A i \in DOMAIN next : Owned(next[i]) => i = Len(next)

LEMMA DoFields ==
    ASSUME NEW kind, NEW t, NEW r, NEW to
    PROVE  /\ Do(kind, t, r, to).kind = kind /\ Do(kind, t, r, to).take = t
           /\ Do(kind, t, r, to).round = r /\ Do(kind, t, r, to).to = to
BY DEF Do

LEMMA Joined ==
    ASSUME NEW base \in Seq(Task), NEW next \in Seq(Task), NEW i \in DOMAIN (base \o next)
    PROVE  /\ i \in Nat
           /\ \/ i \in DOMAIN base /\ i <= Len(base) /\ (base \o next)[i] = base[i]
              \/ i > Len(base) /\ (i - Len(base)) \in DOMAIN next /\ (base \o next)[i] = next[i - Len(base)]
<1>1. /\ Len(base \o next) = Len(base) + Len(next) /\ base \o next \in Seq(Task)
      /\ \A k \in 1 .. Len(base) + Len(next) :
             (base \o next)[k] = IF k <= Len(base) THEN base[k] ELSE next[k - Len(base)]
  BY ConcatProperties, Zenon
<1>2. /\ DOMAIN base = 1 .. Len(base) /\ DOMAIN next = 1 .. Len(next)
      /\ DOMAIN (base \o next) = 1 .. Len(base \o next) /\ Len(base) \in Nat /\ Len(next) \in Nat
  BY <1>1, LenProperties
<1>3. i \in 1 .. Len(base) + Len(next) BY <1>1, <1>2
<1> QED BY <1>1, <1>2, <1>3

\* A position of what is left of the queue is one of the queue.
LEMMA BasePosition ==
    ASSUME TypeOK, NEW base, NEW next, NEW T, QueueMove(base, next, T)
    PROVE  /\ base \in Seq(Task)
           /\ \E k \in {0, 1} : \A i \in DOMAIN base : i \in Nat /\ i + k \in DOMAIN queue /\ base[i] = queue[i + k]
<1>1. queue \in Seq(Task) BY DEF TypeOK
<1>2. CASE base = queue
  <2>1. \A i \in DOMAIN base : i \in Nat /\ i + 0 \in DOMAIN queue /\ base[i] = queue[i + 0]
    BY <1>1, <1>2, LenProperties
  <2> QED BY <1>1, <1>2, <2>1
<1>3. CASE queue # <<>> /\ base = Tail(queue)
  <2>1. /\ base \in Seq(Task) /\ Len(base) = Len(queue) - 1
        /\ \A i \in 1 .. Len(base) : base[i] = queue[i + 1]
    BY <1>1, <1>3, HeadTailProperties
  <2>2. DOMAIN base = 1 .. Len(base) /\ DOMAIN queue = 1 .. Len(queue) /\ Len(queue) \in Nat
    BY <1>1, <2>1, LenProperties
  <2>3. \A i \in DOMAIN base : i \in Nat /\ i + 1 \in DOMAIN queue /\ base[i] = queue[i + 1]
    BY <2>1, <2>2
  <2> QED BY <2>1, <2>3
<1> QED BY <1>2, <1>3 DEF QueueMove

LEMMA OwnedMove ==
    ASSUME TypeOK, OwnedInv, NEW base, NEW next, NEW T, QueueMove(base, next, T)
    PROVE  OwnedInv'
<1>0. base \in Seq(Task) /\ next \in Seq(Task) /\ queue' = base \o next BY BasePosition DEF QueueMove
<1>1. PICK k \in {0, 1} : \A i \in DOMAIN base : i \in Nat /\ i + k \in DOMAIN queue /\ base[i] = queue[i + k]
  BY BasePosition
<1>2. ASSUME NEW i \in DOMAIN queue', Owned(queue'[i])
      PROVE  /\ i \in Nat /\ capture'[queue'[i].take] = StageOf(queue'[i]) /\ (OnItsRound(queue[i]))'
             /\ \/ i \in DOMAIN base /\ i <= Len(base) /\ queue'[i] = base[i] /\ queue'[i].take \notin T
                \/ i = Len(base) + Len(next) /\ queue'[i].take \in T
  <2>1. CASE i \in DOMAIN base /\ i <= Len(base) /\ queue'[i] = base[i]
    <3>1. base[i] = queue[i + k] /\ i + k \in DOMAIN queue /\ Owned(base[i]) /\ i \in Nat BY <1>1, <1>2, <2>1
    <3>2. capture[base[i].take] = StageOf(base[i]) /\ OnItsRound(base[i]) BY <3>1 DEF OwnedInv
    <3>3. base[i].take \notin T /\ base[i].take \in Takes BY <2>1, <3>1 DEF QueueMove, Owned
    <3>4. capture'[base[i].take] = capture[base[i].take] /\ target'[base[i].take] = target[base[i].take]
      BY <3>3 DEF QueueMove
    <3> QED BY <2>1, <3>1, <3>2, <3>3, <3>4 DEF OnItsRound, RoundOf
  <2>2. CASE i > Len(base) /\ (i - Len(base)) \in DOMAIN next /\ queue'[i] = next[i - Len(base)]
    <3>1. Appended(next[i - Len(base)], T) /\ Owned(next[i - Len(base)]) BY <1>2, <2>2 DEF QueueMove
    <3>2. i - Len(base) = Len(next) BY <2>2, <3>1 DEF QueueMove
    <3>3. i \in Nat /\ Len(base) \in Nat /\ Len(next) \in Nat
      BY <1>0, Joined, LenProperties
    <3>4. i = Len(base) + Len(next) BY <3>2, <3>3
    <3>5. /\ queue'[i].take \in T /\ capture'[queue'[i].take] = StageOf(queue'[i])
          /\ (OnItsRound(next[i - Len(base)]))'
      BY <2>2, <3>1 DEF Appended
    <3> QED BY <2>2, <3>3, <3>4, <3>5 DEF OnItsRound
  <2> QED BY <1>0, <2>1, <2>2, Joined
<1>3. ASSUME NEW i \in DOMAIN queue', NEW j \in DOMAIN queue', Owned(queue'[i]), Owned(queue'[j]),
             queue'[i].take = queue'[j].take
      PROVE  i = j
  <2>1. CASE queue'[i].take \in T BY <1>2, <1>3, <2>1
  <2>2. CASE queue'[i].take \notin T
    <3>1. /\ i \in DOMAIN base /\ j \in DOMAIN base /\ queue'[i] = base[i] /\ queue'[j] = base[j]
      BY <1>2, <1>3, <2>2
    <3>2. i + k = j + k BY <1>1, <1>3, <3>1 DEF OwnedInv
    <3> QED BY <1>1, <3>1, <3>2
  <2> QED BY <2>1, <2>2
<1>4. \A i \in DOMAIN queue' : Owned(queue'[i]) => capture'[queue'[i].take] = StageOf(queue'[i]) /\ (OnItsRound(queue[i]))'
  BY <1>2
<1> QED BY <1>3, <1>4 DEF OwnedInv, Owned

LEMMA RoundOfType == ASSUME TypeOK, NEW t \in Takes PROVE RoundOf(t) \in Rounds
BY JournalNameAssumption DEF TypeOK, RoundOf

\* Who is alone on its round has been so before.
LEMMA AloneBefore ==
    ASSUME TypeOK, RoundsInv, NEW base, NEW next, NEW T, QueueMove(base, next, T),
           NEW t \in Takes, (RoundOf(t))' = RoundOf(t), (Alone(t))'
    PROVE  Alone(t)
<1>1. ASSUME NEW u \in Takes \ {t} PROVE RoundOf(t) \notin {target[u], FreeRound[u]}
  <2>1. RoundOf(t) \notin {target'[u], FreeRound[u]} BY DEF Alone
  <2>2. target'[u] = target[u] \/ target[u] = Unsaved BY DEF QueueMove, RoundsInv
  <2>3. RoundOf(t) \in Rounds BY RoundOfType
  <2> QED BY <2>1, <2>2, <2>3, JournalNameAssumption
<1> QED BY <1>1 DEF Alone

LEMMA ReleaseMove ==
    ASSUME TypeOK, OwnedInv, RoundsInv, ReleaseInv,
           NEW base, NEW next, NEW T, QueueMove(base, next, T),
           NEW t \in Takes \ T, capture[t] \in {"status", "commit", "done"},
           Ready(t), rec'[t] = rec[t],
           Closing(t) => capture[t] = "status" \/ round'[RoundOf(t)] = "round_saved"
    PROVE  rec'[t].round = (RoundOf(t))' /\ ((Alone(t))' => (Closing(t))')
<1>0. base \in Seq(Task) /\ next \in Seq(Task) /\ queue' = base \o next BY BasePosition DEF QueueMove
<1>1. PICK k \in {0, 1} : \A i \in DOMAIN base : i \in Nat /\ i + k \in DOMAIN queue /\ base[i] = queue[i + k]
  BY BasePosition
<1>2. /\ capture'[t] = capture[t] /\ (RoundOf(t))' = RoundOf(t)
      /\ RoundOf(t) \in Rounds /\ rec[t].round = RoundOf(t) /\ T \subseteq Takes
  BY RoundOfType DEF QueueMove, ReleaseInv, RoundOf
<1> SUFFICES ASSUME (Alone(t))' PROVE (Closing(t))'
  BY <1>2
<1>3. Alone(t) BY <1>2, AloneBefore
<1>4. ASSUME NEW i \in DOMAIN next PROVE ~Writes(next[i], RoundOf(t))
  <2> SUFFICES ASSUME Writes(next[i], RoundOf(t)) PROVE FALSE OBVIOUS
  <2>1. CASE \E u \in T : RoundOf(t) = (RoundOf(u))'
    <3>1. PICK u \in Takes \ {t} : RoundOf(t) = (RoundOf(u))' BY <1>2, <2>1
    <3>2. (RoundOf(u))' \in {target'[u], FreeRound[u]} BY DEF RoundOf
    <3> QED BY <1>2, <3>1, <3>2 DEF Alone
  <2>2. CASE round[RoundOf(t)] = "none" /\ \A u \in Takes : FreeRound[u] # RoundOf(t)
    BY <2>2 DEF RoundOf, RoundsInv
  <2> QED BY <2>1, <2>2 DEF QueueMove, Appended
<1>5. Closing(t) BY <1>3 DEF ReleaseInv
<1>6. CASE capture[t] = "status"
  <2>1. ASSUME NEW i \in DOMAIN queue', NEW j \in DOMAIN queue', Owned(queue'[i]), queue'[i].take = t, i < j
        PROVE  ~Writes(queue'[j], RoundOf(t))
    <3>1. i \in DOMAIN base /\ queue'[i] = base[i]
      <4>1. CASE i - Len(base) \in DOMAIN next /\ queue'[i] = next[i - Len(base)]
        BY <2>1, <4>1 DEF QueueMove, Appended
      <4> QED BY <1>0, <4>1, Joined
    <3>2. CASE j \in DOMAIN base /\ queue'[j] = base[j]
      <4>1. i + k < j + k /\ i + k \in DOMAIN queue /\ j + k \in DOMAIN queue
            /\ queue[i + k] = base[i] /\ queue[j + k] = base[j]
        BY <1>1, <2>1, <3>1, <3>2
      <4> QED BY <1>5, <1>6, <2>1, <3>1, <3>2, <4>1 DEF Closing
    <3>3. CASE j - Len(base) \in DOMAIN next /\ queue'[j] = next[j - Len(base)]
      BY <1>4, <3>3
    <3> QED BY <1>0, <3>2, <3>3, Joined
  <2> QED BY <1>2, <1>6, <2>1 DEF Closing, Owned, Writes
<1>7. CASE capture[t] # "status"
  <2>1. /\ round[RoundOf(t)] = "round_saved" /\ \A i \in DOMAIN queue : ~Writes(queue[i], RoundOf(t))
    BY <1>5, <1>7 DEF Closing
  <2>2. ASSUME NEW j \in DOMAIN queue' PROVE ~Writes(queue'[j], RoundOf(t))
    <3>1. CASE j \in DOMAIN base /\ queue'[j] = base[j] BY <1>1, <2>1, <3>1
    <3>2. CASE j - Len(base) \in DOMAIN next /\ queue'[j] = next[j - Len(base)] BY <1>4, <3>2
    <3> QED BY <1>0, <3>1, <3>2, Joined
  <2> QED BY <1>2, <1>7, <2>1, <2>2 DEF Closing, Writes
<1> QED BY <1>6, <1>7

\* Who waits for the head has nothing else in the queue; who waits for nothing has nothing.
LEMMA HeadServed ==
    ASSUME TypeOK, OwnedInv, queue # <<>>, Owned(Head(queue)), NEW i \in DOMAIN Tail(queue),
           Owned(Tail(queue)[i])
    PROVE  Tail(queue)[i].take # Head(queue).take
<1>1. queue \in Seq(Task) BY DEF TypeOK
<1>2. /\ Len(Tail(queue)) = Len(queue) - 1 /\ Tail(queue) \in Seq(Task) /\ Head(queue) = queue[1]
      /\ \A k \in 1 .. Len(Tail(queue)) : Tail(queue)[k] = queue[k + 1]
  BY <1>1, HeadTailProperties
<1>3. DOMAIN queue = 1 .. Len(queue) /\ DOMAIN Tail(queue) = 1 .. Len(Tail(queue)) /\ Len(queue) \in Nat
  BY <1>1, <1>2, LenProperties
<1>4. i \in Nat /\ i + 1 \in DOMAIN queue /\ 1 \in DOMAIN queue /\ i + 1 # 1 /\ Tail(queue)[i] = queue[i + 1]
  BY <1>2, <1>3
<1> QED BY <1>2, <1>4 DEF OwnedInv

LEMMA HeadOwned ==
    ASSUME TypeOK, OwnedInv, queue # <<>>, Owned(Head(queue))
    PROVE  capture[Head(queue).take] = StageOf(Head(queue)) /\ OnItsRound(Head(queue))
<1>1. queue \in Seq(Task) BY DEF TypeOK
<1>2. Head(queue) = queue[1] /\ 1 \in DOMAIN queue BY <1>1, LenProperties, EmptySeq
<1> QED BY <1>2 DEF OwnedInv

LEMMA StageAwaits ==
    ASSUME NEW task \in Task, Owned(task), StageOf(task) \in Stages
    PROVE  StageOf(task) \in Awaiting
<1>1. task.kind \in {"reserve", "artifact", "createRound", "save", "status", "settle", "cancel", "deleteRun"}
  BY JournalNameAssumption DEF Task, Owned
<1>2. CASE task.kind = "createRound" BY <1>2 DEF StageOf, Awaiting
<1>3. CASE task.kind = "status" BY <1>3 DEF StageOf, Awaiting
<1>4. CASE task.kind = "settle" BY <1>4 DEF StageOf, Awaiting
<1>5. CASE task.kind \in {"reserve", "artifact", "save", "cancel", "deleteRun"}
  <2>1. StageOf(task) = task.kind BY <1>5 DEF StageOf
  <2> QED BY <1>5, <2>1 DEF Awaiting, Stages
<1> QED BY <1>1, <1>2, <1>3, <1>4, <1>5

LEMMA NothingQueued ==
    ASSUME TypeOK, OwnedInv, NEW t \in Takes, capture[t] \notin Awaiting, NEW i \in DOMAIN queue, Owned(queue[i])
    PROVE  queue[i].take # t
<1>1. queue \in Seq(Task) /\ queue[i] \in Task BY LenProperties, ElementOfSeq DEF TypeOK
<1>2. capture[queue[i].take] = StageOf(queue[i]) /\ capture[queue[i].take] \in Stages
  BY DEF OwnedInv, TypeOK, Owned
<1> QED BY <1>1, <1>2, StageAwaits

LEMMA AppendedPlain ==
    ASSUME NEW task \in Task, NEW T, ~Owned(task), task.kind \notin {"createRound", "status"}
    PROVE  Appended(task, T)
BY DEF Appended, Writes

LEMMA AppendedStage ==
    ASSUME NEW task \in Task, NEW t \in Takes, task.take = t, capture'[t] = StageOf(task),
           task.kind = "status" => task.to \notin {"none", "deleted"},
           task.kind \in {"createRound", "save", "status"} => task.round = (RoundOf(t))'
    PROVE  Appended(task, {t})
<1>1. (OnItsRound(task))' BY DEF OnItsRound
<1>2. \A r : Writes(task, r) => r = (RoundOf(t))' BY DEF Writes
<1> QED BY <1>1, <1>2 DEF Appended

\* A status that no capture waits for.
LEMMA AppendedStatus ==
    ASSUME TypeOK, NEW t \in Takes, target[t] # Unsaved, target'[t] = target[t],
           NEW to \in Status \ {"none", "deleted"}
    PROVE  Appended(Do("status", NoTake, target[t], to), {t})
<1> DEFINE task == Do("status", NoTake, target[t], to)
<1>1. target[t] \in Rounds /\ task \in Task BY TaskTypes DEF TypeOK
<1>2. task.kind = "status" /\ task.take = NoTake /\ task.round = target[t] /\ task.to = to BY DoFields
<1>3. ~Owned(task) BY <1>2, JournalNameAssumption DEF Owned
<1>4. (RoundOf(t))' = target[t] BY DEF RoundOf
<1> HIDE DEF task
<1>5. \A r : Writes(task, r) => r = (RoundOf(t))' BY <1>2, <1>4 DEF Writes
<1> QED BY <1>1, <1>2, <1>3, <1>5 DEF Appended, task

LEMMA Singleton ==
    ASSUME NEW x PROVE DOMAIN <<x>> = {1} /\ <<x>>[1] = x /\ Len(<<x>>) = 1
OBVIOUS

LEMMA StageCases ==
    ASSUME NEW task
    PROVE  /\ task.kind = "createRound" => StageOf(task) = "journal"
           /\ task.kind = "status" =>
                 StageOf(task) = IF task.to = "recording" THEN "mark" ELSE "status"
           /\ task.kind = "settle" =>
                 StageOf(task) = IF task.to = "committed" THEN "commit" ELSE "giveup"
           /\ task.kind \in {"reserve", "artifact", "save"} => StageOf(task) = task.kind
BY DEF StageOf

LEMMA CatchAppended ==
    ASSUME TypeOK, NEW t \in Takes, capture'[t] = "giveup", target'[t] = target[t]
    PROVE  \A i \in DOMAIN CatchTasks(t) :
               /\ Appended(CatchTasks(t)[i], {t})
               /\ Owned(CatchTasks(t)[i]) => i = Len(CatchTasks(t))
<1> DEFINE last == Do("settle", t, target[t], "failed")
           first == Do("status", NoTake, target[t], "interrupted")
<1>1. last \in Task /\ last.kind = "settle" /\ last.take = t /\ last.to = "failed"
  <2>1. target[t] \in AnyRound BY DEF TypeOK
  <2>2. last \in Task BY <2>1, TaskTypes
  <2> QED BY <2>2, DoFields
<1>2. StageOf(last) = "giveup"
  <2> HIDE DEF last
  <2> QED BY <1>1, StageCases
<1>3. Appended(last, {t})
  <2> HIDE DEF last
  <2> QED BY <1>1, <1>2, AppendedStage
<1>4. CASE target[t] = Unsaved
  <2>1. CatchTasks(t) = <<last>>
    <3>1. <<last>> \in Seq(Task) BY <1>1
    <3> HIDE DEF last
    <3>2. <<>> \o <<last>> = <<last>> BY <3>1, ConcatEmptySeq
    <3> QED BY <1>4, <3>2 DEF CatchTasks, last
  <2> HIDE DEF last
  <2> QED BY <1>3, <2>1, Singleton
<1>5. CASE target[t] # Unsaved
  <2>1. Appended(first, {t}) BY <1>5, AppendedStatus DEF Status
  <2>2. first \in Task /\ ~Owned(first)
    BY <2>1, DoFields, JournalNameAssumption DEF Appended, Owned
  <2>3. CatchTasks(t) = <<first>> \o <<last>> BY <1>5 DEF CatchTasks
  <2> HIDE DEF first, last
  <2>4. /\ <<first>> \in Seq(Task) /\ <<last>> \in Seq(Task)
        /\ Len(<<first>>) = 1 /\ Len(<<last>>) = 1 /\ <<first>>[1] = first /\ <<last>>[1] = last
    BY <1>1, <2>2, OneNext, Singleton
  <2>5. /\ CatchTasks(t) \in Seq(Task) /\ Len(CatchTasks(t)) = 2
        /\ CatchTasks(t)[1] = first /\ CatchTasks(t)[2] = last
    <3> DEFINE both == <<first>> \o <<last>>
    <3>1. /\ both \in Seq(Task) /\ Len(both) = Len(<<first>>) + Len(<<last>>)
          /\ \A i \in 1 .. Len(<<first>>) + Len(<<last>>) :
                 both[i] = IF i <= Len(<<first>>) THEN <<first>>[i] ELSE <<last>>[i - Len(<<first>>)]
      BY <2>4, ConcatProperties, Zenon
    <3> HIDE DEF both
    <3>2. /\ 1 \in 1 .. Len(<<first>>) + Len(<<last>>) /\ 2 \in 1 .. Len(<<first>>) + Len(<<last>>)
          /\ 1 <= Len(<<first>>) /\ ~(2 <= Len(<<first>>)) /\ 2 - Len(<<first>>) = 1
          /\ Len(<<first>>) + Len(<<last>>) = 2
      BY <2>4
    <3>3. both[1] = first /\ both[2] = last /\ Len(both) = 2 BY <2>4, <3>1, <3>2, Zenon
    <3> QED BY <2>3, <3>1, <3>3 DEF both
  <2>6. DOMAIN CatchTasks(t) = {1, 2} BY <2>5, LenProperties
  <2>7. ASSUME NEW i \in DOMAIN CatchTasks(t)
        PROVE  Appended(CatchTasks(t)[i], {t}) /\ (Owned(CatchTasks(t)[i]) => i = Len(CatchTasks(t)))
    <3>1. CASE i = 1 BY <2>1, <2>2, <2>5, <3>1
    <3>2. CASE i = 2 BY <1>3, <2>5, <3>2
    <3> QED BY <2>6, <2>7, <3>1, <3>2
  <2> QED BY <2>7
<1> QED BY <1>4, <1>5

LEMMA NoPosition == DOMAIN <<>> = {} /\ Len(<<>>) = 0
OBVIOUS

\* Nobody's stage changes.
LEMMA MoveNobody ==
    ASSUME TypeOK, NEW base, base = queue \/ (queue # <<>> /\ base = Tail(queue)), NEW next \in Seq(Task),
           queue' = base \o next, UNCHANGED panels,
           \A i \in DOMAIN next : Appended(next[i], {})
    PROVE  QueueMove(base, next, {})
BY DEF QueueMove, Appended

\* The capture that waits for the head goes on.
LEMMA MoveOwner ==
    ASSUME TypeOK, OwnedInv, queue # <<>>, NEW t \in Takes, Owned(Head(queue)), About(t),
           NEW stage, Enter(t, stage), NEW next \in Seq(Task), queue' = Tail(queue) \o next,
           \A i \in DOMAIN next : Appended(next[i], {t}) /\ (Owned(next[i]) => i = Len(next))
    PROVE  QueueMove(Tail(queue), next, {t})
<1>1. \A i \in DOMAIN Tail(queue) : Owned(Tail(queue)[i]) => Tail(queue)[i].take # t
  BY HeadServed DEF About
<1>2. \A u \in Takes \ {t} : capture'[u] = capture[u] BY DEF Enter, TypeOK
<1> QED BY <1>1, <1>2 DEF QueueMove, Enter

\* A capture that waits for nothing goes on.
LEMMA MoveFree ==
    ASSUME TypeOK, OwnedInv, NEW t \in Takes, capture[t] \notin Awaiting,
           NEW stage, capture' = [capture EXCEPT ![t] = stage],
           \A u \in Takes : target'[u] = target[u] \/ (u = t /\ capture[t] = "idle"),
           NEW next \in Seq(Task), queue' = queue \o next,
           \A i \in DOMAIN next : Appended(next[i], {t}) /\ (Owned(next[i]) => i = Len(next))
    PROVE  QueueMove(queue, next, {t})
<1>1. \A i \in DOMAIN queue : Owned(queue[i]) => queue[i].take # t BY NothingQueued
<1>2. \A u \in Takes \ {t} : capture'[u] = capture[u] BY DEF TypeOK
<1> QED BY <1>1, <1>2 DEF QueueMove

\* Where the stages are that bear a claim, and how they are reached.
Advances(t, base, next) ==
    capture'[t] \in {"status", "commit", "done"} =>
        \/ SaveRecording(t) /\ base = Tail(queue) /\ next = <<Do("status", t, RoundOf(t), "round_saved")>>
        \/ /\ UpdateRoundStatus /\ Awaited(t, "status") /\ capture'[t] = "commit"
           /\ base = Tail(queue) /\ next = <<Do("settle", t, RoundOf(t), "committed")>>
        \/ /\ SettleOperation(t) /\ Awaited(t, "commit") /\ capture'[t] = "done"
           /\ base = Tail(queue) /\ next = <<>>

Moves == \E base, next : \/ QueueMove(base, next, {})
                         \/ \E t \in Takes : QueueMove(base, next, {t}) /\ Advances(t, base, next)

LEMMA QueueSame == ASSUME TypeOK, UNCHANGED queue PROVE queue' = queue \o <<>>
BY ConcatEmptySeq DEF TypeOK

LEMMA MovesStill == ASSUME TypeOK, UNCHANGED <<queue, panels>> PROVE Moves
<1>1. QueueMove(queue, <<>>, {}) BY QueueSame, NothingNext, NoPosition, MoveNobody
<1> QED BY <1>1 DEF Moves

LEMMA MovesServed ==
    ASSUME TypeOK, queue # <<>>, EndWith(<<>>), UNCHANGED panels PROVE Moves
<1>1. QueueMove(Tail(queue), <<>>, {}) BY NothingNext, NoPosition, MoveNobody DEF EndWith
<1> QED BY <1>1 DEF Moves

\* The learner asks for something that no capture waits for.
LEMMA MovesAsked ==
    ASSUME TypeOK, NEW task \in Task, Appended(task, {}), queue' = Append(queue, task), UNCHANGED panels
    PROVE  Moves
<1>1. queue' = queue \o <<task>> BY AppendIsConcat DEF TypeOK
<1>2. QueueMove(queue, <<task>>, {}) BY <1>1, OneNext, Singleton, MoveNobody
<1> QED BY <1>2 DEF Moves

\* A capture that waits for nothing reaches none of the claimed stages.
LEMMA MovesFree ==
    ASSUME TypeOK, OwnedInv, NEW t \in Takes, capture[t] \notin Awaiting,
           NEW stage, stage \notin {"status", "commit", "done"}, Enter(t, stage),
           NEW next \in Seq(Task), queue' = queue \o next,
           \A i \in DOMAIN next : Appended(next[i], {t}) /\ (Owned(next[i]) => i = Len(next))
    PROVE  Moves
<1>1. QueueMove(queue, next, {t}) BY MoveFree DEF Enter
<1>2. capture'[t] = stage BY DEF Enter, TypeOK
<1> QED BY <1>1, <1>2 DEF Moves, Advances

LEMMA MovesOwner ==
    ASSUME TypeOK, OwnedInv, queue # <<>>, NEW t \in Takes, Owned(Head(queue)), About(t),
           NEW stage, stage \notin {"status", "commit", "done"}, Enter(t, stage),
           NEW next \in Seq(Task), EndWith(next),
           \A i \in DOMAIN next : Appended(next[i], {t}) /\ (Owned(next[i]) => i = Len(next))
    PROVE  Moves
<1>1. QueueMove(Tail(queue), next, {t}) BY MoveOwner DEF EndWith
<1>2. capture'[t] = stage BY DEF Enter, TypeOK
<1> QED BY <1>1, <1>2 DEF Moves, Advances

\* What the captures queue next.
LEMMA NextStatus ==
    ASSUME TypeOK, NEW t \in Takes, target'[t] = target[t],
           NEW to \in {"recording", "round_saved"},
           capture'[t] = IF to = "recording" THEN "mark" ELSE "status"
    PROVE  Appended(Do("status", t, RoundOf(t), to), {t})
<1> DEFINE task == Do("status", t, RoundOf(t), to)
<1>1. task \in Task BY RoundOfType, TaskTypes DEF Status
<1>2. task.kind = "status" /\ task.take = t /\ task.to = to /\ task.round = RoundOf(t) BY DoFields
<1>3. (RoundOf(t))' = RoundOf(t) BY DEF RoundOf
<1> HIDE DEF task
<1>4. capture'[t] = StageOf(task) BY <1>2, StageCases
<1>5. Appended(task, {t}) BY <1>1, <1>2, <1>3, <1>4, AppendedStage
<1> QED BY <1>5 DEF task

LEMMA NextTask ==
    ASSUME TypeOK, NEW t \in Takes, target'[t] = target[t],
           NEW kind \in {"createRound", "save"}, NEW r \in Rounds, r = RoundOf(t),
           capture'[t] = IF kind = "save" THEN "save" ELSE "journal"
    PROVE  Appended(Do(kind, t, r, ""), {t})
<1> DEFINE task == Do(kind, t, r, "")
<1>1. task \in Task BY TaskTypes
<1>2. task.kind = kind /\ task.take = t /\ task.round = r BY DEF Do
<1>3. (RoundOf(t))' = RoundOf(t) BY DEF RoundOf
<1> HIDE DEF task
<1>4. capture'[t] = StageOf(task) BY <1>2, StageCases
<1>5. Appended(task, {t}) BY <1>1, <1>2, <1>3, <1>4, AppendedStage
<1> QED BY <1>5 DEF task

LEMMA NextPlain ==
    ASSUME NEW t \in Takes, NEW r \in AnyRound, NEW kind \in {"reserve", "artifact"}, capture'[t] = kind
    PROVE  Appended(Do(kind, t, r, ""), {t})
<1> DEFINE task == Do(kind, t, r, "")
<1>1. task \in Task BY TaskTypes
<1>2. task.kind = kind /\ task.take = t BY DEF Do
<1> HIDE DEF task
<1>3. capture'[t] = StageOf(task) BY <1>2, StageCases
<1>4. Appended(task, {t}) BY <1>1, <1>2, <1>3, AppendedStage
<1> QED BY <1>4 DEF task

LEMMA NextSettle ==
    ASSUME NEW t \in Takes, NEW r \in Rounds, capture'[t] = "commit"
    PROVE  Appended(Do("settle", t, r, "committed"), {t})
<1> DEFINE task == Do("settle", t, r, "committed")
<1>1. task \in Task BY TaskTypes
<1>2. task.kind = "settle" /\ task.take = t /\ task.to = "committed" BY DoFields
<1> HIDE DEF task
<1>3. capture'[t] = StageOf(task) BY <1>2, StageCases
<1>4. Appended(task, {t}) BY <1>1, <1>2, <1>3, AppendedStage
<1> QED BY <1>4 DEF task

LEMMA OneAppended ==
    ASSUME NEW task, NEW T, Appended(task, T)
    PROVE  /\ <<task>> \in Seq(Task)
           /\ \A i \in DOMAIN <<task>> :
                 Appended(<<task>>[i], T) /\ (Owned(<<task>>[i]) => i = Len(<<task>>))
BY OneNext, Singleton DEF Appended

LEMMA EnterStage ==
    ASSUME TypeOK, NEW t \in Takes, NEW stage, Enter(t, stage)
    PROVE  capture'[t] = stage /\ target' = target
BY DEF Enter, TypeOK

LEMMA MovesOperate ==
    ASSUME TypeOK, OwnedInv, Operate PROVE Moves
<1>1. CASE Admitting BY <1>1, MovesStill DEF Admitting, SelectVictims, Unlink, MarkEvicted
<1>2. ASSUME NEW t \in Takes, Reserve(t) PROVE Moves
  <2>1. queue # <<>> /\ Owned(Head(queue)) /\ About(t)
    BY <1>2 DEF Reserve, Serve, Awaited, About, Owned
  <2>2. CASE target[t] = Unsaved
    <3>1. Enter(t, "recording") /\ EndWith(<<>>) BY <1>2, <2>2 DEF Reserve
    <3> QED BY <2>1, <3>1, NothingNext, NoPosition, MovesOwner
  <2>3. CASE target[t] # Unsaved
    <3>1. RoundOf(t) = target[t] BY <2>3 DEF RoundOf
    <3>2. Enter(t, "mark") /\ EndWith(<<Do("status", t, RoundOf(t), "recording")>>)
      BY <1>2, <2>3, <3>1 DEF Reserve
    <3>3. Appended(Do("status", t, RoundOf(t), "recording"), {t})
      BY <3>2, EnterStage, NextStatus
    <3> HIDE DEF Do
    <3> QED BY <2>1, <3>2, <3>3, OneAppended, MovesOwner
  <2> QED BY <2>2, <2>3
<1>3. ASSUME NEW t \in Takes, RecordArtifact(t) PROVE Moves
  <2>1. queue # <<>> /\ Owned(Head(queue)) /\ About(t)
    BY <1>3 DEF RecordArtifact, Serve, Awaited, About, Owned
  <2>2. CASE target[t] = Unsaved
    <3>1. RoundOf(t) = FreeRound[t] /\ FreeRound[t] \in Rounds
      BY <2>2, JournalNameAssumption DEF RoundOf
    <3>2. Enter(t, "journal") /\ EndWith(<<Do("createRound", t, FreeRound[t], "")>>)
      BY <1>3, <2>2 DEF RecordArtifact
    <3>3. Appended(Do("createRound", t, FreeRound[t], ""), {t})
      BY <3>1, <3>2, EnterStage, NextTask
    <3> QED BY <2>1, <3>2, <3>3, OneAppended, MovesOwner
  <2>3. CASE target[t] # Unsaved
    <3>1. RoundOf(t) = target[t] /\ target[t] \in Rounds BY <2>3 DEF RoundOf, TypeOK
    <3>2. Enter(t, "save") /\ EndWith(<<Do("save", t, target[t], "")>>)
      BY <1>3, <2>3 DEF RecordArtifact
    <3>3. Appended(Do("save", t, target[t], ""), {t})
      BY <3>1, <3>2, EnterStage, NextTask
    <3> QED BY <2>1, <3>2, <3>3, OneAppended, MovesOwner
  <2> QED BY <2>2, <2>3
<1>4. ASSUME NEW t \in Takes, SaveRecording(t) PROVE Moves
  <2> DEFINE task == Do("status", t, RoundOf(t), "round_saved")
  <2>1. /\ queue # <<>> /\ Owned(Head(queue)) /\ About(t) /\ Head(queue).kind = "save" /\ Head(queue).take = t
        /\ Enter(t, "status")
    BY <1>4 DEF SaveRecording, Serve, Awaited, About, Owned
  <2>2. Head(queue).round = RoundOf(t) BY <2>1, HeadOwned DEF OnItsRound
  <2>3. EndWith(<<task>>) BY <1>4, <2>2 DEF SaveRecording
  <2>4. Appended(task, {t}) BY <2>1, EnterStage, NextStatus
  <2> HIDE DEF task
  <2>5. QueueMove(Tail(queue), <<task>>, {t}) BY <2>1, <2>3, <2>4, OneAppended, MoveOwner DEF EndWith
  <2>6. Advances(t, Tail(queue), <<task>>) BY <1>4 DEF Advances, task
  <2> QED BY <2>5, <2>6 DEF Moves
<1>5. ASSUME NEW t \in Takes, SettleOperation(t) PROVE Moves
  <2>1. queue # <<>> /\ Owned(Head(queue)) /\ About(t) /\ EndWith(<<>>)
    BY <1>5 DEF SettleOperation, Serve, Awaited, About, Owned
  <2>2. CASE Head(queue).to = "committed"
    <3>1. Enter(t, "done") /\ Awaited(t, "commit") BY <1>5, <2>2 DEF SettleOperation
    <3>2. QueueMove(Tail(queue), <<>>, {t})
      BY <2>1, <3>1, NothingNext, NoPosition, MoveOwner DEF EndWith
    <3>3. Advances(t, Tail(queue), <<>>) BY <1>5, <3>1, EnterStage DEF Advances
    <3> QED BY <3>2, <3>3 DEF Moves
  <2>3. CASE Head(queue).to # "committed"
    <3>1. Enter(t, "failed") BY <1>5, <2>3 DEF SettleOperation
    <3> QED BY <2>1, <3>1, NothingNext, NoPosition, MovesOwner
  <2> QED BY <2>2, <2>3
<1>6. ASSUME NEW t \in Takes, UpsertOutbox(t) \/ CloseEntry(t) \/ DeleteRecording(t) PROVE Moves
  BY <1>6, MovesServed DEF UpsertOutbox, CloseEntry, DeleteRecording, Serve
<1>7. CASE WriteSettings \/ DeleteRun
  BY <1>7, MovesServed DEF WriteSettings, DeleteRun, Serve
<1>8. CASE QueueServerDeletion
  <2> DEFINE task == Do("deleteRun", NoTake, Head(queue).round, "")
  <2>1. queue # <<>> /\ EndWith(<<task>>) /\ UNCHANGED panels BY <1>8 DEF QueueServerDeletion, Serve
  <2>2. Head(queue).round \in Rounds BY <1>8, <2>1, HeadTask, TaskFields DEF QueueServerDeletion, Serve
  <2>3. task.kind = "deleteRun" /\ task.take = NoTake BY DEF Do
  <2>6. task \in Task BY <2>2, TaskTypes
  <2> HIDE DEF task
  <2>4. Appended(task, {}) BY <2>3, <2>6, AppendedPlain, JournalNameAssumption DEF Owned
  <2>5. QueueMove(Tail(queue), <<task>>, {}) BY <2>1, <2>4, OneAppended, MoveNobody DEF EndWith
  <2> QED BY <2>5 DEF Moves
<1>9. CASE CreateRound
  <2> DEFINE t == Head(queue).take
             r == Head(queue).round
  <2>1. queue # <<>> /\ Head(queue).kind = "createRound" BY <1>9 DEF CreateRound, Serve
  <2>2. r \in Rounds /\ t \in AnyTake BY <2>1, HeadTask, TaskFields
  <2>3. CASE t = NoTake BY <1>9, <2>1, <2>3, MovesServed DEF CreateRound
  <2>4. CASE t # NoTake
    <3>1. t \in Takes /\ Owned(Head(queue)) /\ About(t) BY <2>1, <2>2, <2>4 DEF Owned, About
    <3>2. RoundOf(t) = r BY <2>1, <3>1, HeadOwned DEF OnItsRound
    <3>3. Enter(t, "save") /\ EndWith(<<Do("save", t, r, "")>>) BY <1>9, <2>4 DEF CreateRound
    <3>4. Appended(Do("save", t, r, ""), {t}) BY <2>2, <3>1, <3>2, <3>3, EnterStage, NextTask
    <3> HIDE DEF t, r
    <3> QED BY <2>1, <3>1, <3>3, <3>4, OneAppended, MovesOwner
  <2> QED BY <2>3, <2>4
<1>10. CASE UpdateRoundStatus
  <2>1. queue # <<>> /\ Head(queue).kind = "status" BY <1>10 DEF UpdateRoundStatus, Serve
  <2>2. CASE EndWith(<<>>) /\ UNCHANGED panels BY <2>1, <2>2, MovesServed
  <2>3. ASSUME NEW t \in Takes, Awaited(t, "mark"), Enter(t, "recording"), EndWith(<<>>) PROVE Moves
    <3>1. Owned(Head(queue)) /\ About(t) BY <2>1, <2>3 DEF Awaited, About, Owned
    <3> QED BY <2>1, <2>3, <3>1, NothingNext, NoPosition, MovesOwner
  <2>4. ASSUME NEW t \in Takes, Awaited(t, "status"), Enter(t, "commit"),
               EndWith(<<Do("settle", t, Head(queue).round, "committed")>>)
        PROVE  Moves
    <3> DEFINE task == Do("settle", t, RoundOf(t), "committed")
    <3>1. Owned(Head(queue)) /\ About(t) /\ Head(queue).take = t BY <2>1, <2>4 DEF Awaited, About, Owned
    <3>2. RoundOf(t) = Head(queue).round BY <2>1, <3>1, HeadOwned DEF OnItsRound
    <3>3. EndWith(<<task>>) BY <2>4, <3>2
    <3>4. Appended(task, {t}) BY <2>4, EnterStage, RoundOfType, NextSettle
    <3>5. capture'[t] = "commit" BY <2>4, EnterStage
    <3> HIDE DEF task
    <3>6. QueueMove(Tail(queue), <<task>>, {t})
      BY <2>1, <2>4, <3>1, <3>3, <3>4, OneAppended, MoveOwner DEF EndWith
    <3>7. Advances(t, Tail(queue), <<task>>) BY <1>10, <2>4, <3>5 DEF Advances, task
    <3> QED BY <3>6, <3>7 DEF Moves
  <2> QED BY <1>10, <2>2, <2>3, <2>4 DEF UpdateRoundStatus
<1> QED BY <1>1, <1>2, <1>3, <1>4, <1>5, <1>6, <1>7, <1>8, <1>9, <1>10 DEF Operate, TakeOperation

LEMMA MovesAsk ==
    ASSUME TypeOK, NEW task \in Task, Ask(task), ~Owned(task), task.kind \notin {"createRound", "status"}
    PROVE  Moves
<1>1. Appended(task, {}) BY AppendedPlain
<1> QED BY <1>1, MovesAsked DEF Ask

LEMMA MovesLearner ==
    ASSUME TypeOK, OwnedInv, Learner PROVE Moves
<1>1. ASSUME NEW t \in Takes, NEW r \in Rounds \union {Unsaved}, StartRecording(t, r) PROVE Moves
  <2> DEFINE task == Do("reserve", t, r, "")
  <2>1. /\ capture[t] = "idle" /\ capture' = [capture EXCEPT ![t] = "reserve"]
        /\ \A u \in Takes : target'[u] = target[u] \/ (u = t /\ capture[t] = "idle")
        /\ queue' = Append(queue, task) /\ capture[t] \notin Awaiting
    BY <1>1 DEF StartRecording, TypeOK, Awaiting
  <2>2. capture'[t] = "reserve" BY <2>1 DEF TypeOK
  <2>3. Appended(task, {t}) BY <2>2, NextPlain
  <2> HIDE DEF task
  <2>4. queue' = queue \o <<task>> BY <2>1, <2>3, AppendIsConcat DEF TypeOK, Appended
  <2>5. QueueMove(queue, <<task>>, {t}) BY <2>1, <2>3, <2>4, OneAppended, MoveFree
  <2> QED BY <2>2, <2>5 DEF Moves, Advances
<1>2. ASSUME NEW t \in Takes, StopRecording(t) PROVE Moves
  <2>1. capture[t] \notin Awaiting /\ Enter(t, "stopped") BY <1>2 DEF StopRecording, Awaiting
  <2>2. CASE target[t] = Unsaved
    <3>1. queue' = queue \o <<>> BY <1>2, <2>2, QueueSame DEF StopRecording
    <3> QED BY <2>1, <3>1, NothingNext, NoPosition, MovesFree
  <2>3. CASE target[t] # Unsaved
    <3> DEFINE task == Do("status", NoTake, target[t], "finalizing")
    <3>1. Appended(task, {t}) BY <2>1, <2>3, EnterStage, AppendedStatus DEF Status
    <3>2. queue' = Append(queue, task) BY <1>2, <2>3 DEF StopRecording
    <3> HIDE DEF task
    <3>3. queue' = queue \o <<task>> BY <3>1, <3>2, AppendIsConcat DEF TypeOK, Appended
    <3> QED BY <2>1, <3>1, <3>3, OneAppended, MovesFree
  <2> QED BY <2>2, <2>3
<1>3. ASSUME NEW t \in Takes, LeaveScreen(t) PROVE Moves
  <2>1. capture[t] \notin Awaiting /\ Enter(t, "left") /\ queue' = queue \o <<>>
    BY <1>3, QueueSame DEF LeaveScreen, Awaiting
  <2> QED BY <2>1, NothingNext, NoPosition, MovesFree
<1>4. ASSUME NEW t \in Takes, RequestFeedback(t) \/ EntryEnds(t) \/ DiscardTake(t) PROVE Moves
  <2>1. PICK kind \in {"upsert", "close", "discard"} : Ask(Do(kind, t, Unsaved, ""))
    BY <1>4 DEF RequestFeedback, EntryEnds, DiscardTake
  <2> DEFINE task == Do(kind, t, Unsaved, "")
  <2>2. task \in Task BY TaskTypes
  <2>3. task.kind = kind BY DEF Do
  <2> HIDE DEF task
  <2>4. ~Owned(task) BY <2>3 DEF Owned
  <2>5. Ask(task) BY <2>1 DEF task
  <2> QED BY <2>2, <2>3, <2>4, <2>5, MovesAsk
<1>5. ASSUME NEW r \in Rounds, StartRemoval(r) PROVE Moves
  <2>1. PICK kind \in {"cancel", "deleteRun"} : Ask(Do(kind, NoTake, r, ""))
    BY <1>5 DEF StartRemoval
  <2> DEFINE task == Do(kind, NoTake, r, "")
  <2>2. task \in Task BY TaskTypes
  <2>3. task.kind = kind /\ task.take = NoTake BY DEF Do
  <2> HIDE DEF task
  <2>4. ~Owned(task) BY <2>3, JournalNameAssumption DEF Owned
  <2>5. Ask(task) BY <2>1 DEF task
  <2> QED BY <2>2, <2>3, <2>4, <2>5, MovesAsk
<1>6. ASSUME NEW level \in Levels, ChangeQuota(level) PROVE Moves
  <2> DEFINE task == Do("settings", NoTake, Unsaved, level)
  <2>1. task \in Task /\ Ask(task) BY <1>6, TaskTypes DEF ChangeQuota
  <2>2. task.kind = "settings" /\ task.take = NoTake BY DEF Do
  <2> HIDE DEF task
  <2>3. ~Owned(task) BY <2>2, JournalNameAssumption DEF Owned
  <2> QED BY <2>1, <2>2, <2>3, MovesAsk
<1>7. ASSUME NEW r \in Rounds, OpenScreen(r) PROVE Moves
  <2> DEFINE task == Do("createRound", NoTake, r, "")
  <2>1. /\ round[r] = "none" /\ (\A t \in Takes : FreeRound[t] # r)
        /\ queue' = Append(queue, task) /\ UNCHANGED panels
    BY <1>7 DEF OpenScreen
  <2>2. task \in Task BY TaskTypes
  <2>3. task.kind = "createRound" /\ task.take = NoTake /\ task.round = r BY DEF Do
  <2> HIDE DEF task
  <2>4. ~Owned(task) BY <2>3, JournalNameAssumption DEF Owned
  <2>5. Appended(task, {}) BY <2>1, <2>2, <2>3, <2>4 DEF Appended, Writes
  <2> QED BY <2>1, <2>2, <2>5, MovesAsked
<1> QED BY <1>1, <1>2, <1>3, <1>4, <1>5, <1>6, <1>7 DEF Learner

LEMMA MovesThrown ==
    ASSUME TypeOK, OwnedInv, OperationThrows PROVE Moves
<1> DEFINE task == Head(queue)
<1>1. queue # <<>> /\ task.take \in AnyTake BY HeadTask, TaskFields DEF OperationThrows
<1>2. CASE task.take # NoTake /\ task.kind \notin {"upsert", "close", "discard"}
  <2> DEFINE t == task.take
  <2>1. t \in Takes /\ Owned(Head(queue)) /\ About(t) /\ AfterFailure(t)
    BY <1>1, <1>2 DEF OperationThrows, Owned, About
  <2> HIDE DEF t
  <2>2. ASSUME NEW stage \in {"failed", "left"}, Enter(t, stage), EndWith(<<>>) PROVE Moves
    BY <1>1, <2>1, <2>2, NothingNext, NoPosition, MovesOwner
  <2>3. ASSUME Enter(t, "giveup"), EndWith(CatchTasks(t)) PROVE Moves
    BY <1>1, <2>1, <2>3, EnterStage, CatchAppended, CatchTasksType, MovesOwner
  <2> QED BY <2>1, <2>2, <2>3 DEF AfterFailure
<1>3. CASE ~(task.take # NoTake /\ task.kind \notin {"upsert", "close", "discard"})
  BY <1>1, <1>3, MovesServed DEF OperationThrows
<1> QED BY <1>2, <1>3

LEMMA EveryMove ==
    ASSUME TypeOK, OwnedInv, Next PROVE Moves \/ Crash
<1>1. ASSUME NEW t \in Takes, MoveFile(t) PROVE Moves
  <2>1. capture[t] \notin Awaiting /\ Enter(t, "moved") /\ queue' = queue \o <<>>
    BY <1>1, QueueSame DEF MoveFile, Awaiting
  <2> QED BY <2>1, NothingNext, NoPosition, MovesFree
<1>2. ASSUME NEW t \in Takes, HashFile(t) PROVE Moves
  <2> DEFINE task == Do("artifact", t, target[t], "")
  <2>1. capture[t] \notin Awaiting /\ Enter(t, "artifact") /\ queue' = Append(queue, task)
    BY <1>2 DEF HashFile, Awaiting
  <2>2. Appended(task, {t}) BY <2>1, EnterStage, NextPlain DEF TypeOK
  <2> HIDE DEF task
  <2>3. queue' = queue \o <<task>> BY <2>1, <2>2, AppendIsConcat DEF TypeOK, Appended
  <2> QED BY <2>1, <2>2, <2>3, OneAppended, MovesFree
<1>3. ASSUME NEW t \in Takes, FinalizeFails(t) PROVE Moves
  <2>1. capture[t] \notin Awaiting /\ Enter(t, "giveup") /\ queue' = queue \o CatchTasks(t)
    BY <1>3 DEF FinalizeFails, Awaiting
  <2> QED BY <2>1, EnterStage, CatchAppended, CatchTasksType, MovesFree
<1>4. CASE Launching BY <1>4, LaunchingFrame, MovesStill
<1>5. CASE ArtifactFails \/ LaunchThrows \/ \E r \in Rounds : RemoveFiles(r)
  BY <1>5, MovesStill DEF ArtifactFails, LaunchThrows, RemoveFiles
<1> QED BY <1>1, <1>2, <1>3, <1>4, <1>5, MovesOperate, MovesLearner, MovesThrown
        DEF Next, Finalizing, Failing

\* Who writes to a round, and how.
LEMMA RoundStep ==
    ASSUME TypeOK, Next, NEW r \in Rounds
    PROVE  \/ round'[r] = round[r]
           \/ CreateRound /\ Head(queue).round = r /\ round'[r] = "ready"
           \/ UpdateRoundStatus /\ Head(queue).round = r /\ round[r] # "deleted" /\ round'[r] = Head(queue).to
           \/ DeleteRun /\ Head(queue).round = r /\ round'[r] = "deleted"
           \/ RecoverRound /\ round[r] \in {"recording", "finalizing"} /\ round'[r] = "interrupted"
<1>0. round \in [Rounds -> Status] BY DEF TypeOK
<1>1. CASE CreateRound
  <2>1. round' = [round EXCEPT ![Head(queue).round] = "ready"] BY <1>1 DEF CreateRound
  <2> QED BY <1>0, <1>1, <2>1
<1>2. CASE UpdateRoundStatus
  <2>1. round' = [round EXCEPT ![Head(queue).round] =
                     IF round[Head(queue).round] = "deleted" THEN round[Head(queue).round] ELSE Head(queue).to]
    BY <1>2 DEF UpdateRoundStatus
  <2> QED BY <1>0, <1>2, <2>1
<1>3. CASE DeleteRun
  <2>1. round' = [round EXCEPT ![Head(queue).round] = "deleted"] BY <1>3 DEF DeleteRun
  <2> QED BY <1>0, <1>3, <2>1
<1>4. CASE RecoverRound
  <2> DEFINE s == op[launch.at].round
  <2>1. round' = [round EXCEPT ![s] =
                     IF round[s] \in {"recording", "finalizing"} THEN "interrupted" ELSE round[s]]
    BY <1>4 DEF RecoverRound
  <2> QED BY <1>0, <1>4, <2>1
<1>5. CASE Operate
  BY <1>1, <1>2, <1>3, <1>5
  DEF Operate, Admitting, TakeOperation, SelectVictims, Unlink, MarkEvicted, Reserve, RecordArtifact,
      SaveRecording, SettleOperation, UpsertOutbox, CloseEntry, DeleteRecording, WriteSettings,
      QueueServerDeletion
<1>6. CASE Learner BY <1>6, LearnerFrame
<1>7. CASE Launching
  BY <1>4, <1>7 DEF Launching, ReconcileRows, DropArtifact, KnownArtifact, RecoverRow, RecoverCommit,
                    ReleaseReservations
<1> QED BY <1>5, <1>6, <1>7
        DEF Next, Finalizing, MoveFile, HashFile, FinalizeFails, RemoveFiles, Failing, ArtifactFails,
            LaunchThrows, OperationThrows, Crash

\* A row that is there stays as it was, but for its media, and loses its round to no one.
LEMMA RowsKept ==
    ASSUME JournalInv, Next, NEW t \in Takes
    PROVE  \/ SaveRecording(t) \/ RecoverRow(t)
           \/ /\ Ready(t)' => rec'[t] = rec[t]
              /\ Stored(t)' => Stored(t) /\ rec'[t].round = rec[t].round
              /\ Stored(t)' /\ DeleteRun => rec[t].round # Head(queue).round
<1> USE DEF JournalInv
<1>0. rec \in [Takes -> Row] /\ rec[t] \in Row BY DEF TypeOK
<1>1. CASE rec'[t] = rec[t] /\ ~DeleteRun BY <1>1 DEF Stored, Ready
<1>2. ASSUME NEW m \in {"none", "evicted", "missing"}, rec'[t] = [rec[t] EXCEPT !.media = m],
             m = "none" \/ Stored(t)
      PROVE  /\ ~Ready(t)' /\ (Stored(t)' => m # "none")
             /\ Stored(t)' => Stored(t) /\ rec'[t].round = rec[t].round
  BY <1>0, <1>2, RowMedia DEF Stored, Ready
<1>3. ASSUME DeleteRun, rec'[t] = rec[t], Stored(t)' PROVE rec[t].round # Head(queue).round
  <2>1. rec' = Without(OfRound(Head(queue).round)) BY <1>3 DEF DeleteRun
  <2>2. t \notin OfRound(Head(queue).round) BY <1>0, <1>3, <2>1, WithoutRow DEF Stored
  <2>3. Stored(t) BY <1>3 DEF Stored
  <2> QED BY <2>2, <2>3 DEF OfRound
<1>4. ASSUME NEW S, rec' = Without(S) PROVE rec'[t] = rec[t] \/ rec'[t] = [rec[t] EXCEPT !.media = "none"]
  BY <1>4 DEF Without
<1>5. ASSUME NEW u \in Takes, MarkEvicted(u)
      PROVE  rec'[t] = rec[t] \/ (Stored(t) /\ rec'[t] = [rec[t] EXCEPT !.media = "evicted"])
  <2>1. rec' = [rec EXCEPT ![u].media = IF rec[u].media = "ready" THEN "evicted" ELSE rec[u].media]
    BY <1>5 DEF MarkEvicted
  <2>2. [rec[t] EXCEPT !.media = rec[t].media] = rec[t] BY <1>0 DEF Row
  <2> QED BY <1>0, <2>1, <2>2 DEF Stored
<1>6. ASSUME NEW u \in Takes, SaveRecording(u) \/ RecoverRow(u), u # t PROVE rec'[t] = rec[t]
  BY <1>0, <1>6 DEF SaveRecording, RecoverRow
<1>7. ASSUME ReconcileRows
      PROVE  rec'[t] = rec[t] \/ (Stored(t) /\ rec'[t] = [rec[t] EXCEPT !.media = "missing"])
  BY <1>7 DEF ReconcileRows, Ready, Stored
<1>8. DeleteRun => queue # <<>> /\ Head(queue).kind = "deleteRun" /\ Up BY DEF DeleteRun, Serve
<1>9. CASE Operate
  <2>1. CASE \E u \in Takes : MarkEvicted(u)
    <3>1. ~DeleteRun BY <1>8, <2>1 DEF MarkEvicted, Serve, Admission
    <3> QED BY <1>1, <1>2, <1>5, <2>1, <3>1
  <2>2. CASE \E u \in Takes : SaveRecording(u)
    <3>1. ~DeleteRun BY <1>8, <2>2 DEF SaveRecording, Serve
    <3> QED BY <1>1, <1>6, <2>2, <3>1
  <2>3. CASE \E u \in Takes : DeleteRecording(u)
    <3>1. ~DeleteRun BY <1>8, <2>3 DEF DeleteRecording, Serve
    <3> QED BY <1>1, <1>2, <1>4, <2>3, <3>1 DEF DeleteRecording
  <2>4. CASE DeleteRun
    <3>1. rec' = Without(OfRound(Head(queue).round)) BY <2>4 DEF DeleteRun
    <3>2. CASE rec'[t] = rec[t] BY <1>3, <2>4, <3>2 DEF Stored
    <3>3. CASE rec'[t] = [rec[t] EXCEPT !.media = "none"] BY <1>2, <3>3
    <3> QED BY <1>4, <3>1, <3>2, <3>3
  <2>5. CASE rec' = rec /\ ~DeleteRun BY <1>1, <2>5
  <2> QED BY <1>9, <2>1, <2>2, <2>3, <2>4, <2>5
          DEF Operate, Admitting, TakeOperation, SelectVictims, Unlink, Reserve, RecordArtifact,
              SettleOperation, UpsertOutbox, CloseEntry, CreateRound, UpdateRoundStatus, WriteSettings,
              QueueServerDeletion
<1>10. CASE Learner
  <2>1. ~DeleteRun \/ UNCHANGED rec BY <1>10, LearnerFrame
  <2>2. rec' = rec BY <1>10, LearnerFrame
  <2>3. CASE DeleteRun BY <1>3, <2>2, <2>3 DEF Stored
  <2> QED BY <1>1, <2>2, <2>3
<1>11. CASE Launching
  <2>0. ~DeleteRun BY <1>8, <1>11, LaunchingFrame
  <2>1. CASE \E u \in Takes : RecoverRow(u) BY <1>1, <1>6, <2>0, <2>1
  <2>2. CASE ReconcileRows BY <1>1, <1>2, <1>7, <2>0, <2>2
  <2> QED BY <1>1, <1>11, <2>0, <2>1, <2>2
          DEF Launching, DropArtifact, KnownArtifact, RecoverRound, RecoverCommit, ReleaseReservations
<1>12. CASE rec' = rec
  <2>1. CASE DeleteRun BY <1>3, <1>12, <2>1 DEF Stored
  <2> QED BY <1>1, <1>12, <2>1
<1> QED BY <1>9, <1>10, <1>11, <1>12
        DEF Next, Finalizing, MoveFile, HashFile, FinalizeFails, RemoveFiles, Failing, ArtifactFails,
            LaunchThrows, OperationThrows, Crash

\* A capture gets its round as it starts, and never is to start again.
LEMMA TargetStep ==
    ASSUME TypeOK, Next, NEW t \in Takes
    PROVE  /\ capture'[t] = "idle" => capture[t] = "idle" /\ target'[t] = target[t]
           /\ \/ target'[t] = target[t]
              \/ /\ UNCHANGED round
                 /\ target'[t] # Unsaved => round[target'[t]] # "none"
<1>0. capture \in [Takes -> Stages] /\ target \in [Takes -> AnyRound] BY DEF TypeOK
<1>1. CASE UNCHANGED panels BY <1>1
<1>2. CASE UNCHANGED target /\ \E u, s : s # "idle" /\ capture' = [capture EXCEPT ![u] = s]
  BY <1>0, <1>2
<1>3. ASSUME NEW u, NEW s, s # "idle", Enter(u, s)
      PROVE  UNCHANGED target /\ \E v, x : x # "idle" /\ capture' = [capture EXCEPT ![v] = x]
  BY <1>3 DEF Enter
<1>4. CASE Operate
  <2>1. ASSUME NEW u \in Takes, Reserve(u) \/ RecordArtifact(u) \/ SaveRecording(u) \/ SettleOperation(u)
        PROVE  \E s : s # "idle" /\ Enter(u, s)
    <3>1. CASE Reserve(u) BY <3>1, Zenon DEF Reserve
    <3>2. CASE RecordArtifact(u) BY <3>2, Zenon DEF RecordArtifact
    <3>3. CASE SaveRecording(u) BY <3>3 DEF SaveRecording
    <3>4. CASE SettleOperation(u) BY <3>4 DEF SettleOperation
    <3> QED BY <2>1, <3>1, <3>2, <3>3, <3>4
  <2>2. CASE CreateRound BY <1>1, <1>2, <1>3, <2>2 DEF CreateRound
  <2>3. CASE UpdateRoundStatus BY <1>1, <1>2, <1>3, <2>3 DEF UpdateRoundStatus
  <2> QED BY <1>1, <1>2, <1>3, <1>4, <2>1, <2>2, <2>3
          DEF Operate, Admitting, TakeOperation, SelectVictims, Unlink, MarkEvicted, UpsertOutbox,
              CloseEntry, DeleteRecording, WriteSettings, QueueServerDeletion, DeleteRun
<1>5. CASE Learner
  <2>1. ASSUME NEW u \in Takes, NEW r \in Rounds \union {Unsaved}, StartRecording(u, r)
        PROVE  /\ capture'[t] = "idle" => capture[t] = "idle" /\ target'[t] = target[t]
               /\ \/ target'[t] = target[t]
                  \/ /\ UNCHANGED round
                     /\ target'[t] # Unsaved => round[target'[t]] # "none"
    BY <1>0, <2>1 DEF StartRecording
  <2> QED BY <1>1, <1>2, <1>3, <1>5, <2>1
          DEF Learner, StopRecording, LeaveScreen, RequestFeedback, EntryEnds, DiscardTake,
              OpenScreen, StartRemoval, ChangeQuota, Ask
<1>6. CASE \E u \in Takes : Finalizing(u) \/ FinalizeFails(u)
  BY <1>1, <1>2, <1>3, <1>6 DEF Finalizing, MoveFile, HashFile, FinalizeFails
<1>7. CASE Launching BY <1>1, <1>7, LaunchingFrame
<1>8. CASE OperationThrows
  <2>1. ASSUME NEW u, AfterFailure(u) PROVE \E s \in {"failed", "left", "giveup"} : Enter(u, s)
    BY <2>1, Zenon DEF AfterFailure
  <2> QED BY <1>1, <1>2, <1>3, <1>8, <2>1 DEF OperationThrows
<1>9. CASE Crash BY <1>0, <1>9 DEF Crash
<1> QED BY <1>1, <1>4, <1>5, <1>6, <1>7, <1>8, <1>9
        DEF Next, Failing, RemoveFiles, ArtifactFails, LaunchThrows

\* Whether a step is one of the queue's or a crash, what no capture lets go of.
LEMMA RoundsStep ==
    ASSUME JournalInv, JournalInv', ReservedInv, OwnedInv, RoundsInv, Next
    PROVE  RoundsInv'
<1>0. TypeOK /\ TypeOK' BY DEF JournalInv
<1>1. queue # <<>> => Head(queue) \in Task /\ \E i \in DOMAIN queue : Head(queue) = queue[i]
  <2>1. queue \in Seq(Task) BY <1>0 DEF TypeOK
  <2>2. queue # <<>> => Head(queue) = queue[1] /\ 1 \in DOMAIN queue BY <2>1, LenProperties, EmptySeq
  <2> QED BY <1>0, <2>2, HeadTask
<1>2. UpdateRoundStatus => Head(queue).to \notin {"none", "deleted"}
  BY <1>1 DEF UpdateRoundStatus, Serve, RoundsInv
<1>3. ASSUME NEW r \in Rounds, round[r] # "none" PROVE round'[r] # "none"
  BY <1>0, <1>2, <1>3, RoundStep
<1>4. ASSUME NEW t \in Takes, capture'[t] = "idle" PROVE target'[t] = Unsaved
  BY <1>0, <1>4, TargetStep DEF RoundsInv
<1>5. ASSUME NEW t \in Takes, target'[t] # Unsaved PROVE round'[target'[t]] # "none"
  <2>1. target'[t] \in Rounds BY <1>0, <1>5 DEF TypeOK
  <2>2. CASE target'[t] = target[t] BY <1>3, <1>5, <2>1, <2>2 DEF RoundsInv
  <2> QED BY <1>0, <1>5, <2>2, TargetStep
<1>6. ASSUME NEW t \in Takes, Stored(t)' PROVE rec'[t].round \in Rounds /\ round'[rec'[t].round] # "deleted"
  <2>0. rec \in [Takes -> Row] /\ op[t] \in Operation BY <1>0 DEF TypeOK
  <2>1. CASE SaveRecording(t)
    <3>1. queue # <<>> /\ Head(queue).kind = "save" /\ round[Head(queue).round] # "deleted" /\ UNCHANGED round
          /\ rec'[t].round = Head(queue).round
      BY <2>0, <2>1 DEF SaveRecording, Serve
    <3> QED BY <1>1, <3>1, TaskFields
  <2>2. CASE RecoverRow(t)
    <3>1. rec'[t].round = op[t].round /\ op[t].round # Unsaved /\ round[op[t].round] # "deleted" /\ UNCHANGED round
      BY <2>0, <2>2 DEF RecoverRow, Recoverable
    <3> QED BY <2>0, <3>1 DEF Operation
  <2>3. CASE /\ Stored(t) /\ rec'[t].round = rec[t].round
             /\ DeleteRun => rec[t].round # Head(queue).round
    BY <1>0, <1>2, <2>3, RoundStep DEF RoundsInv
  <2> QED BY <1>6, <2>1, <2>2, <2>3, RowsKept
<1>7. ASSUME NEW t \in Takes, capture'[t] = "done" PROVE ~Pending(t)'
  <2>1. CASE capture[t] = "done"
    <3>1. ~Pending(t) /\ ~Reserve(t) BY <2>1 DEF RoundsInv, Reserve, Awaited
    <3> QED BY <3>1, OperationsStep DEF Pending
  <2>2. CASE SettleOperation(t)
    <3>1. queue # <<>> /\ Head(queue).kind = "settle" /\ op' = [op EXCEPT ![t].state = Head(queue).to]
      BY <2>2 DEF SettleOperation, Serve
    <3>2. Head(queue).to \in {"committed", "failed"} BY <1>1, <3>1, TaskFields
    <3>3. op[t] \in Operation /\ op'[t] = [op[t] EXCEPT !.state = Head(queue).to] BY <1>0, <3>1 DEF TypeOK
    <3>4. op'[t].state = Head(queue).to BY <3>2, <3>3, OperationState
    <3> QED BY <3>2, <3>4 DEF Pending
  <2>3. CASE Crash BY <1>0, <1>7, <2>1, <2>3 DEF Crash, TypeOK
  <2>4. CASE Moves
    <3>1. PICK base, next, T : QueueMove(base, next, T) /\ \A u \in T : Advances(u, base, next)
      <4>1. CASE \E base, next : QueueMove(base, next, {}) BY <4>1
      <4>2. CASE \E base, next : \E u \in Takes : QueueMove(base, next, {u}) /\ Advances(u, base, next)
        BY <4>2
      <4> QED BY <2>4, <4>1, <4>2 DEF Moves
    <3>2. CASE t \notin T BY <1>7, <2>1, <3>1, <3>2 DEF QueueMove
    <3>3. CASE t \in T
      <4>1. Advances(t, base, next) BY <3>1, <3>3
      <4>2. SaveRecording(t) => capture'[t] = "status" BY <1>0, EnterStage DEF SaveRecording
      <4> QED BY <1>7, <2>2, <4>1, <4>2 DEF Advances
    <3> QED BY <3>2, <3>3
  <2> QED BY <1>0, <2>3, <2>4, EveryMove
<1>8. ASSUME NEW i \in DOMAIN queue', queue'[i].kind = "status" PROVE queue'[i].to \notin {"none", "deleted"}
  <2>1. CASE Crash BY <1>8, <2>1, NoPosition DEF Crash
  <2>2. CASE Moves
    <3>1. PICK base, next, T : QueueMove(base, next, T) BY <2>2 DEF Moves
    <3>2. base \in Seq(Task) /\ next \in Seq(Task) /\ queue' = base \o next BY <1>0, <3>1, BasePosition DEF QueueMove
    <3>3. PICK k \in {0, 1} : \A j \in DOMAIN base : j \in Nat /\ j + k \in DOMAIN queue /\ base[j] = queue[j + k]
      BY <1>0, <3>1, BasePosition
    <3>4. CASE i \in DOMAIN base /\ queue'[i] = base[i] BY <1>8, <3>3, <3>4 DEF RoundsInv
    <3>5. CASE i - Len(base) \in DOMAIN next /\ queue'[i] = next[i - Len(base)]
      BY <1>8, <3>1, <3>5 DEF QueueMove, Appended
    <3> QED BY <1>8, <3>2, <3>4, <3>5, Joined
  <2> QED BY <1>0, <2>1, <2>2, EveryMove
<1> QED BY <1>4, <1>5, <1>6, <1>7, <1>8 DEF RoundsInv, Stored, Pending

\* The claim on a take whose capture goes on.
LEMMA ReleaseAdvance ==
    ASSUME TypeOK, OwnedInv, RoundsInv, ReleaseInv, NEW base, NEW next, NEW t \in Takes,
           QueueMove(base, next, {t}), Advances(t, base, next),
           capture'[t] \in {"status", "commit", "done"}, Ready(t)'
    PROVE  rec'[t].round = (RoundOf(t))' /\ ((Alone(t))' => (Closing(t))')
<1>0. /\ base \in Seq(Task) /\ next \in Seq(Task) /\ queue' = base \o next
      /\ rec \in [Takes -> Row] /\ round \in [Rounds -> Status] /\ queue \in Seq(Task)
  BY BasePosition DEF QueueMove, TypeOK
<1>1. RoundOf(t) \in Rounds BY RoundOfType
<1>2. ASSUME NEW i \in DOMAIN queue'
      PROVE  /\ i \in Nat
             /\ \/ i \in DOMAIN base /\ i <= Len(base) /\ queue'[i] = base[i]
                \/ i > Len(base) /\ i - Len(base) \in DOMAIN next /\ queue'[i] = next[i - Len(base)]
  BY <1>0, <1>2, Joined
<1>3. CASE SaveRecording(t) /\ next = <<Do("status", t, RoundOf(t), "round_saved")>>
  <2>1. /\ queue # <<>> /\ Head(queue).kind = "save" /\ Owned(Head(queue)) /\ Head(queue).take = t
        /\ Enter(t, "status") /\ rec'[t].round = Head(queue).round
    BY <1>0, <1>3 DEF SaveRecording, Serve, Awaited, About, Owned
  <2>2. Head(queue).round = RoundOf(t) BY <2>1, HeadOwned DEF OnItsRound
  <2>3. capture'[t] = "status" /\ (RoundOf(t))' = RoundOf(t) BY <2>1, EnterStage DEF RoundOf
  <2>4. DOMAIN next = {1} BY <1>3, Singleton
  <2>5. ASSUME NEW i \in DOMAIN queue', NEW j \in DOMAIN queue', Owned(queue'[i]), queue'[i].take = t, i < j
        PROVE  FALSE
    <3>1. i \notin DOMAIN base \/ queue'[i] # base[i] BY <2>5 DEF QueueMove
    <3>2. i > Len(base) /\ i - Len(base) \in DOMAIN next /\ i \in Nat BY <1>2, <3>1
    <3>3. j \in Nat /\ Len(base) \in Nat BY <1>0, <1>2, LenProperties
    <3>4. j > Len(base) BY <2>5, <3>2, <3>3
    <3>5. j - Len(base) \in DOMAIN next BY <1>2, <3>3, <3>4
    <3> QED BY <2>4, <2>5, <3>2, <3>3, <3>5
  <2>6. (Closing(t))' BY <2>3, <2>5 DEF Closing, Owned
  <2> QED BY <2>1, <2>2, <2>3, <2>6
<1>4. ASSUME queue # <<>>, base = Tail(queue), NEW j \in DOMAIN base
      PROVE  j \in Nat /\ j + 1 \in DOMAIN queue /\ 1 < j + 1 /\ base[j] = queue[j + 1]
  <2>1. /\ Len(base) = Len(queue) - 1 /\ \A i \in 1 .. Len(base) : base[i] = queue[i + 1]
    BY <1>0, <1>4, HeadTailProperties
  <2>2. DOMAIN base = 1 .. Len(base) /\ DOMAIN queue = 1 .. Len(queue) /\ Len(queue) \in Nat
    BY <1>0, <2>1, LenProperties
  <2> QED BY <2>1, <2>2
<1>5. CASE /\ UpdateRoundStatus /\ Awaited(t, "status") /\ capture'[t] = "commit"
           /\ base = Tail(queue) /\ next = <<Do("settle", t, RoundOf(t), "committed")>>
  <2>1. /\ queue # <<>> /\ Head(queue).kind = "status" /\ Owned(Head(queue)) /\ Head(queue).take = t
        /\ capture[t] = "status" /\ UNCHANGED rec
    BY <1>5 DEF UpdateRoundStatus, Serve, Awaited, About, Owned
  <2>2. Head(queue).round = RoundOf(t) BY <2>1, HeadOwned DEF OnItsRound
  <2>3. Head(queue).to = "round_saved"
    <3>1. t # NoTake BY JournalNameAssumption
    <3>2. ~\E u \in Takes : Awaited(u, "mark") BY <2>1 DEF Awaited, About
    <3> QED BY <1>5, <2>1, <3>1, <3>2 DEF UpdateRoundStatus
  <2>4. Ready(t) /\ Stored(t) BY <2>1 DEF Ready, Stored
  <2>5. rec[t].round = RoundOf(t) /\ (Alone(t) => Closing(t)) BY <2>1, <2>4 DEF ReleaseInv
  <2>6. (RoundOf(t))' = RoundOf(t) BY <2>1 DEF QueueMove, RoundOf
  <2>7. round'[RoundOf(t)] = "round_saved"
    <3>1. round[RoundOf(t)] # "deleted" BY <2>4, <2>5 DEF RoundsInv
    <3>2. round' = [round EXCEPT ![RoundOf(t)] = IF round[RoundOf(t)] = "deleted" THEN round[RoundOf(t)] ELSE "round_saved"]
      BY <1>5, <2>2, <2>3 DEF UpdateRoundStatus
    <3> QED BY <1>0, <1>1, <3>1, <3>2
  <2>8. ASSUME (Alone(t))', NEW j \in DOMAIN queue' PROVE ~Writes(queue'[j], RoundOf(t))
    <3>1. Closing(t) BY <2>5, <2>6, <2>8, AloneBefore
    <3>2. Head(queue) = queue[1] /\ 1 \in DOMAIN queue BY <1>0, <2>1, LenProperties, EmptySeq
    <3>3. CASE j \in DOMAIN base /\ queue'[j] = base[j]
      <4>1. j + 1 \in DOMAIN queue /\ 1 < j + 1 /\ queue'[j] = queue[j + 1] BY <1>4, <1>5, <2>1, <3>3
      <4> QED BY <2>1, <3>1, <3>2, <4>1 DEF Closing
    <3>4. CASE j - Len(base) \in DOMAIN next /\ queue'[j] = next[j - Len(base)]
      <4> DEFINE task == Do("settle", t, RoundOf(t), "committed")
      <4>1. task.kind = "settle" BY DEF Do
      <4>2. next = <<task>> BY <1>5
      <4> HIDE DEF task
      <4>3. queue'[j] = task BY <3>4, <4>2, Singleton
      <4> QED BY <4>1, <4>3 DEF Writes
    <3> QED BY <1>2, <2>8, <3>3, <3>4
  <2>9. (Alone(t))' => (Closing(t))' BY <1>5, <2>6, <2>7, <2>8 DEF Closing, Writes
  <2> QED BY <2>1, <2>5, <2>6, <2>9
<1>6. CASE /\ SettleOperation(t) /\ Awaited(t, "commit") /\ capture'[t] = "done"
           /\ base = Tail(queue) /\ next = <<>>
  <2>1. queue # <<>> /\ capture[t] = "commit" /\ UNCHANGED <<rec, round, target>>
    BY <1>6 DEF SettleOperation, Serve, Awaited, Enter
  <2>2. Ready(t) /\ (RoundOf(t))' = RoundOf(t) BY <2>1 DEF Ready, RoundOf
  <2>3. rec[t].round = RoundOf(t) /\ (Alone(t) => Closing(t)) BY <2>1, <2>2 DEF ReleaseInv
  <2>4. ASSUME (Alone(t))' PROVE (Closing(t))'
    <3>1. Closing(t) BY <2>2, <2>3, <2>4, AloneBefore
    <3>2. /\ round[RoundOf(t)] = "round_saved" /\ \A i \in DOMAIN queue : ~Writes(queue[i], RoundOf(t))
      BY <2>1, <3>1 DEF Closing
    <3>3. ASSUME NEW j \in DOMAIN queue' PROVE ~Writes(queue'[j], RoundOf(t))
      <4>1. j \in DOMAIN base /\ queue'[j] = base[j] BY <1>2, <1>6, <3>3, NoPosition
      <4> QED BY <1>4, <1>6, <2>1, <3>2, <4>1
    <3> QED BY <1>6, <2>1, <2>2, <3>2, <3>3 DEF Closing, Writes
  <2> QED BY <2>1, <2>2, <2>3, <2>4
<1> QED BY <1>3, <1>5, <1>6 DEF Advances

LEMMA ReleaseStep ==
    ASSUME JournalInv, ReservedInv, OwnedInv, RoundsInv, RoundsInv', ReleaseInv, Next
    PROVE  ReleaseInv'
<1> SUFFICES ASSUME NEW t \in Takes, capture'[t] \in {"status", "commit", "done"}, Ready(t)'
             PROVE  rec'[t].round = (RoundOf(t))' /\ ((Alone(t))' => (Closing(t))')
  BY DEF ReleaseInv
<1>0. TypeOK BY DEF JournalInv
<1>1. CASE Crash
  <2>1. /\ capture[t] = "done" /\ capture'[t] = "done" /\ queue' = <<>> /\ UNCHANGED <<rec, round, target>>
    BY <1>0, <1>1 DEF Crash, TypeOK
  <2>2. Ready(t) /\ (RoundOf(t))' = RoundOf(t) /\ ((Alone(t))' => Alone(t))
    BY <2>1 DEF Ready, RoundOf, Alone
  <2>3. rec[t].round = RoundOf(t) /\ (Alone(t) => Closing(t)) BY <2>1, <2>2 DEF ReleaseInv
  <2>4. Closing(t) => (Closing(t))' BY <2>1, <2>2, NoPosition DEF Closing
  <2> QED BY <2>1, <2>2, <2>3, <2>4
<1>2. ASSUME NEW base, NEW next, NEW T, QueueMove(base, next, T), t \notin T
      PROVE  rec'[t].round = (RoundOf(t))' /\ ((Alone(t))' => (Closing(t))')
  <2>1. capture[t] = capture'[t] BY <1>2 DEF QueueMove
  <2>2. ~SaveRecording(t) BY <2>1 DEF SaveRecording, Awaited
  <2>3. ~RecoverRow(t)
    <3> SUFFICES ASSUME RecoverRow(t) PROVE FALSE OBVIOUS
    <3>1. ~Up /\ t \in launch.todo BY DEF RecoverRow, NextArtifact, Up
    <3>2. capture[t] = "done" BY <2>1, <3>1 DEF JournalInv, LaunchInv
    <3> QED BY <3>1, <3>2 DEF ReservedInv, RoundsInv
  <2>4. /\ rec'[t] = rec[t] /\ Ready(t) /\ Stored(t)
        /\ DeleteRun => rec[t].round # Head(queue).round
    <3>1. Stored(t)' BY DEF Ready, Stored
    <3>2. rec'[t] = rec[t] /\ (DeleteRun => rec[t].round # Head(queue).round)
      BY <2>2, <2>3, <3>1, RowsKept
    <3> QED BY <3>1, <3>2 DEF Ready, Stored
  <2>5. RoundOf(t) \in Rounds /\ rec[t].round = RoundOf(t) BY <1>0, <2>1, <2>4, RoundOfType DEF ReleaseInv
  <2>6. ASSUME Closing(t), capture[t] # "status" PROVE round'[RoundOf(t)] = "round_saved"
    <3>1. /\ round[RoundOf(t)] = "round_saved" /\ \A i \in DOMAIN queue : ~Writes(queue[i], RoundOf(t))
      BY <2>6 DEF Closing
    <3>2. queue # <<>> => ~Writes(Head(queue), RoundOf(t))
      <4>1. queue \in Seq(Task) BY <1>0 DEF TypeOK
      <4>2. queue # <<>> => Head(queue) = queue[1] /\ 1 \in DOMAIN queue BY <4>1, LenProperties, EmptySeq
      <4> QED BY <3>1, <4>2
    <3>3. ~(CreateRound /\ Head(queue).round = RoundOf(t)) BY <3>2 DEF CreateRound, Serve, Writes
    <3>4. ~(UpdateRoundStatus /\ Head(queue).round = RoundOf(t)) BY <3>2 DEF UpdateRoundStatus, Serve, Writes
    <3>5. ~(DeleteRun /\ Head(queue).round = RoundOf(t)) BY <2>4, <2>5
    <3> QED BY <1>0, <2>5, <3>1, <3>3, <3>4, <3>5, RoundStep
  <2> QED BY <1>0, <1>2, <2>1, <2>4, <2>6, ReleaseMove
<1>3. CASE Moves
  <2>1. CASE \E base, next : QueueMove(base, next, {}) BY <1>2, <2>1
  <2>2. ASSUME NEW base, NEW next, NEW u \in Takes, QueueMove(base, next, {u}), Advances(u, base, next)
        PROVE  rec'[t].round = (RoundOf(t))' /\ ((Alone(t))' => (Closing(t))')
    <3>1. CASE u = t BY <1>0, <2>2, <3>1, ReleaseAdvance
    <3>2. CASE u # t BY <1>2, <2>2, <3>2
    <3> QED BY <3>1, <3>2
  <2> QED BY <1>3, <2>1, <2>2 DEF Moves
<1> QED BY <1>0, <1>1, <1>3, EveryMove

LEMMA OwnedStep == ASSUME TypeOK, OwnedInv, Next PROVE OwnedInv'
<1>1. CASE Crash BY <1>1, NoPosition DEF Crash, OwnedInv
<1>2. CASE Moves BY <1>2, OwnedMove DEF Moves
<1> QED BY <1>1, <1>2, EveryMove

ReleasedInv == OwnedInv /\ RoundsInv /\ ReleaseInv

LEMMA InitReleased == Init => ReleasedInv
<1> SUFFICES ASSUME Init PROVE ReleasedInv OBVIOUS
<1>1. OwnedInv BY NoPosition DEF Init, OwnedInv
<1>2. RoundsInv BY NoPosition DEF Init, RoundsInv, Stored, Pending
<1>3. ReleaseInv BY DEF Init, ReleaseInv, Ready
<1> QED BY <1>1, <1>2, <1>3 DEF ReleasedInv

LEMMA ReleasedStep == JournalInv /\ ReservedInv /\ ReleasedInv /\ [Next]_vars => ReleasedInv'
<1> SUFFICES ASSUME JournalInv, ReservedInv, ReleasedInv, [Next]_vars PROVE ReleasedInv' OBVIOUS
<1>1. CASE Next
  <2>1. JournalInv' BY JournalStep
  <2>2. OwnedInv /\ RoundsInv /\ ReleaseInv /\ TypeOK BY DEF ReleasedInv, JournalInv
  <2>3. OwnedInv' BY <1>1, <2>2, OwnedStep
  <2>4. RoundsInv' BY <1>1, <2>1, <2>2, RoundsStep
  <2>5. ReleaseInv' BY <1>1, <2>2, <2>4, ReleaseStep
  <2> QED BY <2>3, <2>4, <2>5 DEF ReleasedInv
<1>2. CASE UNCHANGED vars
  BY <1>2 DEF ReleasedInv, OwnedInv, RoundsInv, ReleaseInv, Owned, StageOf, OnItsRound, RoundOf, Stored, Ready,
              Pending, Alone, Closing, Writes
<1> QED BY <1>1, <1>2

\* A take whose capture is over does not hold on to the quota: unless another capture
\* works on its round, the round is saved, although finishRecording awaits neither
\* "finalizing" nor what it writes when it fails, and the learner deletes rounds meanwhile.
THEOREM SavedTakesAreReleased == SafeSpec => []SavedTakeIsReleased
<1>1. ASSUME ReleasedInv PROVE SavedTakeIsReleased
  <2> SUFFICES ASSUME NEW t \in Takes, capture[t] = "done", Ready(t),
                      \A u \in Takes \ {t} : rec[t].round \notin {target[u], FreeRound[u]}
               PROVE  round[rec[t].round] = "round_saved"
    BY DEF SavedTakeIsReleased
  <2>1. rec[t].round = RoundOf(t) /\ (Alone(t) => Closing(t)) BY <1>1 DEF ReleasedInv, ReleaseInv
  <2>2. Closing(t) BY <2>1 DEF Alone
  <2> QED BY <2>1, <2>2 DEF Closing
<1>2. QuotaInv => ReservedInv BY DEF QuotaInv
<1> QED BY <1>1, <1>2, InitQuota, QuotaInvStep, InitReleased, ReleasedStep, JournalInvariant, PTL DEF SafeSpec
=============================================================================

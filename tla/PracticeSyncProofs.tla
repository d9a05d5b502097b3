------------------------- MODULE PracticeSyncProofs -------------------------
(***************************************************************************)
(* Safety of the client outbox, for any number of chains, recordings and      *)
(* operations, of requests that fail and of restarts.  Three facts that hold   *)
(* at every await are inductive together: the rows have their types, a         *)
(* deletion has done what the step it is at presupposes, and a chain that      *)
(* closes its entry has brought the result.  The types of everything else come  *)
(* from an invariant of their own: what chains and requests are about fits.     *)
(***************************************************************************)
EXTENDS PracticeSync, FiniteSetTheorems, TLAPS

\* The rows, and of the chains no more than where they are: what they listed
\* plays no part in the argument.
Rows ==
    /\ local \in [Recordings -> {"kept", "deleted", "discarded"}]
    /\ outbox \in [Ops -> Entry]
    /\ tombstone \in [Recordings -> {"none", "active", "completed"}]
    /\ deletion \in [Recordings -> {"none", "queue", "remove", "file"}]
    /\ pc \in [Tasks -> Awaits]
    /\ DOMAIN todo = Tasks

\* The order of deleteRun: tombstone, rows, file.
DeletionInOrder ==
    \A r \in Recordings :
        /\ deletion[r] = "remove" => tombstone[r] # "none"
        /\ deletion[r] = "file" => local[r] # "kept"

\* The entry a chain works on has a row, whose recording stays the same; and the
\* result is there when the chain is about to close the entry as completed.
Started(t) ==
    (pc[t] \notin {"idle", "next"} /\ Current(t).entry \in Ops)
        => outbox[Current(t).entry].state # "none"

Saved(t) ==
    \A r \in Recordings :
        (/\ pc[t] = "complete" /\ Current(t).entry \in Ops
         /\ RecordingOf(Current(t).entry) = r /\ local[r] = "kept")
            => r \in feedback

ResultsKept == \A t \in Tasks : Started(t) /\ Saved(t)

Removal == DeletionInOrder /\ RemovalIsOrdered
Results == ResultsKept /\ CompletedHasFeedback
IInv == Rows /\ Removal /\ Results

-----------------------------------------------------------------------------
(* The rows                                                                *)

\* The rows have their types at first,
LEMMA InitRows == Init => Rows
BY DEF Init, Rows, Entry, Awaits

\* after a step of a chain,
LEMMA TaskRows ==
    ASSUME Rows, NEW t \in Tasks, TaskStep(t) PROVE Rows'
<1> USE DEF Rows, Awaits, Sending, Writing, Goto, Finish, Update, device, network, Entry
<1>1. CASE StartEntry(t)
  BY <1>1 DEF StartEntry
<1>2. CASE StartDeletion(t)
  BY <1>2 DEF StartDeletion
<1>3. CASE Create(t)
  BY <1>3 DEF Create
<1>4. CASE Put(t)
  BY <1>4 DEF Put
<1>5. CASE Finalize(t)
  BY <1>5 DEF Finalize
<1>6. CASE Submit(t)
  <2>1. CASE Accepts(Current(t).entry)
    <3>1. /\ outbox' = [outbox EXCEPT ![Current(t).entry].job = TRUE,
                                     ![Current(t).entry].state = "active"]
          /\ pc' = [pc EXCEPT ![t] = "poll"] /\ todo' = todo
          /\ UNCHANGED <<local, tombstone, deletion>>
      BY <1>6, <2>1 DEF Submit
    <3> QED
      BY <3>1
  <2>2. CASE ~Accepts(Current(t).entry)
    BY <1>6, <2>2 DEF Submit
  <2> QED
    BY <2>1, <2>2
<1>7. CASE Poll(t)
  BY <1>7 DEF Poll
<1>8. CASE Delete(t)
  BY <1>8 DEF Delete
<1>9. CASE CapRefuses(t)
  BY <1>9 DEF CapRefuses
<1>10. CASE Unanswered(t)
  BY <1>10 DEF Unanswered
<1>11. CASE SaveResult(t)
  BY <1>11 DEF SaveResult
<1>12. CASE CompleteEntry(t) \/ FailEntry(t) \/ RetryEntry(t)
  BY <1>12 DEF CompleteEntry, FailEntry, RetryEntry, Close
<1>13. CASE RetryDeletion(t)
  BY <1>13 DEF RetryDeletion
<1> QED
  BY <1>1, <1>2, <1>3, <1>4, <1>5, <1>6, <1>7, <1>8, <1>9, <1>10, <1>11, <1>12, <1>13
  DEF TaskStep

\* and after every other step.
LEMMA NextRows == Rows /\ [Next]_vars => Rows'
<1> SUFFICES ASSUME Rows, [Next]_vars PROVE Rows'
  OBVIOUS
<1> USE DEF device, network, chains
<1>1. ASSUME NEW t \in Tasks, NEW r \in Recordings, RequestFeedback(t, r) PROVE Rows'
  BY <1>1 DEF RequestFeedback, Rows, Begin, Awaits, Entry
<1>2. ASSUME NEW t \in Tasks, StartDrain(t) PROVE Rows'
  BY <1>2 DEF StartDrain, Rows, Begin, Awaits
<1>3. ASSUME NEW t \in Tasks, TaskStep(t) PROVE Rows'
  BY <1>3, TaskRows
<1>4. ASSUME NEW r \in Recordings, CancelEntries(r) PROVE Rows'
  BY <1>4 DEF CancelEntries, Rows, Entry
<1>5. ASSUME NEW r \in Recordings, DeletionStep(r) PROVE Rows'
  BY <1>5 DEF DeletionStep, InsertTombstone, RemoveRows, RemoveFile, Rows
<1>6. ASSUME NEW r \in Recordings, Discard(r) \/ ServerExpires(r) PROVE Rows'
  BY <1>6 DEF Discard, ServerExpires, Rows
<1>7. ASSUME NEW o \in Ops, WorkerCloses(o) PROVE Rows'
  BY <1>7 DEF WorkerCloses, Rows
<1>8. ASSUME NEW req \in late, Arrive(req) PROVE Rows'
  BY <1>8 DEF Arrive, Rows
<1>9. CASE Restart
  BY <1>9 DEF Restart, Rows, Awaits
<1>10. CASE UNCHANGED vars
  BY <1>10 DEF vars, Rows
<1> QED
  BY <1>1, <1>2, <1>3, <1>4, <1>5, <1>6, <1>7, <1>8, <1>9, <1>10 DEF Next

-----------------------------------------------------------------------------
(* Removal                                                                 *)

\* A chain touches of all this only the tombstone it works on.
LEMMA TaskTombstone ==
    ASSUME Rows, NEW t \in Tasks, TaskStep(t)
    PROVE  /\ UNCHANGED <<local, file, deletion>>
           /\ \A r \in Recordings : tombstone[r] # "none" => tombstone'[r] # "none"
<1> USE DEF Rows, device
<1>1. CASE StartDeletion(t) \/ Delete(t) \/ RetryDeletion(t)
  BY <1>1 DEF StartDeletion, Delete, RetryDeletion
<1>2. CASE StartEntry(t) \/ Create(t) \/ Put(t) \/ Finalize(t)
  BY <1>2 DEF StartEntry, Create, Put, Finalize
<1>3. CASE Submit(t) \/ Poll(t) \/ CapRefuses(t) \/ Unanswered(t)
  BY <1>3 DEF Submit, Poll, CapRefuses, Unanswered
<1>4. CASE SaveResult(t) \/ CompleteEntry(t) \/ FailEntry(t) \/ RetryEntry(t)
  BY <1>4 DEF SaveResult, CompleteEntry, FailEntry, RetryEntry, Close
<1> QED
  BY <1>1, <1>2, <1>3, <1>4 DEF TaskStep

\* Every step leaves removals in order.
LEMMA NextRemoval == Rows /\ Removal /\ [Next]_vars => Removal'
<1> SUFFICES ASSUME Rows, Removal, [Next]_vars PROVE Removal'
  OBVIOUS
<1> USE DEF Removal, DeletionInOrder, RemovalIsOrdered, device
<1>1. CASE \E t \in Tasks : (\E r \in Recordings : RequestFeedback(t, r)) \/ StartDrain(t)
  BY <1>1 DEF RequestFeedback, StartDrain
<1>2. ASSUME NEW t \in Tasks, TaskStep(t) PROVE Removal'
  BY <1>2, TaskTombstone
<1>3. ASSUME NEW r \in Recordings, CancelEntries(r) PROVE Removal'
  BY <1>3 DEF CancelEntries, Rows
<1>4. ASSUME NEW r \in Recordings, InsertTombstone(r) PROVE Removal'
  BY <1>4 DEF InsertTombstone, Rows
<1>5. ASSUME NEW r \in Recordings, RemoveRows(r) PROVE Removal'
  BY <1>5 DEF RemoveRows, Rows
<1>6. ASSUME NEW r \in Recordings, RemoveFile(r) PROVE Removal'
  BY <1>6 DEF RemoveFile, Rows
<1>7. ASSUME NEW r \in Recordings, Discard(r) PROVE Removal'
  BY <1>7 DEF Discard, Rows
<1>8. CASE \/ \E r \in Recordings : ServerExpires(r)
           \/ \E o \in Ops : WorkerCloses(o)
           \/ \E req \in late : Arrive(req)
  BY <1>8 DEF ServerExpires, WorkerCloses, Arrive
<1>9. CASE Restart
  BY <1>9 DEF Restart
<1>10. CASE UNCHANGED vars
  BY <1>10 DEF vars
<1> QED
  BY <1>1, <1>2, <1>3, <1>4, <1>5, <1>6, <1>7, <1>8, <1>9, <1>10 DEF Next, DeletionStep

-----------------------------------------------------------------------------
(* Results                                                                 *)

\* The other chains keep their place and what they listed.
Alone(t) ==
    \A u \in Tasks \ {t} : pc'[u] = pc[u] /\ todo'[u] = todo[u]

\* A chain that goes on, or is done with an entry, disturbs no other.
LEMMA GotoAlone ==
    ASSUME Rows, NEW t \in Tasks, NEW next, Goto(t, next)
    PROVE  /\ Alone(t) /\ pc'[t] = next /\ todo' = todo
BY DEF Goto, Alone, Rows

LEMMA FinishAlone ==
    ASSUME Rows, NEW t \in Tasks, Finish(t)
    PROVE  Alone(t) /\ pc'[t] \in {"idle", "next"}
BY DEF Finish, Alone, Rows

\* A row that is written keeps its recording, and a row that is there stays.
RowsStay ==
    \A o \in Ops :
        /\ outbox'[o].rec = outbox[o].rec
        /\ outbox[o].state # "none" => outbox'[o].state # "none"

\* What a step has to see to for the results: the row of the entry a chain goes on
\* with is there, and who closes an entry as completed was about to.
LEMMA ResultsFrame ==
    ASSUME Rows, Rows', Results, RowsStay, NEW t \in Tasks, Alone(t),
           \A r \in Recordings : local'[r] = "kept" => local[r] = "kept",
           \A r \in Recordings : (r \in feedback /\ local'[r] = "kept") => r \in feedback',
           Started(t)', Saved(t)',
           \A o \in Ops :
             (outbox'[o].state = "completed" /\ outbox[o].state # "completed")
                => pc[t] = "complete" /\ Current(t).entry = o
    PROVE  Results'
<1> USE DEF Results, RowsStay, RecordingOf
<1>1. ASSUME NEW u \in Tasks, u # t PROVE Started(u)' /\ Saved(u)'
  <2>1. Started(u) /\ Saved(u) /\ pc'[u] = pc[u] /\ todo'[u] = todo[u]
    BY <1>1 DEF ResultsKept, Alone
  <2> QED
    BY <2>1 DEF Started, Saved, Current
<1>2. ResultsKept'
  BY <1>1 DEF ResultsKept
<1>3. CompletedHasFeedback'
  <2> SUFFICES ASSUME NEW o \in Ops, NEW r \in Recordings, outbox'[o].state = "completed",
                      outbox'[o].rec = r, local'[r] = "kept"
               PROVE  r \in feedback'
    BY DEF CompletedHasFeedback
  <2>1. CASE outbox[o].state = "completed"
    BY <2>1 DEF CompletedHasFeedback
  <2>2. CASE outbox[o].state # "completed"
    BY <2>2 DEF ResultsKept, Saved
  <2> QED
    BY <2>1, <2>2
<1> QED
  BY <1>2, <1>3

\* A chain that goes on, and is not about to close its entry as completed.
LEMMA GoOnResults ==
    ASSUME Rows, Rows', Results, RowsStay, NEW t \in Tasks,
           NEW next, Goto(t, next), next # "complete", UNCHANGED <<local, feedback>>,
           \A o \in Ops : outbox'[o].state = "completed" => outbox[o].state = "completed",
           Current(t).entry \in Ops => outbox'[Current(t).entry].state # "none"
    PROVE  Results'
<1>1. Alone(t) /\ pc'[t] = next /\ todo' = todo
  BY GotoAlone
<1>2. Started(t)' /\ Saved(t)'
  BY <1>1 DEF Started, Saved, Current
<1> QED
  BY <1>1, <1>2, ResultsFrame

\* A chain that is done with its entry.
LEMMA FinishResults ==
    ASSUME Rows, Rows', Results, RowsStay, NEW t \in Tasks, Finish(t),
           UNCHANGED <<local, feedback>>,
           \A o \in Ops :
             (outbox'[o].state = "completed" /\ outbox[o].state # "completed")
                => pc[t] = "complete" /\ Current(t).entry = o
    PROVE  Results'
<1>1. Alone(t) /\ pc'[t] \in {"idle", "next"}
  BY FinishAlone
<1>2. Started(t)' /\ Saved(t)'
  BY <1>1 DEF Started, Saved
<1> QED
  BY <1>1, <1>2, ResultsFrame

\* A chain that marks the row of its entry and goes on with it.
LEMMA MarkResults ==
    ASSUME Rows, Rows', Results, NEW t \in Tasks, NEW e, e = Current(t).entry,
           NEW next, Goto(t, next), next # "complete", UNCHANGED <<local, feedback>>,
           \/ outbox' = [outbox EXCEPT ![e].state = "active"]
           \/ outbox' = [outbox EXCEPT ![e].upload = TRUE, ![e].state = "active"]
           \/ outbox' = [outbox EXCEPT ![e].job = TRUE, ![e].state = "active"]
    PROVE  Results'
<1>1. /\ RowsStay
      /\ e \in Ops => outbox'[e].state = "active"
      /\ \A o \in Ops : o # e => outbox'[o] = outbox[o]
  BY DEF Rows, RowsStay, Entry
<1>2. \A o \in Ops : outbox'[o].state = "completed" => outbox[o].state = "completed"
  BY <1>1
<1> QED
  BY <1>1, <1>2, GoOnResults

\* What a write to a row changes.
LEMMA WriteRow ==
    ASSUME Rows, NEW e, NEW state, state # "none",
           outbox' = [outbox EXCEPT ![e].state = state]
    PROVE  /\ RowsStay
           /\ e \in Ops => outbox'[e].state = state
           /\ \A o \in Ops : o # e => outbox'[o] = outbox[o]
BY DEF Rows, RowsStay, Entry

\* Nothing is written.
LEMMA SameRows ==
    ASSUME UNCHANGED outbox PROVE RowsStay
BY DEF RowsStay

\* A step of a chain keeps the results,
LEMMA TaskResults ==
    ASSUME Rows, Rows', Results, NEW t \in Tasks, TaskStep(t) PROVE Results'
<1> DEFINE e == Current(t).entry
<1>0. (pc[t] \notin {"idle", "next"} /\ e \in Ops) => outbox[e].state # "none"
  BY DEF Results, ResultsKept, Started
<1>1. CASE StartEntry(t)
  <2>1. /\ outbox' = [outbox EXCEPT ![e].state = "active"] /\ UNCHANGED <<local, feedback>>
        /\ \E next \in {"retry", "put", "create"} : Goto(t, next)
    BY <1>1 DEF StartEntry, Update
  <2> QED
    BY <2>1, MarkResults
<1>2. CASE StartDeletion(t)
  <2>1. e \notin Ops /\ Goto(t, "delete") /\ UNCHANGED <<local, feedback, outbox>>
    BY <1>2, SyncNameAssumption DEF StartDeletion
  <2> QED
    BY <2>1, SameRows, GoOnResults
<1>3. CASE Create(t) \/ Finalize(t)
  <2>1. /\ outbox' = [outbox EXCEPT ![e].upload = TRUE, ![e].state = "active"]
        /\ UNCHANGED <<local, feedback>>
        /\ \E next \in {"put", "poll", "submit"} : Goto(t, next)
    BY <1>3 DEF Create, Finalize
  <2> QED
    BY <2>1, MarkResults
<1>4. CASE Submit(t) /\ Accepts(e)
  <2>1. /\ outbox' = [outbox EXCEPT ![e].job = TRUE, ![e].state = "active"]
        /\ UNCHANGED <<local, feedback>> /\ Goto(t, "poll")
    BY <1>4 DEF Submit
  <2> QED
    BY <2>1, MarkResults
<1>5. CASE \/ Submit(t) /\ ~Accepts(e)
           \/ Put(t) \/ Poll(t) \/ CapRefuses(t) \/ Unanswered(t)
  <2>1. /\ pc[t] \notin {"idle", "next"} /\ UNCHANGED <<local, feedback, outbox>>
        /\ \E next \in {"finalize", "save", "retry", "fail"} : Goto(t, next)
    BY <1>5 DEF Submit, Put, Poll, CapRefuses, Unanswered, Exchange, Sending, device
  <2> QED
    BY <2>1, <1>0, SameRows, GoOnResults
<1>6. CASE Delete(t) \/ RetryDeletion(t)
  <2>1. Finish(t) /\ UNCHANGED <<local, feedback, outbox>>
    BY <1>6 DEF Delete, RetryDeletion
  <2> QED
    BY <2>1, SameRows, FinishResults
<1>7. CASE SaveResult(t)
  <2>1. pc[t] = "save" /\ UNCHANGED <<local, outbox>>
    BY <1>7 DEF SaveResult
  <2>2. CASE local[RecordingOf(e)] = "kept"
    <3>1. feedback' = feedback \union {RecordingOf(e)} /\ Goto(t, "complete")
      BY <1>7, <2>2 DEF SaveResult
    <3>2. Alone(t) /\ pc'[t] = "complete" /\ todo' = todo
      BY <3>1, GotoAlone
    <3>3. Started(t)' /\ Saved(t)'
      BY <1>0, <2>1, <3>1, <3>2 DEF Started, Saved, Current, RecordingOf
    <3> QED
      BY <2>1, <3>1, <3>2, <3>3, SameRows, ResultsFrame
  <2>3. CASE local[RecordingOf(e)] # "kept"
    <3>1. UNCHANGED feedback /\ Goto(t, "retry")
      BY <1>7, <2>3 DEF SaveResult
    <3> QED
      BY <1>0, <2>1, <3>1, SameRows, GoOnResults
  <2> QED
    BY <2>2, <2>3
<1>8. CASE CompleteEntry(t) \/ FailEntry(t) \/ RetryEntry(t)
  <2>1. PICK state \in {"completed", "failed", "active"} :
          /\ outbox' = [outbox EXCEPT ![e].state = state]
          /\ state = "completed" => pc[t] = "complete"
    BY <1>8 DEF CompleteEntry, FailEntry, RetryEntry, Close, Update
  <2>2. Finish(t) /\ UNCHANGED <<local, feedback>>
    BY <1>8 DEF CompleteEntry, FailEntry, RetryEntry, Close
  <2> QED
    BY <2>1, <2>2, WriteRow, FinishResults
<1> QED
  BY <1>1, <1>2, <1>3, <1>4, <1>5, <1>6, <1>7, <1>8 DEF TaskStep

\* and so does every other step.
LEMMA NextResults == Rows /\ Rows' /\ Results /\ [Next]_vars => Results'
<1> SUFFICES ASSUME Rows, Rows', Results, [Next]_vars PROVE Results'
  OBVIOUS
<1> USE DEF device, chains, network
<1>1. ASSUME NEW t \in Tasks, NEW r \in Recordings, RequestFeedback(t, r) PROVE Results'
  <2>1. PICK o \in Ops :
          /\ outbox[o].state = "none"
          /\ outbox' = [outbox EXCEPT ![o].state = "active", ![o].rec = r]
    BY <1>1 DEF RequestFeedback
  <2>2. /\ Alone(t) /\ pc'[t] = "next"
        /\ UNCHANGED <<local, feedback>>
    BY <1>1 DEF RequestFeedback, Begin, Alone, Rows
  <2>3. /\ outbox'[o].state = "active"
        /\ \A p \in Ops : p # o => outbox'[p] = outbox[p]
    BY <2>1 DEF Rows, Entry
  <2>4. ASSUME NEW u \in Tasks PROVE Started(u)' /\ Saved(u)'
    BY <2>1, <2>2, <2>3
    DEF Results, ResultsKept, Alone, Started, Saved, Current, RecordingOf, Rows, Awaits
  <2>5. CompletedHasFeedback'
    BY <2>2, <2>3 DEF Results, CompletedHasFeedback, RecordingOf
  <2> QED
    BY <2>4, <2>5 DEF Results, ResultsKept
<1>2. ASSUME NEW t \in Tasks, StartDrain(t) PROVE Results'
  <2>1. /\ Alone(t) /\ pc'[t] = "next"
        /\ UNCHANGED <<local, feedback, outbox>>
    BY <1>2 DEF StartDrain, Begin, Alone, Rows
  <2>2. Started(t)' /\ Saved(t)'
    BY <2>1 DEF Started, Saved
  <2> QED
    BY <2>1, <2>2, SameRows, ResultsFrame
<1>3. ASSUME NEW t \in Tasks, TaskStep(t) PROVE Results'
  BY <1>3, TaskResults
\* The rest leaves the chains where they are.
<1>4. ASSUME UNCHANGED chains, UNCHANGED outbox,
             \A r \in Recordings : local'[r] = "kept" => local[r] = "kept",
             \A r \in Recordings : (r \in feedback /\ local'[r] = "kept") => r \in feedback'
      PROVE  Results'
  BY <1>4 DEF Results, ResultsKept, CompletedHasFeedback, Started, Saved, Current, RecordingOf
<1>5. ASSUME NEW r \in Recordings, CancelEntries(r) PROVE Results'
  <2>1. UNCHANGED <<chains, local, feedback>>
    BY <1>5 DEF CancelEntries
  <2>2. \A o \in Ops : \/ outbox'[o] = outbox[o]
                       \/ /\ outbox[o].state = "active" /\ outbox'[o].state = "failed"
                          /\ outbox'[o].rec = outbox[o].rec
    BY <1>5 DEF CancelEntries, Rows, Entry
  <2>3. ASSUME NEW t \in Tasks PROVE Started(t)' /\ Saved(t)'
    BY <2>1, <2>2 DEF Results, ResultsKept, Started, Saved, Current, RecordingOf
  <2>4. CompletedHasFeedback'
    BY <2>1, <2>2 DEF Results, CompletedHasFeedback, RecordingOf
  <2> QED
    BY <2>3, <2>4 DEF Results, ResultsKept
<1>6. ASSUME NEW r \in Recordings, InsertTombstone(r) \/ RemoveFile(r) PROVE Results'
  BY <1>4, <1>6 DEF InsertTombstone, RemoveFile
<1>7. ASSUME NEW r \in Recordings, RemoveRows(r) \/ Discard(r) PROVE Results'
  BY <1>4, <1>7 DEF RemoveRows, Discard, Rows
<1>8. ASSUME NEW r \in Recordings, ServerExpires(r) PROVE Results'
  BY <1>4, <1>8 DEF ServerExpires
<1>9. ASSUME NEW o \in Ops, WorkerCloses(o) PROVE Results'
  BY <1>4, <1>9 DEF WorkerCloses
<1>10. ASSUME NEW req \in late, Arrive(req) PROVE Results'
  BY <1>4, <1>10 DEF Arrive
<1>11. CASE Restart
  <2>1. /\ \A t \in Tasks : pc'[t] = "idle"
        /\ UNCHANGED <<local, feedback, outbox>>
    BY <1>11 DEF Restart
  <2> QED
    BY <2>1 DEF Results, ResultsKept, CompletedHasFeedback, Started, Saved, RecordingOf
<1>12. CASE UNCHANGED vars
  BY <1>4, <1>12 DEF vars
<1> QED
  BY <1>1, <1>2, <1>3, <1>5, <1>6, <1>7, <1>8, <1>9, <1>10, <1>11, <1>12
  DEF Next, DeletionStep

-----------------------------------------------------------------------------
(* Types                                                                   *)

DeviceOK ==
    /\ local \in [Recordings -> {"kept", "deleted", "discarded"}]
    /\ file \subseteq Recordings /\ feedback \subseteq Recordings
    /\ outbox \in [Ops -> Entry]
    /\ tombstone \in [Recordings -> {"none", "active", "completed"}]
    /\ inserted \in Seq(Ops \union Recordings)
    /\ deletion \in [Recordings -> {"none", "queue", "remove", "file"}]

ChainsOK == pc \in [Tasks -> Awaits] /\ todo \in [Tasks -> Seq(Item)] /\ asked \subseteq Tasks

NetworkOK == late \subseteq Request /\ lost \in 0..MaxLost /\ restarts \in 0..MaxRestarts

ServerOK ==
    /\ uploads \in [Ops -> {"none", "created", "uploaded", "finalized"}]
    /\ stored \in [Recordings -> {"none", "ready", "deleted", "expired"}]
    /\ Queue!TypeOK

LEMMA TypeParts == TypeOK <=> DeviceOK /\ ChainsOK /\ NetworkOK /\ ServerOK
BY DEF TypeOK, DeviceOK, ChainsOK, NetworkOK, ServerOK

\* A chain that is not idle has work, and is at an await of the right kind of entry.
AwaitFits(t) ==
    pc[t] # "idle" =>
        /\ todo[t] # <<>>
        /\ pc[t] = "delete" => Current(t).entry \in Recordings
        /\ pc[t] \notin {"next", "delete", "retry"} => Current(t).entry \in Ops

\* What it still has to do is in the outbox, from which nothing is ever removed.
WorkFits(t) ==
    \A i \in 1..Len(todo[t]) :
        todo[t][i].entry \in Ops => outbox[todo[t][i].entry].state # "none"

\* A request that may still arrive is one that the backend has a handler for.
RequestFits(req) ==
    req.entry \in IF req.kind = "delete" THEN Recordings ELSE Ops

\* A row that is there has its recording.
RowsNamed == \A o \in Ops : outbox[o].state # "none" => outbox[o].rec \in Recordings

Fits ==
    /\ \A t \in Tasks : AwaitFits(t) /\ WorkFits(t)
    /\ \A req \in late : RequestFits(req)
    /\ RowsNamed

TypeInv == TypeOK /\ Fits

\* What is n-th from the end of a set of positions, for every n it has.
LEMMA FromTheEnd ==
    ASSUME NEW S, S \subseteq Nat, IsFiniteSet(S), NEW n \in 1..Cardinality(S)
    PROVE  \E i \in S : Cardinality({j \in S : j >= i}) = n
<1> DEFINE after(i) == {j \in S : j >= i}
           N == Cardinality(S)
           f == [i \in S |-> Cardinality(after(i))]
<1>1. N \in Nat
  BY FS_CardinalityType
<1>2. ASSUME NEW i \in S PROVE IsFiniteSet(after(i)) /\ f[i] \in 1..N
  <2>1. after(i) \in SUBSET S /\ i \in after(i)
    OBVIOUS
  <2>2. IsFiniteSet(after(i)) /\ Cardinality(after(i)) <= N
    BY <2>1, FS_Subset
  <2>3. Cardinality(after(i)) \in Nat /\ Cardinality(after(i)) # 0
    BY <2>1, <2>2, FS_CardinalityType, FS_EmptySet
  <2> HIDE DEF after, N
  <2> QED
    BY <1>1, <2>2, <2>3
<1>3. ASSUME NEW i \in S, NEW j \in S, i < j PROVE f[i] # f[j]
  <2>1. after(j) \in SUBSET after(i) /\ i \in after(i) /\ i \notin after(j)
    <3>1. i \in Nat /\ j \in Nat /\ \A k \in S : k \in Nat
      OBVIOUS
    <3>2. i >= i /\ ~(i >= j) /\ \A k \in S : k >= j => k >= i
      BY ONLY <1>3, <3>1
    <3> QED
      BY <3>2
  <2> HIDE DEF after
  <2>2. Cardinality(after(j)) # Cardinality(after(i))
    BY <1>2, <2>1, FS_Subset
  <2> QED
    BY <2>2
<1>4. f \in Injection(S, 1..N)
  <2>1. \A i, j \in S : f[i] = f[j] => i = j
    BY <1>3
  <2> QED
    BY <1>2, <2>1 DEF Injection, IsInjective
<1>5. f \in Surjection(S, 1..N)
  <2>1. IsFiniteSet(1..N) /\ Cardinality(1..N) = N
    BY <1>1, FS_Interval
  <2> HIDE DEF f
  <2> QED
    BY <1>4, <2>1, FS_Injection
<1>6. \E i \in S : f[i] = n
  BY <1>5 DEF Surjection
<1> QED
  BY <1>6

\* A listing holds what is pending and nothing else.
LEMMA ListedPending ==
    ASSUME TypeOK
    PROVE  /\ Listed \in Seq(Item)
           /\ \A k \in 1..Len(Listed) : Pending(Listed[k].entry)
<1> DEFINE S == {i \in DOMAIN inserted : Pending(inserted[i])}
           Newest(n) == CHOOSE i \in S : Cardinality({j \in S : j >= i}) = n
<1>1. /\ inserted \in Seq(Ops \union Recordings)
      /\ DOMAIN inserted = 1..Len(inserted) /\ Len(inserted) \in Nat
  BY DEF TypeOK
<1>2. S \subseteq Nat /\ IsFiniteSet(S)
  <2>1. IsFiniteSet(DOMAIN inserted)
    BY <1>1, FS_Interval
  <2>2. S \in SUBSET DOMAIN inserted
    OBVIOUS
  <2> QED
    BY <1>1, <2>1, <2>2, FS_Subset
<1>3. Cardinality(S) \in Nat
  BY <1>2, FS_CardinalityType
<1>4. Listed = [n \in 1..Cardinality(S) |-> Copy(inserted[Newest(n)])]
  BY DEF Listed
<1>5. ASSUME NEW n \in 1..Cardinality(S)
      PROVE  Copy(inserted[Newest(n)]) \in Item /\ Pending(Copy(inserted[Newest(n)]).entry)
  <2>1. \E i \in S : Cardinality({j \in S : j >= i}) = n
    <3> HIDE DEF S
    <3> QED
      BY <1>2, FromTheEnd
  <2>2. Newest(n) \in S
    BY <2>1
  <2>3. inserted[Newest(n)] \in Ops \union Recordings /\ Pending(inserted[Newest(n)])
    BY <1>1, <2>2
  <2> HIDE DEF S, Newest
  <2>4. ASSUME NEW e \in Ops \union Recordings PROVE Copy(e) \in Item /\ Copy(e).entry = e
    <3>1. (e \in Ops /\ outbox[e].upload) \in BOOLEAN /\ (e \in Ops /\ outbox[e].job) \in BOOLEAN
      OBVIOUS
    <3> QED
      BY <3>1 DEF Copy, Item
  <2> QED
    BY <2>3, <2>4
<1> HIDE DEF S, Newest
<1> QED
  BY <1>3, <1>4, <1>5

\* What a chain is working on.
LEMMA Working ==
    ASSUME TypeInv, NEW t \in Tasks, pc[t] # "idle"
    PROVE  LET e == Current(t).entry IN
           /\ todo[t] \in Seq(Item) /\ Len(todo[t]) \in Nat \ {0}
           /\ Current(t) = todo[t][1] /\ Current(t) \in Item /\ e \in Ops \union Recordings
           /\ e \in Ops => outbox[e].state # "none" /\ outbox[e].rec \in Recordings
<1>1. todo[t] \in Seq(Item) /\ todo[t] # <<>>
  BY DEF TypeInv, TypeOK, Fits, AwaitFits
<1>2. Len(todo[t]) \in Nat \ {0} /\ Current(t) = todo[t][1] /\ Current(t) \in Item
  BY <1>1 DEF Current
<1>3. Current(t).entry \in Ops => outbox[Current(t).entry].state # "none"
  BY <1>2 DEF TypeInv, Fits, WorkFits
<1> QED
  BY <1>1, <1>2, <1>3 DEF Item, TypeInv, Fits, RowsNamed

\* A chain that goes on with its entry.
LEMMA GoesOn ==
    ASSUME TypeInv, NEW t \in Tasks, pc[t] # "idle", NEW next \in Awaits, Goto(t, next),
           next = "delete" => Current(t).entry \in Recordings,
           next \notin {"idle", "next", "delete", "retry"} => Current(t).entry \in Ops,
           next # "next"
    PROVE  ChainsOK' /\ todo' = todo /\ \A u \in Tasks : AwaitFits(u)'
<1>1. ChainsOK /\ \A u \in Tasks : AwaitFits(u)
  BY DEF TypeInv, TypeOK, ChainsOK, Fits
<1>2. pc' = [pc EXCEPT ![t] = next] /\ todo' = todo /\ asked' = asked
  BY DEF Goto
<1>3. ChainsOK'
  BY <1>1, <1>2 DEF ChainsOK
<1>4. ASSUME NEW u \in Tasks PROVE AwaitFits(u)'
  BY <1>1, <1>2 DEF ChainsOK, AwaitFits, Current
<1> QED
  BY <1>2, <1>3, <1>4

\* What is left to do of what a chain, or any other, had.
Less(t) == \/ todo'[t] = todo[t]
           \/ todo'[t] = <<>>
           \/ todo[t] # <<>> /\ todo'[t] = Tail(todo[t])

\* A chain that is done with its entry.
LEMMA IsDone ==
    ASSUME TypeInv, NEW t \in Tasks, pc[t] # "idle", Finish(t)
    PROVE  ChainsOK' /\ \A u \in Tasks : AwaitFits(u)' /\ Less(u)
<1>1. ChainsOK /\ \A u \in Tasks : AwaitFits(u)
  BY DEF TypeInv, TypeOK, ChainsOK, Fits
<1>2. /\ pc' = [pc EXCEPT ![t] = IF Len(todo[t]) = 1 THEN "idle" ELSE "next"]
      /\ todo' = [todo EXCEPT ![t] = Tail(todo[t])]
      /\ asked' = asked \ {t}
  BY DEF Finish
<1>3. todo[t] \in Seq(Item) /\ Len(todo[t]) \in Nat \ {0} /\ todo[t] # <<>>
  BY <1>1, Working DEF AwaitFits
<1>4. /\ Tail(todo[t]) \in Seq(Item)
      /\ Len(todo[t]) # 1 => Tail(todo[t]) # <<>>
  <2>1. Tail(todo[t]) \in Seq(Item) /\ Len(Tail(todo[t])) = Len(todo[t]) - 1
    BY <1>3
  <2>2. Len(todo[t]) # 1 => Len(Tail(todo[t])) # 0
    BY <1>3, <2>1
  <2>3. Len(<<>>) = 0
    OBVIOUS
  <2> QED
    BY <2>1, <2>2, <2>3
<1>5. ChainsOK'
  BY <1>1, <1>2, <1>4 DEF ChainsOK, Awaits
<1>6. ASSUME NEW u \in Tasks PROVE AwaitFits(u)' /\ Less(u)
  <2>1. CASE u = t
    BY <1>1, <1>2, <1>3, <1>4, <2>1 DEF ChainsOK, AwaitFits, Less
  <2>2. CASE u # t
    <3>1. pc'[u] = pc[u] /\ todo'[u] = todo[u]
      BY <1>1, <1>2, <2>2 DEF ChainsOK
    <3> QED
      BY <1>1, <3>1 DEF AwaitFits, Less, Current
  <2> QED
    BY <2>1, <2>2
<1> QED
  BY <1>5, <1>6

\* Rows that are written keep their recording, none is made and none is removed.
RowsSame ==
    \A o \in Ops :
        /\ outbox'[o].rec = outbox[o].rec
        /\ outbox'[o].state = "none" <=> outbox[o].state = "none"

LEMMA FitsFrame ==
    ASSUME TypeInv, TypeOK', RowsSame, \A u \in Tasks : AwaitFits(u)' /\ Less(u),
           \A req \in late' : RequestFits(req)
    PROVE  TypeInv'
<1>1. ASSUME NEW u \in Tasks PROVE WorkFits(u)'
  <2>1. WorkFits(u) /\ todo[u] \in Seq(Item)
    BY DEF TypeInv, TypeOK, Fits
  <2>2. \A i \in 1..Len(todo'[u]) :
           \E j \in 1..Len(todo[u]) : todo'[u][i] = todo[u][j]
    <3>1. CASE todo'[u] = todo[u]
      BY <3>1
    <3>2. CASE todo'[u] = <<>>
      BY <3>2
    <3>3. CASE todo[u] # <<>> /\ todo'[u] = Tail(todo[u])
      <4>1. \A i \in 1..Len(Tail(todo[u])) : i + 1 \in 1..Len(todo[u]) /\ Tail(todo[u])[i] = todo[u][i + 1]
        BY <2>1, <3>3
      <4> QED
        BY <3>3, <4>1
    <3> QED
      BY <3>1, <3>2, <3>3 DEF Less
  <2> QED
    BY <2>1, <2>2 DEF WorkFits, RowsSame
<1>2. \A req \in late' : RequestFits(req)'
  BY DEF RequestFits
<1>3. RowsNamed'
  BY DEF TypeInv, Fits, RowsNamed, RowsSame
<1> QED
  BY <1>1, <1>2, <1>3 DEF TypeInv, Fits

\* What a chain writes to the row of its entry.
LEMMA RowWritten ==
    ASSUME NEW f \in [Ops -> Entry], NEW e \in Ops, NEW state \in {"active", "completed", "failed"},
           NEW g, \/ g = [f EXCEPT ![e].state = state]
                  \/ g = [f EXCEPT ![e].upload = TRUE, ![e].state = state]
                  \/ g = [f EXCEPT ![e].job = TRUE, ![e].state = state]
    PROVE  g \in [Ops -> Entry]
<1>1. CASE g = [f EXCEPT ![e].state = state]
  BY <1>1 DEF Entry
<1>2. CASE g = [f EXCEPT ![e].upload = TRUE, ![e].state = state]
  BY <1>2 DEF Entry
<1>3. CASE g = [f EXCEPT ![e].job = TRUE, ![e].state = state]
  BY <1>3 DEF Entry
<1> QED
  BY <1>1, <1>2, <1>3

LEMMA MarkedRow ==
    ASSUME TypeInv, NEW t \in Tasks, pc[t] # "idle", NEW e \in Ops, e = Current(t).entry,
           NEW state \in {"active", "completed", "failed"},
           \/ outbox' = [outbox EXCEPT ![e].state = state]
           \/ outbox' = [outbox EXCEPT ![e].upload = TRUE, ![e].state = state]
           \/ outbox' = [outbox EXCEPT ![e].job = TRUE, ![e].state = state]
    PROVE  outbox' \in [Ops -> Entry] /\ RowsSame
<1>1. outbox \in [Ops -> Entry] /\ outbox[e].state # "none"
  BY Working DEF TypeInv, TypeOK
<1>2. outbox' \in [Ops -> Entry]
  BY <1>1, RowWritten
<1>3. \A o \in Ops : o # e => outbox'[o] = outbox[o]
  BY <1>1
<1>4. outbox'[e].rec = outbox[e].rec /\ outbox'[e].state = state
  BY <1>1 DEF Entry
<1> QED
  BY <1>1, <1>2, <1>3, <1>4 DEF RowsSame

\* The handlers of the backend keep its types.
LEMMA HandlersOK ==
    ASSUME TypeInv, NEW req \in Request, RequestFits(req), Handle(req)
    PROVE  ServerOK'
<1> DEFINE e == req.entry
<1>1. ServerOK
  BY DEF TypeInv, TypeOK, ServerOK
<1>2. CASE req.kind \in {"create", "put"}
  <2>1. CreateUpload(e) \/ PutContent(e)
    BY <1>2 DEF Handle
  <2> QED
    BY <1>1, <2>1 DEF CreateUpload, PutContent, ServerOK, Queue!TypeOK
<1>3. CASE req.kind = "finalize"
  <2>1. FinalizeUpload(e)
    BY <1>3 DEF Handle
  <2> QED
    BY <1>1, <2>1 DEF FinalizeUpload, ServerOK, Queue!TypeOK
<1>4. CASE req.kind = "submit"
  <2>1. SubmitAnalysis(e)
    BY <1>4 DEF Handle
  <2>2. jobs' \in [Ops -> Queue!States] /\ revoked' = revoked
    BY <1>1, <2>1 DEF SubmitAnalysis, ServerOK, Queue!TypeOK, Queue!Submit, Queue!States
  <2> QED
    BY <1>1, <2>1, <2>2 DEF SubmitAnalysis, ServerOK, Queue!TypeOK
<1>5. CASE req.kind = "delete"
  <2>1. DeleteStored(e)
    BY <1>5 DEF Handle
  <2>2. JobsOf(e) \subseteq Ops
    BY DEF JobsOf
  <2>3. CASE stored[e] = "none"
    BY <1>1, <2>1, <2>3 DEF DeleteStored, ServerOK, Queue!TypeOK
  <2>4. CASE stored[e] # "none"
    <3>1. stored' = [stored EXCEPT ![e] = "deleted"] /\ Queue!Revoke(JobsOf(e)) /\ uploads' = uploads
      BY <2>1, <2>4 DEF DeleteStored
    <3>2. jobs' \in [Ops -> Queue!States] /\ revoked' \subseteq Ops
      BY <1>1, <2>2, <3>1 DEF ServerOK, Queue!TypeOK, Queue!Revoke, Queue!States
    <3> QED
      BY <1>1, <3>1, <3>2 DEF ServerOK, Queue!TypeOK
  <2> QED
    BY <2>3, <2>4
<1>6. CASE req.kind = "poll"
  BY <1>1, <1>6 DEF Handle, server, ServerOK, Queue!TypeOK
<1> QED
  BY <1>2, <1>3, <1>4, <1>5, <1>6 DEF Request, Sending

\* A chain that goes on or is done, and the rest of the types.
LEMMA ChainStep ==
    ASSUME TypeInv, DeviceOK', ServerOK', RowsSame, UNCHANGED network,
           ChainsOK', \A u \in Tasks : AwaitFits(u)' /\ Less(u)
    PROVE  TypeInv'
<1>1. NetworkOK' /\ \A req \in late' : RequestFits(req)
  BY DEF TypeInv, TypeOK, Fits, NetworkOK, network
<1>2. TypeOK'
  BY <1>1, TypeParts DEF TypeOK, DeviceOK, ChainsOK, NetworkOK, ServerOK
<1> QED
  BY <1>1, <1>2, FitsFrame

\* Every step of a chain keeps the types,
LEMMA TaskTypes ==
    ASSUME TypeInv, NEW t \in Tasks, TaskStep(t) PROVE TypeInv'
<1> DEFINE e == Current(t).entry
<1>1. DeviceOK /\ ChainsOK /\ NetworkOK /\ ServerOK
  BY TypeParts DEF TypeInv
<1>2. pc[t] # "idle"
  BY DEF TaskStep, StartEntry, StartDeletion, Create, Put, Finalize, Submit, Poll, Delete, Exchange,
         CapRefuses, Unanswered, Sending, SaveResult, CompleteEntry, FailEntry, Close, RetryEntry, RetryDeletion
<1>3. /\ e \in Ops \union Recordings
      /\ e \in Ops => outbox[e].state # "none" /\ outbox[e].rec \in Recordings
      /\ pc[t] = "delete" => e \in Recordings
      /\ pc[t] \notin {"next", "delete", "retry"} => e \in Ops
  BY <1>2, Working DEF TypeInv, Fits, AwaitFits
<1>4. UNCHANGED outbox => RowsSame
  BY DEF RowsSame
<1>5. UNCHANGED device => DeviceOK'
  BY <1>1 DEF device, DeviceOK
<1>6. UNCHANGED server => ServerOK'
  BY <1>1 DEF server, ServerOK, Queue!TypeOK
\* The request a chain sends, and the handler that serves it.
<1>7. ASSUME pc[t] \in Sending PROVE Sent(t) \in Request /\ RequestFits(Sent(t))
  BY <1>3, <1>7 DEF Sent, Request, RequestFits, Sending
<1>8. ASSUME NEW at \in Sending, Exchange(t, at) PROVE ServerOK'
  BY <1>7, <1>8, HandlersOK DEF Exchange
\* A chain that goes on writes the row of its entry, or none.
<1>9. ASSUME NEW next \in Awaits \ {"idle", "next"}, Goto(t, next),
             next = "delete" => e \in Recordings,
             next \notin {"delete", "retry"} => e \in Ops,
             DeviceOK', ServerOK', RowsSame, UNCHANGED network
      PROVE  TypeInv'
  <2>1. ChainsOK' /\ todo' = todo /\ \A u \in Tasks : AwaitFits(u)'
    BY <1>2, <1>9, GoesOn
  <2> QED
    BY <1>9, <2>1, ChainStep DEF Less
<1>10. ASSUME Finish(t), DeviceOK', ServerOK', RowsSame, UNCHANGED network PROVE TypeInv'
  BY <1>2, <1>10, IsDone, ChainStep
<1>11. ASSUME e \in Ops, NEW state \in {"active", "completed", "failed"},
              \/ outbox' = [outbox EXCEPT ![e].state = state]
              \/ outbox' = [outbox EXCEPT ![e].upload = TRUE, ![e].state = state]
              \/ outbox' = [outbox EXCEPT ![e].job = TRUE, ![e].state = state],
              UNCHANGED <<local, file, feedback, tombstone, inserted, deletion>>
       PROVE  DeviceOK' /\ RowsSame
  BY <1>1, <1>2, <1>11, MarkedRow DEF DeviceOK
<1>12. ASSUME e \in Recordings, NEW state \in {"active", "completed"},
              tombstone' = [tombstone EXCEPT ![e] = state],
              UNCHANGED <<local, file, feedback, outbox, inserted, deletion>>
       PROVE  DeviceOK' /\ RowsSame
  BY <1>1, <1>4, <1>12 DEF DeviceOK
<1>a. CASE StartEntry(t)
  <2>1. /\ e \in Ops /\ outbox' = [outbox EXCEPT ![e].state = "active"]
        /\ UNCHANGED <<local, file, feedback, tombstone, inserted, deletion, network, server>>
        /\ \E next \in {"retry", "put", "create"} : Goto(t, next)
    BY <1>a DEF StartEntry, Update
  <2> QED
    BY <1>6, <1>9, <1>11, <2>1 DEF Awaits, Sending, Writing
<1>b. CASE StartDeletion(t)
  BY <1>6, <1>9, <1>12, <1>b DEF StartDeletion, Awaits, Sending
<1>c. CASE Create(t) \/ Finalize(t)
  <2>1. /\ e \in Ops /\ outbox' = [outbox EXCEPT ![e].upload = TRUE, ![e].state = "active"]
        /\ UNCHANGED <<local, file, feedback, tombstone, inserted, deletion, network>>
        /\ \E next \in {"put", "poll", "submit"} : Goto(t, next)
        /\ ServerOK'
    BY <1>3, <1>8, <1>c DEF Create, Finalize, Exchange, Sending
  <2> QED
    BY <1>9, <1>11, <2>1 DEF Awaits, Sending
<1>d. CASE Submit(t)
  <2>1. /\ e \in Ops /\ ServerOK' /\ UNCHANGED network
        /\ UNCHANGED <<local, file, feedback, tombstone, inserted, deletion>>
        /\ \/ outbox' = [outbox EXCEPT ![e].job = TRUE, ![e].state = "active"] /\ Goto(t, "poll")
           \/ UNCHANGED outbox /\ Goto(t, "fail")
    BY <1>3, <1>8, <1>d DEF Submit, Exchange, Sending
  <2>2. DeviceOK' /\ RowsSame
    BY <1>4, <1>5, <1>11, <2>1 DEF device
  <2> QED
    BY <1>9, <2>1, <2>2 DEF Awaits, Sending, Writing
<1>e. CASE Put(t) \/ Poll(t)
  <2>1. /\ e \in Ops /\ ServerOK' /\ UNCHANGED <<device, network>>
        /\ \E next \in {"finalize", "save", "retry", "fail"} : Goto(t, next)
    BY <1>3, <1>8, <1>e DEF Put, Poll, Exchange, Sending
  <2> QED
    BY <1>4, <1>5, <1>9, <2>1 DEF device, Awaits, Sending, Writing
<1>f. CASE Delete(t)
  <2>1. ServerOK' /\ e \in Recordings
    BY <1>3, <1>8, <1>f DEF Delete, Exchange, Sending
  <2> QED
    BY <1>10, <1>12, <1>f, <2>1 DEF Delete
<1>g. CASE CapRefuses(t)
  <2>1. e \in Ops /\ Goto(t, "fail") /\ UNCHANGED <<device, network, server>>
    BY <1>3, <1>g DEF CapRefuses
  <2> QED
    BY <1>4, <1>5, <1>6, <1>9, <2>1 DEF device, Awaits, Writing
<1>h. CASE Unanswered(t)
  <2>1. /\ pc[t] \in Sending /\ late' = late \union {Sent(t)} /\ lost < MaxLost /\ lost' = lost + 1
        /\ Goto(t, "retry") /\ UNCHANGED <<device, restarts, server>>
    BY <1>h DEF Unanswered
  <2>2. ChainsOK' /\ todo' = todo /\ \A u \in Tasks : AwaitFits(u)'
    BY <1>2, <2>1, GoesOn DEF Awaits, Writing
  <2>3. NetworkOK'
    BY <1>1, <1>7, <2>1, SyncBoundAssumption DEF NetworkOK
  <2>4. \A req \in late' : RequestFits(req)
    BY <1>7, <2>1 DEF TypeInv, Fits
  <2>5. TypeOK'
    BY <1>5, <1>6, <2>1, <2>2, <2>3 DEF TypeOK, DeviceOK, ChainsOK, NetworkOK, ServerOK
  <2> QED
    BY <1>4, <2>1, <2>2, <2>4, <2>5, FitsFrame DEF Less, device
<1>i. CASE SaveResult(t)
  <2>1. /\ e \in Ops /\ UNCHANGED <<local, file, outbox, tombstone, inserted, deletion, network, server>>
        /\ feedback' \in {feedback, feedback \union {outbox[e].rec}}
        /\ \E next \in {"complete", "retry"} : Goto(t, next)
    BY <1>3, <1>i DEF SaveResult, RecordingOf
  <2>2. DeviceOK'
    BY <1>1, <1>3, <2>1 DEF DeviceOK
  <2> QED
    BY <1>4, <1>6, <1>9, <2>1, <2>2 DEF Awaits, Writing
<1>j. CASE CompleteEntry(t) \/ FailEntry(t) \/ RetryEntry(t)
  <2>1. /\ e \in Ops /\ Finish(t)
        /\ \E state \in {"active", "completed", "failed"} : outbox' = [outbox EXCEPT ![e].state = state]
        /\ UNCHANGED <<local, file, feedback, tombstone, inserted, deletion, network, server>>
    BY <1>3, <1>j DEF CompleteEntry, FailEntry, RetryEntry, Close, Update
  <2> QED
    BY <1>6, <1>10, <1>11, <2>1
<1>k. CASE RetryDeletion(t)
  BY <1>6, <1>10, <1>12, <1>k DEF RetryDeletion
<1> QED
  BY <1>a, <1>b, <1>c, <1>d, <1>e, <1>f, <1>g, <1>h, <1>i, <1>j, <1>k DEF TaskStep

\* and so does every other.
LEMMA NextTypes == TypeInv /\ [Next]_vars => TypeInv'
<1> SUFFICES ASSUME TypeInv, [Next]_vars PROVE TypeInv'
  OBVIOUS
<1>1. DeviceOK /\ ChainsOK /\ NetworkOK /\ ServerOK /\ TypeOK
  BY TypeParts DEF TypeInv
<1>2. UNCHANGED chains => ChainsOK' /\ \A u \in Tasks : AwaitFits(u)' /\ Less(u)
  BY <1>1 DEF chains, ChainsOK, TypeInv, Fits, AwaitFits, Less, Current
<1>3. UNCHANGED outbox => RowsSame
  BY DEF RowsSame
<1>4. UNCHANGED server => ServerOK'
  BY <1>1 DEF server, ServerOK, Queue!TypeOK
<1>5. UNCHANGED device => DeviceOK'
  BY <1>1 DEF device, DeviceOK
\* A chain that begins has work to do, with rows.
<1>6. ASSUME NEW t \in Tasks, NEW items \in Seq(Item), items # <<>>, Begin(t, items), asked' \subseteq Tasks,
             \A i \in 1..Len(items) :
                items[i].entry \in Ops => outbox'[items[i].entry].state # "none",
             \A o \in Ops : outbox[o].state # "none" => outbox'[o] = outbox[o],
             DeviceOK', RowsNamed', UNCHANGED <<network, server>>
      PROVE  TypeInv'
  <2>1. pc' = [pc EXCEPT ![t] = "next"] /\ todo' = [todo EXCEPT ![t] = items]
    BY <1>6 DEF Begin
  <2>2. ChainsOK'
    BY <1>1, <1>6, <2>1 DEF ChainsOK, Awaits
  <2>3. ASSUME NEW u \in Tasks PROVE AwaitFits(u)' /\ WorkFits(u)'
    <3>1. CASE u = t
      <4>1. pc'[u] = "next" /\ todo'[u] = items
        BY <1>1, <2>1, <3>1 DEF ChainsOK
      <4> QED
        BY <1>6, <4>1 DEF AwaitFits, WorkFits
    <3>2. CASE u # t
      <4>1. pc'[u] = pc[u] /\ todo'[u] = todo[u] /\ AwaitFits(u) /\ WorkFits(u)
        BY <1>1, <2>1, <3>2 DEF ChainsOK, TypeInv, Fits
      <4>2. AwaitFits(u)'
        BY <4>1 DEF AwaitFits, Current
      <4>3. WorkFits(u)'
        BY <1>6, <4>1 DEF WorkFits
      <4> QED
        BY <4>2, <4>3
    <3> QED
      BY <3>1, <3>2
  <2>4. TypeOK'
    BY <1>1, <1>4, <1>6, <2>2 DEF network, TypeOK, DeviceOK, ChainsOK, NetworkOK, ServerOK
  <2>5. \A req \in late' : RequestFits(req)'
    BY <1>6 DEF network, TypeInv, Fits, RequestFits
  <2> QED
    BY <1>6, <2>3, <2>4, <2>5 DEF TypeInv, Fits
<1>7. ASSUME NEW t \in Tasks, NEW r \in Recordings, RequestFeedback(t, r) PROVE TypeInv'
  <2>1. PICK o \in Ops :
          /\ outbox[o].state = "none"
          /\ outbox' = [outbox EXCEPT ![o].state = "active", ![o].rec = r]
          /\ inserted' = Append(inserted, o)
          /\ Begin(t, <<[entry |-> o, upload |-> FALSE, job |-> FALSE]>>)
    BY <1>7 DEF RequestFeedback
  <2>2. /\ asked' = asked \union {t}
        /\ UNCHANGED <<local, file, feedback, tombstone, deletion, network, server>>
    BY <1>7 DEF RequestFeedback
  <2>3. outbox' \in [Ops -> Entry]
    BY <1>1, <2>1 DEF DeviceOK, Entry
  <2>4. /\ outbox'[o].state = "active" /\ outbox'[o].rec = r
        /\ \A p \in Ops : p # o => outbox'[p] = outbox[p]
    BY <1>1, <2>1 DEF DeviceOK, Entry
  <2>5. DeviceOK'
    BY <1>1, <2>1, <2>2, <2>3 DEF DeviceOK
  <2>6. RowsNamed'
    BY <2>4 DEF TypeInv, Fits, RowsNamed
  <2> DEFINE item == [entry |-> o, upload |-> FALSE, job |-> FALSE]
  <2>7. item \in Item /\ item.entry = o
    BY DEF Item
  <2>8. asked' \subseteq Tasks
    BY <1>1, <2>2 DEF ChainsOK
  <2> HIDE DEF item
  <2>9. <<item>> \in Seq(Item) /\ <<item>> # <<>> /\ Len(<<item>>) = 1 /\ <<item>>[1] = item
    BY <2>7
  <2> QED
    <3>1. Begin(t, <<item>>)
      BY <2>1 DEF item
    <3>2. \A i \in 1..Len(<<item>>) : outbox'[<<item>>[i].entry].state # "none"
      BY <2>4, <2>7, <2>9
    <3>3. \A p \in Ops : outbox[p].state # "none" => outbox'[p] = outbox[p]
      BY <2>1, <2>4
    <3> QED
      BY <1>6, <2>2, <2>5, <2>6, <2>8, <2>9, <3>1, <3>2, <3>3
<1>8. ASSUME NEW t \in Tasks, StartDrain(t) PROVE TypeInv'
  <2>1. Listed # <<>> /\ Begin(t, Listed) /\ UNCHANGED <<asked, device, network, server>>
    BY <1>8 DEF StartDrain
  <2>2. Listed \in Seq(Item) /\ \A k \in 1..Len(Listed) : Pending(Listed[k].entry)
    BY <1>1, ListedPending
  <2>3. \A k \in 1..Len(Listed) : Listed[k].entry \in Ops => outbox'[Listed[k].entry].state # "none"
    BY <2>1, <2>2 DEF Pending, device
  <2>4. asked' \subseteq Tasks /\ outbox' = outbox /\ DeviceOK' /\ RowsNamed'
    BY <1>1, <1>5, <2>1 DEF ChainsOK, device, TypeInv, Fits, RowsNamed
  <2> QED
    BY <1>6, <2>1, <2>2, <2>3, <2>4
<1>9. ASSUME NEW t \in Tasks, TaskStep(t) PROVE TypeInv'
  BY <1>9, TaskTypes
<1>10. ASSUME NEW r \in Recordings, CancelEntries(r) \/ DeletionStep(r) \/ Discard(r) PROVE TypeInv'
  <2>1. UNCHANGED <<chains, network, server>>
    BY <1>10 DEF CancelEntries, DeletionStep, InsertTombstone, RemoveRows, RemoveFile, Discard
  <2>2. CASE CancelEntries(r)
    <3>1. \A o \in Ops : \/ outbox'[o] = outbox[o]
                         \/ outbox[o].state = "active" /\ outbox'[o] = [outbox[o] EXCEPT !.state = "failed"]
      BY <2>2 DEF CancelEntries
    <3>2. \A o \in Ops : outbox'[o] \in Entry /\ outbox'[o].rec = outbox[o].rec
                         /\ (outbox'[o].state = "none" <=> outbox[o].state = "none")
      <4> TAKE o \in Ops
      <4>1. outbox[o] \in Entry
        BY <1>1 DEF DeviceOK
      <4>2. ASSUME NEW x \in Entry
            PROVE  LET y == [x EXCEPT !.state = "failed"]
                   IN  y \in Entry /\ y.rec = x.rec /\ y.state = "failed"
        BY DEF Entry
      <4> QED
        BY <3>1, <4>1, <4>2
    <3>3. RowsSame
      BY <3>2 DEF RowsSame
    <3>4. DeviceOK'
      BY <1>1, <2>2, <3>2 DEF CancelEntries, DeviceOK
    <3> QED
      BY <1>2, <1>4, <2>1, <3>3, <3>4, ChainStep
  <2>3. CASE InsertTombstone(r)
    <3>1. DeviceOK' /\ UNCHANGED outbox
      BY <1>1, <2>3 DEF InsertTombstone, DeviceOK
    <3> QED
      BY <1>2, <1>3, <1>4, <2>1, <3>1, ChainStep
  <2>4. CASE RemoveRows(r) \/ RemoveFile(r) \/ Discard(r)
    <3>1. DeviceOK' /\ UNCHANGED outbox
      BY <1>1, <2>4 DEF RemoveRows, RemoveFile, Discard, DeviceOK
    <3> QED
      BY <1>2, <1>3, <1>4, <2>1, <3>1, ChainStep
  <2> QED
    BY <1>10, <2>2, <2>3, <2>4 DEF DeletionStep
<1>11. ASSUME NEW r \in Recordings, ServerExpires(r) PROVE TypeInv'
  <2>1. ServerOK' /\ UNCHANGED <<device, chains, network>>
    BY <1>1, <1>11 DEF ServerExpires, ServerOK, Queue!TypeOK
  <2> QED
    BY <1>2, <1>3, <1>5, <2>1, ChainStep DEF device
<1>12. ASSUME NEW o \in Ops, WorkerCloses(o) PROVE TypeInv'
  <2>1. /\ Queue!Publish(o) \/ Queue!Fail({o})
        /\ UNCHANGED <<device, chains, network, uploads, stored>>
    BY <1>12 DEF WorkerCloses
  <2>2. ServerOK'
    BY <1>1, <2>1 DEF ServerOK, Queue!TypeOK, Queue!Publish, Queue!Fail, Queue!States
  <2> QED
    BY <1>2, <1>3, <1>5, <2>1, <2>2, ChainStep DEF device
<1>13. ASSUME NEW req \in late, Arrive(req) PROVE TypeInv'
  <2>1. Handle(req) /\ late' = late \ {req} /\ UNCHANGED <<device, chains, lost, restarts>>
    BY <1>13 DEF Arrive
  <2>2. req \in Request /\ RequestFits(req)
    BY <1>1 DEF NetworkOK, TypeInv, Fits
  <2>3. ServerOK'
    BY <2>1, <2>2, HandlersOK
  <2>4. NetworkOK' /\ \A q \in late' : RequestFits(q)
    BY <1>1, <2>1 DEF NetworkOK, TypeInv, Fits
  <2>5. TypeOK'
    BY <1>2, <1>5, <2>1, <2>3, <2>4 DEF TypeOK, DeviceOK, ChainsOK, NetworkOK, ServerOK
  <2> QED
    BY <1>2, <1>3, <2>1, <2>4, <2>5, FitsFrame DEF device
<1>14. CASE Restart
  <2>1. /\ pc' = [t \in Tasks |-> "idle"] /\ todo' = [t \in Tasks |-> <<>>] /\ asked' = {}
        /\ deletion' = [r \in Recordings |-> "none"] /\ restarts < MaxRestarts /\ restarts' = restarts + 1
        /\ UNCHANGED <<local, file, feedback, outbox, tombstone, inserted, late, lost, server>>
    BY <1>14 DEF Restart
  <2>2. ChainsOK' /\ \A u \in Tasks : AwaitFits(u)' /\ Less(u)
    BY <2>1 DEF ChainsOK, Awaits, AwaitFits, Less
  <2>3. NetworkOK' /\ \A q \in late' : RequestFits(q)
    BY <1>1, <2>1, SyncBoundAssumption DEF NetworkOK, TypeInv, Fits
  <2>4. DeviceOK'
    BY <1>1, <2>1 DEF DeviceOK
  <2>5. TypeOK'
    BY <1>4, <2>1, <2>2, <2>3, <2>4 DEF TypeOK, DeviceOK, ChainsOK, NetworkOK, ServerOK
  <2> QED
    BY <1>3, <2>1, <2>2, <2>3, <2>5, FitsFrame
<1>15. CASE UNCHANGED vars
  BY <1>2, <1>3, <1>4, <1>5, <1>15, ChainStep DEF vars, device
<1> QED
  BY <1>7, <1>8, <1>9, <1>10, <1>11, <1>12, <1>13, <1>14, <1>15 DEF Next

LEMMA InitTypes == Init => TypeInv
<1> SUFFICES ASSUME Init PROVE TypeInv
  OBVIOUS
<1>1. DeviceOK /\ ChainsOK
  BY DEF Init, DeviceOK, ChainsOK, Entry, Awaits
<1>2. NetworkOK /\ ServerOK
  BY SyncBoundAssumption
  DEF Init, NetworkOK, ServerOK, Queue!Init, Queue!TypeOK, Queue!States
<1>3. Fits
  BY DEF Init, Fits, AwaitFits, WorkFits, RowsNamed
<1> QED
  BY <1>1, <1>2, <1>3, TypeParts DEF TypeInv

-----------------------------------------------------------------------------
(* The theorems                                                            *)

\* The three facts hold at every await.
LEMMA Inductive == SafeSpec => []IInv
<1>1. Init => IInv
  <2> SUFFICES ASSUME Init PROVE Removal /\ Results
    BY InitRows DEF IInv
  <2>1. Removal
    BY DEF Init, Removal, DeletionInOrder, RemovalIsOrdered
  <2>2. Results
    BY DEF Init, Results, ResultsKept, Started, Saved, CompletedHasFeedback
  <2> QED
    BY <2>1, <2>2
<1>2. IInv /\ [Next]_vars => IInv'
  BY NextRows, NextRemoval, NextResults DEF IInv
<1> QED
  BY <1>1, <1>2, PTL DEF SafeSpec

\* Whatever requests fail and wherever the app dies: an entry that says completed
\* has brought its result, so leaving it out of every later drain loses nothing.
THEOREM CompletedMeansSaved == SafeSpec => []CompletedHasFeedback
<1>1. IInv => CompletedHasFeedback
  BY DEF IInv, Results
<1> QED
  BY <1>1, Inductive, PTL

\* A run that left the device has its deletion queued or done, and a take that is
\* still shown has its audio: the order of deleteRun is right for every crash.
THEOREM RemovalInOrder == SafeSpec => []RemovalIsOrdered
<1>1. IInv => RemovalIsOrdered
  BY DEF IInv, Removal
<1> QED
  BY <1>1, Inductive, PTL

\* The rows, the chains, the network and the backend have their types: among them that
\* what a late request names is what its handler takes, and that a result is saved to a
\* recording there was.
THEOREM TypesKept == SafeSpec => []TypeOK
<1>1. TypeInv => TypeOK
  BY DEF TypeInv
<1>2. SafeSpec => []TypeInv
  BY InitTypes, NextTypes, PTL DEF SafeSpec
<1> QED
  BY <1>1, <1>2, PTL

=============================================================================

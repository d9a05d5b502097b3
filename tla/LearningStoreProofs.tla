-------------------------- MODULE LearningStoreProofs --------------------------
(***************************************************************************)
(* Theorems about LearningStore, for every number of clients, weaknesses,  *)
(* keys and concepts, every set of drafts and edits, and every bound.      *)
(***************************************************************************)
EXTENDS LearningStore, FoldTheorems

USE NoneAssumption, BoundsAssumption

Rows(table, row) == table \in [Keys -> row \cup {None}]

LEMMA LearningDayType == ASSUME NEW t \in Nat PROVE LearningDay(t) \in Int
BY DEF LearningDay

LEMMA ReviewedAtType ==
    ASSUME now \in Nat, NEW r \in Requests
    PROVE  ReviewedAt(r) \in Nat /\ Day(r) \in Int
<1>1. ReviewedAt(r) \in Nat BY InputAssumption DEF ReviewedAt, Requests
<1> QED BY <1>1, LearningDayType DEF Day

\* What upsert_weakness_tx makes of a row, new or there before.
LEMMA WeaknessAfterType ==
    ASSUME NEW row \in WeaknessRow \cup {None}, NEW w, WeaknessInput(w),
           NEW declared \in BOOLEAN, NEW candidate \in BOOLEAN
    PROVE  /\ WeaknessAfter(row, w, declared, candidate) \in WeaknessRow
           /\ WeaknessAfter(row, w, declared, candidate).first = IF row = None THEN None ELSE row.first
           /\ WeaknessAfter(row, w, declared, candidate).last = IF row = None THEN None ELSE row.last
<1>1. StatusAfter(row, w, declared, candidate) \in Statuses
  BY DEF StatusAfter, WeaknessRow, Statuses, WeaknessInput
<1>2. Classifies(w) \in BOOLEAN
  BY DEF Classifies, WeaknessInput
<1>3. (IF Classifies(w) \/ row = None THEN IF w.primary = None THEN Unclassified ELSE w.primary
       ELSE row.primary) \in Concepts
  BY <1>2 DEF WeaknessRow, WeaknessInput
<1>4. (IF Classifies(w) THEN FALSE ELSE row = None \/ row.pending) \in BOOLEAN
  BY <1>2 DEF WeaknessRow
<1>5. /\ (IF row = None THEN None ELSE row.first) \in Int \cup {None}
      /\ (IF row = None THEN None ELSE row.last) \in Int \cup {None}
  BY DEF WeaknessRow
<1> QED BY <1>1, <1>3, <1>4, <1>5 DEF WeaknessAfter, WeaknessRow

LEMMA InsertedType ==
    ASSUME NEW item \in ScheduleRow \cup {None}
    PROVE  /\ ScheduleInserted(item) \in ScheduleRow
           /\ ScheduleInserted(item) # None
           /\ ScheduleInserted(item).last = IF item = None THEN None ELSE item.last
<1>1. NewSchedule \in ScheduleRow /\ NewSchedule.last = None
  BY DEF NewSchedule, ScheduleRow
<1>2. CASE item = None BY <1>1, <1>2 DEF ScheduleInserted
<1>3. CASE item # None BY <1>3 DEF ScheduleInserted
<1> QED BY <1>2, <1>3

LEMMA ScheduleAfterType ==
    ASSUME NEW item \in ScheduleRow \cup {None}, NEW status \in Statuses
    PROVE  /\ ScheduleAfter(item, status) \in ScheduleRow \cup {None}
           /\ status = "active" => ScheduleAfter(item, status) # None
           /\ ScheduleAfter(item, status) # None /\ ScheduleAfter(item, status).active
                 => status = "active"
           /\ item # None => /\ ScheduleAfter(item, status) # None
                             /\ ScheduleAfter(item, status).last = item.last
           /\ item = None /\ ScheduleAfter(item, status) # None
                 => ScheduleAfter(item, status).last = None
<1>1. CASE status = "active"
  <2>1. ScheduleAfter(item, status) = ScheduleInserted(item) BY <1>1 DEF ScheduleAfter
  <2> QED BY <1>1, <2>1, InsertedType
<1>2. CASE status # "active" /\ item = None
  <2>1. ScheduleAfter(item, status) = None BY <1>2 DEF ScheduleAfter
  <2> QED BY <1>2, <2>1
<1>3. CASE status # "active" /\ item # None
  <2>1. ScheduleAfter(item, status) = [item EXCEPT !.active = FALSE] BY <1>3 DEF ScheduleAfter
  <2>2. item \in ScheduleRow BY <1>3
  <2>3. /\ ScheduleAfter(item, status) \in ScheduleRow
        /\ ScheduleAfter(item, status).active = FALSE
        /\ ScheduleAfter(item, status).last = item.last
    BY <2>1, <2>2 DEF ScheduleRow
  <2> QED BY <1>3, <2>3
<1> QED BY <1>1, <1>2, <1>3

-----------------------------------------------------------------------------
(* Tables: what TypeOK says of weaknesses, schedules and concepts.         *)
Tables ==
    /\ Rows(weaknesses, WeaknessRow)
    /\ Rows(schedules, ScheduleRow)
    /\ \A k \in Keys : weaknesses[k] # None =>
          (weaknesses[k].first = None <=> weaknesses[k].last = None)

\* What a recorded session makes of the weaknesses it names.
LEMMA UpsertedType ==
    ASSUME Tables, NEW r \in Requests, ReferencesKnown(r), NEW k \in AllKeys(r)
    PROVE  /\ k \in Keys
           /\ Upserted(r, k) \in WeaknessRow
           /\ Upserted(r, k).first = None <=> Upserted(r, k).last = None
<1>0. k \in Keys
  BY InputAssumption DEF AllKeys, NewKeys, Reviewed, Requests, WeaknessInput
<1>1. CASE k \in NewKeys(r)
  <2> DEFINE w == CHOOSE w \in r.draft.new : w.key = k
  <2>1. w \in r.draft.new BY <1>1 DEF NewKeys
  <2>2. WeaknessInput(w) BY <2>1, InputAssumption DEF Requests
  <2> HIDE DEF w
  <2>3. weaknesses[k] \in WeaknessRow \cup {None} BY <1>0 DEF Tables, Rows
  <2>4. (k \in r.draft.targets) \in BOOLEAN OBVIOUS
  <2>5. /\ WeaknessAfter(weaknesses[k], w, k \in r.draft.targets, TRUE) \in WeaknessRow
        /\ WeaknessAfter(weaknesses[k], w, k \in r.draft.targets, TRUE).first
              = IF weaknesses[k] = None THEN None ELSE weaknesses[k].first
        /\ WeaknessAfter(weaknesses[k], w, k \in r.draft.targets, TRUE).last
              = IF weaknesses[k] = None THEN None ELSE weaknesses[k].last
    BY <2>2, <2>3, <2>4, WeaknessAfterType
  <2>6. Upserted(r, k) = WeaknessAfter(weaknesses[k], w, k \in r.draft.targets, TRUE)
    BY <1>1 DEF Upserted, w
  <2> QED BY <1>0, <2>5, <2>6 DEF Tables
<1>2. CASE k \notin NewKeys(r)
  <2>1. weaknesses[k] # None BY <1>2 DEF ReferencesKnown
  <2>2. Upserted(r, k) = weaknesses[k] BY <1>2 DEF Upserted
  <2> QED BY <1>0, <2>1, <2>2 DEF Tables, Rows
<1> QED BY <1>1, <1>2

LEMMA TouchedType ==
    ASSUME Tables, now \in Nat, NEW r \in Requests, ReferencesKnown(r), NEW k \in AllKeys(r)
    PROVE  /\ Touched(r, k) \in WeaknessRow
           /\ Touched(r, k).first \in Int /\ Touched(r, k).last \in Int
           /\ Touched(r, k).status = IF Promotes(r, k) THEN "active" ELSE Upserted(r, k).status
<1>1. /\ Upserted(r, k) \in WeaknessRow
      /\ Upserted(r, k).first = None <=> Upserted(r, k).last = None
  BY UpsertedType
<1>2. Day(r) \in Int BY ReviewedAtType
<1>3. /\ Earlier(Upserted(r, k).first, Day(r)) \in Int
      /\ Later(Upserted(r, k).last, Day(r)) \in Int
  BY <1>1, <1>2 DEF Earlier, Later, WeaknessRow
<1> DEFINE u == Upserted(r, k)
           s == IF Promotes(r, k) THEN "active" ELSE u.status
           f == Earlier(u.first, Day(r))
           l == Later(u.last, Day(r))
<1>4. Touched(r, k) = [u EXCEPT !.status = s, !.first = f, !.last = l]
  BY DEF Touched
<1>5. s \in Statuses BY <1>1 DEF Statuses, WeaknessRow
<1>6. u \in WeaknessRow /\ f \in Int /\ l \in Int BY <1>1, <1>3
<1> HIDE DEF u, s, f, l
<1>7. /\ [u EXCEPT !.status = s, !.first = f, !.last = l] \in WeaknessRow
      /\ [u EXCEPT !.status = s, !.first = f, !.last = l].first = f
      /\ [u EXCEPT !.status = s, !.first = f, !.last = l].last = l
      /\ [u EXCEPT !.status = s, !.first = f, !.last = l].status = s
  BY <1>5, <1>6 DEF WeaknessRow
<1> QED BY <1>4, <1>6, <1>7 DEF s, u

LEMMA ScheduledType ==
    ASSUME Tables, NEW r \in Requests, ReferencesKnown(r), NEW k \in Keys
    PROVE  /\ Scheduled(r, k) \in ScheduleRow \cup {None}
           /\ Promotes(r, k) => Scheduled(r, k) # None
           /\ k \in NewKeys(r) /\ Upserted(r, k).status = "active" => Scheduled(r, k) # None
           /\ k \in NewKeys(r) /\ ~Promotes(r, k) /\ Scheduled(r, k) # None
                /\ Scheduled(r, k).active => Upserted(r, k).status = "active"
           /\ k \notin NewKeys(r) /\ ~Promotes(r, k) => Scheduled(r, k) = schedules[k]
           /\ schedules[k] # None => Scheduled(r, k) # None
           /\ Scheduled(r, k) # None =>
                Scheduled(r, k).last = IF schedules[k] = None THEN None ELSE schedules[k].last
<1> DEFINE up == IF k \in NewKeys(r) THEN ScheduleAfter(schedules[k], Upserted(r, k).status)
                 ELSE schedules[k]
<1>1. schedules[k] \in ScheduleRow \cup {None} BY DEF Tables, Rows
<1>2. /\ up \in ScheduleRow \cup {None}
      /\ k \in NewKeys(r) /\ Upserted(r, k).status = "active" => up # None
      /\ k \in NewKeys(r) /\ up # None /\ up.active => Upserted(r, k).status = "active"
      /\ schedules[k] # None => up # None
      /\ up # None => up.last = IF schedules[k] = None THEN None ELSE schedules[k].last
  <2>1. CASE k \in NewKeys(r)
    <3>1. Upserted(r, k).status \in Statuses
      BY <2>1, UpsertedType DEF AllKeys, WeaknessRow
    <3> QED BY <1>1, <2>1, <3>1, ScheduleAfterType
  <2>2. CASE k \notin NewKeys(r) BY <1>1, <2>2
  <2> QED BY <2>1, <2>2
<1>3. Scheduled(r, k) = IF Promotes(r, k) THEN ScheduleInserted(up) ELSE up
  BY DEF Scheduled
<1>4. k \notin NewKeys(r) => up = schedules[k] OBVIOUS
<1> HIDE DEF up
<1>5. CASE Promotes(r, k) BY <1>2, <1>3, <1>4, <1>5, InsertedType
<1>6. CASE ~Promotes(r, k) BY <1>2, <1>3, <1>4, <1>6
<1> QED BY <1>5, <1>6

-----------------------------------------------------------------------------
(* Type correctness, table by table.                                       *)
Versions ==
    /\ preferences.version \in 0..MaxVersion
    /\ \A c \in Clients : seen[c] # None => seen[c].version \in 0..preferences.version

Wire == ledger \in [IdempotencyKeys -> LedgerRow \cup {None}] /\ sent \subseteq Requests /\ now \in 0..MaxNow

Graph == concepts \in [Concepts -> {"active", "inactive", None}]

\* seen is a table of the clients.
SeenTable == DOMAIN seen = Clients

TypeInv == Tables /\ Versions /\ Wire /\ Graph /\ SeenTable
            /\ \E S : sessions \in Seq(S)

LEMMA TypeInvType == TypeInv => TypeOK
<1> SUFFICES ASSUME TypeInv PROVE TypeOK OBVIOUS
<1>1. /\ weaknesses \in [Keys -> WeaknessRow \cup {None}]
      /\ schedules \in [Keys -> ScheduleRow \cup {None}]
      /\ \A k \in Keys : weaknesses[k] # None =>
            (weaknesses[k].first = None <=> weaknesses[k].last = None)
  BY DEF TypeInv, Tables, Rows
<1>2. /\ ledger \in [IdempotencyKeys -> LedgerRow \cup {None}]
      /\ sent \subseteq Requests /\ now \in 0..MaxNow
  BY DEF TypeInv, Wire
<1> QED BY <1>1, <1>2 DEF TypeInv, Versions, Graph, TypeOK

LEMMA TypeInit == Init => TypeInv
<1> SUFFICES ASSUME Init PROVE TypeInv OBVIOUS
<1>1. Tables BY DEF Init, Tables, Rows
<1>2. Versions BY DEF Init, Versions
<1>3. Wire BY DEF Init, Wire
<1>4. Graph BY DEF Init, Graph
<1>5. sessions \in Seq({}) BY DEF Init
<1>6. SeenTable BY DEF Init, SeenTable
<1> QED BY <1>1, <1>2, <1>3, <1>4, <1>5, <1>6 DEF TypeInv

LEMMA TablesStep ==
    ASSUME TypeInv, [Next]_vars PROVE Tables'
<1>1. CASE UNCHANGED targets BY <1>1 DEF TypeInv, Tables, Rows, targets
<1>2. ASSUME NEW w \in WeaknessEdits, UpsertWeakness(w) PROVE Tables'
  <2> DEFINE row == WeaknessAfter(weaknesses[w.key], w, FALSE, FALSE)
  <2>1. WeaknessInput(w) /\ w.key \in Keys BY InputAssumption DEF WeaknessInput
  <2>2. weaknesses[w.key] \in WeaknessRow \cup {None} BY <2>1 DEF TypeInv, Tables, Rows
  <2>3. /\ row \in WeaknessRow
        /\ row.first = IF weaknesses[w.key] = None THEN None ELSE weaknesses[w.key].first
        /\ row.last = IF weaknesses[w.key] = None THEN None ELSE weaknesses[w.key].last
    BY <2>1, <2>2, WeaknessAfterType
  <2>4. schedules[w.key] \in ScheduleRow \cup {None} BY <2>1 DEF TypeInv, Tables, Rows
  <2>5. ScheduleAfter(schedules[w.key], row.status) \in ScheduleRow \cup {None}
    BY <2>3, <2>4, ScheduleAfterType DEF WeaknessRow
  <2>6. /\ weaknesses' = [weaknesses EXCEPT ![w.key] = row]
        /\ schedules' = [schedules EXCEPT ![w.key] = ScheduleAfter(schedules[w.key], row.status)]
    BY <1>2 DEF UpsertWeakness
  <2> HIDE DEF row
  <2>7. row.first = None <=> row.last = None
    BY <2>1, <2>3 DEF TypeInv, Tables
  <2>8. Rows(weaknesses', WeaknessRow) /\ Rows(schedules', ScheduleRow)
    BY <2>3, <2>5, <2>6 DEF TypeInv, Tables, Rows
  <2>9. \A k \in Keys : weaknesses'[k] # None =>
          (weaknesses'[k].first = None <=> weaknesses'[k].last = None)
    BY <2>6, <2>7 DEF TypeInv, Tables, Rows
  <2> QED BY <2>8, <2>9 DEF Tables, Rows
<1>3. ASSUME NEW r \in sent, Record(r) PROVE Tables'
  <2>1. /\ r \in Requests /\ now \in Nat /\ Tables /\ ReferencesKnown(r)
    BY <1>3 DEF TypeInv, Wire, Record, Recordable
  <2>2. /\ weaknesses' = [k \in Keys |-> IF k \in AllKeys(r) THEN Touched(r, k) ELSE weaknesses[k]]
        /\ schedules' = [k \in Keys |-> IF k \in Applied(r)
                                        THEN [Scheduled(r, k) EXCEPT !.last = ReviewedAt(r)]
                                        ELSE Scheduled(r, k)]
    BY <1>3 DEF Record
  <2>3. \A k \in AllKeys(r) : /\ Touched(r, k) \in WeaknessRow
                              /\ Touched(r, k).first \in Int /\ Touched(r, k).last \in Int
    BY <2>1, TouchedType
  <2>4. ASSUME NEW k \in Keys
        PROVE  /\ weaknesses'[k] \in WeaknessRow \cup {None}
               /\ weaknesses'[k] # None => (weaknesses'[k].first = None <=> weaknesses'[k].last = None)
               /\ schedules'[k] \in ScheduleRow \cup {None}
    <3>0. /\ weaknesses'[k] = IF k \in AllKeys(r) THEN Touched(r, k) ELSE weaknesses[k]
      BY <2>2
    <3>1. /\ weaknesses'[k] \in WeaknessRow \cup {None}
          /\ weaknesses'[k] # None => (weaknesses'[k].first = None <=> weaknesses'[k].last = None)
      <4>1. CASE k \in AllKeys(r) BY <2>3, <3>0, <4>1
      <4>2. CASE k \notin AllKeys(r) BY <2>1, <3>0, <4>2 DEF Tables, Rows
      <4> QED BY <4>1, <4>2
    <3>3. Scheduled(r, k) \in ScheduleRow \cup {None} BY <2>1, ScheduledType
    <3>4. CASE k \in Applied(r)
      <4>1. Scheduled(r, k) # None BY <1>3, <3>4 DEF Record, Recordable, ReviewsFit
      <4>2. ReviewedAt(r) \in Nat BY <2>1, ReviewedAtType
      <4>3. [Scheduled(r, k) EXCEPT !.last = ReviewedAt(r)] \in ScheduleRow
        BY <3>3, <4>1, <4>2 DEF ScheduleRow
      <4>4. schedules'[k] = [Scheduled(r, k) EXCEPT !.last = ReviewedAt(r)] BY <2>2, <3>4, Zenon
      <4> QED BY <3>1, <4>3, <4>4
    <3>5. CASE k \notin Applied(r)
      <4>1. schedules'[k] = Scheduled(r, k) BY <2>2, <3>5, Zenon
      <4> QED BY <3>1, <3>3, <4>1
    <3> QED BY <3>4, <3>5
  <2>5. Rows(weaknesses', WeaknessRow) /\ Rows(schedules', ScheduleRow)
    <3>1. /\ \A k \in Keys : weaknesses'[k] \in WeaknessRow \cup {None}
          /\ \A k \in Keys : schedules'[k] \in ScheduleRow \cup {None}
      BY <2>4
    <3>2. /\ weaknesses' = [k \in Keys |-> weaknesses'[k]]
          /\ schedules' = [k \in Keys |-> schedules'[k]]
      BY <2>2, Zenon
    <3> QED BY <3>1, <3>2 DEF Rows
  <2> QED BY <2>4, <2>5 DEF Tables, Rows
<1> QED
  BY <1>1, <1>2, <1>3 DEF Next, vars, targets, UpsertConcept, ReadPreferences,
     UpdatePreferences, Send, SeedPreferences, Replay, Tick

LEMMA Appended ==
    ASSUME NEW S, NEW s \in Seq(S), NEW e
    PROVE  /\ Append(s, e) \in Seq(S \cup {e})
           /\ Len(s) \in Nat /\ DOMAIN s = 1..Len(s)
           /\ Len(Append(s, e)) = Len(s) + 1
           /\ DOMAIN Append(s, e) = 1..(Len(s) + 1)
           /\ \A i \in 1..Len(s) : Append(s, e)[i] = s[i]
           /\ Append(s, e)[Len(s) + 1] = e
<1>1. s \in Seq(S \cup {e}) OBVIOUS
<1>2. e \in S \cup {e} OBVIOUS
<1> QED BY <1>1, <1>2

LEMMA VersionsStep ==
    ASSUME TypeInv, [Next]_vars PROVE Versions' /\ SeenTable'
<1>1. CASE UNCHANGED <<preferences, seen>> BY <1>1 DEF TypeInv, Versions, SeenTable
<1>2. ASSUME NEW c \in Clients, ReadPreferences(c) PROVE Versions' /\ SeenTable'
  BY <1>2 DEF TypeInv, Versions, SeenTable, ReadPreferences
<1>3. ASSUME NEW v \in 0..MaxVersion, v < MaxVersion, v = preferences.version,
             NEW x, preferences' = Stored(v, x), UNCHANGED seen
      PROVE  Versions' /\ SeenTable'
  <2>1. preferences'.version = v + 1 BY <1>3 DEF Stored
  <2>2. preferences'.version \in 0..MaxVersion BY <1>3, <2>1
  <2>3. \A c \in Clients : seen'[c] # None => seen'[c].version \in 0..preferences'.version
    BY <1>3, <2>1 DEF TypeInv, Versions
  <2> QED BY <1>3, <2>2, <2>3 DEF Versions, TypeInv, SeenTable
<1>4. ASSUME NEW c \in Clients, UpdatePreferences(c) PROVE Versions' /\ SeenTable'
  BY <1>3, <1>4 DEF UpdatePreferences, TypeInv, Versions
<1>5. CASE SeedPreferences
  BY <1>3, <1>5 DEF SeedPreferences, TypeInv, Versions
<1> QED
  BY <1>1, <1>2, <1>4, <1>5 DEF Next, vars, UpsertWeakness, UpsertConcept, Send, Record,
     Replay, Tick

LEMMA WireStep ==
    ASSUME TypeInv, [Next]_vars PROVE Wire'
<1>1. CASE UNCHANGED <<ledger, sent, now>> BY <1>1 DEF TypeInv, Wire
<1>2. ASSUME NEW c \in Clients, Send(c) PROVE Wire'
  <2>1. PICK key \in IdempotencyKeys, d \in Drafts :
          /\ d.evidence => seen[c] # None
          /\ sent' = sent \cup {[key |-> key, draft |-> d,
                                version |-> IF d.evidence THEN seen[c].version ELSE None]}
    BY <1>2 DEF Send
  <2>2. (IF d.evidence THEN seen[c].version ELSE None) \in Nat \cup {None}
    BY <2>1, InputAssumption DEF TypeInv, Versions
  <2>3. sent' \subseteq Requests BY <2>1, <2>2 DEF Requests, TypeInv, Wire
  <2>4. UNCHANGED <<ledger, now>> BY <1>2 DEF Send, records
  <2> QED BY <2>3, <2>4 DEF TypeInv, Wire
<1>3. ASSUME NEW r \in sent, Record(r) PROVE Wire'
  <2>1. r \in Requests BY DEF TypeInv, Wire
  <2>2. Len(sessions) + 1 \in Nat BY Appended DEF TypeInv
  <2>3. [session |-> Len(sessions) + 1, request |-> r] \in LedgerRow BY <2>1, <2>2 DEF LedgerRow
  <2>4. ledger' \in [IdempotencyKeys -> LedgerRow \cup {None}]
    BY <1>3, <2>3 DEF Record, TypeInv, Wire
  <2> QED BY <1>3, <2>4 DEF Record, TypeInv, Wire
<1>4. CASE Tick BY <1>4 DEF Tick, records, TypeInv, Wire
<1> QED
  BY <1>1, <1>2, <1>3, <1>4 DEF Next, vars, records, UpsertWeakness, UpsertConcept,
     ReadPreferences, UpdatePreferences, SeedPreferences, Replay

LEMMA GraphStep ==
    ASSUME TypeInv, [Next]_vars PROVE Graph'
<1>1. CASE UNCHANGED concepts BY <1>1 DEF TypeInv, Graph
<1>2. ASSUME NEW x \in Curations, UpsertConcept(x) PROVE Graph'
  BY <1>2, InputAssumption DEF UpsertConcept, TypeInv, Graph
<1> QED
  BY <1>1, <1>2 DEF Next, vars, graph, UpsertWeakness, ReadPreferences, UpdatePreferences,
     Send, SeedPreferences, Record, Replay, Tick

LEMMA SessionsStep ==
    ASSUME TypeInv, [Next]_vars PROVE (\E S : sessions \in Seq(S))'
<1>1. CASE UNCHANGED sessions BY <1>1 DEF TypeInv
<1>2. ASSUME NEW r \in sent, Record(r) PROVE (\E S : sessions \in Seq(S))'
  <2>1. PICK S : sessions \in Seq(S) BY DEF TypeInv
  <2>2. sessions' \in Seq(S \cup {SessionRow(r)}) BY <1>2, <2>1, Appended DEF Record
  <2> QED BY <2>2
<1> QED
  BY <1>1, <1>2 DEF Next, vars, records, UpsertWeakness, UpsertConcept, ReadPreferences,
     UpdatePreferences, Send, SeedPreferences, Replay, Tick

LEMMA TypeStep == TypeInv /\ [Next]_vars => TypeInv'
BY TablesStep, VersionsStep, WireStep, GraphStep, SessionsStep DEF TypeInv

LEMMA TypeInvariant == Spec => []TypeInv
BY TypeInit, TypeStep, PTL DEF Spec

(* Every table of the store keeps its columns' types, and no client holds  *)
(* preferences that the store has not reached (get, update and seed of     *)
(* production.rs; record_practice, upsert_weakness and upsert_concept).    *)
THEOREM TypeCorrect == Spec => []TypeOK
BY TypeInvariant, TypeInvType, PTL

-----------------------------------------------------------------------------
(* The ledger and the sessions name each other.                            *)
LedgerInv ==
    /\ \A k \in IdempotencyKeys : ledger[k] # None =>
          /\ ledger[k].session \in 1..Len(sessions)
          /\ sessions[ledger[k].session].request = ledger[k].request
          /\ ledger[k].request.key = k
    /\ \A i \in 1..Len(sessions) :
          /\ sessions[i].request \in Requests
          /\ ledger[sessions[i].request.key] = [session |-> i, request |-> sessions[i].request]
    /\ \A a \in answers :
          /\ a[2] \in 1..Len(sessions)
          /\ sessions[a[2]].request = a[1]

LEMMA LedgerInit == Init => LedgerInv
BY DEF Init, LedgerInv

LEMMA LedgerStep ==
    ASSUME TypeInv, LedgerInv, [Next]_vars PROVE LedgerInv'
<1>1. CASE UNCHANGED <<ledger, sessions, answers>> BY <1>1 DEF LedgerInv
<1>2. ASSUME NEW r \in sent, Record(r) PROVE LedgerInv'
  <2> DEFINE n == Len(sessions) + 1
             row == [session |-> n, request |-> r]
  <2>1. PICK S : sessions \in Seq(S) BY DEF TypeInv
  <2>2. r \in Requests /\ r.key \in IdempotencyKeys BY DEF TypeInv, Wire, Requests
  <2>3. /\ sessions' = Append(sessions, SessionRow(r))
        /\ ledger' = [ledger EXCEPT ![r.key] = row]
        /\ answers' \in {answers, answers \cup {<<r, n>>}}
        /\ ledger[r.key] = None
    BY <1>2 DEF Record, Answer
  <2>4. /\ Len(sessions) \in Nat /\ Len(sessions') = n
        /\ \A i \in 1..Len(sessions) : sessions'[i] = sessions[i]
        /\ sessions'[n] = SessionRow(r)
    BY <2>1, <2>3, Appended
  <2>5. sessions'[n].request = r BY <2>4 DEF SessionRow
  <2>6. row.session = n /\ row.request = r /\ row \in LedgerRow
    BY <2>2, <2>4 DEF LedgerRow
  <2>7. row = [session |-> n, request |-> r] OBVIOUS
  <2>8. \A i \in 1..n : i \in 1..Len(sessions) \/ i = n BY <2>4
  <2> HIDE DEF row, n
  <2>9. 1..Len(sessions) \subseteq 1..n /\ n \in 1..n BY <2>4 DEF n
  <2>10. /\ ledger'[r.key] = row
         /\ \A k \in IdempotencyKeys : k # r.key => ledger'[k] = ledger[k]
    BY <2>2, <2>3 DEF TypeInv, Wire
  <2>11. \A k \in IdempotencyKeys : ledger'[k] # None =>
          /\ ledger'[k].session \in 1..Len(sessions')
          /\ sessions'[ledger'[k].session].request = ledger'[k].request
          /\ ledger'[k].request.key = k
    <3> TAKE k \in IdempotencyKeys
    <3>1. CASE k = r.key BY <2>4, <2>5, <2>6, <2>9, <2>10, <3>1
    <3>2. CASE k # r.key BY <2>4, <2>9, <2>10, <3>2 DEF LedgerInv
    <3> QED BY <3>1, <3>2
  <2>12. ASSUME NEW i \in 1..Len(sessions')
         PROVE  /\ sessions'[i].request \in Requests
                /\ ledger'[sessions'[i].request.key]
                       = [session |-> i, request |-> sessions'[i].request]
    <3>1. CASE i = n BY <2>2, <2>5, <2>7, <2>10, <3>1
    <3>2. CASE i \in 1..Len(sessions)
      <4>1. /\ sessions'[i] = sessions[i] /\ sessions[i].request \in Requests
            /\ sessions[i].request.key \in IdempotencyKeys
            /\ ledger[sessions[i].request.key]
                   = [session |-> i, request |-> sessions[i].request]
        BY <2>4, <3>2 DEF LedgerInv, Requests
      <4>2. [session |-> i, request |-> sessions[i].request] \in LedgerRow
        BY <3>2, <4>1 DEF LedgerRow
      <4>3. sessions[i].request.key # r.key BY <2>3, <4>1, <4>2
      <4> QED BY <2>10, <4>1, <4>3
    <3> QED BY <2>4, <2>8, <3>1, <3>2
  <2>13. ASSUME NEW a \in answers'
         PROVE  a[2] \in 1..Len(sessions') /\ sessions'[a[2]].request = a[1]
    <3>1. CASE a \in answers BY <2>4, <2>9, <3>1 DEF LedgerInv
    <3>2. CASE a = <<r, n>> BY <2>4, <2>5, <2>9, <3>2
    <3> QED BY <2>3, <3>1, <3>2
  <2> QED BY <2>11, <2>12, <2>13 DEF LedgerInv
<1>3. ASSUME NEW r \in sent, Replay(r) PROVE LedgerInv'
  <2>1. r.key \in IdempotencyKeys BY DEF TypeInv, Wire, Requests
  <2>2. /\ ledger[r.key] # None /\ ledger[r.key].request = r
        /\ answers' \in {answers, answers \cup {<<r, ledger[r.key].session>>}}
        /\ UNCHANGED <<sessions, ledger>>
    BY <1>3 DEF Replay, Replayed, Answer
  <2> QED BY <2>1, <2>2 DEF LedgerInv
<1> QED
  BY <1>1, <1>2, <1>3 DEF Next, vars, records, UpsertWeakness, UpsertConcept,
     ReadPreferences, UpdatePreferences, Send, SeedPreferences, Tick

LEMMA LedgerInvariant == Spec => [](TypeInv /\ LedgerInv)
BY TypeInit, TypeStep, LedgerInit, LedgerStep, PTL DEF Spec

(* However often a request arrives, in whatever order, and whoever else    *)
(* uses its key, every answer names the one session that was recorded from *)
(* that very request (the ledger lookup and insert of record_practice).    *)
THEOREM AnswersNameOneSession == Spec => []AnswersAgree
<1>1. TypeInv /\ LedgerInv => AnswersAgree
  <2> SUFFICES ASSUME TypeInv, LedgerInv, NEW a \in answers
               PROVE  /\ a[2] \in DOMAIN sessions
                      /\ sessions[a[2]].request = a[1]
                      /\ ledger[a[1].key].session = a[2]
    BY DEF AnswersAgree
  <2>1. a[2] \in 1..Len(sessions) /\ sessions[a[2]].request = a[1] BY DEF LedgerInv
  <2>2. DOMAIN sessions = 1..Len(sessions) BY Appended DEF TypeInv
  <2>3. ledger[a[1].key] = [session |-> a[2], request |-> a[1]] BY <2>1 DEF LedgerInv
  <2> QED BY <2>1, <2>2, <2>3
<1> QED BY <1>1, LedgerInvariant, PTL

-----------------------------------------------------------------------------
(* A version stands for one value of the preferences.                      *)
PolicyInv ==
    /\ \A c \in Clients : seen[c] # None /\ seen[c].version = preferences.version
                            => seen[c].value = preferences.value
    /\ \A r \in sent : r.draft.evidence => r.version \in 0..preferences.version
    /\ \A i \in 1..Len(sessions) : sessions[i].request.draft.evidence =>
          /\ sessions[i].request.version \in 0..preferences.version
          /\ sessions[i].request.version = preferences.version =>
                sessions[i].policy
                    = Patched(preferences.value, Override(sessions[i].request))
          /\ \A c \in Clients :
                seen[c] # None /\ seen[c].version = sessions[i].request.version =>
                  sessions[i].policy = Patched(seen[c].value, Override(sessions[i].request))

LEMMA PolicyInit == Init => PolicyInv
BY DEF Init, PolicyInv

LEMMA PolicyStep ==
    ASSUME TypeInv, PolicyInv, [Next]_vars PROVE PolicyInv'
<1>0. preferences.version \in Nat BY DEF TypeInv, Versions
<1>1. CASE UNCHANGED <<preferences, seen, sent, sessions>>
  BY <1>1 DEF PolicyInv, Override
<1>2. ASSUME NEW c \in Clients, ReadPreferences(c) PROVE PolicyInv'
  <2>1. /\ UNCHANGED <<preferences, sent, sessions>>
        /\ \A d \in Clients : seen'[d] = IF d = c THEN preferences ELSE seen[d]
    BY <1>2 DEF ReadPreferences, records, TypeInv, SeenTable
  <2> QED BY <2>1 DEF PolicyInv, Override
<1>3. ASSUME NEW x, preferences' = Stored(preferences.version, x),
             UNCHANGED <<seen, sent, sessions>>
      PROVE  PolicyInv'
  <2>1. preferences'.version = preferences.version + 1 BY <1>3 DEF Stored
  <2>2. \A c \in Clients : seen[c] # None => seen[c].version # preferences'.version
    BY <1>0, <2>1 DEF TypeInv, Versions
  <2>3. \A v : v \in 0..preferences.version =>
            v \in 0..preferences'.version /\ v # preferences'.version
    BY <1>0, <2>1
  <2> QED BY <1>3, <2>2, <2>3 DEF PolicyInv, Override
<1>4. ASSUME NEW c \in Clients, UpdatePreferences(c) PROVE PolicyInv'
  BY <1>3, <1>4 DEF UpdatePreferences, records
<1>5. CASE SeedPreferences BY <1>3, <1>5 DEF SeedPreferences, records
<1>6. ASSUME NEW c \in Clients, Send(c) PROVE PolicyInv'
  <2>1. PICK key \in IdempotencyKeys, d \in Drafts :
          /\ d.evidence => seen[c] # None
          /\ sent' = sent \cup {[key |-> key, draft |-> d,
                                version |-> IF d.evidence THEN seen[c].version ELSE None]}
    BY <1>6 DEF Send
  <2>2. \A r \in sent' : r.draft.evidence => r.version \in 0..preferences.version
    BY <2>1 DEF PolicyInv, TypeInv, Versions
  <2>3. UNCHANGED <<preferences, seen, sessions>> BY <1>6 DEF Send, records
  <2> QED BY <2>2, <2>3 DEF PolicyInv, Override
<1>7. ASSUME NEW r \in sent, Record(r) PROVE PolicyInv'
  <2>1. PICK S : sessions \in Seq(S) BY DEF TypeInv
  <2>2. /\ UNCHANGED <<preferences, seen, sent>>
        /\ sessions' = Append(sessions, SessionRow(r))
        /\ PolicyFits(r)
    BY <1>7 DEF Record, Recordable
  <2>3. /\ Len(sessions) \in Nat /\ Len(sessions') = Len(sessions) + 1
        /\ \A i \in 1..Len(sessions) : sessions'[i] = sessions[i]
        /\ sessions'[Len(sessions) + 1] = SessionRow(r)
    BY <2>1, <2>2, Appended
  <2>4. /\ SessionRow(r).request = r
        /\ SessionRow(r).policy = Patched(preferences.value, Override(r))
    BY DEF SessionRow, Policy
  <2>5. r.draft.evidence => r.version = preferences.version BY <2>2 DEF PolicyFits
  <2>6. ASSUME NEW i \in 1..Len(sessions'), sessions'[i].request.draft.evidence
        PROVE  /\ sessions'[i].request.version \in 0..preferences.version
               /\ sessions'[i].request.version = preferences.version =>
                     sessions'[i].policy
                        = Patched(preferences.value, Override(sessions'[i].request))
               /\ \A c \in Clients :
                    seen[c] # None /\ seen[c].version = sessions'[i].request.version =>
                      sessions'[i].policy = Patched(seen[c].value, Override(sessions'[i].request))
    <3>1. CASE i \in 1..Len(sessions)
      <4>1. sessions'[i] = sessions[i] BY <2>3, <3>1
      <4> QED BY <2>6, <3>1, <4>1 DEF PolicyInv
    <3>2. CASE i = Len(sessions) + 1
      <4>1. sessions'[i] = SessionRow(r) BY <2>3, <3>2
      <4>2. r.draft.evidence /\ r.version = preferences.version BY <2>4, <2>5, <2>6, <4>1
      <4> QED BY <1>0, <2>4, <4>1, <4>2 DEF PolicyInv
    <3> QED BY <2>3, <3>1, <3>2
  <2> QED BY <2>2, <2>6 DEF PolicyInv, Override
<1> QED
  BY <1>1, <1>2, <1>4, <1>5, <1>6, <1>7 DEF Next, vars, records, UpsertWeakness,
     UpsertConcept, Replay, Tick

LEMMA PolicyInvariant == Spec => [](TypeInv /\ PolicyInv)
BY TypeInit, TypeStep, PolicyInit, PolicyStep, PTL DEF Spec

(* No client's session is ever judged by other preferences than the ones   *)
(* it planned with, whoever updates or seeds them in between (policy       *)
(* version of record_practice, versions of production.rs).                 *)
THEOREM PoliciesAsPlanned == Spec => []PlannedPolicyApplies
<1>1. TypeInv /\ PolicyInv => PlannedPolicyApplies
  <2> SUFFICES ASSUME TypeInv, PolicyInv PROVE PlannedPolicyApplies OBVIOUS
  <2>1. DOMAIN sessions = 1..Len(sessions) BY Appended DEF TypeInv
  <2> QED BY <2>1 DEF PolicyInv, PlannedPolicyApplies
<1> QED BY <1>1, PolicyInvariant, PTL

-----------------------------------------------------------------------------
(* Schedules and reviews, weakness by weakness.                            *)

\* An upsert of one weakness, seen from another key or from its own.
LEMMA UpsertTables ==
    ASSUME TypeInv, NEW w \in WeaknessEdits, UpsertWeakness(w)
    PROVE  \E row \in WeaknessRow :
             /\ w.key \in Keys
             /\ weaknesses'[w.key] = row
             /\ schedules'[w.key] = ScheduleAfter(schedules[w.key], row.status)
             /\ schedules[w.key] \in ScheduleRow \cup {None}
             /\ row.status \in Statuses
             /\ \A k \in Keys : k # w.key => /\ weaknesses'[k] = weaknesses[k]
                                            /\ schedules'[k] = schedules[k]
<1> DEFINE row == WeaknessAfter(weaknesses[w.key], w, FALSE, FALSE)
<1>1. WeaknessInput(w) /\ w.key \in Keys BY InputAssumption DEF WeaknessInput
<1>2. weaknesses[w.key] \in WeaknessRow \cup {None} BY <1>1 DEF TypeInv, Tables, Rows
<1>3. row \in WeaknessRow BY <1>1, <1>2, WeaknessAfterType
<1>4. /\ weaknesses' = [weaknesses EXCEPT ![w.key] = row]
      /\ schedules' = [schedules EXCEPT ![w.key] = ScheduleAfter(schedules[w.key], row.status)]
  BY DEF UpsertWeakness
<1> HIDE DEF row
<1>5. row.status \in Statuses BY <1>3 DEF WeaknessRow
<1> QED BY <1>1, <1>3, <1>4, <1>5 DEF TypeInv, Tables, Rows

LEMMA ScheduleInit == Init => SchedulesFollowStatus
BY DEF Init, SchedulesFollowStatus

LEMMA ScheduleStep ==
    ASSUME TypeInv, SchedulesFollowStatus, [Next]_vars PROVE SchedulesFollowStatus'
<1>1. CASE UNCHANGED targets BY <1>1 DEF SchedulesFollowStatus, targets
<1>2. ASSUME NEW w \in WeaknessEdits, UpsertWeakness(w) PROVE SchedulesFollowStatus'
  <2>1. PICK row \in WeaknessRow :
             /\ w.key \in Keys
             /\ weaknesses'[w.key] = row
             /\ schedules'[w.key] = ScheduleAfter(schedules[w.key], row.status)
             /\ schedules[w.key] \in ScheduleRow \cup {None}
             /\ row.status \in Statuses
             /\ \A k \in Keys : k # w.key => /\ weaknesses'[k] = weaknesses[k]
                                            /\ schedules'[k] = schedules[k]
    BY <1>2, UpsertTables
  <2>2. /\ row.status = "active" => schedules'[w.key] # None
        /\ schedules'[w.key] # None /\ schedules'[w.key].active => row.status = "active"
    BY <2>1, ScheduleAfterType
  <2>3. row # None OBVIOUS
  <2> QED BY <2>1, <2>2, <2>3 DEF SchedulesFollowStatus
<1>3. ASSUME NEW r \in sent, Record(r), NEW k \in Keys
      PROVE  /\ weaknesses'[k] # None /\ weaknesses'[k].status = "active" => schedules'[k] # None
             /\ schedules'[k] # None /\ schedules'[k].active
                   => weaknesses'[k] # None /\ weaknesses'[k].status = "active"
  <2>1. /\ r \in Requests /\ now \in Nat /\ Tables /\ ReferencesKnown(r)
    BY <1>3 DEF TypeInv, Wire, Record, Recordable
  <2>2. /\ weaknesses'[k] = IF k \in AllKeys(r) THEN Touched(r, k) ELSE weaknesses[k]
        /\ schedules'[k] = IF k \in Applied(r)
                           THEN [Scheduled(r, k) EXCEPT !.last = ReviewedAt(r)]
                           ELSE Scheduled(r, k)
    BY <1>3, Zenon DEF Record
  <2>3. /\ Scheduled(r, k) \in ScheduleRow \cup {None}
        /\ Promotes(r, k) => Scheduled(r, k) # None
        /\ k \in NewKeys(r) /\ Upserted(r, k).status = "active" => Scheduled(r, k) # None
        /\ k \in NewKeys(r) /\ ~Promotes(r, k) /\ Scheduled(r, k) # None
              /\ Scheduled(r, k).active => Upserted(r, k).status = "active"
        /\ k \notin NewKeys(r) /\ ~Promotes(r, k) => Scheduled(r, k) = schedules[k]
    BY <2>1, ScheduledType
  <2>4. k \in Applied(r) => Scheduled(r, k) # None
    BY <1>3 DEF Record, Recordable, ReviewsFit
  <2>5. /\ schedules'[k] # None <=> Scheduled(r, k) # None
        /\ schedules'[k] # None => schedules'[k].active = Scheduled(r, k).active
    <3>1. CASE k \in Applied(r)
      <4>1. ReviewedAt(r) \in Nat BY <2>1, ReviewedAtType
      <4>2. schedules'[k] = [Scheduled(r, k) EXCEPT !.last = ReviewedAt(r)] BY <2>2, <3>1
      <4>3. Scheduled(r, k) \in ScheduleRow BY <2>3, <2>4, <3>1
      <4> QED BY <3>1, <2>4, <4>1, <4>2, <4>3 DEF ScheduleRow
    <3>2. CASE k \notin Applied(r)
      <4>1. schedules'[k] = Scheduled(r, k) BY <2>2, <3>2
      <4> QED BY <4>1
    <3> QED BY <3>1, <3>2
  <2>6. CASE k \in AllKeys(r)
    <3>1. /\ weaknesses'[k] = Touched(r, k) /\ Touched(r, k) \in WeaknessRow
          /\ Touched(r, k).status = IF Promotes(r, k) THEN "active" ELSE Upserted(r, k).status
      BY <2>1, <2>2, <2>6, TouchedType
    <3>2. CASE k \in NewKeys(r) BY <2>3, <2>5, <3>1, <3>2
    <3>3. CASE k \notin NewKeys(r)
      <4>1. Upserted(r, k) = weaknesses[k] /\ weaknesses[k] # None
        BY <2>1, <2>6, <3>3 DEF Upserted, ReferencesKnown
      <4> QED BY <2>3, <2>5, <3>1, <3>3, <4>1 DEF SchedulesFollowStatus
    <3> QED BY <3>2, <3>3
  <2>7. CASE k \notin AllKeys(r)
    <3>1. k \notin NewKeys(r) /\ ~Promotes(r, k) BY <2>7 DEF AllKeys, Promotes
    <3> QED BY <2>2, <2>3, <2>5, <2>7, <3>1 DEF SchedulesFollowStatus
  <2> QED BY <2>6, <2>7
<1>4. ASSUME NEW r \in sent, Record(r) PROVE SchedulesFollowStatus'
  BY <1>3, <1>4 DEF SchedulesFollowStatus
<1> QED
  BY <1>1, <1>2, <1>4 DEF Next, vars, targets, UpsertConcept, ReadPreferences,
     UpdatePreferences, Send, SeedPreferences, Replay, Tick

(* Whatever is recorded, promoted, suspended or reactivated: only active   *)
(* weaknesses are in the review queue and each of them has a schedule row  *)
(* (upsert_weakness_tx, promote_target_if_needed).                         *)
THEOREM OnlyActiveScheduled == Spec => []SchedulesFollowStatus
<1>1. TypeInv /\ SchedulesFollowStatus /\ [Next]_vars => (TypeInv /\ SchedulesFollowStatus)'
  BY TypeStep, ScheduleStep
<1> QED BY <1>1, TypeInit, ScheduleInit, PTL DEF Spec

\* What a review refers to; its schedule row stands at some review.
ReviewRefs ==
    \A v \in reviews : /\ v.key \in Keys /\ v.session \in 1..Len(sessions) /\ v.day \in Int
                       /\ schedules[v.key] # None /\ schedules[v.key].last # None

ReviewInv == ReviewRefs /\ ReviewsInOrder

LEMMA ReviewInit == Init => ReviewInv
BY DEF Init, ReviewInv, ReviewRefs, ReviewsInOrder

\* A step that leaves the last reviews of all schedule rows alone.
LEMMA ReviewFrame ==
    ASSUME ReviewInv, UNCHANGED <<reviews, sessions>>,
           \A k \in Keys : schedules[k] # None =>
              schedules'[k] # None /\ schedules'[k].last = schedules[k].last
    PROVE  ReviewInv'
<1>1. \A v \in reviews : /\ v.key \in Keys /\ schedules'[v.key] # None
                         /\ schedules'[v.key].last = schedules[v.key].last
  BY DEF ReviewInv, ReviewRefs
<1>2. ReviewRefs' BY <1>1 DEF ReviewInv, ReviewRefs
<1>3. ReviewsInOrder'
  BY <1>1 DEF ReviewInv, ReviewsInOrder, LearningDay
<1> QED BY <1>2, <1>3 DEF ReviewInv

LEMMA ReviewStep ==
    ASSUME TypeInv, ReviewInv, [Next]_vars PROVE ReviewInv'
<1>1. CASE UNCHANGED <<reviews, sessions, schedules>> BY <1>1, ReviewFrame
<1>2. ASSUME NEW w \in WeaknessEdits, UpsertWeakness(w) PROVE ReviewInv'
  <2>1. PICK row \in WeaknessRow :
             /\ w.key \in Keys
             /\ weaknesses'[w.key] = row
             /\ schedules'[w.key] = ScheduleAfter(schedules[w.key], row.status)
             /\ schedules[w.key] \in ScheduleRow \cup {None}
             /\ row.status \in Statuses
             /\ \A k \in Keys : k # w.key => /\ weaknesses'[k] = weaknesses[k]
                                            /\ schedules'[k] = schedules[k]
    BY <1>2, UpsertTables
  <2>2. schedules[w.key] # None => /\ schedules'[w.key] # None
                                   /\ schedules'[w.key].last = schedules[w.key].last
    BY <2>1, ScheduleAfterType
  <2>3. UNCHANGED <<reviews, sessions>> BY <1>2 DEF UpsertWeakness, records
  <2> QED BY <2>1, <2>2, <2>3, ReviewFrame
<1>3. ASSUME NEW r \in sent, Record(r) PROVE ReviewInv'
  <2> DEFINE n == Len(sessions) + 1
             fresh == WrittenReviews(r, n)
  <2>1. PICK S : sessions \in Seq(S) BY DEF TypeInv
  <2>2. /\ r \in Requests /\ now \in Nat /\ Tables /\ ReferencesKnown(r)
        /\ reviews' = reviews \cup fresh
        /\ sessions' = Append(sessions, SessionRow(r))
    BY <1>3 DEF TypeInv, Wire, Record, Recordable
  <2>3. Len(sessions) \in Nat /\ Len(sessions') = n BY <2>1, <2>2, Appended
  <2>4. ReviewedAt(r) \in Nat /\ Day(r) \in Int /\ Day(r) = LearningDay(ReviewedAt(r))
    BY <2>2, ReviewedAtType DEF Day
  <2>5. \A v \in fresh : v.session = n /\ v.key \in Applied(r) /\ v.day = Day(r)
    BY DEF WrittenReviews
  <2>6. \A k \in Applied(r) : \E v \in fresh : v.key = k /\ v.day = Day(r)
    <3> TAKE k \in Applied(r)
    <3> DEFINE v == [session |-> n, key |-> k, day |-> Day(r)]
    <3>1. v \in fresh BY DEF WrittenReviews
    <3>2. v.key = k /\ v.day = Day(r) OBVIOUS
    <3> QED BY <3>1, <3>2
  <2>7. Applied(r) \subseteq Keys BY <2>2, InputAssumption DEF Applied, Requests
  <2> HIDE DEF fresh
  <2>8. ASSUME NEW k \in Applied(r)
        PROVE  /\ schedules'[k] # None /\ schedules'[k].last = ReviewedAt(r)
               /\ schedules[k] # None /\ schedules[k].last # None =>
                     LearningDay(schedules[k].last) <= Day(r)
    <3>1. schedules'[k] = [Scheduled(r, k) EXCEPT !.last = ReviewedAt(r)]
      BY <1>3, <2>7, Zenon DEF Record
    <3>2. Scheduled(r, k) # None /\ NotBefore(Scheduled(r, k), ReviewedAt(r))
      BY <1>3 DEF Record, Recordable, ReviewsFit
    <3>3. /\ Scheduled(r, k) \in ScheduleRow \cup {None}
          /\ Scheduled(r, k).last = IF schedules[k] = None THEN None ELSE schedules[k].last
      BY <2>2, <2>7, <3>2, ScheduledType
    <3>4. schedules'[k] \in ScheduleRow /\ schedules'[k].last = ReviewedAt(r)
      <4>1. Scheduled(r, k) \in ScheduleRow BY <3>2, <3>3
      <4> QED BY <2>4, <3>1, <4>1 DEF ScheduleRow
    <3>5. schedules[k] # None /\ schedules[k].last # None =>
                     LearningDay(schedules[k].last) <= Day(r)
      BY <2>4, <3>2, <3>3 DEF NotBefore
    <3> QED BY <3>4, <3>5
  <2>9. ASSUME NEW k \in Keys \ Applied(r), schedules[k] # None
        PROVE  schedules'[k] # None /\ schedules'[k].last = schedules[k].last
    <3>1. schedules'[k] = Scheduled(r, k) BY <1>3, <2>9, Zenon DEF Record
    <3>2. Scheduled(r, k) # None /\ Scheduled(r, k).last = schedules[k].last
      BY <2>2, <2>9, ScheduledType
    <3> QED BY <3>1, <3>2
  <2>10. ASSUME NEW v \in reviews
         PROVE  /\ v.key \in Keys /\ v.session \in 1..Len(sessions) /\ v.day \in Int
                /\ schedules[v.key] # None /\ schedules[v.key].last # None
                /\ LearningDay(schedules[v.key].last) \in Int
                /\ LearningDay(schedules[v.key].last) >= v.day
                /\ \E x \in reviews : x.key = v.key /\ x.day = LearningDay(schedules[v.key].last)
    <3>1. /\ v.key \in Keys /\ v.session \in 1..Len(sessions) /\ v.day \in Int
          /\ schedules[v.key] # None /\ schedules[v.key].last # None
      BY DEF ReviewInv, ReviewRefs
    <3>2. schedules[v.key] \in ScheduleRow BY <3>1, <2>2 DEF Tables, Rows
    <3>3. schedules[v.key].last \in Nat BY <3>1, <3>2 DEF ScheduleRow
    <3> QED BY <3>1, <3>3, LearningDayType DEF ReviewInv, ReviewsInOrder
  <2>11. ReviewRefs'
    <3> SUFFICES ASSUME NEW v \in reviews'
                 PROVE  /\ v.key \in Keys /\ v.session \in 1..Len(sessions') /\ v.day \in Int
                        /\ schedules'[v.key] # None /\ schedules'[v.key].last # None
      BY DEF ReviewRefs
    <3>1. CASE v \in reviews
      <4>1. v.session \in 1..Len(sessions') BY <2>3, <2>10, <3>1
      <4>2. CASE v.key \in Applied(r) BY <2>4, <2>8, <2>10, <3>1, <4>1, <4>2
      <4>3. CASE v.key \notin Applied(r) BY <2>9, <2>10, <3>1, <4>1, <4>3
      <4> QED BY <4>2, <4>3
    <3>2. CASE v \in fresh BY <2>3, <2>4, <2>5, <2>7, <2>8, <3>2
    <3> QED BY <2>2, <3>1, <3>2
  <2>12. ASSUME NEW v \in reviews', NEW x \in reviews', v.key = x.key, v.session < x.session
         PROVE  v.day <= x.day
    <3>1. CASE v \in reviews /\ x \in reviews BY <2>12, <3>1 DEF ReviewInv, ReviewsInOrder
    <3>2. CASE v \in reviews /\ x \in fresh BY <2>4, <2>5, <2>8, <2>10, <2>12, <3>2
    <3>3. CASE v \in fresh
      <4>1. v.session = n /\ x.session \in 1..n
        BY <2>2, <2>3, <2>5, <2>10, <3>3
      <4> QED BY <2>3, <2>12, <4>1
    <3> QED BY <2>2, <3>1, <3>2, <3>3
  <2>13. ASSUME NEW v \in reviews'
         PROVE  /\ LearningDay(schedules'[v.key].last) >= v.day
                /\ \E x \in reviews' : x.key = v.key /\ x.day = LearningDay(schedules'[v.key].last)
    <3>1. CASE v.key \in Applied(r)
      <4>1. LearningDay(schedules'[v.key].last) = Day(r) BY <2>4, <2>8, <3>1
      <4>2. \E x \in reviews' : x.key = v.key /\ x.day = Day(r) BY <2>2, <2>6, <3>1
      <4>3. Day(r) >= v.day BY <2>2, <2>4, <2>5, <2>8, <2>10, <3>1
      <4> QED BY <4>1, <4>2, <4>3
    <3>2. CASE v.key \notin Applied(r)
      <4>1. v \in reviews BY <2>2, <2>5, <3>2
      <4>2. schedules'[v.key].last = schedules[v.key].last BY <2>9, <2>10, <3>2, <4>1
      <4> QED BY <2>2, <2>10, <4>1, <4>2
    <3> QED BY <3>1, <3>2
  <2>14. ReviewsInOrder' BY <2>12, <2>13 DEF ReviewsInOrder, LearningDay
  <2> QED BY <2>11, <2>14 DEF ReviewInv
<1> QED
  BY <1>1, <1>2, <1>3 DEF Next, vars, records, targets, UpsertConcept, ReadPreferences,
     UpdatePreferences, Send, SeedPreferences, Replay, Tick

(* A review is never recorded for a day before the last review of its      *)
(* weakness, and the schedule always stands at the last one, in whatever   *)
(* order sessions arrive (learning_day_delta, record_practice).            *)
THEOREM ReviewsGoForward == Spec => []ReviewsInOrder
<1>1. TypeInv /\ ReviewInv /\ [Next]_vars => (TypeInv /\ ReviewInv)'
  BY TypeStep, ReviewStep
<1>2. TypeInv /\ ReviewInv => ReviewsInOrder BY DEF ReviewInv
<1> QED BY <1>1, <1>2, TypeInit, ReviewInit, PTL DEF Spec

-----------------------------------------------------------------------------
(* A session is recorded whole.                                            *)

LEMMA KeysOfRequest == ASSUME NEW r \in Requests PROVE AllKeys(r) \subseteq Keys
<1>1. r.draft \in Drafts BY DEF Requests
<1>2. /\ \A w \in r.draft.new : w.key \in Keys
      /\ r.draft.targets \subseteq Keys /\ r.draft.observed \subseteq Keys
      /\ \A v \in r.draft.reviews : v.key \in Keys
  BY <1>1, InputAssumption DEF WeaknessInput
<1> QED BY <1>2 DEF AllKeys, NewKeys, Reviewed

\* An upsert keeps what the row says of when the weakness was seen.
LEMMA UpsertedSpan ==
    ASSUME Tables, NEW r \in Requests, ReferencesKnown(r), NEW k \in AllKeys(r)
    PROVE  weaknesses[k] # None => /\ Upserted(r, k).first = weaknesses[k].first
                                   /\ Upserted(r, k).last = weaknesses[k].last
<1>0. k \in Keys /\ weaknesses[k] \in WeaknessRow \cup {None}
  BY UpsertedType DEF Tables, Rows
<1>1. CASE k \in NewKeys(r)
  <2> DEFINE w == CHOOSE w \in r.draft.new : w.key = k
  <2>1. w \in r.draft.new BY <1>1 DEF NewKeys
  <2>2. WeaknessInput(w) BY <2>1, InputAssumption DEF Requests
  <2>3. Upserted(r, k) = WeaknessAfter(weaknesses[k], w, k \in r.draft.targets, TRUE)
    BY <1>1 DEF Upserted
  <2> HIDE DEF w
  <2>4. (k \in r.draft.targets) \in BOOLEAN OBVIOUS
  <2>5. /\ WeaknessAfter(weaknesses[k], w, k \in r.draft.targets, TRUE).first
              = IF weaknesses[k] = None THEN None ELSE weaknesses[k].first
        /\ WeaknessAfter(weaknesses[k], w, k \in r.draft.targets, TRUE).last
              = IF weaknesses[k] = None THEN None ELSE weaknesses[k].last
    BY <1>0, <2>2, <2>4, WeaknessAfterType
  <2> QED BY <2>3, <2>5
<1>2. CASE k \notin NewKeys(r) BY <1>2 DEF Upserted
<1> QED BY <1>1, <1>2

\* The span of a weakness that a session names comes to hold the session's day
\* and never shrinks.
LEMMA TouchedSpan ==
    ASSUME Tables, now \in Nat, NEW r \in Requests, ReferencesKnown(r), NEW k \in AllKeys(r)
    PROVE  /\ Touched(r, k) # None
           /\ Touched(r, k).first \in Int /\ Touched(r, k).last \in Int
           /\ Touched(r, k).first <= Day(r) /\ Day(r) <= Touched(r, k).last
           /\ weaknesses[k] # None /\ weaknesses[k].first \in Int /\ weaknesses[k].last \in Int
                 => /\ Touched(r, k).first <= weaknesses[k].first
                    /\ weaknesses[k].last <= Touched(r, k).last
<1> DEFINE u == Upserted(r, k)
<1>1. Touched(r, k) \in WeaknessRow /\ Touched(r, k).first \in Int /\ Touched(r, k).last \in Int
  BY TouchedType
<1>2. u \in WeaknessRow BY UpsertedType
<1>3. Touched(r, k).first = Earlier(u.first, Day(r)) /\ Touched(r, k).last = Later(u.last, Day(r))
  <2>1. Touched(r, k) = [u EXCEPT !.status = IF Promotes(r, k) THEN "active" ELSE u.status,
                                  !.first = Earlier(u.first, Day(r)),
                                  !.last = Later(u.last, Day(r))]
    BY DEF Touched
  <2> HIDE DEF u
  <2> QED BY <1>2, <2>1 DEF WeaknessRow
<1>4. weaknesses[k] # None => u.first = weaknesses[k].first /\ u.last = weaknesses[k].last
  BY UpsertedSpan
<1>5. Day(r) \in Int BY ReviewedAtType
<1>6. u.first \in Int \cup {None} /\ u.last \in Int \cup {None}
  <2> HIDE DEF u
  <2> QED BY <1>2 DEF WeaknessRow
<1> HIDE DEF u
<1>7. Touched(r, k).first <= Day(r) /\ (u.first \in Int => Touched(r, k).first <= u.first)
  BY <1>3, <1>5, <1>6 DEF Earlier
<1>8. Day(r) <= Touched(r, k).last /\ (u.last \in Int => u.last <= Touched(r, k).last)
  BY <1>3, <1>5, <1>6 DEF Later
<1> QED BY <1>1, <1>4, <1>7, <1>8

Spans(i) ==
    \A k \in AllKeys(sessions[i].request) :
        /\ weaknesses[k] # None /\ weaknesses[k].first \in Int /\ weaknesses[k].last \in Int
        /\ weaknesses[k].first <= sessions[i].day /\ sessions[i].day <= weaknesses[k].last

KeysReviewed(i) == {v.key : v \in {x \in reviews : x.session = i}}

WholeInv ==
    /\ \A i \in 1..Len(sessions) : /\ sessions[i].day \in Int /\ Spans(i)
                                    /\ KeysReviewed(i) = Applied(sessions[i].request)
    /\ \A v \in reviews : v.session \in 1..Len(sessions)

LEMMA WholeInit == Init => WholeInv
BY DEF Init, WholeInv

\* Spans only grow, and no step but record_practice writes a session or a review.
LEMMA WholeFrame ==
    ASSUME TypeInv, LedgerInv, WholeInv, UNCHANGED <<sessions, reviews>>,
           \A k \in Keys : weaknesses[k] # None =>
               /\ weaknesses'[k] # None
               /\ weaknesses'[k].first = weaknesses[k].first
               /\ weaknesses'[k].last = weaknesses[k].last
    PROVE  WholeInv'
<1>1. \A i \in 1..Len(sessions) : AllKeys(sessions[i].request) \subseteq Keys
  BY KeysOfRequest DEF LedgerInv
<1>2. ASSUME NEW i \in 1..Len(sessions) PROVE Spans(i)'
  BY <1>1 DEF WholeInv, Spans
<1> QED BY <1>2 DEF WholeInv, KeysReviewed

LEMMA WholeRecord ==
    ASSUME TypeInv, LedgerInv, WholeInv, NEW r \in sent, Record(r) PROVE WholeInv'
<1>1. PICK S : sessions \in Seq(S) BY DEF TypeInv
<1>n. PICK n \in Nat : n = Len(sessions) + 1 BY <1>1
<1>2. /\ r \in Requests /\ now \in Nat /\ Tables /\ ReferencesKnown(r)
      /\ sessions' = Append(sessions, SessionRow(r))
      /\ reviews' = reviews \cup WrittenReviews(r, n)
      /\ weaknesses' = [k \in Keys |-> IF k \in AllKeys(r) THEN Touched(r, k) ELSE weaknesses[k]]
  BY <1>n DEF TypeInv, Wire, Record, Recordable
<1>3. /\ Len(sessions) \in Nat /\ Len(sessions') = n
      /\ \A i \in 1..Len(sessions) : sessions'[i] = sessions[i]
      /\ sessions'[n] = SessionRow(r)
  BY <1>n, <1>1, <1>2, Appended
<1>4. sessions'[n].request = r /\ sessions'[n].day = Day(r) /\ Day(r) \in Int
  BY <1>2, <1>3, ReviewedAtType DEF SessionRow
<1>5. \A i \in 1..n : i \in 1..Len(sessions) \/ i = n BY <1>n, <1>3
<1>6. \A v \in WrittenReviews(r, n) : v.session = n /\ v.key \in Applied(r)
  BY DEF WrittenReviews
<1>7. \A k \in Applied(r) : \E v \in WrittenReviews(r, n) : v.key = k /\ v.session = n
  <2> TAKE k \in Applied(r)
  <2> DEFINE v == [session |-> n, key |-> k, day |-> Day(r)]
  <2>1. v \in WrittenReviews(r, n) BY DEF WrittenReviews
  <2>2. v.key = k /\ v.session = n OBVIOUS
  <2> QED BY <2>1, <2>2
<1>8. 1..Len(sessions) \subseteq 1..n /\ n \in 1..n /\ n \notin 1..Len(sessions)
  BY <1>n, <1>3
<1>9. AllKeys(r) \subseteq Keys
  BY <1>2, UpsertedType
<1>10. ASSUME NEW i \in 1..Len(sessions)
       PROVE  /\ sessions'[i].day \in Int /\ Spans(i)'
              /\ KeysReviewed(i)' = Applied(sessions'[i].request)
  <2>1. sessions'[i] = sessions[i] /\ sessions[i].day \in Int /\ Spans(i)
    BY <1>3 DEF WholeInv
  <2>2. AllKeys(sessions[i].request) \subseteq Keys
    BY KeysOfRequest DEF LedgerInv
  <2>3. ASSUME NEW k \in AllKeys(sessions[i].request)
        PROVE  /\ weaknesses'[k] # None /\ weaknesses'[k].first \in Int /\ weaknesses'[k].last \in Int
               /\ weaknesses'[k].first <= sessions[i].day /\ sessions[i].day <= weaknesses'[k].last
    <3>1. /\ weaknesses[k] # None /\ weaknesses[k].first \in Int /\ weaknesses[k].last \in Int
          /\ weaknesses[k].first <= sessions[i].day /\ sessions[i].day <= weaknesses[k].last
      BY <2>1 DEF Spans
    <3>2. k \in Keys BY <2>2
    <3>3. CASE k \in AllKeys(r)
      <4>1. weaknesses'[k] = Touched(r, k) BY <1>2, <3>2, <3>3
      <4>2. /\ Touched(r, k) # None
            /\ Touched(r, k).first \in Int /\ Touched(r, k).last \in Int
            /\ Touched(r, k).first <= weaknesses[k].first
            /\ weaknesses[k].last <= Touched(r, k).last
        BY <1>2, <3>1, <3>3, TouchedSpan
      <4> QED BY <2>1, <3>1, <4>1, <4>2
    <3>4. CASE k \notin AllKeys(r)
      <4>1. weaknesses'[k] = weaknesses[k] BY <1>2, <3>2, <3>4
      <4> QED BY <3>1, <4>1
    <3> QED BY <3>3, <3>4
  <2>4. KeysReviewed(i)' = KeysReviewed(i)
    <3>1. {x \in reviews' : x.session = i} = {x \in reviews : x.session = i}
      BY <1>2, <1>6, <1>8
    <3> QED BY <3>1 DEF KeysReviewed
  <2> QED BY <2>1, <2>3, <2>4 DEF Spans, WholeInv, Applied
<1>11. /\ Spans(n)' /\ KeysReviewed(n)' = Applied(r)
  <2>1. ASSUME NEW k \in AllKeys(r)
        PROVE  /\ weaknesses'[k] # None /\ weaknesses'[k].first \in Int /\ weaknesses'[k].last \in Int
               /\ weaknesses'[k].first <= Day(r) /\ Day(r) <= weaknesses'[k].last
    <3>1. weaknesses'[k] = Touched(r, k) BY <1>2, <1>9
    <3> QED BY <1>2, <3>1, TouchedSpan
  <2>2. {x \in reviews' : x.session = n} = WrittenReviews(r, n)
    BY <1>2, <1>6, <1>8 DEF WholeInv
  <2>3. {v.key : v \in WrittenReviews(r, n)} = Applied(r)
    BY <1>6, <1>7
  <2> QED BY <1>4, <2>1, <2>2, <2>3 DEF Spans, KeysReviewed
<1>12. \A v \in reviews' : v.session \in 1..n
  BY <1>2, <1>6, <1>8 DEF WholeInv
<1>13. \A i \in 1..n : /\ sessions'[i].day \in Int /\ Spans(i)'
                        /\ KeysReviewed(i)' = Applied(sessions'[i].request)
  BY <1>4, <1>5, <1>10, <1>11
<1> QED BY <1>3, <1>12, <1>13 DEF WholeInv, KeysReviewed, Spans, Applied

LEMMA WholeStep == ASSUME TypeInv, LedgerInv, WholeInv, [Next]_vars PROVE WholeInv'
<1>1. CASE UNCHANGED <<sessions, reviews, weaknesses>> BY <1>1, WholeFrame
<1>2. ASSUME NEW w \in WeaknessEdits, UpsertWeakness(w) PROVE WholeInv'
  <2> DEFINE row == WeaknessAfter(weaknesses[w.key], w, FALSE, FALSE)
  <2>1. WeaknessInput(w) /\ w.key \in Keys BY InputAssumption DEF WeaknessInput
  <2>2. weaknesses[w.key] \in WeaknessRow \cup {None} BY <2>1 DEF TypeInv, Tables, Rows
  <2>3. /\ row \in WeaknessRow
        /\ weaknesses[w.key] # None => /\ row.first = weaknesses[w.key].first
                                       /\ row.last = weaknesses[w.key].last
    BY <2>1, <2>2, WeaknessAfterType
  <2>4. weaknesses' = [weaknesses EXCEPT ![w.key] = row] /\ UNCHANGED <<sessions, reviews>>
    BY <1>2 DEF UpsertWeakness, records
  <2> HIDE DEF row
  <2>5. row # None BY <2>3
  <2> QED BY <2>1, <2>3, <2>4, <2>5, WholeFrame DEF TypeInv, Tables, Rows
<1> QED
  BY <1>1, <1>2, WholeRecord DEF Next, vars, records, targets, UpsertConcept, ReadPreferences,
     UpdatePreferences, Send, SeedPreferences, Replay, Tick

(* Whatever is recorded, in whatever order and for whatever day: a session *)
(* is there with its ledger entry, with exactly the eligible reviews, and  *)
(* its day lies in the span of every weakness it names, although sessions  *)
(* recorded later move the spans (record_practice, one transaction).       *)
THEOREM SessionsAreWhole == Spec => []RecordedWhole
<1>1. TypeInv /\ LedgerInv /\ WholeInv /\ [Next]_vars => (TypeInv /\ LedgerInv /\ WholeInv)'
  BY TypeStep, LedgerStep, WholeStep
<1>2. TypeInv /\ LedgerInv /\ WholeInv => RecordedWhole
  <2> SUFFICES ASSUME TypeInv, LedgerInv, WholeInv PROVE RecordedWhole OBVIOUS
  <2>1. DOMAIN sessions = 1..Len(sessions) BY Appended DEF TypeInv
  <2> QED BY <2>1 DEF RecordedWhole, WholeInv, LedgerInv, Spans, KeysReviewed
<1> QED BY <1>1, <1>2, TypeInit, LedgerInit, WholeInit, PTL DEF Spec

-----------------------------------------------------------------------------
(* The concept graph.                                                      *)

EdgeSet(edges0) == edges0 \subseteq Edge

LEMMA ReachesStart ==
    ASSUME NEW E, NEW p, NEW c \in Concepts PROVE c \in Reachable(E, p, c)
BY DEF Reachable

LEMMA ReachesAlong ==
    ASSUME NEW E, EdgeSet(E), NEW p, NEW c PROVE Follows(Reachable(E, p, c), E, p)
BY DEF Reachable, Follows, EdgeSet, Edge

LEMMA ReachesLeast ==
    ASSUME NEW E, NEW p, NEW c, NEW S \in SUBSET Concepts, c \in S, Follows(S, E, p)
    PROVE  Reachable(E, p, c) \subseteq S
BY DEF Reachable

\* An edge whose end does not lead back to its start closes no cycle, neither
\* through itself nor through the edges that were there.
LEMMA OneEdge ==
    ASSUME NEW E, EdgeSet(E), Acyclic(E), NEW e \in Edge, ~MakesCycle(E, e)
    PROVE  Acyclic(E \cup {e}) /\ EdgeSet(E \cup {e})
<1> DEFINE F == E \cup {e}
<1>1. EdgeSet(F) BY DEF EdgeSet
<1> SUFFICES ASSUME NEW x \in F, x.predicate \in Directed
             PROVE  x.from \notin Reachable(F, x.predicate, x.to)
  BY <1>1 DEF Acyclic
<1> DEFINE p == x.predicate
           R(c) == Reachable(E, p, c)
<1>2. x.from \in Concepts /\ x.to \in Concepts /\ e.from \in Concepts /\ e.to \in Concepts
  BY <1>1 DEF EdgeSet, Edge
<1>3. \A c \in Concepts : R(c) \in SUBSET Concepts /\ c \in R(c) /\ Follows(R(c), E, p)
  <2> TAKE c \in Concepts
  <2>1. R(c) \in SUBSET Concepts BY DEF Reachable
  <2> QED BY <2>1, ReachesStart, ReachesAlong
<1>4. x.from \notin R(x.to)
  BY <1>3 DEF Acyclic, MakesCycle
<1>5. CASE e.predicate # p \/ e.from \notin R(x.to)
  <2>1. Follows(R(x.to), F, p) BY <1>2, <1>3, <1>5 DEF Follows
  <2>2. Reachable(F, p, x.to) \subseteq R(x.to) BY <1>2, <1>3, <2>1, ReachesLeast
  <2> QED BY <1>4, <2>2
<1>6. CASE e.predicate = p /\ e.from \in R(x.to)
  <2>1. e.from \notin R(e.to) BY <1>6 DEF MakesCycle
  <2>2. x \in E BY <1>6, <2>1
  <2>3. R(x.to) \cup R(e.to) \in SUBSET Concepts /\ x.to \in R(x.to) \cup R(e.to)
    BY <1>2, <1>3
  <2>4. Follows(R(x.to) \cup R(e.to), F, p) BY <1>2, <1>3 DEF Follows
  <2>5. Reachable(F, p, x.to) \subseteq R(x.to) \cup R(e.to)
    BY <2>3, <2>4, ReachesLeast
  <2>6. x.from \notin R(e.to)
    <3> SUFFICES ASSUME x.from \in R(e.to) PROVE FALSE OBVIOUS
    <3>1. x.to \in R(e.to) BY <1>2, <1>3, <2>2 DEF Follows
    <3>2. R(x.to) \subseteq R(e.to) BY <1>2, <1>3, <3>1, ReachesLeast
    <3> QED BY <1>6, <2>1, <3>2
  <2> QED BY <1>4, <2>5, <2>6
<1> QED BY <1>5, <1>6

LEMMA CanonicalEdge ==
    ASSUME NEW e \in Edge PROVE Canonical(e) \in Edge /\ Canonical(Canonical(e)) = Canonical(e)
<1>1. e.from \in Int /\ e.to \in Int
  BY ConceptsAssumption DEF Edge
<1>2. CASE e.predicate \notin Symmetric BY <1>2 DEF Canonical
<1>3. CASE e.predicate \in Symmetric
  <2>1. CASE e.from <= e.to
    <3>1. Canonical(e) = e BY <1>3, <2>1 DEF Canonical, CanonicalPair, Edge
    <3> QED BY <3>1
  <2>2. CASE ~(e.from <= e.to)
    <3> DEFINE f == [from |-> e.to, predicate |-> e.predicate, to |-> e.from]
    <3>1. Canonical(e) = f BY <1>3, <2>2 DEF Canonical, CanonicalPair
    <3>2. f \in Edge /\ f.from <= f.to /\ f.predicate \in Symmetric
      BY <1>1, <1>3, <2>2 DEF Edge
    <3> HIDE DEF f
    <3>3. Canonical(f) = f BY <3>2 DEF Canonical, CanonicalPair, Edge
    <3> QED BY <3>1, <3>2, <3>3
  <2> QED BY <2>1, <2>2
<1> QED BY <1>2, <1>3

GraphSound(E) == EdgeSet(E) /\ Acyclic(E) /\ \A e \in E : e = Canonical(e)

\* The edges of one request, one by one: the first insertion that would leave an
\* unsound graph was refused.
LEMMA EdgesInserted ==
    ASSUME NEW E, GraphSound(E), NEW new \in Seq(Edge), InsertEdges(E, new) # None
    PROVE  GraphSound(InsertEdges(E, new))
<1> DEFINE n == Len(new)
           G(i) == Inserted(E, new, i)
           Bad == {i \in 1..(n + 1) : ~GraphSound(G(i))}
<1>1. /\ n \in Nat /\ DOMAIN new = 1..n /\ \A i \in 1..n : new[i] \in Edge
      /\ \A i \in 1..n : ~MakesCycle(G(i), Canonical(new[i]))
      /\ InsertEdges(E, new) = G(n + 1)
  BY DEF InsertEdges
<1> SUFFICES ASSUME Bad # {} PROVE FALSE
  BY <1>1
<1>2. Bad \subseteq 1..(n + 1) /\ n + 1 \in Nat
  BY <1>1
<1> HIDE DEF Bad
<1>3. PICK i \in Bad : \A j \in Bad : i <= j
  BY <1>2, FirstPosition
<1> USE DEF Bad
<1>4. i # 1
  <2>1. G(1) = E BY DEF Inserted
  <2> QED BY <1>3, <2>1
<1>5. i - 1 \in 1..n /\ i - 1 \notin Bad
  BY <1>1, <1>3, <1>4
<1> DEFINE e == Canonical(new[i - 1])
<1>6. G(i) = G(i - 1) \cup {e}
  <2>1. 1..(i - 1) = 1..((i - 1) - 1) \cup {i - 1} BY <1>5
  <2> QED BY <2>1 DEF Inserted
<1>7. e \in Edge /\ Canonical(e) = e /\ ~MakesCycle(G(i - 1), e)
  BY <1>1, <1>5, CanonicalEdge
<1>8. GraphSound(G(i - 1))
  BY <1>1, <1>5
<1> HIDE DEF e, G
<1>9. GraphSound(G(i))
  <2>1. EdgeSet(G(i - 1)) /\ Acyclic(G(i - 1)) /\ \A x \in G(i - 1) : x = Canonical(x)
    BY <1>8 DEF GraphSound
  <2>2. Acyclic(G(i)) /\ EdgeSet(G(i))
    BY <1>6, <1>7, <2>1, OneEdge
  <2> QED BY <1>6, <1>7, <2>1, <2>2 DEF GraphSound
<1> QED
  BY <1>3, <1>9

\* Where a weakness lies.
Placed(row) == row.primary \in KnownConcepts /\ (row.pending => row.primary = Unclassified)

ConceptInv ==
    /\ GraphSound(edges)
    /\ Seeded \subseteq KnownConcepts
    /\ \A k \in Keys : weaknesses[k] # None => Placed(weaknesses[k])

LEMMA WeaknessAfterPlaced ==
    ASSUME Seeded \subseteq KnownConcepts, NEW row \in WeaknessRow \cup {None},
           row # None => Placed(row), NEW w, WeaknessInput(w),
           w.primary \in KnownConcepts \cup {None}, NEW declared \in BOOLEAN, NEW candidate \in BOOLEAN
    PROVE  Placed(WeaknessAfter(row, w, declared, candidate))
<1> DEFINE after == WeaknessAfter(row, w, declared, candidate)
<1>1. /\ after.primary = IF Classifies(w) \/ row = None
                        THEN IF w.primary = None THEN Unclassified ELSE w.primary
                        ELSE row.primary
      /\ after.pending = IF Classifies(w) THEN FALSE ELSE row = None \/ row.pending
  BY DEF WeaknessAfter
<1> SUFFICES Placed(after)
  OBVIOUS
<1> HIDE DEF after
<1>2. Unclassified \in KnownConcepts
  OBVIOUS
<1>3. CASE Classifies(w)
  <2>1. after.pending = FALSE
    BY <1>1, <1>3
  <2>2. after.primary = IF w.primary = None THEN Unclassified ELSE w.primary
    BY <1>1, <1>3
  <2>3. after.primary \in KnownConcepts
    BY <1>2, <2>2
  <2> QED
    BY <2>1, <2>3 DEF Placed
<1>4. CASE ~Classifies(w) /\ row = None
  <2>1. after.primary = Unclassified
    BY <1>1, <1>4 DEF Classifies
  <2> QED
    BY <1>2, <2>1 DEF Placed
<1>5. CASE ~Classifies(w) /\ row # None
  <2>1. after.primary = row.primary /\ after.pending = row.pending
    BY <1>1, <1>5 DEF WeaknessRow
  <2> QED
    BY <1>5, <2>1 DEF Placed
<1> QED
  BY <1>3, <1>4, <1>5

LEMMA ConceptInit == Init => ConceptInv
<1> SUFFICES ASSUME Init PROVE ConceptInv
  OBVIOUS
<1>1. GraphSound(edges)
  BY DEF Init, GraphSound, EdgeSet, Acyclic
<1>2. Seeded \subseteq KnownConcepts
  BY DEF Init, KnownConcepts
<1> QED
  BY <1>1, <1>2 DEF Init, ConceptInv

LEMMA ConceptStep ==
    ASSUME TypeInv, ConceptInv, [Next]_vars PROVE ConceptInv'
<1>1. CASE UNCHANGED <<weaknesses, concepts, edges>>
  BY <1>1 DEF ConceptInv, Placed, KnownConcepts
<1>2. ASSUME NEW w \in WeaknessEdits, UpsertWeakness(w) PROVE ConceptInv'
  <2> DEFINE row == WeaknessAfter(weaknesses[w.key], w, FALSE, FALSE)
  <2>1. WeaknessInput(w) /\ w.key \in Keys /\ w.primary \in KnownConcepts \cup {None}
    BY <1>2, InputAssumption DEF WeaknessInput, UpsertWeakness
  <2>2. /\ weaknesses[w.key] \in WeaknessRow \cup {None}
        /\ weaknesses[w.key] # None => Placed(weaknesses[w.key])
    BY <2>1 DEF TypeInv, Tables, Rows, ConceptInv
  <2>3. Placed(row)
    BY <2>1, <2>2, WeaknessAfterPlaced DEF ConceptInv
  <2>4. weaknesses' = [weaknesses EXCEPT ![w.key] = row] /\ UNCHANGED <<concepts, edges>>
    BY <1>2 DEF UpsertWeakness, graph
  <2> HIDE DEF row
  <2>5. \A k \in Keys : weaknesses'[k] # None => Placed(weaknesses'[k])
    BY <2>3, <2>4 DEF TypeInv, Tables, Rows, ConceptInv
  <2> QED
    BY <2>4, <2>5 DEF ConceptInv, Placed, KnownConcepts
<1>3. ASSUME NEW x \in Curations, UpsertConcept(x) PROVE ConceptInv'
  <2>1. x.key \in Concepts /\ x.edges \in Seq(Edge)
    BY InputAssumption
  <2>2. /\ InsertEdges(edges, x.edges) # None /\ edges' = InsertEdges(edges, x.edges)
        /\ concepts' = [concepts EXCEPT ![x.key] = IF x.active = FALSE THEN "inactive" ELSE "active"]
        /\ UNCHANGED weaknesses
    BY <1>3 DEF UpsertConcept, targets
  <2>3. GraphSound(edges')
    BY <2>1, <2>2, EdgesInserted DEF ConceptInv
  <2>4. KnownConcepts \subseteq KnownConcepts'
    BY <2>2 DEF KnownConcepts, TypeInv, Graph
  <2> QED
    BY <2>2, <2>3, <2>4 DEF ConceptInv, Placed
<1>4. ASSUME NEW r \in sent, Record(r) PROVE ConceptInv'
  <2>1. /\ r \in Requests /\ now \in Nat /\ Tables /\ ReferencesKnown(r)
    BY <1>4 DEF TypeInv, Wire, Record, Recordable
  <2>2. /\ weaknesses' = [k \in Keys |-> IF k \in AllKeys(r) THEN Touched(r, k) ELSE weaknesses[k]]
        /\ UNCHANGED <<concepts, edges>>
    BY <1>4 DEF Record, graph
  <2>3. ASSUME NEW k \in AllKeys(r) PROVE k \in Keys /\ Placed(Upserted(r, k))
    <3>1. k \in Keys /\ weaknesses[k] \in WeaknessRow \cup {None}
      BY <2>1, <2>3, UpsertedType DEF Tables, Rows
    <3>2. CASE k \in NewKeys(r)
      <4> DEFINE w == CHOOSE w \in r.draft.new : w.key = k
      <4>1. w \in r.draft.new
        BY <3>2 DEF NewKeys
      <4>2. WeaknessInput(w) /\ w.primary \in KnownConcepts \cup {None}
        BY <2>1, <4>1, InputAssumption DEF Requests, ReferencesKnown
      <4>3. Upserted(r, k) = WeaknessAfter(weaknesses[k], w, k \in r.draft.targets, TRUE)
        BY <3>2 DEF Upserted
      <4> HIDE DEF w
      <4>4. (k \in r.draft.targets) \in BOOLEAN
        OBVIOUS
      <4>5. weaknesses[k] # None => Placed(weaknesses[k])
        BY <3>1 DEF ConceptInv
      <4>6. Placed(WeaknessAfter(weaknesses[k], w, k \in r.draft.targets, TRUE))
        BY <3>1, <4>2, <4>4, <4>5, WeaknessAfterPlaced DEF ConceptInv
      <4> QED
        BY <3>1, <4>3, <4>6
    <3>3. CASE k \notin NewKeys(r)
      <4>1. weaknesses[k] # None
        BY <2>1, <2>3, <3>3 DEF ReferencesKnown
      <4> QED
        BY <3>1, <3>3, <4>1 DEF Upserted, ConceptInv
    <3> QED
      BY <3>2, <3>3
  <2>4. ASSUME NEW k \in AllKeys(r) PROVE Placed(Touched(r, k))
    <3>1. Upserted(r, k) \in WeaknessRow
      BY <2>1, <2>4, UpsertedType
    <3>2. /\ Touched(r, k).primary = Upserted(r, k).primary
          /\ Touched(r, k).pending = Upserted(r, k).pending
      BY <3>1 DEF Touched, WeaknessRow
    <3> QED
      BY <2>3, <2>4, <3>2 DEF Placed
  <2>5. ASSUME NEW k \in Keys, weaknesses'[k] # None PROVE Placed(weaknesses'[k])
    <3>1. CASE k \in AllKeys(r)
      BY <2>2, <2>4, <3>1
    <3>2. CASE k \notin AllKeys(r)
      BY <2>2, <2>5, <3>2 DEF ConceptInv
    <3> QED
      BY <3>1, <3>2
  <2> QED
    BY <2>2, <2>5 DEF ConceptInv, Placed, KnownConcepts
<1> QED
  BY <1>1, <1>2, <1>3, <1>4 DEF Next, vars, targets, graph, ReadPreferences, UpdatePreferences,
     Send, SeedPreferences, Replay, Tick

(* Whatever edges and weaknesses are asked for: neither broader nor        *)
(* requires ever has a cycle, although only the edges there at the time    *)
(* are searched and a request inserts several (upsert_concept_tx); every   *)
(* weakness lies under a concept that exists, and one that awaits          *)
(* classification lies under the unclassified one (upsert_weakness_tx).    *)
THEOREM ConceptsStaySound == Spec => []ConceptsSound
<1>1. TypeInv /\ ConceptInv /\ [Next]_vars => (TypeInv /\ ConceptInv)'
  BY TypeStep, ConceptStep
<1>2. TypeInv /\ ConceptInv => ConceptsSound
  BY DEF ConceptInv, ConceptsSound, GraphSound, Placed, KnownConcepts
<1> QED
  BY <1>1, <1>2, TypeInit, ConceptInit, PTL DEF Spec
=============================================================================

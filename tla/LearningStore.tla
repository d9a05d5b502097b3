----------------------------- MODULE LearningStore -----------------------------
(***************************************************************************)
(* The learning store (src/src/db.rs): weaknesses and their schedules,     *)
(* the concepts they lie under, recorded sessions with their reviews, the  *)
(* idempotency ledger and the learner's preferences.                       *)
(*                                                                         *)
(* Every handler holds the one connection for the whole of its             *)
(* transaction, so a handler is one action; an error rolls everything back *)
(* and is a stutter.  What is concurrent is outside: several clients plan  *)
(* with preferences they read earlier, and a request is on the wire from   *)
(* the moment it is sent, arrives at any time later, any number of times,  *)
(* and its answer may be lost.                                             *)
(*                                                                         *)
(* Items, attempts, observations and findings are contents of a session    *)
(* that nothing here tells apart: a request says which weaknesses its      *)
(* items target, which it observes, and which reviews ReviewPolicy found   *)
(* eligible.                                                               *)
(***************************************************************************)
EXTENDS ConceptGraph

CONSTANTS
    Clients,
    Keys,             \* weaknesses
    IdempotencyKeys,
    Drafts,           \* what a client may record, but for key and policy version
    Curations,        \* upsert_concept requests
    WeaknessEdits,    \* upsert_weakness requests
    Unclassified,     \* the concept of a weakness that came without one
    Seeded,           \* the concepts there from the start
    Defaults,         \* the preferences before the first update
    Approved,         \* the patch the deployment seeds
    Patches,          \* what a learner may change: a field is None or its value
    Cutoff, DayLength,    \* hours: when a learning day begins, and how many there are
    MaxNow,           \* bound: the clock stops here
    MaxSent,          \* bound: requests on the wire
    MaxVersion        \* bound: updates of the preferences

Requests == [key : IdempotencyKeys, draft : Drafts, version : Nat \cup {None}]

Statuses == {"candidate", "active", "suspended"}

WeaknessRow == [status : Statuses, primary : Concepts, pending : BOOLEAN,
                first : Int \cup {None}, last : Int \cup {None}]

ScheduleRow == [active : BOOLEAN, last : Nat \cup {None}]

LedgerRow == [session : Nat, request : Requests]

WeaknessInput(w) ==
    /\ w.key \in Keys
    /\ w.active \in BOOLEAN \cup {None}
    /\ w.primary \in Concepts \cup {None}
    /\ w.linked \in BOOLEAN

ASSUME NoneAssumption ==
    /\ None \notin Int /\ None \notin BOOLEAN
    /\ None \notin WeaknessRow /\ None \notin ScheduleRow /\ None \notin LedgerRow
    /\ None \notin {"active", "inactive"}

ASSUME BoundsAssumption ==
    /\ Unclassified \in Seeded /\ Seeded \subseteq Concepts
    /\ Cutoff \in Nat /\ DayLength \in Nat \ {0}
    /\ MaxNow \in Nat /\ MaxSent \in Nat /\ MaxVersion \in Nat

ASSUME InputAssumption ==
    /\ \A w \in WeaknessEdits : WeaknessInput(w)
    /\ \A x \in Curations : x.key \in Concepts /\ x.edges \in Seq(Edge)
    /\ \A d \in Drafts : /\ d.evidence \in BOOLEAN
                         /\ d.at \in Nat \cup {None}
                         /\ \A w \in d.new : WeaknessInput(w)
                         /\ d.targets \subseteq Keys /\ d.observed \subseteq Keys
                         /\ \A v \in d.reviews : v.key \in Keys /\ v.eligible \in BOOLEAN

VARIABLES
    weaknesses,   \* weaknesses, with the primary row of weakness_concepts
    schedules,    \* scheduler_items
    concepts, edges,
    sessions,     \* sessions and production_sessions; the id is the position
    reviews,      \* weakness_reviews
    ledger,       \* recorded_requests
    preferences,  \* practice_preferences
    now,          \* hours
    sent,         \* requests on the wire
    seen,         \* the preferences each client planned with last
    answers       \* what clients were told: request and session

records == <<sessions, reviews, ledger, answers>>
targets == <<weaknesses, schedules>>
graph   == <<concepts, edges>>
vars    == <<records, targets, graph, preferences, now, sent, seen>>

LearningDay(t) == (t - Cutoff) \div DayLength

(* A patch leaves alone the fields it does not name.                       *)
Patched(p, patch) ==
    IF patch = None THEN p
    ELSE [f \in DOMAIN p |-> IF patch[f] = None THEN p[f] ELSE patch[f]]

-----------------------------------------------------------------------------
(* Weaknesses.                                                             *)

StatusAfter(row, w, declared, candidate) ==
    CASE w.active = TRUE -> "active"
      [] w.active = FALSE -> "suspended"
      [] w.active = None /\ row # None -> row.status
      [] OTHER -> IF declared \/ ~candidate THEN "active" ELSE "candidate"

KnownConcepts == {c \in Concepts : concepts[c] # None}

Classifies(w) == w.primary # None \/ w.linked

WeaknessAfter(row, w, declared, candidate) ==
    [status  |-> StatusAfter(row, w, declared, candidate),
     primary |-> IF Classifies(w) \/ row = None
                 THEN IF w.primary = None THEN Unclassified ELSE w.primary
                 ELSE row.primary,
     pending |-> IF Classifies(w) THEN FALSE ELSE row = None \/ row.pending,
     first   |-> IF row = None THEN None ELSE row.first,
     last    |-> IF row = None THEN None ELSE row.last]

NewSchedule == [active |-> TRUE, last |-> None]

(* INSERT OR IGNORE: a row that was switched off stays off.                *)
ScheduleInserted(item) == IF item = None THEN NewSchedule ELSE item

\* Mutant of ScheduleAfter: a suspended weakness stays in the queue.
ScheduleAfterKept(item, status) ==
    IF status = "active" THEN ScheduleInserted(item) ELSE item

ScheduleAfter(item, status) ==
    IF status = "active" THEN ScheduleInserted(item)
    ELSE IF item = None THEN None
    ELSE [item EXCEPT !.active = FALSE]

UpsertWeakness(w) ==
    /\ w.primary \in KnownConcepts \cup {None}
    /\ LET row == WeaknessAfter(weaknesses[w.key], w, FALSE, FALSE)
       IN /\ weaknesses' = [weaknesses EXCEPT ![w.key] = row]
          /\ schedules' = [schedules EXCEPT ![w.key] = ScheduleAfter(@, row.status)]
    /\ UNCHANGED <<records, graph, preferences, now, sent, seen>>

-----------------------------------------------------------------------------
(* Concepts.                                                               *)

ActivePrimary(c) ==
    \E k \in Keys : /\ weaknesses[k] # None
                    /\ weaknesses[k].primary = c
                    /\ weaknesses[k].status \in {"candidate", "active"}

MayDeactivate(c) == ~ActivePrimary(c)

(* A request that does not say whether the concept is active activates it. *)
UpsertConcept(x) ==
    /\ x.active = FALSE /\ concepts[x.key] # None => MayDeactivate(x.key)
    /\ {x.edges[i].to : i \in DOMAIN x.edges} \subseteq KnownConcepts \cup {x.key}
    /\ InsertEdges(edges, x.edges) # None
    /\ concepts' = [concepts EXCEPT ![x.key] = IF x.active = FALSE THEN "inactive" ELSE "active"]
    /\ edges' = InsertEdges(edges, x.edges)
    /\ UNCHANGED <<records, targets, preferences, now, sent, seen>>

-----------------------------------------------------------------------------
(* Preferences.                                                            *)

Stored(version, value) == [version |-> version + 1, value |-> value]

(* get_practice_preferences, or a brief: what the client plans with.       *)
ReadPreferences(c) ==
    /\ seen[c] # preferences
    /\ seen' = [seen EXCEPT ![c] = preferences]
    /\ UNCHANGED <<records, targets, graph, preferences, now, sent>>

UpdatePreferences(c) ==
    /\ preferences.version < MaxVersion
    /\ seen[c] # None /\ seen[c].version = preferences.version
    /\ \E patch \in Patches :
          preferences' = Stored(preferences.version, Patched(preferences.value, patch))
    /\ UNCHANGED <<records, targets, graph, now, sent, seen>>

SeedPreferences ==
    /\ preferences.version = 0 /\ MaxVersion > 0
    /\ preferences' = Stored(0, Patched(preferences.value, Approved))
    /\ UNCHANGED <<records, targets, graph, now, sent, seen>>

-----------------------------------------------------------------------------
(* record_practice_session.                                                *)

(* A client sends what it drafted, with the version it planned with when   *)
(* it supplies evidence.                                                   *)
Send(c) ==
    /\ Cardinality(sent) < MaxSent
    /\ \E key \in IdempotencyKeys, d \in Drafts :
          /\ d.evidence => seen[c] # None
          /\ sent' = sent \cup
                {[key |-> key, draft |-> d,
                  version |-> IF d.evidence THEN seen[c].version ELSE None]}
    /\ UNCHANGED <<records, targets, graph, preferences, now, seen>>

Override(r) == IF r.draft.evidence THEN r.draft.override ELSE None

Policy(r) == Patched(preferences.value, Override(r))

\* Mutant of PolicyFits: the version the session was planned with is not compared.
PolicyFitsAny(r) == TRUE

PolicyFits(r) == r.draft.evidence => r.version = preferences.version

ReviewedAt(r) == IF r.draft.at = None THEN now ELSE r.draft.at

(* A session without reviewed_at is of today; with it, of its learning day. *)
DateFits(r) == r.draft.date \in {None, LearningDay(ReviewedAt(r))}

NewKeys(r) == {w.key : w \in r.draft.new}

Reviewed(r) == {v.key : v \in r.draft.reviews}

AllKeys(r) == NewKeys(r) \cup r.draft.targets \cup r.draft.observed \cup Reviewed(r)

ReferencesKnown(r) ==
    /\ \A k \in AllKeys(r) \ NewKeys(r) : weaknesses[k] # None
    /\ {w.primary : w \in r.draft.new} \subseteq KnownConcepts \cup {None}
    /\ \A w, x \in r.draft.new : w.key = x.key => w = x

(* The row of a weakness after upsert_weakness_tx, the promotion of a      *)
(* candidate that an item targets, and the update of first and last seen.  *)
Upserted(r, k) ==
    IF k \in NewKeys(r)
    THEN WeaknessAfter(weaknesses[k], CHOOSE w \in r.draft.new : w.key = k,
                       k \in r.draft.targets, TRUE)
    ELSE weaknesses[k]

Promotes(r, k) == k \in r.draft.targets /\ Upserted(r, k).status = "candidate"

Earlier(a, b) == IF a = None \/ b < a THEN b ELSE a

Later(a, b) == IF a = None \/ b > a THEN b ELSE a

Day(r) == LearningDay(ReviewedAt(r))

Touched(r, k) ==
    [Upserted(r, k) EXCEPT !.status = IF Promotes(r, k) THEN "active" ELSE @,
                           !.first = Earlier(@, Day(r)),
                           !.last = Later(@, Day(r))]

Scheduled(r, k) ==
    LET upserted == IF k \in NewKeys(r)
                    THEN ScheduleAfter(schedules[k], Upserted(r, k).status)
                    ELSE schedules[k]
    IN IF Promotes(r, k) THEN ScheduleInserted(upserted) ELSE upserted

Applied(r) == {v.key : v \in {x \in r.draft.reviews : x.eligible}}

\* Mutant of NotBefore: the instants are not compared.
NotBeforeAny(item, t) == TRUE

NotBefore(item, t) == item.last # None => LearningDay(item.last) <= LearningDay(t)

(* One review per weakness, of a target; an eligible one needs a schedule  *)
(* row and must not be earlier than the last.                              *)
ReviewsFit(r) ==
    /\ \A v, x \in r.draft.reviews : v.key = x.key => v = x
    /\ Reviewed(r) \subseteq r.draft.targets
    /\ \A k \in Applied(r) : /\ Scheduled(r, k) # None
                             /\ NotBefore(Scheduled(r, k), ReviewedAt(r))

Recordable(r) == PolicyFits(r) /\ DateFits(r) /\ ReferencesKnown(r) /\ ReviewsFit(r)

SessionRow(r) ==
    [request |-> r, day |-> Day(r), policy |-> Policy(r), version |-> preferences.version]

\* Mutant of WrittenReviews: an ineligible review is written as well.
WrittenReviewsAll(r, sid) ==
    {[session |-> sid, key |-> k, day |-> Day(r)] : k \in Reviewed(r)}

WrittenReviews(r, sid) ==
    {[session |-> sid, key |-> k, day |-> Day(r)] : k \in Applied(r)}

(* The answer to a request, unless it is lost.                             *)
Answer(r, sid) == answers' \in {answers, answers \cup {<<r, sid>>}}

Record(r) ==
    /\ ledger[r.key] = None
    /\ Recordable(r)
    /\ weaknesses' = [k \in Keys |-> IF k \in AllKeys(r) THEN Touched(r, k) ELSE weaknesses[k]]
    /\ schedules' = [k \in Keys |-> IF k \in Applied(r)
                                    THEN [Scheduled(r, k) EXCEPT !.last = ReviewedAt(r)]
                                    ELSE Scheduled(r, k)]
    /\ sessions' = Append(sessions, SessionRow(r))
    /\ reviews' = reviews \cup WrittenReviews(r, Len(sessions) + 1)
    /\ ledger' = [ledger EXCEPT ![r.key] = [session |-> Len(sessions) + 1, request |-> r]]
    /\ Answer(r, Len(sessions) + 1)
    /\ UNCHANGED <<graph, preferences, now, sent, seen>>

\* Mutant of Replayed: the hash of the request is not compared.
ReplayedAny(r) == ledger[r.key] # None

Replayed(r) == ledger[r.key] # None /\ ledger[r.key].request = r

Replay(r) ==
    /\ Replayed(r)
    /\ Answer(r, ledger[r.key].session)
    /\ UNCHANGED <<targets, graph, sessions, reviews, ledger, preferences, now, sent, seen>>

-----------------------------------------------------------------------------
Tick ==
    /\ now < MaxNow
    /\ now' = now + 1
    /\ UNCHANGED <<records, targets, graph, preferences, sent, seen>>

Init ==
    /\ weaknesses = [k \in Keys |-> None] /\ schedules = [k \in Keys |-> None]
    /\ concepts = [c \in Concepts |-> IF c \in Seeded THEN "active" ELSE None]
    /\ edges = {}
    /\ sessions = <<>> /\ reviews = {} /\ ledger = [k \in IdempotencyKeys |-> None]
    /\ preferences = [version |-> 0, value |-> Defaults]
    /\ now = 0
    /\ sent = {} /\ seen = [c \in Clients |-> None] /\ answers = {}

Next ==
    \/ \E w \in WeaknessEdits : UpsertWeakness(w)
    \/ \E x \in Curations : UpsertConcept(x)
    \/ \E c \in Clients : ReadPreferences(c) \/ UpdatePreferences(c) \/ Send(c)
    \/ SeedPreferences
    \/ \E r \in sent : Record(r) \/ Replay(r)
    \/ Tick

Spec == Init /\ [][Next]_vars

-----------------------------------------------------------------------------
(* Properties.                                                             *)

(* The tables keep their columns' types, a seen weakness has both ends of  *)
(* its span, and nobody holds preferences of a later version than stored.  *)
TypeOK ==
    /\ weaknesses \in [Keys -> WeaknessRow \cup {None}]
    /\ \A k \in Keys : weaknesses[k] # None =>
          (weaknesses[k].first = None <=> weaknesses[k].last = None)
    /\ schedules \in [Keys -> ScheduleRow \cup {None}]
    /\ concepts \in [Concepts -> {"active", "inactive", None}]
    /\ ledger \in [IdempotencyKeys -> LedgerRow \cup {None}]
    /\ sent \subseteq Requests
    /\ now \in 0..MaxNow
    /\ preferences.version \in 0..MaxVersion
    /\ \A c \in Clients : seen[c] # None => seen[c].version \in 0..preferences.version

(* A session is there whole or not at all (the transaction of              *)
(* record_practice): it has its ledger entry, exactly the reviews that     *)
(* were eligible, and its day lies in the span of every weakness it names. *)
RecordedWhole ==
    /\ \A i \in DOMAIN sessions :
          LET r == sessions[i].request
          IN /\ ledger[r.key] = [session |-> i, request |-> r]
             /\ {v.key : v \in {x \in reviews : x.session = i}} = Applied(r)
             /\ \A k \in AllKeys(r) :
                   /\ weaknesses[k] # None
                   /\ weaknesses[k].first <= sessions[i].day
                   /\ weaknesses[k].last >= sessions[i].day
    /\ \A v \in reviews : v.session \in DOMAIN sessions

(* Whoever was told that a request is session n finds under n what it      *)
(* asked for, and the key never names another session, however often the   *)
(* request arrives and whoever else uses its key.                          *)
AnswersAgree ==
    \A a \in answers : /\ a[2] \in DOMAIN sessions
                       /\ sessions[a[2]].request = a[1]
                       /\ ledger[a[1].key].session = a[2]

(* The reviews of a weakness never go back in time as they are recorded,   *)
(* and its schedule stands at the last of them: FSRS is never given a      *)
(* negative interval, although sessions arrive in any order.               *)
ReviewsInOrder ==
    \A v \in reviews :
        /\ \A x \in reviews : v.key = x.key /\ v.session < x.session => v.day <= x.day
        /\ LearningDay(schedules[v.key].last) >= v.day
        /\ \E x \in reviews : x.key = v.key /\ x.day = LearningDay(schedules[v.key].last)

(* A session is judged by the preferences its client planned it with, its  *)
(* own override applied: a change in between refuses the record            *)
(* (preference_version_conflict).                                          *)
PlannedPolicyApplies ==
    \A i \in DOMAIN sessions, c \in Clients :
        LET r == sessions[i].request
        IN r.draft.evidence /\ seen[c] # None /\ seen[c].version = r.version
           => sessions[i].policy = Patched(seen[c].value, Override(r))

(* Only active weaknesses are in the review queue, and every active one    *)
(* has a schedule row that its reviews can go to.                          *)
SchedulesFollowStatus ==
    \A k \in Keys :
        /\ weaknesses[k] # None /\ weaknesses[k].status = "active" => schedules[k] # None
        /\ schedules[k] # None /\ schedules[k].active
              => weaknesses[k] # None /\ weaknesses[k].status = "active"

(* Whatever edges were asked for, in whatever requests: neither broader    *)
(* nor requires has a cycle, a symmetric edge is stored in one direction,  *)
(* and what awaits classification lies under the unclassified concept.     *)
ConceptsSound ==
    /\ Acyclic(edges)
    /\ \A e \in edges : e = Canonical(e)
    /\ \A k \in Keys : weaknesses[k] # None =>
          /\ concepts[weaknesses[k].primary] # None
          /\ weaknesses[k].pending => weaknesses[k].primary = Unclassified
=============================================================================

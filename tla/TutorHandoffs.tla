----------------------------- MODULE TutorHandoffs -----------------------------
(***************************************************************************)
(* Tutor handoffs (src/src/workflow.rs).  A learner freezes the items of a *)
(* session in a handoff; a tutor attaches one feedback to it; the learner  *)
(* answers the repairs the feedback asks for.  Tutor and learner repeat a  *)
(* request under its idempotency key when an answer was lost, at any time. *)
(*                                                                         *)
(* One process serves them and holds its connection for the whole of a     *)
(* handler.  An audit may commit between the handler's reads and its one   *)
(* INSERT, but neither sees the other's table, so the handler stands       *)
(* before the audit and is one action.                                     *)
(*                                                                         *)
(* A handoff is known by its workspace.  Texts are left out: what a        *)
(* request says is its identity.                                           *)
(***************************************************************************)
EXTENDS AuditBatches

CONSTANTS
    Workspaces,
    SessionOf,        \* of the items of the handed off sessions
    Feedbacks,        \* feedback requests: handoff, key, items cited, repairs asked for
    Repairs,          \* repair requests: handoff, key, number
    MaxRepairs        \* 64 in the code

ASSUME RequestAssumption == \A f \in Feedbacks : f.repairs \in Nat

VARIABLES
    handoffs,     \* tutor_handoffs: session and snapshot by workspace
    feedbacks,    \* tutor_feedback: the stored requests
    repairs,      \* tutor_repairs: the stored requests in order
    told          \* the last answer a tutor was given

handoffVars == <<handoffs, feedbacks, repairs, told>>

Sessions == {SessionOf[i] : i \in DOMAIN SessionOf}

(* The attempts of a session's items that no audit has retracted.          *)
Snapshot(session) ==
    {i \in DOMAIN SessionOf : /\ SessionOf[i] = session
                              /\ i \in DOMAIN rows /\ rows[i].status = "active"}

SourceCurrent(h) == Snapshot(handoffs[h].session) = handoffs[h].snapshot

FeedbackOf(h) == {f \in feedbacks : f.handoff = h}

RepairsOf(h) == {i \in DOMAIN repairs : repairs[i].handoff = h}

RepairCount(h) == Max({0} \cup {f.repairs : f \in FeedbackOf(h)})

InitHandoffs == handoffs = <<>> /\ feedbacks = {} /\ repairs = <<>> /\ told = None

Serving(s) == s \in Servers /\ At(s, "open")

(* A workspace stays with the session it was first created for.            *)
CreateHandoff(s, w, session) ==
    /\ Serving(s)
    /\ w \notin DOMAIN handoffs /\ Snapshot(session) # {}
    /\ handoffs' = [h \in DOMAIN handoffs \cup {w} |->
            IF h = w THEN [session |-> session, snapshot |-> Snapshot(session)] ELSE handoffs[h]]
    /\ UNCHANGED <<feedbacks, repairs, told>>

FeedbackFits(f) ==
    /\ f.handoff \in DOMAIN handoffs
    /\ SourceCurrent(f.handoff)
    /\ FeedbackOf(f.handoff) = {}
    /\ f.cites \subseteq handoffs[f.handoff].snapshot

\* Mutant of FeedbackAnswer: the source is checked before the key is looked up.
FeedbackAnswerLate(f) ==
    LET prior == {g \in feedbacks : g.key = f.key}
    IN CASE f.handoff \notin DOMAIN handoffs \/ ~SourceCurrent(f.handoff) -> "refused"
         [] f.handoff \in DOMAIN handoffs /\ SourceCurrent(f.handoff) /\ prior # {} ->
                IF prior = {f} THEN "replayed" ELSE "refused"
         [] OTHER -> IF FeedbackFits(f) THEN "created" ELSE "refused"
FeedbackAnswer(f) ==
    LET prior == {g \in feedbacks : g.key = f.key}
    IN IF prior # {} THEN IF prior = {f} THEN "replayed" ELSE "refused"
                     ELSE IF FeedbackFits(f) THEN "created" ELSE "refused"

RecordFeedback(s, f) ==
    /\ Serving(s)
    /\ told' = [answer |-> FeedbackAnswer(f), request |-> f]
    /\ feedbacks' = IF FeedbackAnswer(f) = "created" THEN feedbacks \cup {f} ELSE feedbacks
    /\ UNCHANGED <<handoffs, repairs>>

(* Unlike a feedback's, a repair's key is looked up last: one that is      *)
(* stored is refused once the source has changed.                          *)
RepairFits(r) ==
    /\ r.handoff \in DOMAIN handoffs
    /\ r.number \in 1 .. RepairCount(r.handoff)
    /\ SourceCurrent(r.handoff)

RepairAnswer(r) ==
    LET prior == {i \in DOMAIN repairs : repairs[i].key = r.key}
    IN CASE ~RepairFits(r) -> "refused"
         [] RepairFits(r) /\ prior # {} ->
                IF \A i \in prior : repairs[i] = r THEN "replayed" ELSE "refused"
         [] OTHER -> IF Cardinality(RepairsOf(r.handoff)) < MaxRepairs THEN "created" ELSE "refused"

SaveRepair(s, r) ==
    /\ Serving(s)
    /\ RepairAnswer(r) = "created" /\ repairs' = Append(repairs, r)
    /\ UNCHANGED <<handoffs, feedbacks, told>>

(* What the planner offers: handoffs with a repair not yet tried.          *)
Tried(h) == {repairs[i].number : i \in RepairsOf(h)}

Actions == {h \in DOMAIN handoffs : RepairCount(h) > Cardinality(Tried(h)) /\ SourceCurrent(h)}

HandoffRequest(s) ==
    \/ \E w \in Workspaces, session \in Sessions : CreateHandoff(s, w, session)
    \/ \E f \in Feedbacks : RecordFeedback(s, f)
    \/ \E r \in Repairs : SaveRepair(s, r)
=============================================================================

--------------------------- MODULE StoreMaintenance ---------------------------
(***************************************************************************)
(* The learning database over its lifetime: found in whatever state an     *)
(* earlier release left it, migrated by whoever opens it first, amended by *)
(* audit tools while the server goes on handing sessions to tutors.        *)
(***************************************************************************)
EXTENDS TutorHandoffs

CONSTANTS
    Found,            \* [store, rows]: the databases a process may find
    Supported         \* of them, those a release has left or the migrations can take

ASSUME BoundsAssumption ==
    /\ MaxCrashes \in Nat /\ MaxSessions \in Nat /\ MaxCommands \in Nat /\ MaxReverts \in Nat
    /\ MaxRepairs \in Nat

(* What the migrations establish of a store: one schedule for each         *)
(* weakness after 6, a key for each session after 9, a ledger of sessions  *)
(* that exist.                                                             *)
Established(s) ==
    /\ 4 \in s.registry => PrimaryLinks(s)
    /\ 6 \in s.registry => DOMAIN s.schedules = DOMAIN s.weaknesses
    /\ 9 \in s.registry => \A i \in DOMAIN s.sessions : s.sessions[i].key = "canonical"
    /\ s.ledger \subseteq DOMAIN s.sessions

(* A registry, where there is one, is that of a release; a new file holds  *)
(* nothing, and the catalogs no sessions.                                  *)
Sessionless == {"none", "early catalog", "catalog"}

ASSUME FoundAssumption ==
    /\ Supported \subseteq Found
    /\ \A f \in Found :
        /\ StoreType(f.store)
        /\ f.store.registry # {} => /\ f.store.meta \in Versions
                                    /\ f.store.registry = 3 .. f.store.meta
        /\ Established(f.store)
        /\ f.store.tables = "none" => f.store.weaknesses = <<>>
        /\ f.store.tables \in Sessionless => f.store.sessions = <<>> /\ f.store.ledger = {}
        /\ f.rows \in Seq(Range(f.rows))
        /\ \A i \in DOMAIN f.rows : f.rows[i].revision = FirstRevision

vars == <<store, log, at, crashes, commands, rows, amendments, runs,
          handoffs, feedbacks, repairs, told>>

evidence == <<rows, amendments, runs>>

Init ==
    /\ \E f \in Found :
        /\ store = f.store /\ rows = f.rows
        /\ log = IF f.store.registry = {} THEN <<>> ELSE UpTo(f.store.meta)
    /\ at = [p \in Procs |-> Down]
    /\ crashes = 0 /\ commands = 0
    /\ InitAudit /\ InitHandoffs

Opens(p) == OpenStep(p) /\ UNCHANGED evidence /\ UNCHANGED handoffVars

Records(s) == RecordSession(s) /\ UNCHANGED evidence /\ UNCHANGED handoffVars

Dies(p) == Crash(p) /\ UNCHANGED evidence /\ UNCHANGED handoffVars

Audits(t) == AuditCommand(t) /\ UNCHANGED handoffVars

Serves(s) == HandoffRequest(s) /\ UNCHANGED <<store, log, at, crashes, commands>> /\ UNCHANGED evidence

Next ==
    \/ \E p \in Procs : Opens(p) \/ Dies(p)
    \/ \E s \in Servers : Records(s) \/ Serves(s)
    \/ \E t \in Tools : Audits(t)

(* A server's container is restarted whenever it ends, and a process that  *)
(* runs takes its next step.  Nobody has to run a tool or finish one.      *)
Spec == Init /\ [][Next]_vars /\ \A s \in Servers : WF_vars(Opens(s))

(***************************************************************************)
(* Properties.                                                             *)
(***************************************************************************)

(* Whoever migrates, in whatever interleaving and wherever a process dies, *)
(* each migration's changes are committed once and in the order of the     *)
(* versions, the registry and the recorded schema version say exactly      *)
(* which, and what a migration establishes still holds of the store, which *)
(* open servers write to meanwhile.                                        *)
MigrationsInOrder ==
    store.registry # {} =>
        /\ \A i \in DOMAIN log : log[i] = i + 3
        /\ store.registry = {3} \cup Range(log) /\ store.meta = Max(store.registry)
        /\ Established(store)

(* A supported database is open in the end and stays open, however the     *)
(* starts of several processes collide and wherever they die: what one     *)
(* process leaves behind never blocks the next.  The early catalogs are    *)
(* not supported, whatever the comment on initialize_legacy_catalog says.  *)
StoreReachesLatest ==
    (\E f \in Supported : f.store = store) => <>[](\A s \in Servers : At(s, "open"))

(* The amendments of an entity are the history of its row: each was made   *)
(* to the row as the one before it left it, the row is what the last one   *)
(* made of it, and its revision counts them.  Batches that were validated  *)
(* side by side do not overwrite each other.  A run counts its amendments, *)
(* whichever files were applied under its id, and is never there with a    *)
(* part of the batch it began with.                                        *)
Amending(history, e) == {i \in DOMAIN history : history[i].entity = e /\ ~Recovers(history[i])}

ChainedRow(current, history, e) ==
    LET made == Amending(history, e)
        Became(i) == Amended(history[i].hash, history[i])
    IN /\ current[e].revision = 1 + Cardinality(made)
       /\ \A i \in made :
            /\ history[i].hash.revision = Cardinality({j \in made : j <= i})
            /\ \A j \in made : (i < j /\ \A k \in made : k <= i \/ j <= k)
                                    => history[j].hash = Became(i)
            /\ (\A j \in made : j <= i) => current[e] = Became(i)

Chained(current, history) == \A e \in DOMAIN current : ChainedRow(current, history, e)

AmendmentsChain ==
    /\ Chained(rows, amendments)
    /\ \A run \in DOMAIN runs :
        /\ runs[run].applied = Cardinality(Made(amendments, run))
        /\ runs[run].proposed <= runs[run].applied

(* A tutor can trust an answer whatever audits have done in between: a     *)
(* feedback reported as created or replayed is the one stored, one that    *)
(* was refused is not, however often it was sent; a handoff has one        *)
(* feedback, which cites only what was frozen; and every repair stored     *)
(* answers that feedback.  A handoff the planner offers takes another      *)
(* repair until the limit is reached.                                      *)
HandoffAnswersTrue ==
    /\ told # None => (told.request \in feedbacks) = (told.answer # "refused")
    /\ \A f, g \in feedbacks : f.handoff = g.handoff \/ f.key = g.key => f = g
    /\ \A f \in feedbacks : f.cites \subseteq handoffs[f.handoff].snapshot
    /\ \A i, j \in DOMAIN repairs :
        /\ repairs[i].number \in 1 .. RepairCount(repairs[i].handoff)
        /\ repairs[i].key = repairs[j].key => i = j
    /\ \A h \in Workspaces : Cardinality(RepairsOf(h)) <= MaxRepairs
    /\ \A h \in Actions : \E n \in 1 .. RepairCount(h) \ Tried(h) :
        Cardinality(RepairsOf(h)) < MaxRepairs => RepairFits([handoff |-> h, key |-> None, number |-> n])
=============================================================================

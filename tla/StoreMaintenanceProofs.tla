----------------------- MODULE StoreMaintenanceProofs -----------------------
(***************************************************************************)
(* The migrations are committed once and in order, what a tutor is told of *)
(* a handoff is what is stored, and the amendments of a row are its        *)
(* history: for every number of servers, tools, crashes, sessions, batches *)
(* and requests, every taxonomy, and every database found that             *)
(* FoundAssumption allows.                                                 *)
(***************************************************************************)
EXTENDS StoreMaintenance, FoldTheorems, SequenceTheorems, FiniteSetTheorems, TLAPS

LEMMA MaxRange == ASSUME NEW a \in Int, NEW b \in Int, a <= b PROVE Max(a .. b) = b
<1>1. b \in a .. b /\ \A y \in a .. b : b >= y OBVIOUS
<1>2. \A x \in a .. b : (\A y \in a .. b : x >= y) => x = b OBVIOUS
<1> QED BY <1>1, <1>2 DEF Max

LEMMA MinRange == ASSUME NEW a \in Int, NEW b \in Int, a <= b PROVE Min(a .. b) = a
<1>1. a \in a .. b /\ \A y \in a .. b : a <= y OBVIOUS
<1>2. \A x \in a .. b : (\A y \in a .. b : x <= y) => x = a OBVIOUS
<1> QED BY <1>1, <1>2 DEF Min

LEMMA MaxSingle == ASSUME NEW v \in Int PROVE Max({v}) = v
<1>1. \A x \in {v} : x = v /\ x >= v OBVIOUS
<1> QED BY <1>1 DEF Max

LEMMA UpToNext == ASSUME NEW v \in 4 .. Latest PROVE UpTo(v - 1) \o <<v>> = UpTo(v)
BY DEF UpTo, Latest

(***************************************************************************)
(* What the transactions make of a store.                                  *)
(***************************************************************************)
LEMMA SeededFields ==
    ASSUME NEW s, DOMAIN s = Fields
    PROVE  /\ DOMAIN Seeded(s) = Fields
           /\ DOMAIN Seeded(s).weaknesses = DOMAIN s.weaknesses
           /\ Seeded(s).registry = s.registry
           /\ Seeded(s).meta = s.meta
           /\ Seeded(s).tables = s.tables
           /\ Seeded(s).schedules = s.schedules
           /\ Seeded(s).sessions = s.sessions
           /\ Seeded(s).ledger = s.ledger
BY DEF Seeded, Fields

LEMMA ScheduledFields ==
    ASSUME NEW s, DOMAIN s = Fields
    PROVE  /\ DOMAIN Scheduled(s) = Fields
           /\ DOMAIN Scheduled(s).schedules = DOMAIN s.weaknesses
           /\ Scheduled(s).registry = s.registry
           /\ Scheduled(s).meta = s.meta
           /\ Scheduled(s).tables = s.tables
           /\ Scheduled(s).weaknesses = s.weaknesses
           /\ Scheduled(s).primary = s.primary
           /\ Scheduled(s).sessions = s.sessions
           /\ Scheduled(s).ledger = s.ledger
BY DEF Scheduled, Fields

LEMMA RecordedFields ==
    ASSUME NEW s, NEW vs, DOMAIN s = Fields
    PROVE  /\ DOMAIN Recorded(s, vs) = Fields
           /\ Recorded(s, vs).registry = s.registry \cup vs
           /\ Recorded(s, vs).meta = Max(vs)
           /\ Recorded(s, vs).tables = s.tables
           /\ Recorded(s, vs).weaknesses = s.weaknesses
           /\ Recorded(s, vs).primary = s.primary
           /\ Recorded(s, vs).schedules = s.schedules
           /\ Recorded(s, vs).sessions = s.sessions
           /\ Recorded(s, vs).ledger = s.ledger
BY DEF Recorded, Fields

LEMMA SameLength ==
    ASSUME NEW S, NEW q \in Seq(S), NEW f \in [DOMAIN q -> S]
    PROVE  f \in Seq(S)
<1>1. DOMAIN q = 1 .. Len(q) /\ Len(q) \in Nat OBVIOUS
<1> QED BY <1>1

LEMMA SessionAmended ==
    ASSUME NEW r \in Session
    PROVE  /\ [r EXCEPT !.stamp = "canonical"] \in Session
           /\ [r EXCEPT !.key = "canonical"] \in Session
           /\ [r EXCEPT !.key = "canonical", !.type = None] \in Session
           /\ [r EXCEPT !.key = "canonical", !.type = None].key = "canonical"
BY DEF Session

LEMMA EvidenceFields ==
    ASSUME NEW s, DOMAIN s = Fields, s.sessions \in Seq(Session)
    PROVE  LET n == MigrationEvidence(s)
           IN /\ DOMAIN n = Fields
              /\ n.registry = s.registry /\ n.meta = s.meta /\ n.tables = s.tables
              /\ n.weaknesses = s.weaknesses /\ n.primary = s.primary
              /\ n.schedules = s.schedules /\ n.ledger = s.ledger
              /\ n.sessions \in Seq(Session) /\ DOMAIN n.sessions = DOMAIN s.sessions
<1> DEFINE new == [i \in DOMAIN s.sessions |-> [s.sessions[i] EXCEPT !.stamp = "canonical"]]
<1>1. MigrationEvidence(s) = [s EXCEPT !.sessions = new] BY DEF MigrationEvidence, EachSession
<1>0. \A i \in DOMAIN s.sessions : s.sessions[i] \in Session OBVIOUS
<1>2. new \in [DOMAIN s.sessions -> Session] BY <1>0, SessionAmended, Zenon
<1>3. new \in Seq(Session) /\ DOMAIN new = DOMAIN s.sessions BY <1>2, SameLength
<1> HIDE DEF new
<1> QED BY <1>1, <1>2, <1>3 DEF Fields

LEMMA CleanupFields ==
    ASSUME NEW s, DOMAIN s = Fields, s.sessions \in Seq(Session)
    PROVE  LET n == MigrationCleanup(s)
           IN /\ DOMAIN n = Fields
              /\ n.registry = s.registry /\ n.meta = s.meta /\ n.tables = s.tables
              /\ n.weaknesses = s.weaknesses /\ n.primary = s.primary
              /\ n.schedules = s.schedules /\ n.ledger = s.ledger
              /\ n.sessions \in Seq(Session) /\ DOMAIN n.sessions = DOMAIN s.sessions
<1> DEFINE new == [i \in DOMAIN s.sessions |-> [s.sessions[i] EXCEPT !.key = "canonical"]]
<1>1. MigrationCleanup(s) = [s EXCEPT !.sessions = new] BY DEF MigrationCleanup, EachSession
<1>0. \A i \in DOMAIN s.sessions : s.sessions[i] \in Session OBVIOUS
<1>2. new \in [DOMAIN s.sessions -> Session] BY <1>0, SessionAmended, Zenon
<1>3. new \in Seq(Session) /\ DOMAIN new = DOMAIN s.sessions BY <1>2, SameLength
<1> HIDE DEF new
<1> QED BY <1>1, <1>2, <1>3 DEF Fields

LEMMA FinalizeFields ==
    ASSUME NEW s, DOMAIN s = Fields, s.sessions \in Seq(Session)
    PROVE  LET n == CopyAndFinalize9(s)
           IN /\ DOMAIN n = Fields
              /\ n.registry = s.registry /\ n.meta = s.meta /\ n.tables = s.tables
              /\ n.weaknesses = s.weaknesses /\ n.primary = s.primary
              /\ n.schedules = s.schedules /\ n.ledger = {}
              /\ n.sessions \in Seq(Session)
              /\ \A i \in DOMAIN n.sessions : n.sessions[i].key = "canonical"
<1> DEFINE new == [i \in DOMAIN s.sessions |->
                    [s.sessions[i] EXCEPT !.key = "canonical", !.type = None]]
<1>1. CopyAndFinalize9(s) = [[s EXCEPT !.sessions = new] EXCEPT !.ledger = {}]
  BY DEF CopyAndFinalize9, EachSession
<1>0. \A i \in DOMAIN s.sessions : s.sessions[i] \in Session OBVIOUS
<1>2. /\ new \in [DOMAIN s.sessions -> Session]
      /\ \A i \in DOMAIN new : new[i].key = "canonical"
  BY <1>0, SessionAmended, Zenon
<1>3. new \in Seq(Session) BY <1>2, SameLength
<1> HIDE DEF new
<1> QED BY <1>1, <1>2, <1>3 DEF Fields

(***************************************************************************)
(* The invariant.  A process that is about to migrate knows only that the  *)
(* versions before its own are recorded: whether its own is, is decided by *)
(* the primary key of the registry inside its transaction.  While there is *)
(* no registry nobody has changed the store.                               *)
(***************************************************************************)
Allowed(s, x) ==
    /\ x.step = "open" => s.registry # {}
    /\ x.step = "initialize" /\ s.registry = {} => s.tables = "none"
    /\ x.step = "adopt" /\ s.registry = {} => Exact(s)
    /\ x.step = "apply" =>
        /\ "step" \in DOMAIN x /\ x.version \in 4 .. Latest
        /\ 3 .. (x.version - 1) \subseteq s.registry

Released(s, l) ==
    IF s.registry = {} THEN l = <<>>
    ELSE \E k \in 3 .. Latest : s.registry = 3 .. k /\ s.meta = k /\ l = UpTo(k)

Untouched(s) ==
    s.registry = {} =>
        /\ s.tables = "none" => DOMAIN s.weaknesses = {}
        /\ s.tables \in Sessionless => DOMAIN s.sessions = {} /\ s.ledger = {}

Good(s, l) ==
    /\ DOMAIN s = Fields /\ s.sessions \in Seq(Session)
    /\ Released(s, l) /\ Untouched(s) /\ Established(s)

IInv ==
    /\ Good(store, log)
    /\ DOMAIN at = Procs
    /\ \A p \in Procs : Allowed(store, at[p])

LEMMA Harmless ==
    ASSUME NEW s, NEW x, x.step \notin {"open", "initialize", "adopt", "apply"}
    PROVE  Allowed(s, x)
BY DEF Allowed

\* A store that changed has a registry, with all that was recorded before.
LEMMA StillAllowed ==
    ASSUME NEW s, NEW n, NEW x, Allowed(s, x),
           s.registry \subseteq n.registry, n.registry # {}
    PROVE  Allowed(n, x)
BY DEF Allowed

LEMMA OnlyMoves ==
    ASSUME IInv, NEW p \in Procs, NEW x, Go(p, x), Allowed(store, x),
           store' = store, log' = log
    PROVE  IInv'
<1>1. Good(store, log)' BY DEF IInv, Good, Released, Untouched, Established, PrimaryLinks
<1>2. DOMAIN at' = Procs BY DEF IInv, Go
<1>3. ASSUME NEW q \in Procs PROVE Allowed(store, at'[q])
  <2>1. at'[q] = IF q = p THEN x ELSE at[q] BY DEF IInv, Go
  <2> QED BY <2>1 DEF IInv
<1> QED BY <1>1, <1>2, <1>3 DEF IInv, Allowed, Exact

LEMMA Commits ==
    ASSUME IInv, NEW p \in Procs, NEW x, NEW n, NEW l, Go(p, x), Allowed(n, x),
           store' = n, log' = l, Good(n, l),
           store.registry \subseteq n.registry, n.registry # {}
    PROVE  IInv'
<1>2. DOMAIN at' = Procs BY DEF IInv, Go
<1>3. ASSUME NEW q \in Procs PROVE Allowed(n, at'[q])
  <2>1. at'[q] = IF q = p THEN x ELSE at[q] BY DEF IInv, Go
  <2>2. Allowed(n, at[q]) BY StillAllowed DEF IInv
  <2> QED BY <2>1, <2>2
<1> QED BY <1>2, <1>3 DEF IInv, Good, Released, Untouched, Established, PrimaryLinks, Allowed, Exact

LEMMA RolledBack ==
    ASSUME IInv, NEW p \in Procs, Go(p, Down), store' = store, log' = log
    PROVE  IInv'
<1>1. Allowed(store, Down) BY Harmless DEF Down
<1> QED BY <1>1, OnlyMoves

(***************************************************************************)
(* The reads.                                                              *)
(***************************************************************************)
LEMMA LookedAllowed ==
    ASSUME NEW s, NEW l, Good(s, l)
    PROVE  Allowed(s, Looked(s))
<1>1. CASE s.tables = "none"
  <2>1. Looked(s) = [step |-> "initialize"] BY <1>1 DEF Looked
  <2> QED BY <1>1, <2>1 DEF Allowed
<1>2. CASE s.tables # "none" /\ s.registry = {}
  <2>1. Looked(s) = [step |-> "inspect"] BY <1>2 DEF Looked
  <2> QED BY <2>1, Harmless
<1>3. CASE s.tables # "none" /\ s.registry # {} /\ Pending(s) = {}
  <2>1. Looked(s) = IF Postflight(s, Latest) THEN Open ELSE Down BY <1>3 DEF Looked
  <2> QED BY <2>1, <1>3 DEF Allowed, Open, Down
<1>4. CASE s.tables # "none" /\ s.registry # {} /\ Pending(s) # {}
  <2> DEFINE v == Min(Pending(s))
             counted == IF v = 9 THEN Len(s.sessions) ELSE 0
             apply == [step |-> "apply", version |-> v, counted |-> counted]
  <2>1. Looked(s) = IF v = 9 /\ ~Preflight9(s) THEN Down ELSE apply BY <1>4 DEF Looked
  <2>2. PICK k \in 3 .. Latest : s.registry = 3 .. k BY <1>4 DEF Good, Released
  <2>3. Pending(s) = (k + 1) .. Latest BY <2>2 DEF Pending, Versions
  <2>4. k + 1 <= Latest BY <2>2, <2>3, <1>4 DEF Latest
  <2>5. v = k + 1 BY <2>2, <2>3, <2>4, MinRange DEF Latest
  <2> HIDE DEF v, counted
  <2>6. Allowed(s, apply) BY <2>2, <2>4, <2>5 DEF Allowed, Latest
  <2>7. Allowed(s, Down) BY Harmless DEF Down
  <2> QED BY <2>1, <2>6, <2>7
<1> QED BY <1>1, <1>2, <1>3, <1>4

LEMMA StartStep == ASSUME IInv, NEW p \in Procs, Start(p) \/ Continue(p) PROVE IInv'
<1>1. Allowed(store, Looked(store)) BY LookedAllowed DEF IInv
<1> QED BY <1>1, OnlyMoves DEF Start, Continue

LEMMA InspectStep == ASSUME IInv, NEW p \in Procs, Inspect(p) PROVE IInv'
<1> DEFINE x == CASE Exact(store) -> [step |-> "adopt"]
                  [] ~Exact(store) /\ store.tables # "other" -> [step |-> "catalog"]
                  [] OTHER -> Down
<1>1. Allowed(store, x)
  <2>1. CASE Exact(store) BY <2>1 DEF Allowed
  <2>2. CASE ~Exact(store) /\ store.tables # "other" BY <2>2, Harmless
  <2>3. CASE ~Exact(store) /\ store.tables = "other" BY <2>3, Harmless DEF Down
  <2> QED BY <2>1, <2>2, <2>3
<1>2. Go(p, x) /\ store' = store /\ log' = log BY DEF Inspect
<1> QED BY <1>1, <1>2, OnlyMoves

LEMMA CheckStep == ASSUME IInv, NEW p \in Procs, CheckMigration(p) PROVE IInv'
<1>1. Allowed(store, Loop) /\ Allowed(store, Down) BY Harmless DEF Loop, Down
<1> QED BY <1>1, OnlyMoves DEF CheckMigration

(***************************************************************************)
(* The transactions.                                                       *)
(***************************************************************************)
LEMMA LatestReleased ==
    ASSUME NEW s, s.registry = Versions, s.meta = Latest
    PROVE  Released(s, <<>> \o UpTo(Latest)) /\ s.registry # {}
<1>1. s.registry = 3 .. Latest /\ Latest \in 3 .. Latest BY DEF Versions, Latest
<1>2. <<>> \o UpTo(Latest) = UpTo(Latest) BY DEF UpTo, Latest
<1> QED BY <1>1, <1>2 DEF Released

LEMMA MaxVersions == Max(Versions) = Latest /\ {} \cup Versions = Versions
<1>1. 3 \in Int /\ Latest \in Int /\ 3 <= Latest BY DEF Latest
<1>2. Max(3 .. Latest) = Latest BY <1>1, MaxRange
<1> QED BY <1>2 DEF Versions

LEMMA NothingRecorded ==
    ASSUME NEW s, NEW l, Good(s, l), Unrecorded(s, Versions)
    PROVE  s.registry = {} /\ l = <<>>
<1>1. s.registry = {}
  <2>1. SUFFICES ASSUME s.registry # {} PROVE FALSE OBVIOUS
  <2>2. PICK k \in 3 .. Latest : s.registry = 3 .. k BY <2>1 DEF Good, Released
  <2>3. 3 \in s.registry \cap Versions BY <2>2 DEF Versions, Latest
  <2> QED BY <2>3 DEF Unrecorded
<1> QED BY <1>1 DEF Good, Released

LEMMA InitializeStep == ASSUME IInv, NEW p \in Procs, Initialize(p) PROVE IInv'
<1> DEFINE t == [Scheduled(Seeded(store)) EXCEPT !.tables = "latest"]
           n == Recorded(t, Versions)
<1>1. CASE store' = store /\ log' = log /\ Go(p, Down) BY <1>1, RolledBack
<1>2. CASE Unrecorded(store, Versions) /\ store' = n /\ log' = log \o UpTo(Latest) /\ Go(p, Loop)
  <2>1. store.registry = {} /\ log = <<>> BY <1>2, NothingRecorded DEF IInv
  <2>2. store.tables = "none" BY <2>1 DEF IInv, Allowed, Initialize, At
  <2>3. DOMAIN store.weaknesses = {} /\ DOMAIN store.sessions = {} /\ store.ledger = {}
    BY <2>1, <2>2 DEF IInv, Good, Untouched, Sessionless
  <2>4. DOMAIN store = Fields /\ store.sessions \in Seq(Session) BY DEF IInv, Good
  <2>5. Seeded(store) = store BY <2>3 DEF Seeded, HasTargets
  <2>6. /\ DOMAIN t = Fields /\ t.registry = {} /\ DOMAIN t.weaknesses = {}
        /\ DOMAIN t.schedules = {} /\ t.sessions = store.sessions /\ t.ledger = {}
    BY <2>1, <2>3, <2>4, <2>5, ScheduledFields DEF Fields
  <2> HIDE DEF t
  <2>7. /\ DOMAIN n = Fields /\ n.registry = Versions /\ n.meta = Latest
        /\ DOMAIN n.weaknesses = {} /\ DOMAIN n.schedules = {}
        /\ n.sessions = store.sessions /\ n.ledger = {}
    <3>1. n.registry = t.registry \cup Versions BY <2>6, RecordedFields
    <3>2. n.registry = Versions BY <2>6, <3>1, MaxVersions
    <3>3. n.meta = Latest BY <2>6, RecordedFields, MaxVersions
    <3> QED BY <2>6, <3>2, <3>3, RecordedFields
  <2> HIDE DEF n
  <2>8. Released(n, <<>> \o UpTo(Latest)) /\ n.registry # {} BY <2>7, LatestReleased
  <2>9. Good(n, log \o UpTo(Latest))
    BY <2>1, <2>3, <2>4, <2>7, <2>8 DEF Good, Untouched, Established, PrimaryLinks
  <2>10. Allowed(n, Loop) BY Harmless DEF Loop
  <2> QED BY <1>2, <2>1, <2>8, <2>9, <2>10, Commits
<1> QED BY <1>1, <1>2 DEF Initialize, Transaction

LEMMA AdoptStep == ASSUME IInv, NEW p \in Procs, Adopt(p) PROVE IInv'
<1> DEFINE n == [store EXCEPT !.registry = {3}]
<1>1. CASE store' = store /\ log' = log /\ Go(p, Down) BY <1>1, RolledBack
<1>2. CASE store.registry = {} /\ store' = n /\ log' = log \o <<>> /\ Go(p, Loop)
  <2>1. log = <<>> /\ log \o <<>> = UpTo(3) BY <1>2 DEF IInv, Good, Released, UpTo
  <2>2. Exact(store) BY <1>2 DEF IInv, Allowed, Adopt, At
  <2>3. DOMAIN store = Fields /\ store.sessions \in Seq(Session)
        /\ store.ledger \subseteq DOMAIN store.sessions
    BY DEF IInv, Good, Established
  <2>4. /\ DOMAIN n = Fields /\ n.registry = {3} /\ n.meta = 3
        /\ n.sessions = store.sessions /\ n.ledger = store.ledger
    BY <2>2, <2>3 DEF Exact, Fields
  <2> HIDE DEF n
  <2>5. Released(n, log \o <<>>)
    <3>1. {3} = 3 .. 3 /\ 3 \in 3 .. Latest BY DEF Latest
    <3> QED BY <3>1, <2>1, <2>4 DEF Released
  <2>6. Good(n, log \o <<>>) BY <2>3, <2>4, <2>5 DEF Good, Untouched, Established
  <2>7. Allowed(n, Loop) BY Harmless DEF Loop
  <2> QED BY <1>2, <2>4, <2>6, <2>7, Commits
<1> QED BY <1>1, <1>2 DEF Adopt, Transaction

LEMMA CatalogStep == ASSUME IInv, NEW p \in Procs, InitializeCatalog(p) PROVE IInv'
<1> DEFINE n == Recorded(Scheduled(Seeded(store)), Versions)
<1>1. CASE store' = store /\ log' = log /\ Go(p, Down) BY <1>1, RolledBack
<1>2. CASE /\ HasStatus(store) /\ CanSeed(store) /\ Unrecorded(store, Versions)
           /\ store' = n /\ log' = log \o UpTo(Latest) /\ Go(p, Loop)
  <2>1. store.registry = {} /\ log = <<>> BY <1>2, NothingRecorded DEF IInv
  <2>2. store.tables \in Sessionless BY <1>2, <2>1 DEF HasStatus, Sessionless
  <2>3. DOMAIN store.sessions = {} /\ store.ledger = {} BY <2>1, <2>2 DEF IInv, Good, Untouched
  <2>4. DOMAIN store = Fields /\ store.sessions \in Seq(Session) BY DEF IInv, Good
  <2>5. /\ DOMAIN Seeded(store) = Fields /\ Seeded(store).registry = {}
        /\ Seeded(store).sessions = store.sessions /\ Seeded(store).ledger = {}
    BY <2>1, <2>3, <2>4, SeededFields
  <2>6. PrimaryLinks(Seeded(store)) BY <1>2 DEF CanSeed
  <2>7. /\ DOMAIN n = Fields /\ n.registry = Versions /\ n.meta = Latest
        /\ DOMAIN n.schedules = DOMAIN n.weaknesses
        /\ n.weaknesses = Seeded(store).weaknesses /\ n.primary = Seeded(store).primary
        /\ n.sessions = store.sessions /\ n.ledger = {}
    <3>1. DOMAIN Scheduled(Seeded(store)) = Fields BY <2>5, ScheduledFields
    <3>2. n.registry = Scheduled(Seeded(store)).registry \cup Versions BY <3>1, RecordedFields
    <3>3. n.registry = Versions BY <2>5, <3>2, ScheduledFields, MaxVersions
    <3>4. n.meta = Latest BY <3>1, RecordedFields, MaxVersions
    <3> QED BY <2>5, <3>1, <3>3, <3>4, ScheduledFields, RecordedFields
  <2> HIDE DEF n
  <2>8. Released(n, <<>> \o UpTo(Latest)) /\ n.registry # {} BY <2>7, LatestReleased
  <2>9. PrimaryLinks(n) BY <2>6, <2>7 DEF PrimaryLinks
  <2>10. Good(n, log \o UpTo(Latest))
    BY <2>1, <2>3, <2>4, <2>7, <2>8, <2>9 DEF Good, Untouched, Established
  <2>11. Allowed(n, Loop) BY Harmless DEF Loop
  <2> QED BY <1>2, <2>1, <2>8, <2>10, <2>11, Commits
<1> QED BY <1>1, <1>2 DEF InitializeCatalog, Transaction

\* What a migration leaves, before its version is recorded.
LEMMA MigratedFields ==
    ASSUME NEW s, NEW l, Good(s, l), NEW v \in 4 .. Latest, s.registry = 3 .. (v - 1), Fits(v, s),
           NEW m, m = Migrated(v, s)
    PROVE  /\ DOMAIN m = Fields /\ m.registry = s.registry
           /\ m.sessions \in Seq(Session) /\ m.ledger \subseteq DOMAIN m.sessions
           /\ PrimaryLinks(m)
           /\ v >= 6 => DOMAIN m.schedules = DOMAIN m.weaknesses
           /\ v >= 9 => \A i \in DOMAIN m.sessions : m.sessions[i].key = "canonical"
<1>1. DOMAIN s = Fields /\ s.sessions \in Seq(Session) /\ s.ledger \subseteq DOMAIN s.sessions
  BY DEF Good, Established
<1>2. v > 4 => PrimaryLinks(s) BY DEF Good, Established
<1>3. v > 6 => DOMAIN s.schedules = DOMAIN s.weaknesses BY DEF Good, Established
<1>4. v > 9 => \A i \in DOMAIN s.sessions : s.sessions[i].key = "canonical"
  BY DEF Good, Established
<1>5. CASE v = 4
  <2>1. m = Seeded(s) BY <1>5 DEF Migrated, MigrationTaxonomy
  <2>2. PrimaryLinks(Seeded(s)) BY <1>5 DEF Fits, CanSeed
  <2> QED BY <1>1, <1>5, <2>1, <2>2, SeededFields
<1>6. CASE v = 5
  <2>1. m = MigrationEvidence(s) BY <1>6 DEF Migrated
  <2>2. PrimaryLinks(m) BY <1>1, <1>2, <1>6, <2>1, EvidenceFields DEF PrimaryLinks
  <2> QED BY <1>1, <1>6, <2>1, <2>2, EvidenceFields
<1>7. CASE v = 6
  <2>1. m = Scheduled(s) BY <1>7 DEF Migrated, MigrationScheduler
  <2>2. PrimaryLinks(m) BY <1>1, <1>2, <1>7, <2>1, ScheduledFields DEF PrimaryLinks
  <2> QED BY <1>1, <1>7, <2>1, <2>2, ScheduledFields
<1>8. CASE v = 7
  <2>1. m = MigrationCleanup(s) BY <1>8 DEF Migrated
  <2>2. PrimaryLinks(m) BY <1>1, <1>2, <1>8, <2>1, CleanupFields DEF PrimaryLinks
  <2> QED BY <1>1, <1>3, <1>8, <2>1, <2>2, CleanupFields
<1>9. CASE v = 9
  <2>1. m = CopyAndFinalize9(s) BY <1>9 DEF Migrated
  <2>2. PrimaryLinks(m) BY <1>1, <1>2, <1>9, <2>1, FinalizeFields DEF PrimaryLinks
  <2> QED BY <1>1, <1>3, <1>9, <2>1, <2>2, FinalizeFields
<1>10. CASE v \notin {4, 5, 6, 7, 9}
  <2>1. m = s BY <1>10 DEF Migrated, MigrationActivities
  <2> QED BY <1>1, <1>2, <1>3, <1>4, <1>10, <2>1
<1> QED BY <1>5, <1>6, <1>7, <1>8, <1>9, <1>10

LEMMA ApplyStep == ASSUME IInv, NEW p \in Procs, ApplyMigration(p) PROVE IInv'
<1> DEFINE v == at[p].version
           m == Migrated(v, store)
           n == Recorded(m, {v})
           x == [at[p] EXCEPT !.step = "applied"]
<1>1. CASE store' = store /\ log' = log /\ Go(p, Down) BY <1>1, RolledBack
<1>2. CASE /\ Fits(v, store) /\ Unrecorded(store, {v})
           /\ store' = n /\ log' = log \o <<v>> /\ Go(p, x)
  <2>1. /\ "step" \in DOMAIN at[p] /\ v \in 4 .. Latest
        /\ 3 .. (v - 1) \subseteq store.registry
    BY DEF IInv, Allowed, ApplyMigration, At
  <2> HIDE DEF v
  <2>2. 3 \in store.registry BY <2>1 DEF Latest
  <2>3. PICK k \in 3 .. Latest : store.registry = 3 .. k /\ store.meta = k /\ log = UpTo(k)
    BY <2>2 DEF IInv, Good, Released
  <2>4. v - 1 \in 3 .. k BY <2>1, <2>3 DEF Latest
  <2>5. v \notin 3 .. k BY <1>2, <2>3 DEF Unrecorded
  <2>6. v - 1 = k BY <2>1, <2>3, <2>4, <2>5 DEF Latest
  <2>7. log \o <<v>> = UpTo(v) BY <2>1, <2>3, <2>6, UpToNext
  <2>8. /\ DOMAIN m = Fields /\ m.registry = 3 .. (v - 1)
        /\ m.sessions \in Seq(Session) /\ m.ledger \subseteq DOMAIN m.sessions
        /\ PrimaryLinks(m)
        /\ v >= 6 => DOMAIN m.schedules = DOMAIN m.weaknesses
        /\ v >= 9 => \A i \in DOMAIN m.sessions : m.sessions[i].key = "canonical"
    BY <1>2, <2>1, <2>3, <2>6, MigratedFields DEF IInv
  <2> HIDE DEF m
  <2>9. v \in Int /\ Max({v}) = v BY <2>1, MaxSingle DEF Latest
  <2>10. /\ DOMAIN n = Fields /\ n.registry = 3 .. (v - 1) \cup {v} /\ n.meta = v
         /\ n.weaknesses = m.weaknesses /\ n.primary = m.primary /\ n.schedules = m.schedules
         /\ n.sessions = m.sessions /\ n.ledger = m.ledger
    BY <2>8, <2>9, RecordedFields
  <2>11. 3 .. (v - 1) \cup {v} = 3 .. v BY <2>1 DEF Latest
  <2> HIDE DEF n
  <2>12. n.registry = 3 .. v /\ n.registry # {} BY <2>1, <2>10, <2>11 DEF Latest
  <2>13. Released(n, log \o <<v>>)
    <3>1. v \in 3 .. Latest BY <2>1 DEF Latest
    <3> QED BY <3>1, <2>7, <2>10, <2>12 DEF Released
  <2>14. Established(n)
    <3>1. PrimaryLinks(n) BY <2>8, <2>10 DEF PrimaryLinks
    <3>2. (6 \in n.registry => v >= 6) /\ (9 \in n.registry => v >= 9) BY <2>1, <2>12 DEF Latest
    <3> QED BY <3>1, <3>2, <2>8, <2>10 DEF Established
  <2>15. Good(n, log \o <<v>>) BY <2>8, <2>10, <2>12, <2>13, <2>14 DEF Good, Untouched
  <2>16. Allowed(n, x)
    <3>1. x.step = "applied" BY <2>1
    <3> HIDE DEF x
    <3> QED BY <3>1, Harmless
  <2>17. store.registry \subseteq n.registry BY <2>3, <2>6, <2>10
  <2> QED BY <1>2, <2>12, <2>15, <2>16, <2>17, Commits
<1> QED BY <1>1, <1>2 DEF ApplyMigration, Transaction

LEMMA RecordStep == ASSUME IInv, NEW p \in Procs, RecordSession(p) PROVE IInv'
<1> DEFINE row == [type |-> None, key |-> "canonical", stamp |-> "canonical"]
           new == Append(store.sessions, row)
           n == [store EXCEPT !.sessions = new, !.ledger = @ \cup {Len(store.sessions) + 1}]
<1>1. store' = n /\ log' = log /\ at' = at BY DEF RecordSession
<1>2. DOMAIN store = Fields /\ store.sessions \in Seq(Session)
      /\ store.ledger \subseteq DOMAIN store.sessions
  BY DEF IInv, Good, Established
<1>3. row \in Session /\ row.key = "canonical" BY DEF Session
<1> HIDE DEF row
<1>4. /\ new \in Seq(Session) /\ DOMAIN new = DOMAIN store.sessions \cup {Len(store.sessions) + 1}
      /\ new[Len(store.sessions) + 1] = row
      /\ \A i \in DOMAIN store.sessions : new[i] = store.sessions[i]
  BY <1>2, <1>3
<1> HIDE DEF new
<1>5. /\ DOMAIN n = Fields /\ n.registry = store.registry /\ n.meta = store.meta
      /\ n.tables = store.tables
      /\ n.weaknesses = store.weaknesses /\ n.primary = store.primary
      /\ n.schedules = store.schedules /\ n.sessions = new
      /\ n.ledger = store.ledger \cup {Len(store.sessions) + 1}
  BY <1>2 DEF Fields
<1> HIDE DEF n
<1>6. store.registry # {} BY DEF IInv, Allowed, RecordSession, At
<1>7. Released(n, log) BY <1>5 DEF IInv, Good, Released
<1>8. Established(n)
  <2>1. 4 \in n.registry => PrimaryLinks(n) BY <1>5 DEF IInv, Good, Established, PrimaryLinks
  <2>2. 9 \in n.registry => \A i \in DOMAIN n.sessions : n.sessions[i].key = "canonical"
    BY <1>3, <1>4, <1>5 DEF IInv, Good, Established
  <2>3. 6 \in n.registry => DOMAIN n.schedules = DOMAIN n.weaknesses
    BY <1>5 DEF IInv, Good, Established
  <2>4. n.ledger \subseteq DOMAIN n.sessions BY <1>2, <1>4, <1>5
  <2> QED BY <2>1, <2>2, <2>3, <2>4 DEF Established
<1>9. Good(n, log) BY <1>4, <1>5, <1>6, <1>7, <1>8 DEF Good, Untouched
<1>10. \A q \in Procs : Allowed(n, at[q]) BY <1>5, <1>6, StillAllowed DEF IInv
<1> QED BY <1>1, <1>9, <1>10
      DEF IInv, Good, Released, Untouched, Established, PrimaryLinks, Allowed, Exact

(***************************************************************************)
(* The specification.                                                      *)
(***************************************************************************)
LEMMA InitHolds == Init => IInv
<1> SUFFICES ASSUME Init PROVE IInv OBVIOUS
<1>1. PICK f \in Found :
        store = f.store /\ log = IF f.store.registry = {} THEN <<>> ELSE UpTo(f.store.meta)
  BY DEF Init
<1>2. /\ DOMAIN store = Fields /\ store.sessions \in Seq(Session) /\ Established(store)
      /\ store.registry # {} => store.meta \in Versions /\ store.registry = 3 .. store.meta
      /\ store.tables = "none" => store.weaknesses = <<>>
      /\ store.tables \in Sessionless => store.sessions = <<>> /\ store.ledger = {}
  BY <1>1, FoundAssumption DEF StoreType
<1>3. Released(store, log) BY <1>1, <1>2 DEF Released, Versions
<1>4. Untouched(store)
  <2>1. DOMAIN <<>> = {} OBVIOUS
  <2> QED BY <2>1, <1>2 DEF Untouched
<1>5. at = [p \in Procs |-> Down] BY DEF Init
<1>6. \A p \in Procs : Allowed(store, at[p]) BY <1>5, Harmless DEF Down
<1> QED BY <1>2, <1>3, <1>4, <1>5, <1>6 DEF IInv, Good

LEMMA OpenHolds == ASSUME IInv, NEW p \in Procs, OpenStep(p) PROVE IInv'
BY StartStep, InspectStep, InitializeStep, AdoptStep, CatalogStep, ApplyStep, CheckStep
   DEF OpenStep

LEMMA AuditHolds == ASSUME IInv, NEW t \in Tools, AuditCommand(t) PROVE IInv'
<1>1. t \in Procs BY DEF Procs
<1>2. ASSUME NEW run, NEW proposals, Carry(t, run, proposals), store' = store, log' = log
      PROVE  IInv'
  <2> DEFINE x == [step |-> "validated", run |-> run, proposals |-> proposals]
  <2>1. Go(t, x) BY <1>2 DEF Carry
  <2>2. x.step = "validated" OBVIOUS
  <2> HIDE DEF x
  <2>3. Allowed(store, x) BY <2>2, Harmless
  <2> QED BY <1>1, <1>2, <2>1, <2>3, OnlyMoves
<1>3. CASE \E plan \in Plans : ValidatePlan(t, plan) BY <1>2, <1>3 DEF ValidatePlan
<1>4. CASE \E run \in DOMAIN runs, second \in Seconds : ValidateRevert(t, run, second)
  BY <1>2, <1>4 DEF ValidateRevert
<1>5. CASE EndCommand(t) BY <1>1, <1>5, RolledBack DEF EndCommand
<1>6. CASE ApplyBatch(t) BY <1>1, <1>6, RolledBack DEF ApplyBatch
<1> QED BY <1>3, <1>4, <1>5, <1>6 DEF AuditCommand

\* What does not touch the store, its log or the processes.
LEMMA Elsewhere == ASSUME IInv, UNCHANGED <<store, log, at>> PROVE IInv'
BY DEF IInv, Good, Released, Untouched, Established, PrimaryLinks, Allowed, Exact

LEMMA NextHolds == IInv /\ [Next]_vars => IInv'
<1> SUFFICES ASSUME IInv, [Next]_vars PROVE IInv' OBVIOUS
<1>1. ASSUME NEW p \in Procs, Opens(p) PROVE IInv' BY <1>1, OpenHolds DEF Opens
<1>2. ASSUME NEW p \in Procs, Dies(p) PROVE IInv' BY <1>2, RolledBack DEF Dies, Crash
<1>3. ASSUME NEW s \in Servers, Records(s) PROVE IInv' BY <1>3, RecordStep DEF Records, Procs
<1>4. ASSUME NEW s \in Servers, Serves(s) PROVE IInv' BY <1>4, Elsewhere DEF Serves
<1>5. ASSUME NEW t \in Tools, Audits(t) PROVE IInv' BY <1>5, AuditHolds DEF Audits
<1>6. CASE UNCHANGED vars BY <1>6, Elsewhere DEF vars
<1> QED BY <1>1, <1>2, <1>3, <1>4, <1>5, <1>6 DEF Next

LEMMA InvariantSuffices == IInv => MigrationsInOrder
<1> SUFFICES ASSUME IInv, store.registry # {} PROVE MigrationsInOrder
  BY DEF MigrationsInOrder
<1>1. PICK k \in 3 .. Latest : store.registry = 3 .. k /\ store.meta = k /\ log = UpTo(k)
  BY DEF IInv, Good, Released
<1>2. Max(store.registry) = k BY <1>1, MaxRange DEF Latest
<1>3. \A i \in DOMAIN log : log[i] = i + 3 BY <1>1 DEF UpTo
<1>4. store.registry = {3} \cup Range(log)
  <2>1. Range(log) = {i + 3 : i \in 1 .. k - 3} BY <1>1 DEF Range, UpTo
  <2>2. \A j \in 4 .. k : j - 3 \in 1 .. k - 3 /\ j = (j - 3) + 3 BY <1>1 DEF Latest
  <2>3. \A i \in 1 .. k - 3 : i + 3 \in 4 .. k BY <1>1 DEF Latest
  <2>4. {i + 3 : i \in 1 .. k - 3} = 4 .. k BY <2>2, <2>3, Zenon
  <2>5. 3 .. k = {3} \cup 4 .. k BY <1>1 DEF Latest
  <2> QED BY <1>1, <2>1, <2>4, <2>5
<1> QED BY <1>1, <1>2, <1>3, <1>4 DEF MigrationsInOrder, IInv, Good

(* Whatever starts collide and wherever processes die, migrations commit   *)
(* once, in order and as recorded (apply_migration, record_version), and   *)
(* what they establish stays true while servers record sessions.           *)
THEOREM MigrationsCommitInOrder == Spec => []MigrationsInOrder
<1>1. Init => IInv BY InitHolds
<1>2. IInv /\ [Next]_vars => IInv' BY NextHolds
<1>3. IInv => MigrationsInOrder BY InvariantSuffices
<1> QED BY <1>1, <1>2, <1>3, PTL DEF Spec

(***************************************************************************)
(* Handoffs.                                                               *)
(***************************************************************************)

(* What is stored: feedback for handoffs, one for each and for each key,   *)
(* that cites what was frozen; repairs of it, one for each key.            *)
Answered ==
    /\ told # None => (told.request \in feedbacks) = (told.answer # "refused")
    /\ feedbacks \subseteq Feedbacks
    /\ \A f, g \in feedbacks : f.handoff = g.handoff \/ f.key = g.key => f = g
    /\ \A f \in feedbacks : /\ f.handoff \in DOMAIN handoffs
                            /\ f.cites \subseteq handoffs[f.handoff].snapshot

Repaired ==
    /\ repairs \in Seq(Repairs)
    /\ \A i, j \in DOMAIN repairs :
        /\ repairs[i].number \in 1 .. RepairCount(repairs[i].handoff)
        /\ repairs[i].key = repairs[j].key => i = j
    /\ \A h \in Workspaces : Cardinality(RepairsOf(h)) <= MaxRepairs

HandoffInv == Answered /\ Repaired

\* A handoff asks for the repairs of its feedback, or for none.
LEMMA RepairsAsked ==
    ASSUME Answered, NEW h
    PROVE  /\ RepairCount(h) \in Nat
           /\ FeedbackOf(h) = {} => RepairCount(h) = 0
           /\ \A f \in FeedbackOf(h) : FeedbackOf(h) = {f}
<1>1. CASE FeedbackOf(h) = {}
  <2>1. {0} \cup {f.repairs : f \in FeedbackOf(h)} = {0} BY <1>1
  <2>2. RepairCount(h) = 0 BY <2>1, MaxSingle DEF RepairCount
  <2> QED BY <1>1, <2>2
<1>2. CASE FeedbackOf(h) # {}
  <2>1. PICK f : f \in FeedbackOf(h) BY <1>2
  <2>2. FeedbackOf(h) = {f} BY <2>1 DEF Answered, FeedbackOf
  <2>3. f.repairs \in Nat BY <2>1, RequestAssumption DEF Answered, FeedbackOf
  <2>4. {0} \cup {g.repairs : g \in FeedbackOf(h)} = {0, f.repairs} BY <2>2
  <2>5. Max({0, f.repairs}) = f.repairs
    <3>1. \A x \in {0, f.repairs} : (\A y \in {0, f.repairs} : x >= y) => x = f.repairs BY <2>3
    <3>2. \A y \in {0, f.repairs} : f.repairs >= y BY <2>3
    <3> QED BY <3>1, <3>2 DEF Max
  <2>6. RepairCount(h) = f.repairs BY <2>4, <2>5 DEF RepairCount
  <2> QED BY <2>2, <2>3, <2>6
<1> QED BY <1>1, <1>2

LEMMA RepairedFrame == ASSUME Repaired, UNCHANGED <<feedbacks, repairs>> PROVE Repaired'
<1>1. \A h : RepairsOf(h)' = RepairsOf(h) BY DEF RepairsOf
<1>2. \A h : FeedbackOf(h)' = FeedbackOf(h) BY DEF FeedbackOf
<1>3. \A h : RepairCount(h)' = RepairCount(h) BY <1>2 DEF RepairCount
<1>4. \A i \in DOMAIN repairs : (repairs[i].number \in 1 .. RepairCount(repairs[i].handoff))'
  BY <1>3 DEF Repaired
<1> QED BY <1>1, <1>4 DEF Repaired

LEMMA CreateHandoffStep ==
    ASSUME HandoffInv, NEW s, NEW w, NEW session, CreateHandoff(s, w, session)
    PROVE  HandoffInv'
<1>1. /\ DOMAIN handoffs \subseteq DOMAIN handoffs'
      /\ \A h \in DOMAIN handoffs : handoffs'[h] = handoffs[h]
      /\ UNCHANGED <<feedbacks, repairs, told>>
  BY DEF CreateHandoff
<1>2. Answered' BY <1>1 DEF HandoffInv, Answered
<1>3. Repaired' BY <1>1, RepairedFrame DEF HandoffInv
<1> QED BY <1>2, <1>3 DEF HandoffInv

LEMMA RecordFeedbackStep ==
    ASSUME HandoffInv, NEW s, NEW f \in Feedbacks, RecordFeedback(s, f)
    PROVE  HandoffInv'
<1> USE DEF HandoffInv
<1>0. UNCHANGED <<handoffs, repairs>> /\ told' = [answer |-> FeedbackAnswer(f), request |-> f]
  BY DEF RecordFeedback
<1>1. CASE FeedbackAnswer(f) = "created"
  <2>1. /\ f.handoff \in DOMAIN handoffs /\ FeedbackOf(f.handoff) = {}
        /\ f.cites \subseteq handoffs[f.handoff].snapshot
        /\ \A g \in feedbacks : g.key # f.key /\ g.handoff # f.handoff
    BY <1>1 DEF FeedbackAnswer, FeedbackFits, FeedbackOf
  <2>2. feedbacks' = feedbacks \cup {f} BY <1>1 DEF RecordFeedback
  <2>3. Answered' BY <1>0, <1>1, <2>1, <2>2 DEF Answered
  <2>4. ASSUME NEW h, h # f.handoff PROVE RepairCount(h)' = RepairCount(h)
    <3>1. FeedbackOf(h)' = FeedbackOf(h) BY <2>2, <2>4 DEF FeedbackOf
    <3> QED BY <3>1 DEF RepairCount
  <2>5. ASSUME NEW i \in DOMAIN repairs PROVE repairs[i].handoff # f.handoff
    <3>1. RepairCount(f.handoff) = 0 BY <2>1, RepairsAsked
    <3>2. repairs[i].number \in 1 .. RepairCount(repairs[i].handoff) BY DEF Repaired
    <3> QED BY <3>1, <3>2
  <2>6. \A i \in DOMAIN repairs : RepairCount(repairs[i].handoff)' = RepairCount(repairs[i].handoff)
    BY <1>0, <2>4, <2>5
  <2>7. Repaired' BY <1>0, <2>6 DEF Repaired, RepairsOf
  <2> QED BY <2>3, <2>7
<1>2. CASE FeedbackAnswer(f) # "created"
  <2>1. feedbacks' = feedbacks BY <1>2 DEF RecordFeedback
  <2>2. (f \in feedbacks) = (FeedbackAnswer(f) # "refused")
    <3>1. f \in feedbacks => {g \in feedbacks : g.key = f.key} = {f} BY DEF Answered
    <3>2. f \notin feedbacks => {g \in feedbacks : g.key = f.key} # {f} OBVIOUS
    <3> QED BY <1>2, <3>1, <3>2 DEF FeedbackAnswer
  <2>3. Answered' BY <1>0, <2>1, <2>2 DEF Answered
  <2>4. Repaired' BY <1>0, <2>1, RepairedFrame
  <2> QED BY <2>3, <2>4
<1> QED BY <1>1, <1>2

LEMMA SaveRepairStep ==
    ASSUME HandoffInv, NEW s, NEW r \in Repairs, SaveRepair(s, r)
    PROVE  HandoffInv'
<1> USE DEF HandoffInv
<1>1. /\ UNCHANGED <<handoffs, feedbacks, told>> /\ repairs' = Append(repairs, r)
      /\ RepairFits(r) /\ Cardinality(RepairsOf(r.handoff)) < MaxRepairs
      /\ \A i \in DOMAIN repairs : repairs[i].key # r.key
  <2>1. RepairAnswer(r) = "created" BY DEF SaveRepair
  <2>2. RepairFits(r) /\ {i \in DOMAIN repairs : repairs[i].key = r.key} = {}
        /\ Cardinality(RepairsOf(r.handoff)) < MaxRepairs
    BY <2>1 DEF RepairAnswer
  <2> QED BY <2>2 DEF SaveRepair
<1>2. repairs \in Seq(Repairs) /\ repairs' \in Seq(Repairs) BY <1>1 DEF Repaired
<1> DEFINE n == Len(repairs)
<1>3. /\ DOMAIN repairs' = DOMAIN repairs \cup {n + 1} /\ n + 1 \notin DOMAIN repairs
      /\ repairs'[n + 1] = r /\ \A i \in DOMAIN repairs : repairs'[i] = repairs[i]
  BY <1>1, <1>2
<1> HIDE DEF n
<1>4. Answered' BY <1>1 DEF Answered
<1>5. ASSUME NEW i \in DOMAIN repairs' PROVE (repairs[i].number \in 1 .. RepairCount(repairs[i].handoff))'
  <2>1. repairs'[i].number \in 1 .. RepairCount(repairs'[i].handoff)
    <3>1. CASE i = n + 1 BY <1>1, <1>3, <3>1 DEF RepairFits
    <3>2. CASE i # n + 1 BY <1>3, <1>5, <3>2 DEF Repaired
    <3> QED BY <3>1, <3>2
  <2>2. FeedbackOf(repairs[i].handoff)' = FeedbackOf(repairs'[i].handoff) BY <1>1 DEF FeedbackOf
  <2>3. RepairCount(repairs[i].handoff)' = RepairCount(repairs'[i].handoff) BY <2>2 DEF RepairCount
  <2> QED BY <2>1, <2>3
<1>6. ASSUME NEW i \in DOMAIN repairs', NEW j \in DOMAIN repairs', repairs'[i].key = repairs'[j].key
      PROVE  i = j
  BY <1>1, <1>3, <1>6 DEF Repaired
<1>7. ASSUME NEW h \in Workspaces PROVE Cardinality(RepairsOf(h)') <= MaxRepairs
  <2>1. CASE h = r.handoff
    <3>1. RepairsOf(h)' = RepairsOf(h) \cup {n + 1}
      <4>1. \A i \in DOMAIN repairs : repairs'[i].handoff = repairs[i].handoff BY <1>3
      <4>2. repairs'[n + 1].handoff = h BY <1>3, <2>1
      <4> QED BY <1>3, <4>1, <4>2 DEF RepairsOf
    <3>2. IsFiniteSet(RepairsOf(h))
      <4>1. IsFiniteSet(DOMAIN repairs)
        <5>1. DOMAIN repairs = 1 .. Len(repairs) /\ Len(repairs) \in Int BY <1>2
        <5> QED BY <5>1, FS_Interval
      <4> QED BY <4>1, FS_Subset DEF RepairsOf
    <3>3. n + 1 \notin RepairsOf(h) BY <1>3 DEF RepairsOf
    <3>4. Cardinality(RepairsOf(h)') = Cardinality(RepairsOf(h)) + 1 BY <3>1, <3>2, <3>3, FS_AddElement
    <3>5. Cardinality(RepairsOf(h)) \in Nat BY <3>2, FS_CardinalityType
    <3>6. Cardinality(RepairsOf(h)) < MaxRepairs /\ MaxRepairs \in Nat BY <1>1, <2>1, BoundsAssumption
    <3> QED BY <3>4, <3>5, <3>6
  <2>2. CASE h # r.handoff
    <3>1. RepairsOf(h)' = RepairsOf(h)
      <4>1. \A i \in DOMAIN repairs : repairs'[i].handoff = repairs[i].handoff BY <1>3
      <4>2. repairs'[n + 1].handoff # h BY <1>3, <2>2
      <4> QED BY <1>3, <4>1, <4>2 DEF RepairsOf
    <3> QED BY <3>1 DEF Repaired
  <2> QED BY <2>1, <2>2
<1>8. Repaired' BY <1>2, <1>5, <1>6, <1>7 DEF Repaired
<1> QED BY <1>4, <1>8

LEMMA HandoffsStep == HandoffInv /\ [Next]_vars => HandoffInv'
<1> SUFFICES ASSUME HandoffInv, [Next]_vars PROVE HandoffInv' OBVIOUS
<1>1. CASE UNCHANGED handoffVars
  <2>1. Answered' BY <1>1 DEF handoffVars, HandoffInv, Answered
  <2>2. UNCHANGED <<feedbacks, repairs>> BY <1>1 DEF handoffVars
  <2>3. Repaired' BY <2>2, RepairedFrame DEF HandoffInv
  <2> QED BY <2>1, <2>3 DEF HandoffInv
<1>2. ASSUME NEW s \in Servers, Serves(s) PROVE HandoffInv'
  BY <1>2, CreateHandoffStep, RecordFeedbackStep, SaveRepairStep DEF Serves, HandoffRequest
<1> QED BY <1>1, <1>2 DEF Next, vars, handoffVars, Opens, Dies, Records, Audits

\* A handoff with fewer repairs tried than asked for has one that was not tried.
LEMMA SomethingLeft ==
    ASSUME HandoffInv, NEW h \in Actions
    PROVE  /\ 1 .. RepairCount(h) \ Tried(h) # {}
           /\ \A n \in 1 .. RepairCount(h) : RepairFits([handoff |-> h, key |-> None, number |-> n])
<1> DEFINE N == RepairCount(h)
<1>1. N \in Nat BY RepairsAsked DEF HandoffInv
<1>2. Tried(h) \subseteq 1 .. N
  BY DEF Tried, RepairsOf, HandoffInv, Repaired
<1>3. N > Cardinality(Tried(h)) /\ h \in DOMAIN handoffs /\ SourceCurrent(h)
  BY DEF Actions
<1>4. \A n \in 1 .. N : RepairFits([handoff |-> h, key |-> None, number |-> n])
  BY <1>3 DEF RepairFits
<1> HIDE DEF N
<1>5. Cardinality(1 .. N) = N
  BY <1>1, FS_Interval
<1>6. Tried(h) # 1 .. N
  BY <1>1, <1>3, <1>5
<1> QED BY <1>2, <1>4, <1>6 DEF N

(* Whatever audits and repeated requests do in between, an answer given    *)
(* about a feedback stays true, a handoff keeps its one feedback and       *)
(* repairs answer it (record_feedback, save_repair, actions).              *)
THEOREM HandoffsAnswerTrue == Spec => []HandoffAnswersTrue
<1>1. Init => HandoffInv
  <2> SUFFICES ASSUME Init PROVE HandoffInv OBVIOUS
  <2>1. handoffs = <<>> /\ feedbacks = {} /\ repairs = <<>> /\ told = None BY DEF Init, InitHandoffs
  <2>2. \A h : RepairsOf(h) = {} BY <2>1 DEF RepairsOf
  <2>3. Cardinality({}) = 0 /\ 0 <= MaxRepairs BY FS_EmptySet, BoundsAssumption
  <2>4. Answered BY <2>1 DEF Answered
  <2>5. repairs \in Seq(Repairs) /\ DOMAIN repairs = {} BY <2>1
  <2>6. Repaired BY <2>2, <2>3, <2>5 DEF Repaired
  <2> QED BY <2>4, <2>6 DEF HandoffInv
<1>2. HandoffInv /\ [Next]_vars => HandoffInv' BY HandoffsStep
<1>3. HandoffInv => HandoffAnswersTrue
  <2> SUFFICES ASSUME HandoffInv PROVE HandoffAnswersTrue OBVIOUS
  <2>1. \A h \in Actions : \E n \in 1 .. RepairCount(h) \ Tried(h) :
            Cardinality(RepairsOf(h)) < MaxRepairs => RepairFits([handoff |-> h, key |-> None, number |-> n])
    BY SomethingLeft
  <2> QED BY <2>1 DEF HandoffAnswersTrue, HandoffInv, Answered, Repaired
<1> QED BY <1>1, <1>2, <1>3, PTL DEF Spec

(***************************************************************************)
(* Amendments.                                                             *)
(***************************************************************************)
IsSeq(q) == q \in Seq(Range(q))

LEMMA SeqFacts ==
    ASSUME NEW q, IsSeq(q)
    PROVE  Len(q) \in Nat /\ DOMAIN q = 1 .. Len(q)
BY DEF IsSeq

LEMMA Appended ==
    ASSUME NEW q, IsSeq(q), NEW e
    PROVE  /\ IsSeq(Append(q, e))
           /\ Len(Append(q, e)) = Len(q) + 1
           /\ DOMAIN Append(q, e) = DOMAIN q \cup {Len(q) + 1}
           /\ Len(q) + 1 \notin DOMAIN q
           /\ \A i \in DOMAIN q : Append(q, e)[i] = q[i] /\ i <= Len(q) /\ i \in Nat
           /\ Append(q, e)[Len(q) + 1] = e
<1> DEFINE S == Range(q) \cup {e}
<1>1. q \in Seq(S) /\ e \in S BY SeqMonotonic DEF IsSeq
<1> HIDE DEF S
<1>2. /\ Append(q, e) \in Seq(S) /\ Len(Append(q, e)) = Len(q) + 1
      /\ \A i \in 1 .. Len(q) : Append(q, e)[i] = q[i]
      /\ Append(q, e)[Len(q) + 1] = e
  BY <1>1, AppendProperties
<1>3. IsSeq(Append(q, e)) BY <1>2, SeqOfRange DEF IsSeq
<1>4. DOMAIN Append(q, e) = 1 .. (Len(q) + 1) BY <1>2, <1>3, SeqFacts
<1> QED BY <1>2, <1>3, <1>4, SeqFacts

LEMMA Replaced1 ==
    ASSUME NEW q, IsSeq(q), NEW i \in DOMAIN q, NEW e
    PROVE  IsSeq([q EXCEPT ![i] = e])
<1> DEFINE S == Range(q) \cup {e}
<1>1. q \in Seq(S) /\ e \in S BY SeqMonotonic DEF IsSeq
<1> HIDE DEF S
<1>2. i \in 1 .. Len(q) BY SeqFacts
<1>3. [q EXCEPT ![i] = e] \in Seq(S) BY <1>1, <1>2, ExceptSeq
<1> QED BY <1>3, SeqOfRange DEF IsSeq

Entities(current, history) ==
    \A i \in DOMAIN history : ~Recovers(history[i]) => history[i].entity \in DOMAIN current

Sound(current, history) ==
    /\ IsSeq(current) /\ IsSeq(history)
    /\ Entities(current, history) /\ Chained(current, history)

LEMMA AmendingFinite ==
    ASSUME NEW history, IsSeq(history), NEW e
    PROVE  IsFiniteSet(Amending(history, e)) /\ Cardinality(Amending(history, e)) \in Nat
<1>1. IsFiniteSet(1 .. Len(history)) BY SeqFacts, FS_Interval
<1>2. Amending(history, e) \subseteq 1 .. Len(history) BY SeqFacts DEF Amending
<1> QED BY <1>1, <1>2, FS_Subset, FS_CardinalityType

\* The history of an entity that the next amendment is not of.
LEMMA OtherHistory ==
    ASSUME NEW history, IsSeq(history), NEW a, NEW e, a.entity # e \/ Recovers(a)
    PROVE  Amending(Append(history, a), e) = Amending(history, e)
BY Appended DEF Amending, Recovers

\* The chain of an entity looks at its row and its history only.
LEMMA ChainOfOne ==
    ASSUME NEW current, NEW history, Sound(current, history), NEW new, NEW a,
           NEW e \in DOMAIN current, new[e] = current[e], e \in DOMAIN new,
           a.entity # e \/ Recovers(a)
    PROVE  ChainedRow(new, Append(history, a), e)
<1> DEFINE longer == Append(history, a)
           made == Amending(history, e)
<1>1. Amending(longer, e) = made BY OtherHistory DEF Sound
<1>2. \A i \in made : longer[i] = history[i] BY Appended DEF Sound, Amending
<1> HIDE DEF longer
<1>3. /\ current[e].revision = 1 + Cardinality(made)
      /\ \A i \in made :
            /\ history[i].hash.revision = Cardinality({j \in made : j <= i})
            /\ \A j \in made : (i < j /\ \A k \in made : k <= i \/ j <= k)
                                    => history[j].hash = Amended(history[i].hash, history[i])
            /\ (\A j \in made : j <= i) => current[e] = Amended(history[i].hash, history[i])
  BY DEF Sound, Chained, ChainedRow
<1> HIDE DEF made
<1>4. ASSUME NEW i \in made
      PROVE  /\ longer[i].hash.revision = Cardinality({j \in made : j <= i})
             /\ \A j \in made : (i < j /\ \A k \in made : k <= i \/ j <= k)
                                    => longer[j].hash = Amended(longer[i].hash, longer[i])
             /\ (\A j \in made : j <= i) => new[e] = Amended(longer[i].hash, longer[i])
  <2>1. longer[i] = history[i] BY <1>2
  <2>2. longer[i].hash.revision = Cardinality({j \in made : j <= i}) BY <1>3, <2>1
  <2>3. ASSUME NEW j \in made, i < j, \A k \in made : k <= i \/ j <= k
        PROVE  longer[j].hash = Amended(longer[i].hash, longer[i])
    <3>1. longer[j] = history[j] BY <1>2
    <3>2. history[j].hash = Amended(history[i].hash, history[i]) BY <1>3, <2>3
    <3> QED BY <2>1, <3>1, <3>2
  <2>4. ASSUME \A j \in made : j <= i PROVE new[e] = Amended(longer[i].hash, longer[i])
    <3>1. current[e] = Amended(history[i].hash, history[i]) BY <1>3, <2>4
    <3> QED BY <2>1, <3>1
  <2> QED BY <2>2, <2>3, <2>4
<1>5. new[e].revision = 1 + Cardinality(made) BY <1>3
<1> QED BY <1>1, <1>4, <1>5 DEF longer, ChainedRow

LEMMA ChainRecovers ==
    ASSUME NEW current, NEW history, Sound(current, history), NEW a, Recovers(a),
           NEW row, row.revision = 1
    PROVE  Sound(Append(current, row), Append(history, a))
<1> DEFINE new == Append(current, row)
           longer == Append(history, a)
           fresh == Len(current) + 1
<1>0. /\ IsSeq(current) /\ IsSeq(history)
      /\ Entities(current, history) /\ Chained(current, history)
  BY DEF Sound
<1> USE <1>0
<1>1. /\ IsSeq(new) /\ DOMAIN new = DOMAIN current \cup {fresh} /\ fresh \notin DOMAIN current
      /\ \A e \in DOMAIN current : new[e] = current[e]
      /\ new[fresh] = row
  BY Appended
<1>2. /\ IsSeq(longer) /\ DOMAIN longer = DOMAIN history \cup {Len(history) + 1}
      /\ \A i \in DOMAIN history : longer[i] = history[i]
      /\ longer[Len(history) + 1] = a
  BY Appended
<1> HIDE DEF fresh, new
<1>3. Entities(new, longer)
  <2> HIDE DEF longer
  <2> QED BY <1>1, <1>2 DEF Entities
<1>4. Chained(new, longer)
  <2>1. ASSUME NEW e \in DOMAIN current
        PROVE  ChainedRow(new, longer, e)
    <3>1. e \in DOMAIN new /\ new[e] = current[e] BY <1>1
    <3> QED BY <3>1, ChainOfOne
  <2>2. Amending(longer, fresh) = {}
    <3>1. Amending(longer, fresh) = Amending(history, fresh) BY OtherHistory
    <3> QED BY <3>1, <1>1 DEF Entities, Amending
  <2>3. new[fresh].revision = 1 + Cardinality(Amending(longer, fresh))
    BY <1>1, <2>2, FS_EmptySet
  <2>4. ChainedRow(new, longer, fresh)
    <3> HIDE DEF longer
    <3> QED BY <2>2, <2>3 DEF ChainedRow
  <2> HIDE DEF longer
  <2> QED BY <1>1, <2>1, <2>4 DEF Chained
<1> QED BY <1>1, <1>2, <1>3, <1>4 DEF Sound, new

LEMMA ChainGrows ==
    ASSUME NEW current, NEW history, Sound(current, history), NEW a, ~Recovers(a),
           a.entity \in DOMAIN current, a.hash = current[a.entity],
           NEW row, row = Amended(a.hash, a), row.revision = a.hash.revision + 1
    PROVE  Sound([current EXCEPT ![a.entity] = row], Append(history, a))
<1> DEFINE e == a.entity
           new == [current EXCEPT ![e] = row]
           longer == Append(history, a)
           n == Len(history) + 1
           made == Amending(history, e)
<1>0. /\ IsSeq(current) /\ IsSeq(history)
      /\ Entities(current, history) /\ Chained(current, history)
  BY DEF Sound
<1> USE <1>0
<1>1. /\ IsSeq(new) /\ DOMAIN new = DOMAIN current /\ new[e] = row
      /\ \A f \in DOMAIN current : f # e => new[f] = current[f]
  BY Replaced1 DEF IsSeq
<1>2. /\ IsSeq(longer) /\ DOMAIN longer = DOMAIN history \cup {n} /\ n \notin DOMAIN history
      /\ \A i \in DOMAIN history : longer[i] = history[i] /\ i < n /\ i \in Nat
      /\ longer[n] = a /\ n \in Nat
  BY Appended, SeqFacts
<1> HIDE DEF new
<1>3. Entities(new, longer)
  <2> HIDE DEF longer, n
  <2> QED BY <1>1, <1>2 DEF Entities
<1>4. Amending(longer, e) = made \cup {n}
  <2> HIDE DEF longer, n
  <2> QED BY <1>2 DEF Amending, Recovers
<1>5. made \subseteq DOMAIN history BY DEF Amending
<1>6. /\ current[e].revision = 1 + Cardinality(made)
      /\ \A i \in made :
            /\ history[i].hash.revision = Cardinality({j \in made : j <= i})
            /\ \A j \in made : (i < j /\ \A k \in made : k <= i \/ j <= k)
                                    => history[j].hash = Amended(history[i].hash, history[i])
            /\ (\A j \in made : j <= i) => current[e] = Amended(history[i].hash, history[i])
  BY DEF Chained, ChainedRow
<1>7. IsFiniteSet(made) /\ Cardinality(made) \in Nat BY AmendingFinite
<1>8. Cardinality(made \cup {n}) = Cardinality(made) + 1
  BY <1>2, <1>5, <1>7, FS_AddElement
<1> HIDE DEF longer, n, made, e
<1> DEFINE all == made \cup {n}
<1>9. new[e].revision = 1 + Cardinality(all)
  BY <1>1, <1>6, <1>7, <1>8 DEF e
<1>10. ASSUME NEW i \in all
       PROVE  /\ longer[i].hash.revision = Cardinality({j \in all : j <= i})
              /\ \A j \in all : (i < j /\ \A k \in all : k <= i \/ j <= k)
                                    => longer[j].hash = Amended(longer[i].hash, longer[i])
              /\ (\A j \in all : j <= i) => new[e] = Amended(longer[i].hash, longer[i])
  <2>1. CASE i = n
    <3>1. {j \in all : j <= i} = all BY <2>1, <1>2, <1>5
    <3>2. longer[i].hash.revision = Cardinality(all)
      BY <2>1, <1>2, <1>6, <1>7, <1>8 DEF e
    <3>3. \A j \in all : ~(i < j) BY <2>1, <1>2, <1>5
    <3>4. new[e] = Amended(longer[i].hash, longer[i]) BY <2>1, <1>1, <1>2
    <3> QED BY <3>1, <3>2, <3>3, <3>4
  <2>2. CASE i \in made
    <3>1. i < n /\ ~(n <= i) /\ longer[i] = history[i] BY <2>2, <1>2, <1>5
    <3>2. {j \in all : j <= i} = {j \in made : j <= i} BY <3>1
    <3>3. longer[i].hash.revision = Cardinality({j \in all : j <= i})
      BY <2>2, <3>1, <3>2, <1>6
    <3>4. ASSUME NEW j \in all, i < j, \A k \in all : k <= i \/ j <= k
          PROVE  longer[j].hash = Amended(longer[i].hash, longer[i])
      <4>1. CASE j = n
        <5>1. \A k \in made : k <= i BY <3>4, <4>1, <1>2, <1>5
        <5> QED BY <5>1, <4>1, <2>2, <3>1, <1>2, <1>6 DEF e
      <4>2. CASE j \in made
        <5>1. longer[j] = history[j] BY <4>2, <1>2, <1>5
        <5> QED BY <5>1, <4>2, <2>2, <3>1, <3>4, <1>6
      <4> QED BY <4>1, <4>2
    <3> QED BY <3>1, <3>3, <3>4
  <2> QED BY <2>1, <2>2
<1>11. Chained(new, longer)
  <2>1. ASSUME NEW f \in DOMAIN new, f # e
        PROVE  ChainedRow(new, longer, f)
    <3>1. f \in DOMAIN current /\ new[f] = current[f] /\ a.entity # f BY <1>1, <2>1 DEF e
    <3> QED BY <2>1, <3>1, ChainOfOne DEF longer
  <2>2. ChainedRow(new, longer, e) BY <1>4, <1>9, <1>10 DEF ChainedRow
  <2> HIDE DEF all
  <2> QED BY <2>1, <2>2 DEF Chained
<1> QED BY <1>1, <1>2, <1>3, <1>11 DEF Sound, new, longer, e

(***************************************************************************)
(* One proposal, and the proposals of a batch one after the other.         *)
(***************************************************************************)
LEMMA OneProposal ==
    ASSUME NEW run, NEW p, NEW acc, Sound(acc.rows, acc.history),
           Recording(acc.history, run, p) = {}, ApplyProposal(run, acc, p).ok
    PROVE  LET done == ApplyProposal(run, acc, p)
           IN /\ acc.ok /\ Sound(done.rows, done.history)
              /\ done.count = acc.count + 1
              /\ done.history = Append(acc.history, Amendment(run, p))
<1> DEFINE done == ApplyProposal(run, acc, p)
           new == Updated(acc.rows, p)
           a == Amendment(run, p)
<1>1. /\ acc.ok /\ StillFresh(acc.rows, p) /\ UpdateHolds(new, p)
      /\ done = [ok |-> TRUE, rows |-> new, count |-> acc.count + 1,
                  history |-> Append(acc.history, a)]
  <2>1. acc.ok BY DEF ApplyProposal
  <2>2. StillFresh(acc.rows, p) /\ UpdateHolds(new, p)
    <3>1. SUFFICES ASSUME ~(StillFresh(acc.rows, p) /\ UpdateHolds(new, p)) PROVE FALSE OBVIOUS
    <3>2. done = [acc EXCEPT !.ok = FALSE] BY <2>1, <3>1 DEF ApplyProposal
    <3> QED BY <2>1, <3>2
  <2> QED BY <2>1, <2>2 DEF ApplyProposal
<1>2. a.op = p.op /\ a.entity = p.entity /\ a.hash = p.hash /\ a.after = p.after BY DEF Amendment
<1>3. Recovers(a) <=> Recovers(p) BY <1>2 DEF Recovers
<1>4. Sound(new, Append(acc.history, a))
  <2>1. CASE Recovers(p)
    <3>1. new = Append(acc.rows, RecoveredFinding(p)) BY <2>1 DEF Updated
    <3>2. RecoveredFinding(p).revision = 1 BY DEF RecoveredFinding, FirstRevision
    <3> QED BY <2>1, <3>1, <3>2, <1>3, ChainRecovers
  <2>2. CASE ~Recovers(p)
    <3> DEFINE e == p.entity
    <3>1. e \in DOMAIN acc.rows /\ acc.rows[e] = p.hash BY <1>1, <2>2 DEF StillFresh, Fresh
    <3>2. new[e].revision = p.hash.revision + 1 BY <1>1, <2>2 DEF UpdateHolds
    <3>3. p.hash.revision \in Nat
      <4>1. p.hash.revision = 1 + Cardinality(Amending(acc.history, e))
        BY <3>1 DEF Sound, Chained, ChainedRow
      <4>2. Cardinality(Amending(acc.history, e)) \in Nat BY AmendingFinite DEF Sound
      <4> HIDE DEF e
      <4> QED BY <4>1, <4>2
    <3>4. Matches(acc.rows[e], p)
      <4>1. SUFFICES ASSUME ~Matches(acc.rows[e], p) PROVE FALSE OBVIOUS
      <4>2. new = acc.rows BY <2>2, <4>1 DEF Updated
      <4> QED BY <4>2, <3>1, <3>2, <3>3
    <3>5. new = [acc.rows EXCEPT ![e] = Amended(p.hash, p)] BY <2>2, <3>1, <3>4 DEF Updated
    <3>6. Amended(p.hash, p) = Amended(a.hash, a) BY <1>2 DEF Amended
    <3>7. IsSeq(acc.rows) BY DEF Sound
    <3>8. new[e] = Amended(p.hash, p) BY <3>1, <3>5
    <3> HIDE DEF new, a
    <3> QED BY <1>2, <1>3, <2>2, <3>1, <3>2, <3>5, <3>6, <3>8, ChainGrows
  <2> QED BY <2>1, <2>2
<1> HIDE DEF new, a
<1> QED BY <1>1, <1>4 DEF a

Steps(f, run, proposals, n, start) ==
    f = [i \in 0 .. n |-> IF i = 0 THEN start ELSE ApplyProposal(run, f[i - 1], proposals[i])]

LEMMA StepEntries ==
    ASSUME NEW f, NEW run, NEW proposals, NEW n \in Nat, NEW start, Steps(f, run, proposals, n, start)
    PROVE  /\ f[0] = start
           /\ \A i \in 1 .. n : f[i] = ApplyProposal(run, f[i - 1], proposals[i])
<1>1. \A i \in 0 .. n : f[i] = IF i = 0 THEN start ELSE ApplyProposal(run, f[i - 1], proposals[i])
  BY DEF Steps
<1>2. 0 \in 0 .. n /\ \A i \in 1 .. n : i \in 0 .. n /\ i # 0 OBVIOUS
<1> QED BY <1>1, <1>2

LEMMA StepsExist ==
    ASSUME NEW run, NEW proposals, NEW n \in Nat, NEW start
    PROVE  \E f : Steps(f, run, proposals, n, start)
<1> DEFINE Bad == {m \in 1 .. n + 1 : ~\E f : Steps(f, run, proposals, m - 1, start)}
<1>1. SUFFICES ASSUME Bad # {} PROVE FALSE
  <2>1. n + 1 \notin Bad /\ n + 1 \in 1 .. n + 1 /\ (n + 1) - 1 = n BY <1>1
  <2> QED BY <2>1
<1>2. Bad \subseteq 1 .. n + 1 /\ n + 1 \in Nat OBVIOUS
<1> HIDE DEF Bad
<1>3. PICK m \in Bad : \A j \in Bad : m <= j BY <1>1, <1>2, FirstPosition
<1> USE DEF Bad
<1>4. m \in 1 .. n + 1 /\ ~\E f : Steps(f, run, proposals, m - 1, start) BY <1>3
<1>5. CASE m = 1
  <2> DEFINE f == [i \in 0 .. 0 |-> start]
  <2>1. f = [i \in 0 .. m - 1 |-> IF i = 0 THEN start ELSE ApplyProposal(run, f[i - 1], proposals[i])]
    BY <1>5
  <2> QED BY <1>4, <2>1 DEF Steps
<1>6. CASE m # 1
  <2>1. m - 1 \in 1 .. n + 1 /\ m - 1 < m /\ (m - 1) - 1 = m - 2 /\ m - 2 \in Nat BY <1>4, <1>6
  <2>2. PICK f : Steps(f, run, proposals, m - 2, start) BY <1>3, <2>1
  <2> DEFINE g == [i \in 0 .. m - 1 |->
                    IF i = 0 THEN start ELSE ApplyProposal(run, f[i - 1], proposals[i])]
  <2>3. ASSUME NEW i \in 0 .. m - 1, i # 0 PROVE g[i - 1] = f[i - 1]
    <3>1. i - 1 \in 0 .. m - 2 /\ i - 1 \in 0 .. m - 1 BY <1>4, <2>3
    <3>2. f[i - 1] = IF i - 1 = 0 THEN start ELSE ApplyProposal(run, f[(i - 1) - 1], proposals[i - 1])
      BY <2>2, <3>1 DEF Steps
    <3> QED BY <3>1, <3>2
  <2>4. g = [i \in 0 .. m - 1 |-> IF i = 0 THEN start ELSE ApplyProposal(run, g[i - 1], proposals[i])]
    <3> HIDE DEF g
    <3>1. ASSUME NEW i \in 0 .. m - 1
          PROVE  (IF i = 0 THEN start ELSE ApplyProposal(run, g[i - 1], proposals[i]))
                    = (IF i = 0 THEN start ELSE ApplyProposal(run, f[i - 1], proposals[i]))
      BY <2>3
    <3>2. [i \in 0 .. m - 1 |-> IF i = 0 THEN start ELSE ApplyProposal(run, g[i - 1], proposals[i])]
            = [i \in 0 .. m - 1 |-> IF i = 0 THEN start ELSE ApplyProposal(run, f[i - 1], proposals[i])]
      BY <3>1, Zenon
    <3> QED BY <3>2, Zenon DEF g
  <2> HIDE DEF g
  <2> QED BY <1>4, <2>4 DEF Steps
<1> QED BY <1>5, <1>6

LEMMA TrailSteps ==
    ASSUME NEW run, NEW proposals, IsSeq(proposals)
    PROVE  Steps(Trail(run, proposals), run, proposals, Len(proposals),
                 [ok |-> TRUE, rows |-> rows, history |-> amendments, count |-> 0])
<1> DEFINE start == [ok |-> TRUE, rows |-> rows, history |-> amendments, count |-> 0]
<1>1. Len(proposals) \in Nat BY SeqFacts
<1>2. \E f : Steps(f, run, proposals, Len(proposals), start) BY <1>1, StepsExist
<1> QED BY <1>2 DEF Steps, Trail

\* A batch of a new run: what has been applied of it is what it has recorded.
Partway(acc, history, run, proposals, n) ==
    /\ Sound(acc.rows, acc.history) /\ acc.count = n
    /\ Len(acc.history) = Len(history) + n
    /\ \A i \in DOMAIN history : acc.history[i] = history[i]
    /\ \A i \in 1 .. n : acc.history[Len(history) + i] = Amendment(run, proposals[i])

LEMMA FreshBatch ==
    ASSUME NEW run, NEW proposals, IsSeq(proposals), NEW f, NEW start,
           Steps(f, run, proposals, Len(proposals), start),
           start.ok, start.count = 0, Sound(start.rows, start.history),
           Made(start.history, run) = {},
           \A i, j \in DOMAIN proposals : proposals[i].id = proposals[j].id => i = j,
           f[Len(proposals)].ok
    PROVE  Partway(f[Len(proposals)], start.history, run, proposals, Len(proposals))
<1> DEFINE N == Len(proposals)
           history == start.history
           L == Len(history)
           Part(n) == Partway(f[n], history, run, proposals, n)
<1>1. N \in Nat /\ DOMAIN proposals = 1 .. N BY SeqFacts
<1>2. L \in Nat /\ DOMAIN history = 1 .. L BY SeqFacts DEF Sound
<1>3. f[0] = start /\ \A i \in 1 .. N : f[i] = ApplyProposal(run, f[i - 1], proposals[i])
  BY <1>1, StepEntries
<1>4. f[N].ok BY DEF N
<1>5. \A i, j \in 1 .. N : proposals[i].id = proposals[j].id => i = j BY <1>1
<1>6. \A i \in DOMAIN history : history[i].run # run BY DEF Made
<1>7. Part(0)
  <2>1. L + 0 = L /\ 1 .. 0 = {} BY <1>2
  <2> QED BY <1>3, <2>1 DEF Partway
<1> HIDE DEF N, history, L
<1>8. ASSUME NEW n \in 1 .. N, f[n].ok, Part(n - 1) PROVE Part(n)
  <2> DEFINE acc == f[n - 1]
             p == proposals[n]
  <2>0. f[n] = ApplyProposal(run, acc, p) /\ n - 1 \in Nat /\ n \in Nat BY <1>3, <1>8, <1>1
  <2>1. /\ Sound(acc.rows, acc.history) /\ acc.count = n - 1
        /\ Len(acc.history) = L + (n - 1)
        /\ \A i \in DOMAIN history : acc.history[i] = history[i]
        /\ \A i \in 1 .. n - 1 : acc.history[L + i] = Amendment(run, proposals[i])
    BY <1>8 DEF Partway, L
  <2> HIDE DEF acc
  <2>2. IsSeq(acc.history) /\ DOMAIN acc.history = 1 .. (L + (n - 1))
    BY <2>1, SeqFacts DEF Sound
  <2>3. Recording(acc.history, run, p) = {}
    <3>1. ASSUME NEW i \in DOMAIN acc.history, acc.history[i].run = run, acc.history[i].id = p.id
          PROVE  FALSE
      <4>1. CASE i \in 1 .. L BY <4>1, <3>1, <2>1, <1>2, <1>6
      <4>2. CASE i \notin 1 .. L
        <5>1. i - L \in 1 .. n - 1 /\ i = L + (i - L) BY <4>2, <2>2, <2>0, <1>2
        <5>2. acc.history[i] = Amendment(run, proposals[i - L]) BY <5>1, <2>1
        <5>3. proposals[i - L].id = p.id BY <5>2, <3>1 DEF Amendment
        <5>4. i - L \in 1 .. N /\ n \in 1 .. N /\ i - L # n BY <5>1, <1>1
        <5> QED BY <5>3, <5>4, <1>5
      <4> QED BY <4>1, <4>2
    <3> QED BY <3>1 DEF Recording
  <2> HIDE DEF p
  <2>4. /\ Sound(f[n].rows, f[n].history) /\ f[n].count = acc.count + 1
        /\ f[n].history = Append(acc.history, Amendment(run, p))
    BY <2>0, <2>1, <2>3, <1>8, OneProposal
  <2>5. /\ Len(f[n].history) = (L + (n - 1)) + 1
        /\ \A i \in 1 .. (L + (n - 1)) : f[n].history[i] = acc.history[i]
        /\ f[n].history[(L + (n - 1)) + 1] = Amendment(run, p)
    BY <2>1, <2>2, <2>4, Appended
  <2>6. f[n].count = n /\ Len(f[n].history) = L + n BY <2>0, <2>1, <2>4, <2>5, <1>2
  <2>7. \A i \in DOMAIN history : f[n].history[i] = history[i]
    <3>1. \A i \in 1 .. L : i \in 1 .. (L + (n - 1)) BY <2>0, <1>2
    <3> QED BY <3>1, <2>1, <2>5, <1>2
  <2>8. ASSUME NEW i \in 1 .. n PROVE f[n].history[L + i] = Amendment(run, proposals[i])
    <3>1. CASE i = n
      <4>1. L + i = (L + (n - 1)) + 1 BY <3>1, <2>0, <1>2
      <4> QED BY <3>1, <4>1, <2>5 DEF p
    <3>2. CASE i # n
      <4>1. i \in 1 .. n - 1 /\ L + i \in 1 .. (L + (n - 1)) BY <3>2, <2>0, <1>2
      <4> QED BY <4>1, <2>1, <2>5
    <3> QED BY <3>1, <3>2
  <2> QED BY <2>4, <2>6, <2>7, <2>8 DEF Partway, L
<1>9. ASSUME NEW n \in 1 .. N, f[n].ok PROVE f[n - 1].ok
  <2>1. f[n] = ApplyProposal(run, f[n - 1], proposals[n]) BY <1>3
  <2> QED BY <1>9, <2>1 DEF ApplyProposal
<1> HIDE DEF Part
<1> DEFINE Bad == {n \in 1 .. N : f[n].ok /\ ~Part(n)}
<1>10. Bad = {}
  <2>1. SUFFICES ASSUME Bad # {} PROVE FALSE OBVIOUS
  <2>2. Bad \subseteq 1 .. N OBVIOUS
  <2> HIDE DEF Bad
  <2>3. PICK n \in Bad : \A j \in Bad : n <= j BY <1>1, <2>1, <2>2, FirstPosition
  <2> USE DEF Bad
  <2>4. n \in 1 .. N /\ f[n].ok /\ ~Part(n) BY <2>3
  <2>5. f[n - 1].ok BY <1>9, <2>4
  <2>6. CASE n = 1
    <3>1. n - 1 = 0 BY <2>6
    <3> QED BY <1>7, <1>8, <2>4, <3>1
  <2>7. CASE n # 1
    <3>1. n - 1 \in 1 .. N /\ ~(n <= n - 1) BY <2>4, <2>7, <1>1
    <3>2. Part(n - 1) BY <2>3, <2>5, <3>1
    <3> QED BY <1>8, <2>4, <3>2
  <2> QED BY <2>6, <2>7
<1>11. Part(N)
  <2>1. CASE N = 0 BY <1>7, <2>1
  <2>2. CASE N # 0
    <3>1. N \in 1 .. N BY <1>1, <2>2
    <3> QED BY <1>4, <1>10, <3>1
  <2> QED BY <2>1, <2>2
<1> QED BY <1>11 DEF Part, N, history

\* A batch of any run: what it appends is of that run, and is what it counts.
Onward(acc, history, run) ==
    /\ Sound(acc.rows, acc.history) /\ acc.count \in Nat
    /\ Len(acc.history) = Len(history) + acc.count
    /\ \A i \in DOMAIN history : acc.history[i] = history[i]
    /\ \A i \in DOMAIN acc.history \ DOMAIN history : acc.history[i].run = run

LEMMA OneOnward ==
    ASSUME NEW run, NEW acc, NEW p, NEW history, IsSeq(history), Onward(acc, history, run),
           ApplyProposal(run, acc, p).ok
    PROVE  Onward(ApplyProposal(run, acc, p), history, run)
<1> DEFINE next == ApplyProposal(run, acc, p)
           L == Len(history)
<1>1. CASE Recording(acc.history, run, p) # {} BY <1>1 DEF ApplyProposal
<1>2. CASE Recording(acc.history, run, p) = {}
  <2>1. /\ Sound(next.rows, next.history) /\ next.count = acc.count + 1
        /\ next.history = Append(acc.history, Amendment(run, p))
    BY <1>2, OneProposal DEF Onward
  <2> HIDE DEF next
  <2>2. IsSeq(acc.history) /\ L \in Nat /\ DOMAIN history = 1 .. L BY SeqFacts DEF Onward, Sound
  <2>3. acc.count \in Nat /\ Len(acc.history) = L + acc.count BY DEF Onward
  <2>4. /\ Len(next.history) = (L + acc.count) + 1
        /\ \A i \in 1 .. (L + acc.count) : next.history[i] = acc.history[i]
        /\ next.history[(L + acc.count) + 1] = Amendment(run, p)
    BY <2>1, <2>2, <2>3, Appended
  <2>5. /\ DOMAIN acc.history = 1 .. (L + acc.count)
        /\ DOMAIN next.history = 1 .. ((L + acc.count) + 1)
    BY <2>1, <2>2, <2>3, <2>4, SeqFacts DEF Sound
  <2> HIDE DEF L
  <2>6. \A i \in DOMAIN history : next.history[i] = history[i]
    <3>1. \A i \in 1 .. L : i \in 1 .. (L + acc.count) BY <2>2, <2>3
    <3> QED BY <3>1, <2>2, <2>4 DEF Onward
  <2>7. ASSUME NEW i \in DOMAIN next.history \ DOMAIN history PROVE next.history[i].run = run
    <3>1. CASE i = (L + acc.count) + 1 BY <3>1, <2>4 DEF Amendment
    <3>2. CASE i # (L + acc.count) + 1
      <4>1. i \in 1 .. (L + acc.count) BY <3>2, <2>2, <2>3, <2>5
      <4> QED BY <4>1, <2>4, <2>5, <2>7 DEF Onward
    <3> QED BY <3>1, <3>2
  <2>8. next.count \in Nat /\ Len(next.history) = L + next.count BY <2>1, <2>2, <2>3, <2>4
  <2> QED BY <2>1, <2>6, <2>7, <2>8 DEF Onward, next, L
<1> QED BY <1>1, <1>2

LEMMA AnyBatch ==
    ASSUME NEW run, NEW proposals, IsSeq(proposals), NEW f, NEW start,
           Steps(f, run, proposals, Len(proposals), start),
           start.count = 0, Sound(start.rows, start.history),
           f[Len(proposals)].ok
    PROVE  Onward(f[Len(proposals)], start.history, run)
<1> DEFINE N == Len(proposals)
           Part(n) == Onward(f[n], start.history, run)
           Bad == {n \in 1 .. N : f[n].ok /\ ~Part(n)}
<1>1. N \in Nat /\ DOMAIN proposals = 1 .. N BY SeqFacts
<1>2. f[0] = start /\ \A i \in 1 .. N : f[i] = ApplyProposal(run, f[i - 1], proposals[i])
  BY <1>1, StepEntries
<1>3. f[N].ok BY DEF N
<1>4. IsSeq(start.history) /\ Len(start.history) \in Nat BY SeqFacts DEF Sound
<1>5. Part(0) BY <1>2, <1>4 DEF Onward
<1> HIDE DEF N
<1>6. ASSUME NEW n \in 1 .. N, f[n].ok, Part(n - 1) PROVE Part(n)
  <2>1. f[n] = ApplyProposal(run, f[n - 1], proposals[n]) BY <1>2
  <2> QED BY <1>4, <1>6, <2>1, OneOnward
<1>7. ASSUME NEW n \in 1 .. N, f[n].ok PROVE f[n - 1].ok
  <2>1. f[n] = ApplyProposal(run, f[n - 1], proposals[n]) BY <1>2
  <2> QED BY <1>7, <2>1 DEF ApplyProposal
<1> HIDE DEF Part
<1>8. Bad = {}
  <2>1. SUFFICES ASSUME Bad # {} PROVE FALSE OBVIOUS
  <2>2. Bad \subseteq 1 .. N OBVIOUS
  <2> HIDE DEF Bad
  <2>3. PICK n \in Bad : \A j \in Bad : n <= j BY <1>1, <2>1, <2>2, FirstPosition
  <2> USE DEF Bad
  <2>4. n \in 1 .. N /\ f[n].ok /\ ~Part(n) BY <2>3
  <2>5. f[n - 1].ok BY <1>7, <2>4
  <2>6. CASE n = 1
    <3>1. n - 1 = 0 BY <2>6
    <3> QED BY <1>5, <1>6, <2>4, <3>1
  <2>7. CASE n # 1
    <3>1. n - 1 \in 1 .. N /\ ~(n <= n - 1) BY <2>4, <2>7, <1>1
    <3>2. Part(n - 1) BY <2>3, <2>5, <3>1
    <3> QED BY <1>6, <2>4, <3>2
  <2> QED BY <2>6, <2>7
<1>9. Part(N)
  <2>1. CASE N = 0 BY <1>5, <2>1
  <2>2. CASE N # 0
    <3>1. N \in 1 .. N BY <1>1, <2>2
    <3> QED BY <1>3, <1>8, <3>1
  <2> QED BY <2>1, <2>2
<1> QED BY <1>9 DEF Part, N

(***************************************************************************)
(* Batches.  A run counts its amendments, and what its first batch had     *)
(* proposed is among them.                                                 *)
(***************************************************************************)
Settled(history, known, run) ==
    /\ "applied" \in DOMAIN known[run] /\ known[run].applied = Cardinality(Made(history, run))
    /\ known[run].proposed \in Nat /\ known[run].proposed <= known[run].applied

Carried(x) ==
    /\ IsSeq(x.proposals)
    /\ \A i, j \in DOMAIN x.proposals : x.proposals[i].id = x.proposals[j].id => i = j

Complete(history, known) ==
    /\ \A i \in DOMAIN history : history[i].run \in DOMAIN known
    /\ \A run \in DOMAIN known : Settled(history, known, run)

AmendInv ==
    /\ Sound(rows, amendments) /\ Complete(amendments, runs)
    /\ \A t \in Tools : At(t, "validated") => Carried(at[t])

LEMMA SequenceOf ==
    ASSUME NEW f, NEW n \in Nat, f \in [1 .. n -> Range(f)]
    PROVE  IsSeq(f) /\ Len(f) = n
BY DEF IsSeq

LEMMA MadeFinite ==
    ASSUME NEW history, IsSeq(history), NEW run
    PROVE  IsFiniteSet(Made(history, run)) /\ Cardinality(Made(history, run)) \in Nat
<1>1. IsFiniteSet(1 .. Len(history)) BY SeqFacts, FS_Interval
<1>2. Made(history, run) \subseteq 1 .. Len(history) BY SeqFacts DEF Made
<1> QED BY <1>1, <1>2, FS_Subset, FS_CardinalityType

\* What a batch leaves of the runs: its own has gained what it counts.
LEMMA MadeGrows ==
    ASSUME NEW acc, NEW history, IsSeq(history), NEW run, Onward(acc, history, run), NEW other
    PROVE  /\ other # run => Made(acc.history, other) = Made(history, other)
           /\ Cardinality(Made(acc.history, run)) = Cardinality(Made(history, run)) + acc.count
<1> DEFINE L == Len(history)
           c == acc.count
           old == Made(history, run)
           new == (L + 1) .. (L + c)
<1>1. L \in Nat /\ c \in Nat /\ DOMAIN history = 1 .. L BY SeqFacts DEF Onward
<1>2. DOMAIN acc.history = 1 .. (L + c) BY SeqFacts DEF Onward, Sound
<1>3. DOMAIN acc.history \ DOMAIN history = new /\ DOMAIN history \subseteq DOMAIN acc.history
  <2>1. (1 .. (L + c)) \ (1 .. L) = (L + 1) .. (L + c) /\ 1 .. L \subseteq 1 .. (L + c) BY <1>1
  <2> QED BY <1>1, <1>2, <2>1
<1> HIDE DEF L, c, new
<1>4. /\ \A i \in DOMAIN history : acc.history[i] = history[i]
      /\ \A i \in new : acc.history[i].run = run
  BY <1>3 DEF Onward
<1>5. other # run => Made(acc.history, other) = Made(history, other) BY <1>3, <1>4 DEF Made
<1>6. Made(acc.history, run) = old \cup new BY <1>3, <1>4 DEF Made
<1>7. old \cap new = {} BY <1>3 DEF Made
<1>8. IsFiniteSet(old) /\ Cardinality(old) \in Nat BY MadeFinite
<1>9. IsFiniteSet(new) /\ Cardinality(new) = c
  <2>1. /\ IsFiniteSet((L + 1) .. (L + c))
        /\ Cardinality((L + 1) .. (L + c)) = IF L + 1 > L + c THEN 0 ELSE (L + c) - (L + 1) + 1
    BY <1>1, FS_Interval
  <2>2. (IF L + 1 > L + c THEN 0 ELSE (L + c) - (L + 1) + 1) = c BY <1>1
  <2> QED BY <2>1, <2>2 DEF new
<1> HIDE DEF old
<1>10. Cardinality(old \cup new) = Cardinality(old) + Cardinality(new) - Cardinality(old \cap new)
  BY <1>8, <1>9, FS_Union
<1>11. Cardinality(old \cap new) = 0 BY <1>7, FS_EmptySet
<1>12. Cardinality(old \cup new) = Cardinality(old) + c BY <1>1, <1>8, <1>9, <1>10, <1>11
<1> QED BY <1>5, <1>6, <1>12 DEF old, c

(***************************************************************************)
(* The steps.                                                              *)
(***************************************************************************)
LEMMA AmendMoves ==
    ASSUME IInv, AmendInv, NEW p \in Procs, NEW x, Go(p, x), UNCHANGED evidence,
           x.step = "validated" => Carried(x)
    PROVE  AmendInv'
<1>1. rows' = rows /\ amendments' = amendments /\ runs' = runs BY DEF evidence
<1>2. ASSUME NEW t \in Tools, at'[t].step = "validated" PROVE Carried(at'[t])
  <2>1. t \in Procs BY DEF Procs
  <2>2. at'[t] = IF t = p THEN x ELSE at[t] BY <2>1 DEF IInv, Go
  <2> QED BY <1>2, <2>2 DEF AmendInv, At
<1>3. ASSUME NEW t \in Tools, At(t, "validated")' PROVE Carried(at'[t])
  <2>1. at'[t].step = "validated" BY <1>3 DEF At
  <2> QED BY <1>1, <1>2, <2>1
<1>4. Sound(rows', amendments') /\ Complete(amendments', runs') BY <1>1 DEF AmendInv
<1> QED BY <1>3, <1>4 DEF AmendInv

LEMMA AmendStays ==
    ASSUME AmendInv, UNCHANGED <<at, rows, amendments, runs>>
    PROVE  AmendInv'
<1>1. \A t \in Tools : At(t, "validated")' => Carried(at'[t])
  BY DEF AmendInv, At
<1>2. Sound(rows', amendments') /\ Complete(amendments', runs') BY DEF AmendInv
<1> QED BY <1>1, <1>2 DEF AmendInv

LEMMA OpensElsewhere ==
    ASSUME IInv, NEW p \in Procs, OpenStep(p)
    PROVE  \E x : Go(p, x) /\ x.step # "validated"
<1>1. Looked(store).step # "validated" BY DEF Looked, Open, Down
<1>2. Down.step # "validated" /\ Loop.step # "validated" BY DEF Down, Loop
<1>3. CASE Start(p) \/ Continue(p) BY <1>1, <1>3 DEF Start, Continue
<1>4. CASE Inspect(p)
  <2> DEFINE x == CASE Exact(store) -> [step |-> "adopt"]
                    [] ~Exact(store) /\ store.tables # "other" -> [step |-> "catalog"]
                    [] OTHER -> Down
  <2>1. Go(p, x) BY <1>4 DEF Inspect
  <2>2. x.step # "validated" BY DEF Down
  <2> QED BY <2>1, <2>2
<1>5. CASE Initialize(p) \/ Adopt(p) \/ InitializeCatalog(p)
  BY <1>2, <1>5 DEF Initialize, Adopt, InitializeCatalog, Transaction
<1>6. CASE ApplyMigration(p)
  <2> DEFINE x == [at[p] EXCEPT !.step = "applied"]
  <2>1. Go(p, x) \/ Go(p, Down) BY <1>6 DEF ApplyMigration, Transaction
  <2>2. "step" \in DOMAIN at[p] BY <1>6 DEF IInv, Allowed, ApplyMigration, At
  <2>3. x.step = "applied" BY <2>2
  <2> QED BY <1>2, <2>1, <2>3
<1>7. CASE CheckMigration(p) BY <1>2, <1>7 DEF CheckMigration
<1> QED BY <1>3, <1>4, <1>5, <1>6, <1>7 DEF OpenStep

LEMMA PlanCarried ==
    ASSUME AmendInv, NEW t \in Tools, NEW plan \in Plans, ValidatePlan(t, plan), IInv
    PROVE  AmendInv'
<1> DEFINE q == plan.proposals
           proposals == [i \in DOMAIN q |-> Prepared(q[i])]
           x == [step |-> "validated", run |-> plan.run, proposals |-> proposals]
<1>1. Go(t, x) /\ ValidBatch(plan.run, proposals) /\ UNCHANGED evidence
  BY DEF ValidatePlan, Carry, evidence
<1>2. IsSeq(q) BY PlansAssumption DEF IsSeq
<1>3. IsSeq(proposals)
  <2>1. DOMAIN q = 1 .. Len(q) /\ Len(q) \in Nat BY <1>2, SeqFacts
  <2>2. proposals \in [1 .. Len(q) -> Range(proposals)] BY <2>1 DEF Range
  <2> HIDE DEF proposals
  <2> QED BY <2>1, <2>2, SequenceOf
<1>4. \A i, j \in DOMAIN proposals : proposals[i].id = proposals[j].id => i = j
  BY <1>1 DEF ValidBatch
<1> HIDE DEF proposals
<1>5. Carried(x) BY <1>3, <1>4 DEF Carried
<1> HIDE DEF x
<1> QED BY <1>1, <1>5, AmendMoves DEF Procs

LEMMA RevertCarried ==
    ASSUME AmendInv, NEW t \in Tools, NEW run \in DOMAIN runs, NEW second,
           ValidateRevert(t, run, second), IInv
    PROVE  AmendInv'
<1> DEFINE proposals == Reverting(run)
           name == Append(run, second)
           x == [step |-> "validated", run |-> name, proposals |-> proposals]
           made == Made(amendments, run)
           n == Cardinality(made)
<1>1. Go(t, x) /\ ValidBatch(name, proposals) /\ UNCHANGED evidence
  BY DEF ValidateRevert, Carry, evidence
<1>2. n \in Nat BY MadeFinite DEF AmendInv, Sound
<1>3. proposals = [k \in 1 .. n |-> Compensating(amendments[FromLast(made, k)], k - 1)]
  BY DEF Reverting
<1>4. DOMAIN proposals = 1 .. n BY <1>3
<1>5. IsSeq(proposals)
  <2>1. proposals \in [1 .. n -> Range(proposals)]
    <3>1. proposals = [k \in 1 .. n |-> proposals[k]] BY <1>3
    <3>2. \A k \in 1 .. n : proposals[k] \in Range(proposals) BY <1>4 DEF Range
    <3> HIDE DEF proposals, n
    <3> QED BY <3>1, <3>2, Zenon
  <2> HIDE DEF proposals, n
  <2> QED BY <1>2, <2>1, SequenceOf
<1>6. \A i, j \in DOMAIN proposals : proposals[i].id = proposals[j].id => i = j
  BY <1>1 DEF ValidBatch
<1> HIDE DEF proposals, name
<1>7. Carried(x) BY <1>5, <1>6 DEF Carried
<1> HIDE DEF x
<1> QED BY <1>1, <1>7, AmendMoves DEF Procs

LEMMA ApplyCarried ==
    ASSUME IInv, AmendInv, NEW t \in Tools, ApplyBatch(t)
    PROVE  AmendInv'
<1> DEFINE run == at[t].run
           proposals == at[t].proposals
           N == Len(proposals)
           start == [ok |-> TRUE, rows |-> rows, history |-> amendments, count |-> 0]
           result == Applied(run, proposals)
           counts == IF run \in DOMAIN runs THEN runs[run] ELSE [proposed |-> N, applied |-> 0]
           after == [counts EXCEPT !.applied = @ + result.count]
<1>1. Go(t, Down) /\ Down.step # "validated" /\ t \in Procs BY DEF ApplyBatch, Down, Procs
<1>2. CASE UNCHANGED <<rows, amendments, runs>>
  <2>1. UNCHANGED evidence BY <1>2 DEF evidence
  <2> QED BY <1>1, <2>1, AmendMoves
<1>3. CASE /\ result.ok
           /\ rows' = result.rows /\ amendments' = result.history
           /\ runs' = [r \in DOMAIN runs \cup {run} |-> IF r = run THEN after ELSE runs[r]]
  <2>0. Carried(at[t]) BY DEF AmendInv, ApplyBatch
  <2>1. /\ IsSeq(proposals) /\ N \in Nat
        /\ \A i, j \in DOMAIN proposals : proposals[i].id = proposals[j].id => i = j
    BY <2>0, SeqFacts DEF Carried
  <2>2. /\ Sound(rows, amendments) /\ IsSeq(amendments) /\ Complete(amendments, runs)
    BY DEF AmendInv, Sound
  <2>3. Steps(Trail(run, proposals), run, proposals, N, start) BY <2>1, TrailSteps
  <2>4. result = Trail(run, proposals)[N] BY DEF Applied
  <2>5. /\ DOMAIN runs' = DOMAIN runs \cup {run} /\ runs'[run] = after
        /\ \A r \in DOMAIN runs : r # run => runs'[r] = runs[r]
    BY <1>3
  <2>6. start.ok /\ start.count = 0 /\ start.rows = rows /\ start.history = amendments OBVIOUS
  <2> HIDE DEF run, proposals, result, start, after, counts
  <2>7. Onward(result, amendments, run)
    <3>1. Trail(run, proposals)[N].ok BY <1>3, <2>4
    <3>2. Onward(Trail(run, proposals)[N], start.history, run)
      BY <2>1, <2>2, <2>3, <2>6, <3>1, AnyBatch DEF N
    <3> QED BY <2>4, <2>6, <3>2
  <2>8. result.count \in Nat BY <2>7 DEF Onward
  <2>9. /\ \A r : r # run => Made(amendments', r) = Made(amendments, r)
        /\ Cardinality(Made(amendments', run)) = Cardinality(Made(amendments, run)) + result.count
    BY <1>3, <2>2, <2>7, MadeGrows
  <2>10. Cardinality(Made(amendments, run)) \in Nat BY <2>2, MadeFinite
  \* The run's own count.
  <2>11. Settled(amendments', runs', run)
    <3>1. CASE run \in DOMAIN runs
      <4>1. Settled(amendments, runs, run) BY <2>2, <3>1 DEF Complete
      <4>2. after = [runs[run] EXCEPT !.applied = @ + result.count] BY <3>1 DEF after, counts
      <4>3. /\ "applied" \in DOMAIN after /\ after.proposed = runs[run].proposed
            /\ after.applied = runs[run].applied + result.count
        BY <4>1, <4>2 DEF Settled
      <4>4. runs[run].proposed \in Nat /\ runs[run].proposed <= after.applied
        BY <4>1, <4>3, <2>8, <2>10 DEF Settled
      <4> QED BY <4>1, <4>3, <4>4, <2>5, <2>9 DEF Settled
    <3>2. CASE run \notin DOMAIN runs
      <4>1. Made(amendments, run) = {} BY <2>2, <3>2 DEF Complete, Made
      <4>2. result.count = N
        <5>1. Trail(run, proposals)[N].ok BY <1>3, <2>4
        <5>2. Made(start.history, run) = {} /\ Sound(start.rows, start.history)
          BY <2>2, <2>6, <4>1
        <5>3. Partway(Trail(run, proposals)[N], start.history, run, proposals, N)
          BY <2>1, <2>3, <2>6, <5>1, <5>2, FreshBatch DEF N
        <5> QED BY <2>4, <5>3 DEF Partway
      <4>3. counts = [proposed |-> N, applied |-> 0] BY <3>2 DEF counts
      <4>4. after = [proposed |-> N, applied |-> 0 + result.count] BY <4>3 DEF after
      <4>5. 0 + result.count = N BY <4>2, <2>1
      <4>6. "applied" \in DOMAIN after /\ after.proposed = N /\ after.applied = N BY <4>4, <4>5
      <4>7. Cardinality(Made(amendments', run)) = N
        <5>1. Cardinality(Made(amendments, run)) = 0 BY <4>1, FS_EmptySet
        <5> QED BY <5>1, <4>2, <2>1, <2>9
      <4> HIDE DEF N
      <4> QED BY <4>6, <4>7, <2>1, <2>5 DEF Settled
    <3> QED BY <3>1, <3>2
  <2>12. ASSUME NEW r \in DOMAIN runs' PROVE Settled(amendments', runs', r)
    <3>1. CASE r = run BY <3>1, <2>11
    <3>2. CASE r # run
      <4>1. r \in DOMAIN runs /\ runs'[r] = runs[r] BY <2>5, <3>2
      <4>2. Settled(amendments, runs, r) BY <2>2, <4>1 DEF Complete
      <4> QED BY <3>2, <4>1, <4>2, <2>9 DEF Settled
    <3> QED BY <3>1, <3>2
  <2>13. ASSUME NEW i \in DOMAIN amendments' PROVE amendments'[i].run \in DOMAIN runs'
    <3>1. CASE i \in DOMAIN amendments BY <1>3, <2>2, <2>5, <2>7, <3>1 DEF Complete, Onward
    <3>2. CASE i \notin DOMAIN amendments BY <1>3, <2>5, <2>7, <2>13, <3>2 DEF Onward
    <3> QED BY <3>1, <3>2
  <2>14. Complete(amendments', runs') BY <2>12, <2>13 DEF Complete
  <2>15. ASSUME NEW q \in Tools, At(q, "validated")' PROVE Carried(at'[q])
    <3>1. q \in Procs /\ at'[q] = IF q = t THEN Down ELSE at[q] BY <1>1 DEF IInv, Go, Procs
    <3>2. At(q, "validated") /\ at'[q] = at[q] BY <1>1, <3>1, <2>15 DEF At
    <3> QED BY <3>2 DEF AmendInv
  <2>16. Sound(rows', amendments') BY <1>3, <2>7 DEF Onward
  <2> QED BY <2>14, <2>15, <2>16 DEF AmendInv
<1> QED BY <1>2, <1>3 DEF ApplyBatch

LEMMA AmendStep == IInv /\ AmendInv /\ [Next]_vars => AmendInv'
<1> SUFFICES ASSUME IInv, AmendInv, [Next]_vars PROVE AmendInv' OBVIOUS
<1>1. ASSUME NEW p \in Procs, Opens(p) PROVE AmendInv'
  BY <1>1, OpensElsewhere, AmendMoves DEF Opens
<1>2. ASSUME NEW p \in Procs, Dies(p) PROVE AmendInv'
  <2>1. Go(p, Down) /\ UNCHANGED evidence /\ Down.step # "validated" BY <1>2 DEF Dies, Crash, Down
  <2> QED BY <2>1, AmendMoves
<1>3. ASSUME NEW s \in Servers, Records(s) \/ Serves(s) PROVE AmendInv'
  BY <1>3, AmendStays DEF Records, Serves, RecordSession, evidence
<1>4. ASSUME NEW t \in Tools, Audits(t) PROVE AmendInv'
  <2>1. CASE \E plan \in Plans : ValidatePlan(t, plan) BY <2>1, PlanCarried
  <2>2. CASE \E run \in DOMAIN runs, second \in Seconds : ValidateRevert(t, run, second)
    BY <2>2, RevertCarried
  <2>3. CASE EndCommand(t)
    <3>1. Go(t, Down) /\ UNCHANGED evidence /\ Down.step # "validated"
      BY <2>3 DEF EndCommand, Down, evidence
    <3> QED BY <3>1, AmendMoves DEF Procs
  <2>4. CASE ApplyBatch(t) BY <2>4, ApplyCarried
  <2> QED BY <1>4, <2>1, <2>2, <2>3, <2>4 DEF Audits, AuditCommand
<1>5. CASE UNCHANGED vars BY <1>5, AmendStays DEF vars
<1> QED BY <1>1, <1>2, <1>3, <1>4, <1>5 DEF Next

LEMMA AmendStart == Init => AmendInv
<1> SUFFICES ASSUME Init PROVE AmendInv OBVIOUS
<1>1. PICK f \in Found : rows = f.rows BY DEF Init
<1>2. IsSeq(rows) /\ \A e \in DOMAIN rows : rows[e].revision = 1
  BY <1>1, FoundAssumption DEF IsSeq, FirstRevision
<1>3. amendments = <<>> /\ runs = <<>> BY DEF Init, InitAudit
<1>4. IsSeq(amendments) /\ DOMAIN amendments = {} /\ DOMAIN runs = {} BY <1>3 DEF IsSeq
<1>5. \A e \in DOMAIN rows : ChainedRow(rows, amendments, e)
  <2>1. \A e : Amending(amendments, e) = {} BY <1>4 DEF Amending
  <2>2. Cardinality({}) = 0 BY FS_EmptySet
  <2> QED BY <1>2, <2>1, <2>2 DEF ChainedRow
<1>6. Sound(rows, amendments) BY <1>2, <1>4, <1>5 DEF Sound, Entities, Chained
<1>7. \A t \in Tools : ~At(t, "validated") BY DEF Init, At, Down, Procs
<1> QED BY <1>4, <1>6, <1>7 DEF AmendInv, Complete

(* The amendments of an entity are the history of its row, however many    *)
(* tools apply batches that they validated side by side and whatever run   *)
(* ids they use again, and a run counts its amendments, all of its first   *)
(* batch among them (apply_batch).                                         *)
THEOREM AmendmentsAreChained == Spec => []AmendmentsChain
<1>1. Init => IInv /\ AmendInv BY InitHolds, AmendStart
<1>2. (IInv /\ AmendInv) /\ [Next]_vars => (IInv /\ AmendInv)' BY NextHolds, AmendStep
<1>3. AmendInv => AmendmentsChain
  BY DEF AmendInv, AmendmentsChain, Sound, Complete, Settled
<1> QED BY <1>1, <1>2, <1>3, PTL DEF Spec
=============================================================================

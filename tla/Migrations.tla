------------------------------ MODULE Migrations ------------------------------
(***************************************************************************)
(* Opening the learning database (src/src/migrations.rs).  Every process   *)
(* that opens it runs the migrations first: the server, which is restarted *)
(* for ever, and the command line tools, which come and go.  They share    *)
(* one SQLite file and nothing else, so all of them may migrate at once,   *)
(* and any may die between two transactions.                               *)
(*                                                                         *)
(* The decisions are reads outside the transactions that act on them.  A   *)
(* read of a fact that never changes back (there are tables, a version is  *)
(* recorded) is taken together with the read that follows it.              *)
(*                                                                         *)
(* A migration is modelled by what later steps and the program depend on:  *)
(* the weaknesses with their primary links and schedules, the key and the  *)
(* stamp of every session, the idempotency ledger.  8 and 10 to 14 only    *)
(* add tables and columns; what 13 and 14 add is used in AuditBatches and  *)
(* TutorHandoffs.  Two copies of the program with different checksums, and *)
(* a file that fails the integrity check, are left out.                    *)
(***************************************************************************)
EXTENDS Integers, Sequences, FiniteSetsExt

CONSTANTS
    None,
    Servers,          \* processes that are restarted whenever they end
    Tools,            \* processes that run one command
    Targets,          \* the weaknesses the taxonomy seed names
    MaxCrashes,       \* bound: processes killed
    MaxSessions,      \* bound: sessions in the store
    MaxCommands       \* bound: tools started

VARIABLES
    store,        \* the database: see StoreType
    log,          \* history: the migrations whose transaction committed
    at,           \* what each process is doing
    crashes, commands

Procs == Servers \cup Tools
Latest == 14
Versions == 3 .. Latest

Weakness == [active : BOOLEAN, live : BOOLEAN]    \* live: a candidate or active target

\* Exercise types as they were written by hand, by what 7 and 9 make of them.
Named == {"named"}                  \* both migrations know the key
Renamed == {"renamed"}              \* only 9 does
Session == [type : Named \cup Renamed \cup {"unknown", None}, key : {"canonical", None},
            stamp : {"legacy", "offset", "canonical"}]

Fields == {"tables", "registry", "meta", "weaknesses", "primary", "schedules", "sessions", "ledger"}

StoreType(s) ==
    /\ DOMAIN s = Fields
    /\ s.tables \in {"none", "snapshot", "early catalog", "catalog", "other", "latest"}
    /\ s.registry \subseteq Versions /\ s.meta \in Versions \cup {None}
    /\ s.weaknesses \in [DOMAIN s.weaknesses -> Weakness]
    /\ s.primary \subseteq DOMAIN s.weaknesses
    /\ s.schedules \in [DOMAIN s.schedules -> BOOLEAN]
    /\ s.sessions \in Seq(Session) /\ s.ledger \subseteq DOMAIN s.sessions

At(p, step) == at[p].step = step
Go(p, position) == at' = [at EXCEPT ![p] = position]
Down == [step |-> "down"]
Open == [step |-> "open"]
Loop == [step |-> "loop"]

PrimaryLinks(s) == \A w \in DOMAIN s.weaknesses : s.weaknesses[w].live => w \in s.primary

Postflight(s, v) == v = Max(s.registry) /\ s.meta = v /\ PrimaryLinks(s)

Exact(s) == s.tables = "snapshot" /\ s.meta = 3

(* The primary key of schema_migrations: a version is recorded once, and   *)
(* the transaction of whoever comes second is rolled back.                 *)
\* Mutant of Unrecorded: the version is inserted OR IGNORE.
UnrecordedIgnored(s, vs) == TRUE
Unrecorded(s, vs) == s.registry \cap vs = {}

HasTargets(s) == DOMAIN s.weaknesses # {}

Seeded(s) ==
    IF ~HasTargets(s) THEN s
    ELSE [s EXCEPT
            !.weaknesses = [w \in DOMAIN @ |-> IF w \in Targets THEN [active |-> TRUE, live |-> TRUE]
                                                                ELSE @[w]],
            !.primary = @ \cup Targets]

CanSeed(s) ==
    /\ HasTargets(s) => Targets \subseteq DOMAIN s.weaknesses
    /\ PrimaryLinks(Seeded(s))

Scheduled(s) ==
    [s EXCEPT !.schedules = [w \in DOMAIN s.weaknesses |->
                                IF w \in DOMAIN @ THEN @[w] ELSE s.weaknesses[w].active]]

EachSession(s, New(_)) == [s EXCEPT !.sessions = [i \in DOMAIN @ |-> New(@[i])]]

(* What the transaction of each migration makes of the store; Fits says    *)
(* what it refuses.                                                        *)
MigrationTaxonomy(s) == Seeded(s)

Readable(stamp) == stamp # "offset"     \* "+00:00" becomes "Z:00", which is no time

MigrationEvidence(s) == EachSession(s, LAMBDA r : [r EXCEPT !.stamp = "canonical"])

MigrationScheduler(s) == Scheduled(s)

Mapped7(type) == type \in Named

MigrationCleanup(s) == EachSession(s, LAMBDA r : [r EXCEPT !.key = "canonical"])

(* 8 rebuilds the practice tables and commits only if every row is there   *)
(* and reads as before.                                                    *)
MigrationActivities(s) == s

\* Mutant of Mapped9: 9 maps the names 7 mapped and no others.
Mapped9Narrow(type) == type \in Named
Mapped9(type) == type \in Named \cup Renamed

Preflight9(s) == \A i \in DOMAIN s.sessions :
                    s.sessions[i].key = None => Mapped9(s.sessions[i].type)

(* The old type is dropped, and with it every recorded request.            *)
CopyAndFinalize9(s) ==
    [EachSession(s, LAMBDA r : [r EXCEPT !.key = "canonical", !.type = None]) EXCEPT !.ledger = {}]

Fits(v, s) ==
    /\ v = 4 => CanSeed(s)
    /\ v = 5 => \A i \in DOMAIN s.sessions : Readable(s.sessions[i].stamp)
    /\ v = 7 => \A i \in DOMAIN s.sessions : Mapped7(s.sessions[i].type)

Migrated(v, s) ==
    CASE v = 4 -> MigrationTaxonomy(s)
      [] v = 5 -> MigrationEvidence(s)
      [] v = 6 -> MigrationScheduler(s)
      [] v = 7 -> MigrationCleanup(s)
      [] v = 8 -> MigrationActivities(s)
      [] v = 9 -> CopyAndFinalize9(s)
      [] OTHER -> s

Recorded(s, vs) == [s EXCEPT !.registry = @ \cup vs, !.meta = Max(vs)]

(* Where a process goes that reads the store: a new database is written    *)
(* whole, one without a registry is looked at more closely, and otherwise  *)
(* the first migration that is not recorded is next.  Before 9 the rows    *)
(* are counted and the exercise types checked.                             *)
Pending(s) == Versions \ s.registry

Looked(s) ==
    IF s.tables = "none" THEN [step |-> "initialize"]
    ELSE IF s.registry = {} THEN [step |-> "inspect"]
    ELSE IF Pending(s) = {} THEN IF Postflight(s, Latest) THEN Open ELSE Down
    ELSE LET v == Min(Pending(s)) IN
         IF v = 9 /\ ~Preflight9(s) THEN Down
         ELSE [step |-> "apply", version |-> v, counted |-> IF v = 9 THEN Len(s.sessions) ELSE 0]

Start(p) ==
    /\ At(p, "down")
    /\ p \in Tools => commands < MaxCommands
    /\ commands' = IF p \in Tools THEN commands + 1 ELSE commands
    /\ Go(p, Looked(store))
    /\ UNCHANGED <<store, log, crashes>>

Continue(p) ==
    /\ At(p, "loop")
    /\ Go(p, Looked(store))
    /\ UNCHANGED <<store, log, crashes, commands>>

Inspect(p) ==
    /\ At(p, "inspect")
    /\ Go(p, CASE Exact(store) -> [step |-> "adopt"]
               [] ~Exact(store) /\ store.tables # "other" -> [step |-> "catalog"]
               [] OTHER -> Down)
    /\ UNCHANGED <<store, log, crashes, commands>>

(* One transaction: it commits and the process goes on, or everything is   *)
(* rolled back and the process ends.                                       *)
Transaction(p, fits, new, applied, next) ==
    /\ \/ fits /\ store' = new /\ log' = log \o applied /\ Go(p, next)
       \/ ~fits /\ Go(p, Down) /\ UNCHANGED <<store, log>>
    /\ UNCHANGED <<crashes, commands>>

(* The migrations of a store of version v, 4 the first.                     *)
UpTo(v) == [i \in 1 .. v - 3 |-> i + 3]

Initialize(p) ==
    /\ At(p, "initialize")
    /\ Transaction(p, Unrecorded(store, Versions),
                   Recorded([Scheduled(Seeded(store)) EXCEPT !.tables = "latest"], Versions),
                   UpTo(Latest), Loop)

Adopt(p) ==
    /\ At(p, "adopt")
    /\ Transaction(p, store.registry = {}, [store EXCEPT !.registry = {3}], <<>>, Loop)

(* The latest schema is laid over what is there, with some of the columns  *)
(* a catalog may lack.  The status of a weakness is not among them, and    *)
(* the seed needs it: the early catalogs, which never had it, fail here on *)
(* every start.  A store that another process is migrating passes for a    *)
(* catalog too, and has it once 4 is applied.                              *)
HasStatus(s) == s.tables = "catalog" \/ 4 \in s.registry

InitializeCatalog(p) ==
    /\ At(p, "catalog")
    /\ Transaction(p, HasStatus(store) /\ CanSeed(store) /\ Unrecorded(store, Versions),
                   Recorded(Scheduled(Seeded(store)), Versions), UpTo(Latest), Loop)

ApplyMigration(p) ==
    /\ At(p, "apply")
    /\ LET v == at[p].version IN
       Transaction(p, Fits(v, store) /\ Unrecorded(store, {v}),
                   Recorded(Migrated(v, store), {v}), <<v>>, [at[p] EXCEPT !.step = "applied"])

(* After the commit: the postflight, or for 9 the counts taken before.     *)
CountsMatch(p) == Len(store.sessions) = at[p].counted /\ store.ledger = {}

CheckMigration(p) ==
    /\ At(p, "applied")
    /\ LET v == at[p].version
           ok == IF v = 9 THEN CountsMatch(p) ELSE Postflight(store, v)
       IN Go(p, IF ok THEN Loop ELSE Down)
    /\ UNCHANGED <<store, log, crashes, commands>>

OpenStep(p) ==
    \/ Start(p) \/ Continue(p) \/ Inspect(p)
    \/ Initialize(p) \/ Adopt(p) \/ InitializeCatalog(p)
    \/ ApplyMigration(p) \/ CheckMigration(p)

(* An open server records a session: LearningStore says when it does.      *)
RecordSession(p) ==
    /\ p \in Servers /\ At(p, "open")
    /\ Len(store.sessions) < MaxSessions
    /\ store' = [store EXCEPT
                    !.sessions = Append(@, [type |-> None, key |-> "canonical", stamp |-> "canonical"]),
                    !.ledger = @ \cup {Len(store.sessions) + 1}]
    /\ UNCHANGED <<log, at, crashes, commands>>

Crash(p) ==
    /\ ~At(p, "down")
    /\ crashes < MaxCrashes /\ crashes' = crashes + 1
    /\ Go(p, Down)
    /\ UNCHANGED <<store, log, commands>>
=============================================================================

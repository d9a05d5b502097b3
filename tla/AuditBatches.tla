----------------------------- MODULE AuditBatches -----------------------------
(***************************************************************************)
(* Amending recorded evidence (src/src/audit.rs, src/src/bin/audit_data.rs). *)
(* A tool opens the database, validates a prepared batch of proposals      *)
(* against the rows it reads, then applies it in one transaction that      *)
(* checks revision and hash again: two tools may have validated batches    *)
(* over the same rows.  A revert is a new batch that compensates the       *)
(* amendments of an old run; nothing is ever taken out of the history.     *)
(*                                                                         *)
(* An entity is a position in `rows`.  The hash of a row is the row, and   *)
(* its revision is part of it, so a proposal's expected revision is the    *)
(* revision of its hash.  A batch prepared from older rows is refused in   *)
(* validation like any other bad one and changes nothing: the batches a    *)
(* tool carries on with are those whose hashes are of the rows it reads.   *)
(***************************************************************************)
EXTENDS Migrations, SequencesExt

CONSTANTS
    Plans,            \* prepared batches, but for the hashes: run and proposals
    KnownWeaknesses,
    MaxReverts        \* bound: compensating runs

(* A batch is a file.  Its run is any text, a name with the seconds that    *)
(* reverts put behind it, and may have been used for another batch.        *)
ASSUME PlansAssumption ==
    \A plan \in Plans : plan.proposals \in Seq(Range(plan.proposals))

VARIABLES
    rows,         \* observations, items, findings, reviews and sessions
    amendments,   \* data_amendments in the order of their rowids
    runs          \* audit_runs: proposed and applied counts

FirstRevision == 1      \* of the rows that were there when 13 added the column, and of new ones

Statuses(kind) == IF kind = "review" THEN {"active", "invalidated", "disputed"}
                                     ELSE {"active", "retracted", "disputed"}

(* The amendable columns of a kind of entity, as entity_value shows them.  *)
Columns(kind) ==
    CASE kind = "observation" -> {"status", "verdict", "link"}
      [] kind \in {"item", "finding"} -> {"status", "verdict"}
      [] kind = "review" -> {"status"}
      [] kind = "session" -> {"link", "summary"}

Json(row) == [f \in Columns(row.kind) |-> row[f]]

Value(json, f) == IF f \in DOMAIN json THEN json[f] ELSE None     \* missing and null alike
Coalesce(x, y) == IF x = None THEN y ELSE x

(* Which entities an operation is for, and what it may and must set.       *)
ValidOperation(p, kind) ==
    LET Sets(f, x) == f \in DOMAIN p.after /\ p.after[f] = x
        Only(fields) == DOMAIN p.after \subseteq fields
    IN CASE p.op = "amend_assessment" ->
                kind \in {"observation", "item", "review"} /\ Only({"verdict", "status"})
         [] p.op = "retract_observation" ->
                kind = "observation" /\ Only({"status"}) /\ Sets("status", "retracted")
         [] p.op = "reclassify_finding" -> kind = "finding" /\ Only({"verdict", "status"})
         [] p.op = "link_continuation" -> kind = "session" /\ Only({"link"})
         [] p.op = "mark_duplicate" ->
                /\ kind \in {"observation", "item", "finding"}
                /\ Only({"status"}) /\ Sets("status", "retracted")
         [] p.op = "reassign_target" ->
                kind = "observation" /\ Only({"link"}) /\ Value(p.after, "link") # None
         [] p.op = "add_recovered_finding" -> kind = "session" /\ "verdict" \in DOMAIN p.after
         [] p.op = "invalidate_review" ->
                kind = "review" /\ Only({"status"}) /\ Sets("status", "invalidated")
         [] p.op = "amend_summary" ->
                /\ kind = "session" /\ Only({"key", "summary"})
                /\ Value(p.after, "key") # None /\ "summary" \in DOMAIN p.after

Recovers(p) == p.op = "add_recovered_finding"

Recording(history, run, p) == {i \in DOMAIN history : history[i].run = run /\ history[i].id = p.id}

(* A certain proposal must cite, and a quotation must still be in the      *)
(* column it was taken from.                                               *)
SourcesMatch(p) ==
    /\ p.certain => p.cites # {}
    /\ \A c \in p.cites : c.entity \in DOMAIN rows /\ Value(Json(rows[c.entity]), c.column) = c.text

Ids(proposals) == {proposals[i].id : i \in DOMAIN proposals}

DependenciesKnown(proposals, i) ==
    \A d \in proposals[i].dependencies :
        d.id \in (IF d.qualified THEN Ids(proposals) ELSE Ids(SubSeq(proposals, 1, i)))

Acyclic(proposals) ==
    \A group \in SUBSET DOMAIN proposals \ {{}} : \E i \in group :
        \A j \in group : proposals[j].id \notin {d.id : d \in proposals[i].dependencies}

Fresh(current, p) == p.entity \in DOMAIN current /\ current[p.entity] = p.hash

ValidBatch(run, proposals) ==
    /\ \A i, j \in DOMAIN proposals : proposals[i].id = proposals[j].id => i = j
    /\ \A i \in DOMAIN proposals :
        LET p == proposals[i]
            recorded == Recording(amendments, run, p)
        IN /\ p.entity \in DOMAIN rows /\ ValidOperation(p, rows[p.entity].kind)
           /\ \A k \in recorded : amendments[k].op = p.op /\ amendments[k].after = p.after
           /\ recorded = {} => /\ SourcesMatch(p) /\ DependenciesKnown(proposals, i)
                               /\ Recovers(p) \/ Fresh(rows, p)
    /\ Acyclic(proposals)

(* The text stored for a summary is the JSON of its value, so the text of  *)
(* a text is that text quoted once more.                                   *)
ToText(value) == <<value[1], value[2] + 1>>

(* The UPDATE of a proposal: its WHERE names the expected revision, and    *)
(* the weakness a target is reassigned to must exist.                      *)
Matches(row, p) ==
    /\ row.revision = p.hash.revision
    /\ p.op = "reassign_target" => p.after.link \in KnownWeaknesses

Amended(row, p) ==
    LET next == [row EXCEPT !.revision = @ + 1]
        Keep(f) == Coalesce(Value(p.after, f), row[f])
    IN CASE p.op \in {"amend_assessment", "reclassify_finding"} ->
                [next EXCEPT !.status = Keep("status"),
                             !.verdict = IF row.kind = "review" THEN @ ELSE Keep("verdict")]
         [] p.op \in {"retract_observation", "mark_duplicate"} -> [next EXCEPT !.status = "retracted"]
         [] p.op \in {"link_continuation", "reassign_target"} ->
                [next EXCEPT !.link = Value(p.after, "link")]
         [] p.op = "invalidate_review" -> [next EXCEPT !.status = "invalidated"]
         [] p.op = "amend_summary" ->
                [next EXCEPT !.summary = IF p.after.key # "audit_quality" THEN @
                                         ELSE IF p.after.summary = None THEN None
                                         ELSE ToText(p.after.summary)]

RecoveredFinding(p) ==
    [kind |-> "finding", status |-> "active", verdict |-> p.after.verdict, link |-> None,
     summary |-> None, revision |-> FirstRevision]

(* set_status: a status outside the column's CHECK, and a row that is not  *)
(* one revision on afterwards, fail the transaction.                       *)
Updated(current, p) ==
    IF Recovers(p) THEN Append(current, RecoveredFinding(p))
    ELSE IF Matches(current[p.entity], p)
         THEN [current EXCEPT ![p.entity] = Amended(@, p)] ELSE current

UpdateHolds(new, p) ==
    Recovers(p) \/ /\ new[p.entity].revision = p.hash.revision + 1
                   /\ new[p.entity].kind # "session" =>
                        new[p.entity].status \in Statuses(new[p.entity].kind)

\* Mutant of StillFresh: the check inside the transaction is left to validation.
StillFreshTrusted(current, p) == TRUE
StillFresh(current, p) == Recovers(p) \/ Fresh(current, p)

Amendment(run, p) ==
    [run |-> run, id |-> p.id, entity |-> p.entity, hash |-> p.hash, op |-> p.op,
     before |-> p.before, after |-> p.after, cites |-> p.cites]

(* The transaction, proposal by proposal; what is recorded is skipped, and *)
(* one that fails fails them all.                                          *)
ApplyProposal(run, acc, p) ==
    LET new == Updated(acc.rows, p)
    IN IF ~acc.ok \/ Recording(acc.history, run, p) # {} THEN acc
       ELSE IF StillFresh(acc.rows, p) /\ UpdateHolds(new, p)
       THEN [ok |-> TRUE, rows |-> new, count |-> acc.count + 1,
             history |-> Append(acc.history, Amendment(run, p))]
       ELSE [acc EXCEPT !.ok = FALSE]

Trail(run, proposals) ==
    LET after[n \in 0 .. Len(proposals)] ==
            IF n = 0 THEN [ok |-> TRUE, rows |-> rows, history |-> amendments, count |-> 0]
            ELSE ApplyProposal(run, after[n - 1], proposals[n])
    IN after

Applied(run, proposals) == Trail(run, proposals)[Len(proposals)]

Prepared(p) ==
    [id |-> p.id, op |-> p.op, entity |-> p.entity, hash |-> rows[p.entity],
     before |-> Json(rows[p.entity]), after |-> p.after, cites |-> p.cites,
     certain |-> p.certain, dependencies |-> p.dependencies]

(* The compensating proposal of an amendment: from the object the original *)
(* carried as `before`, over the row as it is now.  It inherits the        *)
(* citations and adds one of the amendment, which is not looked up, so it  *)
(* never lacks one.                                                        *)
CompensatingOperation(op) ==
    CASE op \in {"retract_observation", "mark_duplicate", "invalidate_review",
                 "amend_assessment"} -> "amend_assessment"
      [] op = "add_recovered_finding" -> "mark_duplicate"
      [] OTHER -> op

CompensatingAfter(op, before) ==
    LET Original(fields) == [f \in fields \cap DOMAIN before |-> before[f]]
    IN CASE op \in {"amend_assessment", "reclassify_finding"} -> Original({"verdict", "status"})
         [] op \in {"link_continuation", "reassign_target"} -> [link |-> Value(before, "link")]
         [] op = "mark_duplicate" -> [status |-> "retracted"]
         [] op = "amend_summary" -> [key |-> "audit_quality", summary |-> Value(before, "summary")]

Compensating(a, index) ==
    LET op == CompensatingOperation(a.op)
    IN [id |-> <<index, a.id>>, op |-> op, entity |-> a.entity, hash |-> rows[a.entity],
        before |-> a.after, after |-> CompensatingAfter(op, a.before), cites |-> a.cites,
        certain |-> FALSE, dependencies |-> {}]

Made(history, run) == {i \in DOMAIN history : history[i].run = run}

FromLast(made, k) == CHOOSE i \in made : Cardinality({j \in made : j >= i}) = k

(* Every amendment of the run is compensated, the last one first.          *)
Reverting(run) ==
    LET made == Made(amendments, run)
    IN [k \in 1 .. Cardinality(made) |-> Compensating(amendments[FromLast(made, k)], k - 1)]

Reverts == {run \in DOMAIN runs : Len(run) > 1}

(* A revert's run is named for the run and the second it began in: two in  *)
(* the same second share a name.                                           *)
Seconds ==
    LET latest == Max({0} \cup {Last(run) : run \in Reverts}) IN {latest, latest + 1}

InitAudit == amendments = <<>> /\ runs = <<>>

Carry(t, run, proposals) ==
    /\ ValidBatch(run, proposals)
    /\ Go(t, [step |-> "validated", run |-> run, proposals |-> proposals])

ValidatePlan(t, plan) ==
    /\ t \in Tools /\ At(t, "open")
    /\ \A i \in DOMAIN plan.proposals : plan.proposals[i].entity \in DOMAIN rows
    /\ Carry(t, plan.run, [i \in DOMAIN plan.proposals |-> Prepared(plan.proposals[i])])
    /\ UNCHANGED <<store, log, crashes, commands, rows, amendments, runs>>

ValidateRevert(t, run, second) ==
    /\ t \in Tools /\ At(t, "open")
    /\ Cardinality(Reverts) < MaxReverts
    /\ run \in DOMAIN runs /\ second \in Seconds /\ Reverting(run) # <<>>
    /\ Carry(t, Append(run, second), Reverting(run))
    /\ UNCHANGED <<store, log, crashes, commands, rows, amendments, runs>>

(* verify, progress, preview and validate only read, and a refused batch   *)
(* ends the command.                                                       *)
EndCommand(t) ==
    /\ t \in Tools /\ At(t, "open")
    /\ Go(t, Down)
    /\ UNCHANGED <<store, log, crashes, commands, rows, amendments, runs>>

ApplyBatch(t) ==
    /\ At(t, "validated")
    /\ LET run == at[t].run
           proposals == at[t].proposals
           result == Applied(run, proposals)
           counts == IF run \in DOMAIN runs THEN runs[run]
                     ELSE [proposed |-> Len(proposals), applied |-> 0]
       IN \/ /\ result.ok
             /\ rows' = result.rows /\ amendments' = result.history
             /\ runs' = [r \in DOMAIN runs \cup {run} |->
                            IF r = run THEN [counts EXCEPT !.applied = @ + result.count] ELSE runs[r]]
          \/ ~result.ok /\ UNCHANGED <<rows, amendments, runs>>
    /\ Go(t, Down)
    /\ UNCHANGED <<store, log, crashes, commands>>

AuditCommand(t) ==
    \/ \E plan \in Plans : ValidatePlan(t, plan)
    \/ \E run \in DOMAIN runs, second \in Seconds : ValidateRevert(t, run, second)
    \/ EndCommand(t)
    \/ ApplyBatch(t)
=============================================================================

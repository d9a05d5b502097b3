-------------------------- MODULE MCStoreMaintenance --------------------------
(* Databases to find, batches to apply and requests to send.               *)
EXTENDS StoreMaintenance

MCTargets == {"a", "b"}

Unclassified == [w \in MCTargets |-> [active |-> w = "a", live |-> TRUE]]

OldSession(type, stamp) == [type |-> type, key |-> None, stamp |-> stamp]
KeyedSession == [type |-> "named", key |-> "canonical", stamp |-> "canonical"]
RenamedSession == [type |-> "renamed", key |-> None, stamp |-> "canonical"]

NewStore == [tables |-> "none", registry |-> {}, meta |-> None, weaknesses |-> <<>>,
             primary |-> {}, schedules |-> <<>>, sessions |-> <<>>, ledger |-> {}]

Snapshot3(sessions) ==
    [NewStore EXCEPT !.tables = "snapshot", !.meta = 3, !.weaknesses = Unclassified,
                     !.sessions = sessions, !.ledger = {1}]

SupportedSnapshot == Snapshot3(<<OldSession("named", "legacy")>>)
UntypedSnapshot == Snapshot3(<<OldSession("unknown", "legacy")>>)
OffsetSnapshot == Snapshot3(<<OldSession("named", "offset")>>)

Catalog == [NewStore EXCEPT !.tables = "catalog", !.weaknesses = Unclassified]
EarlyCatalog == [Catalog EXCEPT !.tables = "early catalog"]
ForeignCatalog ==
    [Catalog EXCEPT !.weaknesses =
        [w \in MCTargets \cup {"c"} |-> [active |-> TRUE, live |-> TRUE]]]
OtherFile == [NewStore EXCEPT !.tables = "other"]

Released(version, sessions) ==
    [NewStore EXCEPT !.tables = "snapshot", !.registry = 3 .. version, !.meta = version,
                     !.weaknesses = [w \in MCTargets |-> [active |-> TRUE, live |-> TRUE]],
                     !.primary = MCTargets, !.schedules = [w \in MCTargets |-> w = "a"],
                     !.sessions = sessions, !.ledger = {1}]

Version8 == Released(8, <<KeyedSession, RenamedSession>>)
RecordedSession == [KeyedSession EXCEPT !.type = None]
Version12 == Released(12, <<RecordedSession, RecordedSession>>)

Row(kind, verdict, link) ==
    [kind |-> kind, status |-> IF kind = "session" THEN None ELSE "active", verdict |-> verdict,
     link |-> link, summary |-> None, revision |-> FirstRevision]

(* An observation, an item, their session, a review and a finding.         *)
MCRows == <<Row("observation", "incorrect", "a"), Row("item", "correct", None),
            Row("session", None, None), Row("review", None, None), Row("finding", "error", None)>>

Bare(store0) == [store |-> store0, rows |-> <<>>]
MCSupported == {Bare(NewStore), Bare(SupportedSnapshot), Bare(Catalog), Bare(Version8),
                [store |-> Version12, rows |-> MCRows]}
MCFound == MCSupported \cup {Bare(UntypedSnapshot), Bare(OffsetSnapshot), Bare(EarlyCatalog),
                             Bare(ForeignCatalog),
                             Bare(OtherFile)}

Proposal(id, op, entity, after, cites, dependencies) ==
    [id |-> id, op |-> op, entity |-> entity, after |-> after, cites |-> cites,
     certain |-> cites # {}, dependencies |-> dependencies]

Cite(entity, column, text) == [entity |-> entity, column |-> column, text |-> text]

MCPlans ==
    {\* a duplicate and the continuation it shows
     [run |-> <<"link">>, proposals |->
        <<Proposal(1, "mark_duplicate", 1, [status |-> "retracted"], {Cite(2, "verdict", "correct")}, {}),
          Proposal(2, "link_continuation", 3, [link |-> "picture"], {},
                   {[qualified |-> FALSE, id |-> 1]})>>],
     \* another opinion of the same observation and what rests on it
     [run |-> <<"regrade">>, proposals |->
        <<Proposal(1, "amend_assessment", 1, [verdict |-> "correct"], {}, {}),
          Proposal(2, "invalidate_review", 4, [status |-> "invalidated"], {}, {})>>],
     \* the item the tutor was shown
     [run |-> <<"retract">>, proposals |->
        <<Proposal(1, "mark_duplicate", 2, [status |-> "retracted"], {}, {})>>],
     \* a summary and a finding that was lost
     [run |-> <<"recover">>, proposals |->
        <<Proposal(1, "amend_summary", 3, [key |-> "audit_quality", summary |-> <<"long", 0>>], {}, {}),
          Proposal(2, "add_recovered_finding", 3, [verdict |-> "error"], {}, {})>>],
     \* another file under the id of the first run: one of its proposals, and a new one
     [run |-> <<"link">>, proposals |->
        <<Proposal(2, "link_continuation", 3, [link |-> "picture"], {}, {}),
          Proposal(3, "reclassify_finding", 5, [verdict |-> "style"], {}, {})>>],
     \* fails in its second proposal
     [run |-> <<"reassign">>, proposals |->
        <<Proposal(1, "reclassify_finding", 5, [verdict |-> "style"], {}, {}),
          Proposal(2, "reassign_target", 1, [link |-> "unknown"], {}, {})>>]}

MCSessionOf == 2 :> 3

Feedback(key, asked) == [handoff |-> "w", key |-> key, cites |-> {2}, repairs |-> asked]
MCFeedbacks == {Feedback("k1", 1), Feedback("k1", 0), Feedback("k2", 2)}

MCRepairs == {[handoff |-> "w", key |-> "k3", number |-> 1], [handoff |-> "w", key |-> "k3", number |-> 2],
              [handoff |-> "w", key |-> "k4", number |-> 1]}
=============================================================================

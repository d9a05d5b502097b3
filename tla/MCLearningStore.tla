---------------------------- MODULE MCLearningStore ----------------------------
(* Inputs for LearningStore.                                               *)
EXTENDS LearningStore, TLC

Entry(key, active, primary, linked) ==
    [key |-> key, active |-> active, primary |-> primary, linked |-> linked]

MCPatches == {[mode |-> "written", focus |-> None]}
MCDefaults == [mode |-> "spontaneous", focus |-> "mixed"]
MCApproved == [mode |-> "written", focus |-> "oral"]

Draft(evidence, override, at, date, new, targeted, observed, reviewed) ==
    [evidence |-> evidence, override |-> override, at |-> at, date |-> date, new |-> new,
     targets |-> targeted, observed |-> observed, reviews |-> reviewed]

Review(key, eligible) == [key |-> key, eligible |-> eligible]

(* A candidate and a target of today; reviews backdated, of the future and *)
(* of now, one of them ineligible; and an override.                        *)
MCDrafts ==
    {Draft(FALSE, None, None, None, {Entry("a", None, None, FALSE), Entry("b", None, 2, TRUE)},
           {"b"}, {}, {}),
     Draft(TRUE, None, None, None, {}, {"a", "b"}, {"a"},
           {Review("a", TRUE), Review("b", FALSE)}),
     Draft(FALSE, None, 1, None, {}, {"a"}, {}, {Review("a", TRUE)}),
     Draft(TRUE, [mode |-> "written", focus |-> None], 3, 1, {Entry("a", FALSE, None, TRUE)},
           {"a"}, {}, {Review("a", TRUE)})}

MCWeaknessEdits == {Entry("a", None, None, FALSE), Entry("a", FALSE, 2, FALSE),
                    Entry("a", TRUE, None, FALSE)}

From(from, predicate, to) == [from |-> from, predicate |-> predicate, to |-> to]

(* Clients and idempotency keys are interchangeable.                       *)
Interchangeable == Permutations(Clients) \cup Permutations(IdempotencyKeys)

MCCurations ==
    {[key |-> 1, active |-> None, edges |-> <<From(1, "broader", 2)>>],
     [key |-> 3, active |-> TRUE, edges |-> <<From(3, "related", 1), From(3, "broader", 1)>>],
     [key |-> 2, active |-> FALSE, edges |-> <<>>],
     [key |-> 2, active |-> None, edges |-> <<From(2, "broader", 3)>>]}
=============================================================================

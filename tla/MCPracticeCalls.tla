---------------------------- MODULE MCPracticeCalls ----------------------------
(* Inputs for PracticeCalls: small requests that reach every rule.         *)
EXTENDS PracticeCalls

(***************************************************************************)
(* Tutoring: a first turn with one or two attempts and a second with one,  *)
(* every attempt with one observation (or two), each of a few shapes.      *)
(***************************************************************************)
Saw(key, accuracy, hint, phase) ==
    [key |-> key, hint |-> hint, phase |-> phase, role |-> "targeted",
     outcome |-> CASE accuracy = "not_assessable" -> "omitted"
                   [] accuracy = "correct" -> "correct" [] OTHER -> "incorrect",
     effort |-> IF hint = "light" THEN "effortful" ELSE "effortless",
     strength |-> "spontaneous_production",
     assessment |-> [accuracy |-> accuracy,
                     realization |-> IF accuracy = "not_assessable"
                                     THEN "not_observed" ELSE "used"]]

Evidence(kind, original, exposure, cueing, scenario) ==
    [kind |-> kind, original |-> original, exposure |-> exposure,
     cueing |-> cueing, scenario |-> scenario]

Plain(scenario) == Evidence("initial", None, "none_known", "none_detected", scenario)

Shape(evidence, observations, interventions) ==
    [evidence |-> evidence, observations |-> observations, interventions |-> interventions]

Good(scenario) == Shape(Plain(scenario), <<Saw("a", "correct", "no_hint", "cold_retrieval")>>, <<>>)

Shapes ==
    {Good("s1"), Good("s2"),
     Shape(Plain("s2"), <<Saw("a", "incorrect", "no_hint", "transfer")>>, <<>>),
     Shape(Plain("s2"), <<Saw("a", "incorrect", "no_hint", "transfer")>>, <<{"a"}>>),
     Shape(Plain("s2"), <<Saw("a", "not_assessable", "no_hint", "transfer")>>, <<{"b"}>>),
     Shape(Plain("s1"), <<Saw("a", "correct", "light", "cold_retrieval"),
                          Saw("b", "incorrect", "no_hint", "cold_retrieval")>>, <<>>),
     Shape(Plain("s1"), <<Saw("a", "correct", "no_hint", "guided_practice")>>, <<{}>>),
     Shape(Evidence("initial", None, "model", "none_detected", "s2"),
           <<Saw("a", "correct", "no_hint", "cold_retrieval")>>, <<>>),
     Shape(Evidence("later_review", None, "none_known", "unknown", "s2"),
           <<Saw("a", "incorrect", "no_hint", "cold_retrieval")>>, <<>>),
     Shape(Evidence("self_correction", <<1, 1>>, "none_known", "none_detected", "s2"),
           <<Saw("a", "correct", "no_hint", "cold_retrieval")>>, <<>>)}

Prompts == {[explicit |-> FALSE, supplies |-> {}], [explicit |-> FALSE, supplies |-> {"b"}]}

Turn(prompt, attempts) ==
    [drill |-> "question_answer", prompt |-> prompt, targets |-> {"a"}, attempts |-> attempts]

MCConversations ==
    {<<Turn(p, first), Turn([explicit |-> FALSE, supplies |-> {}], <<z>>)>> :
        p \in Prompts, z \in Shapes,
        first \in {<<x>> : x \in Shapes} \cup {<<x, y>> : x, y \in Shapes}}

(***************************************************************************)
(* Briefs.                                                                 *)
(***************************************************************************)
Drill(drill, step, weight) ==
    [drill |-> drill, stage |-> step, weight |-> weight, distance |-> 0]

SomeRecs == {Drill("translation", "recognition", 3), Drill("question_answer", "transfer", 2),
             [drill |-> "question_answer", stage |-> "transfer", weight |-> 2, distance |-> 1],
             Drill("question_answer", "controlled", 1)}

Row(key, due, errors, recall, branch, recs) ==
    [key |-> key, due |-> due, errors |-> errors, recall |-> recall, branch |-> branch,
     recs |-> recs, own |-> IF key = 4 THEN {Drill("retell", "transfer", 9)} ELSE {}]

Rows == {Row(1, 3, 0, 5, "verbs", {}), Row(2, 3, 0, 4, "verbs", SomeRecs),
         Row(3, 4, 0, 6, "nouns", {}), Row(4, 9, 0, None, "nouns", {}),
         Row(5, None, 2, None, "verbs", SomeRecs), Row(6, None, 4, None, "nouns", {}),
         Row(7, None, 1, None, "nouns", {})}

Today == 5

Mixed == [mode |-> "mixed", excluded |-> {}, maximum |-> 5]
Picky == [mode |-> "mixed", excluded |-> {"question_answer", "retell"}, maximum |-> 5]
Open  == [mode |-> "spontaneous", excluded |-> {"translation"}, maximum |-> 2]

Ask == [activity |-> None, mix |-> "auto", count |-> None, keys |-> None, allowed |-> None,
        config |-> None, explore |-> FALSE, upcoming |-> TRUE, exam |-> None]

DrillBriefs ==
    [prefs |-> {Mixed}, rows |-> SUBSET Rows, day |-> {Today},
     request |-> {[Ask EXCEPT !.mix = mix, !.count = count, !.keys = keys,
                              !.explore = explore, !.upcoming = upcoming] :
        mix \in {"auto", "recognition_to_production"}, count \in {None, 1, 3, 5},
        keys \in {None, {}, {2, 5}}, explore \in BOOLEAN, upcoming \in BOOLEAN}]

Set(field, value) == [B!NoConfig EXCEPT ![field] = value]

ActivityBriefs ==
    [prefs |-> {Mixed, Picky, Open}, day |-> {Today},
     rows |-> {Rows, {x \in Rows : x.key \in {2, 5}}, {x \in Rows : x.key \in {2, 4, 6}}},
     request |-> {[Ask EXCEPT !.activity = activity, !.count = count, !.config = config,
                              !.mix = mix, !.exam = exam, !.keys = keys] :
        activity \in B!Activities, count \in {None, 1, 2, 3, 5},
        mix \in {"auto", "production_focused"}, exam \in {None, "oral_task_1"},
        keys \in {None, {}},
        config \in {None, B!NoConfig, Set("questions", 3), Set("complications", 0),
                    Set("complications", 2), Set("hidden", FALSE), Set("pace", TRUE)}}]

MCBriefFamilies == {DrillBriefs, ActivityBriefs}

(***************************************************************************)
(* Delivery: every recording of up to eleven frames.                       *)
(***************************************************************************)
MCNarrowGaps == {<<4, 6>>, <<5, 7>>, <<8, 10>>}

MCRecordings == UNION {[1..n -> BOOLEAN] : n \in 0..11}
=============================================================================

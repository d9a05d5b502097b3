---------------------------- MODULE PracticeBrief ----------------------------
(***************************************************************************)
(* Planning a practice session: practice_brief and what it is made of      *)
(* (src/db.rs, src/production.rs, src/activities.rs, src/server.rs), and   *)
(* the validation an activity recording goes through afterwards            *)
(* (src/activities.rs).  Everything here is a function of its arguments.   *)
(*                                                                         *)
(* A weakness row is [key, due, errors, recall, branch, own, recs]: due is *)
(* a learning day or None, errors stands for the four onboarding counters  *)
(* compared one after the other, recall for the predicted retrievability   *)
(* (None when there is no memory state), own and recs are the drill        *)
(* recommendations of the target itself and of its concepts.  A request is *)
(* [activity, mix, count, keys, allowed, config, explore, upcoming, exam]. *)
(***************************************************************************)
EXTENDS Integers, Sequences, SequencesExt

CONSTANT None   \* an absent value

Drills == {"translation", "situational_response", "sentence_transformation",
           "question_answer", "sentence_completion", "sentence_combining",
           "error_correction", "minimal_pair_choice", "dialogue_completion",
           "micro_story", "retell", "fluency_4_3_2"}

Production == {"controlled", "transfer", "fluency"}

SingleResponse == {"picture_narration", "retell_reconstruction", "dictogloss",
                   "voice_diary", "read_close_explain"}

CompatibleDrills ==
    [situational_response |-> {"situational_response"},
     picture_narration |-> {"micro_story", "retell"},
     question_answer_sprint |-> {"question_answer"},
     retell_reconstruction |-> {"retell"},
     corrective_conversation |-> {"question_answer", "situational_response",
                                  "dialogue_completion"},
     sentence_transformation_sprint |-> {"sentence_transformation"},
     dictogloss |-> {"retell"},
     voice_diary |-> {"situational_response", "micro_story"},
     read_close_explain |-> {"retell"},
     role_play_complications |-> {"situational_response", "dialogue_completion",
                                  "question_answer"}]

Activities == DOMAIN CompatibleDrills

DefaultCount(activity) ==
    CASE activity \in {"situational_response", "role_play_complications"} -> 4
      [] activity \in SingleResponse -> 1
      [] OTHER -> 6

(* The configuration fields that bind the recording; pace stands for the   *)
(* others (preparation, response time, unpredictable follow-ups).          *)
NoConfig == [pace |-> None, questions |-> None, exposures |-> None,
             hidden |-> None, complications |-> None]

FieldActivities ==
    [pace          |-> Activities \ {"sentence_transformation_sprint"},
     questions     |-> {"question_answer_sprint"},
     exposures     |-> {"retell_reconstruction", "dictogloss"},
     hidden        |-> {"retell_reconstruction", "dictogloss", "read_close_explain"},
     complications |-> {"role_play_complications"}]

DefaultConfig(activity) ==
    [f \in DOMAIN NoConfig |->
        IF activity \notin FieldActivities[f] THEN None
        ELSE CASE f = "questions" -> 6
               [] f = "exposures" -> IF activity = "dictogloss" THEN 2 ELSE 1
               [] f = "complications" -> 1
               [] OTHER -> TRUE]

ConfigFieldsFit(activity, config) ==
    /\ \A f \in DOMAIN NoConfig : config[f] # None => activity \in FieldActivities[f]
    /\ config.hidden = FALSE => activity \notin {"dictogloss", "read_close_explain"}

MergedConfig(activity, config) ==
    [f \in DOMAIN NoConfig |-> IF config # None /\ config[f] # None
                               THEN config[f] ELSE DefaultConfig(activity)[f]]

(***************************************************************************)
(* The policy's say (production.rs, constrain).                            *)
(***************************************************************************)
OpenDrills == {"situational_response", "question_answer", "micro_story", "retell"}

OpenActivities == {"situational_response", "picture_narration", "role_play_complications",
                   "question_answer_sprint", "voice_diary", "corrective_conversation"}

Spontaneous(prefs) == prefs.mode = "spontaneous"

Permitted(prefs) ==
    {d \in Drills \ prefs.excluded : Spontaneous(prefs) => d \in OpenDrills}

WritingTasks == {"writing_task_1", "writing_task_2", "full_writing"}
OralTasks == {"oral_task_1", "oral_task_2", "oral_task_3", "full_oral"}

(* A complete exam task fixes its number of turns and its format.          *)
ScopedToExam(r) ==
    IF r.exam \in WritingTasks
    THEN [r EXCEPT !.count = IF r.exam = "full_writing" THEN 2 ELSE 1,
                   !.allowed = {"micro_story"}]
    ELSE IF r.exam \in OralTasks
    THEN [r EXCEPT !.count = IF r.exam = "full_oral" THEN 3 ELSE 1,
                   !.allowed = {"situational_response"}]
    ELSE r

Lesser(a, b) == IF a < b THEN a ELSE b

Constrained(prefs, request) ==
    LET r     == ScopedToExam(request)
        asked == IF r.allowed = None THEN Drills ELSE r.allowed
    IN [r EXCEPT
          !.allowed = IF Spontaneous(prefs) \/ prefs.excluded # {}
                      THEN asked \cap Permitted(prefs) ELSE @,
          !.count = IF Spontaneous(prefs)
                    THEN Lesser(IF @ = None THEN 3 ELSE @, prefs.maximum) ELSE @]

Conflicts(prefs, request) ==
    LET r == ScopedToExam(request) IN
    \/ r.allowed # None /\ ~(r.allowed \subseteq Permitted(prefs))
    \/ Spontaneous(prefs) /\ r.mix \in {"translation_only", "recognition_to_production",
                                        "fluency"}
    \/ Spontaneous(prefs) /\ r.activity # None /\ r.activity \notin OpenActivities

(***************************************************************************)
(* Which drills a target may be practised with (db.rs).                    *)
(***************************************************************************)
(* The overrides of the target; else the recommendations of its concepts   *)
(* and what is broader, the heaviest per drill and stage, nearest first.   *)
Recommendations(overrides, linked) ==
    LET from == IF overrides # {} THEN overrides ELSE linked
        better(x, y) == x.weight > y.weight \/ (x.weight = y.weight /\ x.distance < y.distance)
    IN {x \in from : ~\E y \in from : y.drill = x.drill /\ y.stage = x.stage /\ better(y, x)}

Fallback(stage, drills) ==
    {[drill |-> d, stage |-> stage, weight |-> 1, distance |-> 99] : d \in drills}

GeneralFallback ==
    Fallback("recognition", {"minimal_pair_choice", "error_correction"})
    \cup Fallback("controlled", {"translation", "sentence_transformation",
                                 "sentence_completion", "sentence_combining",
                                 "dialogue_completion"})
    \cup Fallback("transfer", OpenDrills)
    \cup Fallback("fluency", {"fluency_4_3_2"})

ActivityFallback(activity) ==
    LET controlled == {"sentence_transformation", "dialogue_completion"} IN
    Fallback("controlled", CompatibleDrills[activity] \cap controlled)
    \cup Fallback("transfer", CompatibleDrills[activity] \ controlled)

MixDrills(mix) ==
    CASE mix = "production_focused" -> OpenDrills \cup
            {"sentence_transformation", "dialogue_completion", "sentence_combining",
             "sentence_completion"}
      [] mix = "translation_only" -> {"translation"}
      [] mix = "fluency" -> {"fluency_4_3_2"}
      [] OTHER -> Drills

(* Empty when no recommendation survives, which is an error to the caller. *)
Eligible(r, recs) ==
    LET fitting == IF r.activity = None THEN recs
                   ELSE {x \in recs : x.drill \in CompatibleDrills[r.activity]}
        base    == IF fitting # {} THEN fitting
                   ELSE IF r.activity = None THEN GeneralFallback
                   ELSE ActivityFallback(r.activity)
        allowed == {x \in base : r.allowed = None \/ x.drill \in r.allowed}
        mixed   == {x \in allowed : x.drill \in MixDrills(r.mix)}
    IN IF r.mix = "recognition_to_production"
          /\ ~((\E x \in mixed : x.stage = "recognition")
               /\ (\E x \in mixed : x.stage \in Production))
       THEN {} ELSE mixed

(* The heaviest, then by name; names stand in their order here.            *)
Heaviest(recs) == {x \in recs : \A y \in recs : y.weight <= x.weight}

(***************************************************************************)
(* The order targets are taken in (db.rs).                                 *)
(***************************************************************************)
\* Mutant of RowBefore: the target due last comes first.
RowBeforeLatest(a, b) ==
    IF a.due = None \/ b.due = None THEN a.due # None \/ (b.due = None /\ a.key < b.key)
    ELSE a.due > b.due \/ (a.due = b.due /\ a.key < b.key)

RowBefore(a, b) ==
    LET both  == a.due # None /\ b.due # None
        none  == a.due = None /\ b.due = None
        earlier == \/ a.recall # None /\ b.recall = None
                   \/ a.recall # None /\ b.recall # None /\ a.recall < b.recall
    IN \/ a.due # None /\ b.due = None
       \/ both /\ a.due < b.due
       \/ none /\ a.errors > b.errors
       \/ /\ both => a.due = b.due
          /\ none => a.errors = b.errors
          /\ both \/ none
          /\ \/ earlier
             \/ a.recall = b.recall /\ a.key < b.key

IsDue(row, day) == row.due = None \/ row.due <= day

Initialised(row) == row.due # None

(* At place n is the row that n - 1 others come before.                    *)
Sorted(rows) ==
    [n \in 1..Cardinality(rows) |->
        CHOOSE x \in rows : Cardinality({y \in rows : RowBefore(y, x)}) = n - 1]

(* Due reviews, then at most two new targets (exploring: before the due    *)
(* ones), then what is not due yet.                                        *)
Candidates(r, rows, day) ==
    LET due      == Sorted({x \in rows : Initialised(x) /\ IsDue(x, day)})
        fresh    == Sorted({x \in rows : ~Initialised(x)})
        upcoming == Sorted({x \in rows : Initialised(x) /\ ~IsDue(x, day)})
        two      == SubSeq(fresh, 1, Lesser(2, Len(fresh)))
    IN IF r.keys # None THEN Sorted(rows)
       ELSE (IF r.explore THEN two \o due ELSE due \o two)
            \o (IF r.upcoming THEN upcoming ELSE <<>>)

(* One segment of equal due days, row by row: a row whose branch was used  *)
(* goes to the end, another one before the first row whose branch was not, *)
(* and there is never such a row.                                          *)
DiversifySegment(segment) ==
    LET step(acc, row) ==
          LET unused == {i \in DOMAIN acc.out : acc.out[i].branch \notin acc.used}
              at     == IF unused = {} THEN Len(acc.out) + 1
                        ELSE CHOOSE i \in unused : \A j \in unused : i <= j
          IN IF row.branch \in acc.used
             THEN [acc EXCEPT !.out = Append(@, row)]
             ELSE [out |-> InsertAt(acc.out, at, row), used |-> acc.used \cup {row.branch}]
        after[n \in 0..Len(segment)] ==
          IF n = 0 THEN [out |-> <<>>, used |-> {}] ELSE step(after[n - 1], segment[n])
    IN after[Len(segment)].out

(* Segments are the maximal runs of rows with the same due day; each keeps *)
(* its places.                                                             *)
Diversify(rows) ==
    LET same(i, j) == \A k \in i..j : rows[k].due = rows[i].due
        first(i) == CHOOSE j \in 1..i : same(j, i) /\ (j = 1 \/ ~same(j - 1, i))
        last(i)  == CHOOSE j \in i..Len(rows) : same(i, j) /\ (j = Len(rows) \/ ~same(i, j + 1))
    IN [i \in DOMAIN rows |->
           DiversifySegment(SubSeq(rows, first(i), last(i)))[i + 1 - first(i)]]

(***************************************************************************)
(* How many items, and for which target (db.rs).                           *)
(***************************************************************************)
EffectiveCount(r) ==
    IF r.activity # None
    THEN IF r.count = None THEN DefaultCount(r.activity) ELSE r.count
    ELSE IF r.mix = "fluency" THEN 1
    ELSE IF r.count = None THEN 6 ELSE r.count

BriefConfig(r) ==
    LET merged == MergedConfig(r.activity, r.config) IN
    IF r.activity = "question_answer_sprint"
       /\ (r.config = None \/ r.config.questions = None)
    THEN [merged EXCEPT !.questions = EffectiveCount(r)] ELSE merged

(* What the tool refuses before it plans, in server.rs and again in db.rs. *)
RequestFits(r) ==
    LET count == EffectiveCount(r) IN
    /\ r.activity # None => r.mix \notin {"translation_only",
                                             "recognition_to_production", "fluency"}
    /\ r.mix = "custom" => r.allowed \notin {None, {}}
    /\ r.mix = "fluency" => r.count \in {None, 1}
    /\ count \in 1..20
    /\ r.activity \in SingleResponse => count = 1
    /\ r.activity = None => r.config = None
    /\ r.config # None => r.config # NoConfig /\ ConfigFieldsFit(r.activity, r.config)
    /\ r.activity = "question_answer_sprint" => BriefConfig(r).questions = count
    /\ r.activity = "role_play_complications" => BriefConfig(r).complications < count

TargetLimit(r, candidates) ==
    IF r.keys # None THEN Len(candidates)
    ELSE IF r.mix = "recognition_to_production" THEN EffectiveCount(r) \div 2
    ELSE (EffectiveCount(r) + 1) \div 2

\* Mutant of Allocate: the first target takes all that is left over.
AllocateRestToFirst(total, n) ==
    [i \in 1..n |-> IF total > n /\ i = 1 THEN 1 + total - n ELSE 1]

(* One each, then round and round while any are left.                      *)
Allocate(total, n) ==
    [i \in 1..n |-> IF total <= n THEN 1
                    ELSE 1 + (total - n) \div n + (IF i <= (total - n) % n THEN 1 ELSE 0)]

(* Item by item, the next target round the circle that has some left.      *)
RoundRobin(allocation) ==
    LET n     == Len(allocation)
        total == SumFunctionOnSet(allocation, 1..n)
        step(acc) ==
          LET open(i)  == acc.used[i] < allocation[i]
              at(k)    == ((acc.cursor + k) % n) + 1
              k        == CHOOSE x \in 0..(n - 1) :
                            open(at(x)) /\ \A y \in 0..(x - 1) : ~open(at(y))
          IN [targets |-> Append(acc.targets, at(k)),
              used    |-> [acc.used EXCEPT ![at(k)] = @ + 1],
              cursor  |-> at(k) % n]
        after[item \in 0..total] ==
          IF item = 0 THEN [targets |-> <<>>, used |-> [i \in 1..n |-> 0], cursor |-> 0]
          ELSE step(after[item - 1])
    IN after[total].targets

\* Mutant of PhaseForItem: the complications begin an item too early.
PhaseForItemEarly(activity, item, total, complications) ==
    IF activity \notin {"corrective_conversation", "role_play_complications"} \/ item = 1
    THEN "initial"
    ELSE IF activity = "role_play_complications" /\ item >= total - complications
         THEN "complication" ELSE "follow_up"

(* The complications close a role play, the first turn never is one.       *)
PhaseForItem(activity, item, total, complications) ==
    IF activity \notin {"corrective_conversation", "role_play_complications"} \/ item = 1
    THEN "initial"
    ELSE IF /\ activity = "role_play_complications"
            /\ complications > 0
            /\ item > total - complications
         THEN "complication" ELSE "follow_up"

(***************************************************************************)
(* The brief: a refusal, or the targets with their share and the items.    *)
(* The items of a spontaneous round are taken out of the answer again.     *)
(***************************************************************************)
Refused(why) == [status |-> why, targets |-> <<>>, items |-> <<>>]

(* The rows a request selects: all active ones, or those it names.  A list *)
(* that names none selects all as well, and yet counts as a list: the      *)
(* targets are not limited to half the items.                              *)
Selected(r, rows) == IF r.keys \in {None, {}} THEN rows ELSE {x \in rows : x.key \in r.keys}

KeysFit(r, rows) ==
    r.keys # None =>
        /\ Cardinality(r.keys) <= EffectiveCount(r)
        /\ r.mix = "recognition_to_production" => 2 * Cardinality(r.keys) <= EffectiveCount(r)
        /\ r.keys \subseteq {x.key : x \in rows}

Chosen(r, rows, day) ==
    LET candidates == Diversify(Candidates(r, Selected(r, rows), day))
    IN SubSeq(candidates, 1, Lesser(Len(candidates), TargetLimit(r, candidates)))

DrillsFor(r, row) == Eligible(r, Recommendations(row.own, row.recs))

Complications(r) ==
    LET asked == BriefConfig(r).complications IN IF asked = None THEN 0 ELSE asked

Brief(prefs, request, rows, day) ==
    LET r       == Constrained(prefs, request)
        chosen  == Chosen(r, rows, day)
        shares  == Allocate(EffectiveCount(r), Len(chosen))
        order   == RoundRobin(shares)
        item(i) == [target |-> chosen[order[i]].key,
                    drills |-> {x.drill : x \in Heaviest(DrillsFor(r, chosen[order[i]]))},
                    phase  |-> PhaseForItem(r.activity, i, Len(order), Complications(r))]
    IN IF ~Conflicts(prefs, request) /\ r.exam \in WritingTasks \cup OralTasks
       THEN Refused("exam_task_practice")
       ELSE IF Conflicts(prefs, request) \/ r.allowed = {}
       THEN Refused("no_compatible_activity")
       ELSE IF ~RequestFits(r) \/ ~KeysFit(r, rows) \/ chosen = <<>> THEN Refused("invalid")
       ELSE IF \E i \in DOMAIN chosen : DrillsFor(r, chosen[i]) = {} THEN Refused("no_compatible_activity")
       ELSE [status  |-> "planned",
             targets |-> [i \in DOMAIN chosen |->
                             [key |-> chosen[i].key, share |-> shares[i], row |-> chosen[i]]],
             items   |-> IF r.activity = None \/ Spontaneous(prefs) THEN <<>>
                         ELSE [i \in DOMAIN order |-> item(i)]]

(***************************************************************************)
(* Recording one activity run (activities.rs).  An item is                 *)
(* [targets, drill, phase], a stimulus [kind, mode, text, uri].            *)
(***************************************************************************)
StimulusModes ==
    [situation |-> {"read", "conversation"}, source_text |-> {"read"},
     article_reference |-> {"read"}, image_description |-> {"viewed"},
     image_sequence_description |-> {"viewed"},
     media_transcript |-> {"heard_reported", "viewed"}, complication |-> {"conversation"}]

StimulusFits(s) ==
    /\ s.mode \in StimulusModes[s.kind]
    /\ s.kind # "article_reference" => s.text /\ ~s.uri
    /\ s.text \/ s.uri

(* The kinds one of which the activity needs.                              *)
RequiredStimulus(activity) ==
    CASE activity = "picture_narration" -> {"image_description", "image_sequence_description"}
      [] activity \in {"retell_reconstruction", "dictogloss"} ->
            {"source_text", "media_transcript"}
      [] activity = "read_close_explain" -> {"source_text", "article_reference"}
      [] activity = "role_play_complications" -> {"situation"}
      [] OTHER -> {}

StimuliSatisfy(activity, stimuli) ==
    RequiredStimulus(activity) # {} =>
        \E s \in stimuli : /\ s.kind \in RequiredStimulus(activity)
                           /\ s.kind # "article_reference" => s.text /\ ~s.uri

ActivityItemFits(activity, i) ==
    /\ Cardinality(i.targets) = 1
    /\ i.drill \in CompatibleDrills[activity]
    /\ i.phase = "complication" =>
          activity \in {"role_play_complications", "corrective_conversation"}

RunConfigFits(activity, config, items) ==
    LET complications == {i \in DOMAIN items : items[i].phase = "complication"} IN
    /\ config # None => config # NoConfig /\ ConfigFieldsFit(activity, config)
    /\ activity = "dictogloss" => /\ config # None
                                  /\ config.exposures # None
                                  /\ config.hidden = TRUE
    /\ activity = "read_close_explain" => config # None /\ config.hidden = TRUE
    /\ config # None =>
        /\ config.questions # None => config.questions = Len(items)
        /\ config.complications # None =>
              /\ config.complications = Cardinality(complications)
              /\ config.complications < Len(items)

ActivityRecordingFits(activity, config, stimuli, items) ==
    /\ \A s \in stimuli : StimulusFits(s)
    /\ \A i \in DOMAIN items : ActivityItemFits(activity, items[i])
    /\ IF activity \in SingleResponse THEN Len(items) = 1 ELSE items # <<>>
    /\ StimuliSatisfy(activity, stimuli)
    /\ RunConfigFits(activity, config, items)
=============================================================================

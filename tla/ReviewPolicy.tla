---------------------------- MODULE ReviewPolicy ----------------------------
(***************************************************************************)
(* When may a recorded session move a review schedule?                     *)
(* (src/production.rs, src/evidence.rs)                                    *)
(*                                                                         *)
(* A recorded session carries attempts, observations and, optionally,      *)
(* production evidence: what the tutor says about the cueing, exposure and *)
(* interventions around each attempt.  validate_evidence refuses evidence  *)
(* that does not fit the session; attempt_class sorts the attempts;        *)
(* review_decision says whether a proposed review is supported.            *)
(*                                                                         *)
(* A request r is a record                                                 *)
(*   items        item_no -> [drill, prompt, targets]                      *)
(*   attempts     attempt_no -> [item, transcript]                         *)
(*   obs          observation_no -> [key, outcome, role, phase, hint,      *)
(*                                   effort, strength, attempt]            *)
(*   evidence     None, or [attempts, observations: sequences;             *)
(*                          interventions, variations: sets]               *)
(* Texts are abstracted: a prompt is [explicit, supplies], whether it      *)
(* orders a manipulation and the targets whose wording it gives away;      *)
(* transcript, rationale and provenance are "is it there".                 *)
(***************************************************************************)
EXTENDS Integers, Sequences, FiniteSets

CONSTANTS
    None,      \* an absent value
    Phrased    \* targets of the two constructions whose wording the rule knows

(* Why an observation may not count.                                       *)
Exclusions == {"target_not_observed", "prompt_supplied_target", "assisted_retry",
               "unknown_assistance", "assisted_or_cued",
               "not_independent_assessment_phase", "insufficient_rating_evidence"}

ASSUME AbsentIsNoText == None \notin Exclusions \cup {"no_hint"}

(* How an attempt was cued, and what the learner had seen before it.       *)
Cueings   == {"none_detected", "indirect", "target_form", "model", "unknown"}
Exposures == {"none_known", "relevant_wording", "model", "unknown"}

Controlled == {"translation", "sentence_transformation", "sentence_completion",
               "sentence_combining", "error_correction", "minimal_pair_choice",
               "dialogue_completion"}

(* The phase an observation is stored with, or "rejected".                 *)
NormalizedPhase(o) ==
    LET phase == IF o.phase = None /\ o.role = "incidental"
                 THEN "incidental" ELSE o.phase
        fits  == IF o.role = "incidental" THEN phase = "incidental"
                 ELSE phase \in {"cold_retrieval", "guided_practice",
                                 "immediate_retry", "transfer"}
    IN IF /\ fits
          /\ phase # "incidental" => o.strength # None
          /\ ~(o.hint = "answer_shown" /\ o.outcome = "correct")
       THEN phase ELSE "rejected"

(* A prompt is found out when it orders a manipulation, or gives away the  *)
(* wording of one of the targets it is meant to elicit ("llevar" with a    *)
(* duration, "para que"; of no other target is the wording known).         *)
PromptFinding(prompt, targets) ==
    prompt.explicit \/ prompt.supplies \cap targets \cap Phrased # {}

ObservationsOf(r, attempt) == {n \in DOMAIN r.obs : r.obs[n].attempt = attempt}

NoDuplicate(seq, Key(_)) ==
    \A i, j \in DOMAIN seq : Key(seq[i]) = Key(seq[j]) => i = j

AttemptEvidenceFits(r, a) ==
    /\ a.attempt \in DOMAIN r.attempts
    /\ r.attempts[a.attempt].transcript
    /\ r.attempts[a.attempt].item \in DOMAIN r.items
    /\ a.provenance
    /\ a.original # 0 => a.original < a.attempt /\ a.original \in DOMAIN r.attempts
    /\ a.kind = "self_correction" => a.original # 0
    /\ a.kind = "initial" => a.original = 0

AccuracyFits(accuracy, outcome) ==
    CASE accuracy = "correct" -> outcome \in {"correct", "prompted_correct"}
      [] accuracy = "incorrect" -> outcome = "incorrect"
      [] accuracy = "partially_correct" -> outcome = "partially_correct"
      [] OTHER -> TRUE

Seen == {"used", "attempted"}

ObservationEvidenceFits(r, o) ==
    /\ o.observation \in DOMAIN r.obs
    /\ o.attempt \in DOMAIN r.attempts
    /\ r.obs[o.observation].attempt = o.attempt
    /\ o.realization \notin Seen => o.accuracy = "not_assessable"
    /\ o.provenance
    /\ IF o.realization \in Seen
       THEN AccuracyFits(o.accuracy, r.obs[o.observation].outcome)
       ELSE r.obs[o.observation].outcome = "omitted"

InterventionFits(r, i) ==
    /\ i.after \in DOMAIN r.attempts
    /\ i.before # 0 => i.before > i.after /\ i.before \in DOMAIN r.attempts

(* A self-correction answers an intervention between it and its original.  *)
SelfCorrectionExplained(e, a) ==
    a.kind = "self_correction" =>
        \E i \in e.interventions : a.original <= i.after /\ i.before = a.attempt

ValidEvidence(r) ==
    LET e == r.evidence IN
    \/ e = None
    \/ /\ NoDuplicate(e.attempts, LAMBDA a : a.attempt)
       /\ \A i \in DOMAIN e.attempts : AttemptEvidenceFits(r, e.attempts[i])
       /\ Len(e.attempts) = Cardinality(DOMAIN r.attempts)
       /\ NoDuplicate(e.observations, LAMBDA o : o.observation)
       /\ \A i \in DOMAIN e.observations : ObservationEvidenceFits(r, e.observations[i])
       /\ Len(e.observations) = Cardinality(DOMAIN r.obs)
       /\ \A i \in e.interventions : InterventionFits(r, i)
       /\ \A i \in DOMAIN e.attempts : SelfCorrectionExplained(e, e.attempts[i])
       /\ \A v \in e.variations :
              v.rationale /\ \A n \in v.observations :
                                 n \in DOMAIN r.obs /\ r.obs[n].key = v.key

(* What an attempt was asked to show: its item's targets and whatever was  *)
(* observed in it.                                                         *)
TargetsOf(r, attempt) ==
    r.items[r.attempts[attempt].item].targets
        \cup {r.obs[n].key : n \in ObservationsOf(r, attempt)}

\* Mutant of Exposed: only the attempt right after an intervention is aided.
ExposedNext(r, e, a) ==
    \E i \in e.interventions :
        /\ i.before = a.attempt
        /\ i.targets = {} \/ i.targets \cap TargetsOf(r, a.attempt) # {}

Exposed(r, e, a) ==
    \E i \in e.interventions :
        /\ i.after < a.attempt
        /\ i.targets = {} \/ i.targets \cap TargetsOf(r, a.attempt) # {}

Hinted(r, attempt) ==
    \E n \in ObservationsOf(r, attempt) : r.obs[n].hint \notin {None, "no_hint"}

AttemptClass(r, e, a) ==
    IF a.attempt \notin DOMAIN r.attempts \/ r.attempts[a.attempt].item \notin DOMAIN r.items
    THEN "unknown"
    ELSE LET item == r.items[r.attempts[a.attempt].item] IN
         IF \/ Hinted(r, a.attempt)
            \/ a.kind = "self_correction"
            \/ Exposed(r, e, a)
            \/ a.exposure \in {"model", "relevant_wording"}
         THEN "assisted"
         ELSE IF \/ PromptFinding(item.prompt, TargetsOf(r, a.attempt))
                 \/ a.cueing \in {"indirect", "target_form", "model"}
                 \/ item.drill \in Controlled
              THEN "cued_controlled"
              ELSE IF a.cueing = "unknown" \/ a.exposure = "unknown"
                   THEN "unknown" ELSE "independent"

FindingOf(r, a) ==
    /\ a.attempt \in DOMAIN r.attempts
    /\ r.attempts[a.attempt].item \in DOMAIN r.items
    /\ PromptFinding(r.items[r.attempts[a.attempt].item].prompt, TargetsOf(r, a.attempt))

(* Why an observation does not count, the first rule that applies; None    *)
(* when it counts.                                                         *)
FirstRule(rules) ==
    LET holding == {i \in DOMAIN rules : rules[i][1]}
    IN IF holding = {} THEN None
       ELSE rules[CHOOSE i \in holding : \A j \in holding : i <= j][2]

Exclusion(r, e, a, o) ==
    LET class == AttemptClass(r, e, a)
        hint  == r.obs[o.observation].hint
    IN FirstRule(<<
        <<o.realization \notin Seen,                   "target_not_observed">>,
        <<FindingOf(r, a),                             "prompt_supplied_target">>,
        <<a.kind = "self_correction",                  "assisted_retry">>,
        <<class = "unknown" \/ hint = None,            "unknown_assistance">>,
        <<class # "independent" \/ hint # "no_hint",   "assisted_or_cued">>,
        <<r.obs[o.observation].phase \notin {"cold_retrieval", "transfer"},
                                                       "not_independent_assessment_phase">>,
        <<o.accuracy = "not_assessable",               "insufficient_rating_evidence">>
       >>)

SeqSet(seq) == {seq[i] : i \in DOMAIN seq}

(* The evidence of the target's observations, each with the evidence of    *)
(* the attempt it names; an attempt the evidence does not describe is      *)
(* reported and skipped.                                                   *)
TargetEvidence(r, key) ==
    {o \in SeqSet(r.evidence.observations) :
        o.observation \in DOMAIN r.obs /\ r.obs[o.observation].key = key}

AttemptEvidence(e, attempt) == {a \in SeqSet(e.attempts) : a.attempt = attempt}

Failing == {"incorrect", "partially_correct"}

\* Mutant of Blocking: a failure may be left out.
BlockingButUncited == {"insufficient_varied_evidence", "independent_failure_requires_again",
                       "rating_conflicts_with_success", "insufficient_rating_evidence"}

Blocking == {"insufficient_varied_evidence", "independent_failure_requires_again",
             "independent_failure_not_cited", "rating_conflicts_with_success",
             "insufficient_rating_evidence"}

(* review: [key, rating, cited, rationale, strength, confirmed], cited a    *)
(* set of observation numbers.                                             *)
ReviewDecision(r, review) ==
    IF r.evidence = None
    THEN [eligible |-> FALSE, codes |-> {"unknown_assistance"},
          supporting |-> {}, excluded |-> review.cited]
    ELSE
    LET e        == r.evidence
        known    == {o \in TargetEvidence(r, review.key) : AttemptEvidence(e, o.attempt) # {}}
        att(o)   == CHOOSE a \in AttemptEvidence(e, o.attempt) : TRUE
        why      == [o \in known |-> Exclusion(r, e, att(o), o)]
        cited(o) == o.observation \in review.cited
        counted  == {o \in known : why[o] = None}
        support  == {o \in counted : cited(o)}
        nos      == {o.observation : o \in support}
        failed   == {o \in counted : o.accuracy \in Failing}
        varied   == /\ Cardinality(nos) >= 2
                    /\ Cardinality({att(o).scenario : o \in support}) >= 2
                    /\ \E v \in e.variations : v.key = review.key /\ nos \subseteq v.observations
        rated    == /\ review.rating # "again" =>
                           \A n \in nos : r.obs[n].effort \notin {None, "unknown"}
                    /\ review.rating # "again" => review.rationale
        code(on, name) == IF on THEN {name} ELSE {}
        codes    == {why[o] : o \in {x \in known : cited(x) /\ why[x] # None}}
                    \cup code(known # TargetEvidence(r, review.key), "invalid_attempt_reference")
                    \cup code(\E o \in failed : ~cited(o), "independent_failure_not_cited")
                    \cup code(~rated, "insufficient_rating_evidence")
                    \cup code(~varied, "insufficient_varied_evidence")
                    \cup code(failed # {} /\ review.rating # "again",
                              "independent_failure_requires_again")
                    \cup code(failed = {} /\ review.rating = "again",
                              "rating_conflicts_with_success")
    IN [eligible   |-> Cardinality(nos) >= 2 /\ codes \cap Blocking = {},
        codes      |-> codes,
        supporting |-> nos,
        excluded   |-> {o.observation : o \in {x \in known : cited(x) /\ why[x] # None}}]

(* What the scheduler asks of the supporting observations on top: a cold   *)
(* retrieval among them, the strength of the first one, and for an easy    *)
(* rating the learner's word and an effortless start.                      *)
RatingPolicyFits(r, review, nos) ==
    LET cold  == {n \in nos : /\ r.obs[n].role = "targeted" /\ r.obs[n].hint = "no_hint"
                              /\ r.obs[n].phase = "cold_retrieval"}
        first == CHOOSE n \in cold : \A m \in cold : n <= m
    IN /\ cold # {}
       /\ review.strength = r.obs[first].strength
       /\ review.rating = "easy" => review.confirmed /\ r.obs[first].effort = "effortless"

Decision(r, review) ==
    LET d == ReviewDecision(r, review) IN
    IF ~d.eligible \/ RatingPolicyFits(r, review, d.supporting) THEN d
    ELSE [d EXCEPT !.eligible = FALSE, !.codes = @ \cup {"rating_policy"}]
=============================================================================

----------------------------- MODULE PracticeCalls -----------------------------
(***************************************************************************)
(* The calls of the learning service that compute before they store:       *)
(*                                                                         *)
(*   record_tutoring_session   expands a compact request, refuses evidence *)
(*                             that does not fit, decides its reviews      *)
(*   get_practice_brief        plans targets and items; the tutor then     *)
(*                             runs the plan and records it                *)
(*   the delivery processor    turns speech frames into pauses             *)
(*                                                                         *)
(* One call at a time: it arrives with an input, is worked on stage by     *)
(* stage, and ends done or refused.                                        *)
(***************************************************************************)
EXTENDS TutoringExpansion, DeliveryAnalysis

B == INSTANCE PracticeBrief

CONSTANTS Conversations,    \* the turns of compact tutoring requests
          Ratings,          \* ratings proposed
          BriefFamilies,    \* [prefs, request, rows, day]: sets to choose a brief from
          Recordings        \* sequences of speech frames

List(s) == s \in Seq(SeqSet(s))

(* Requests hold arrays, and the evidence names one of the cueings and one *)
(* of the exposures there are.                                             *)
ASSUME ConversationsAssumption ==
    \A turns \in Conversations :
        /\ List(turns)
        /\ \A t \in DOMAIN turns :
              /\ List(turns[t].attempts)
              /\ \A a \in DOMAIN turns[t].attempts :
                    LET attempt == turns[t].attempts[a] IN
                    /\ List(attempt.observations) /\ List(attempt.interventions)
                    /\ attempt.evidence # None =>
                          /\ attempt.evidence.cueing \in Cueings
                          /\ attempt.evidence.exposure \in Exposures

(* A target is told by its key, and keys have an order.                    *)
RowFits(x) ==
    /\ x.key \in Int /\ x.errors \in Int
    /\ x.due # None => x.due \in Int
    /\ x.recall # None => x.recall \in Int
    /\ IsFiniteSet(x.own) /\ IsFiniteSet(x.recs)
    /\ \A d \in x.own \cup x.recs : d.weight \in Int

RowsFit(rows) ==
    /\ IsFiniteSet(rows) /\ \A x \in rows : RowFits(x)
    /\ \A x, y \in rows : x.key = y.key => x = y

(* The fields a request has, filled in or not.                             *)
RequestFields ==
    {"activity", "mix", "count", "keys", "allowed", "config", "explore", "upcoming", "exam"}

SettingsFit(config) ==
    /\ DOMAIN config = DOMAIN B!NoConfig
    /\ config.hidden \in BOOLEAN \cup {None}
    /\ config.complications # None => config.complications \in Nat

ASSUME BriefsAssumption ==
    /\ None # TRUE /\ None \notin 1..20
    /\ \A f \in BriefFamilies :
          /\ f.day \subseteq Int
          /\ \A rows \in f.rows : RowsFit(rows)
          /\ \A r \in f.request :
                /\ DOMAIN r = RequestFields
                /\ r.activity \in B!Activities \cup {None}
                /\ r.config # None => SettingsFit(r.config)
                /\ \A p \in f.prefs : B!BriefConfig(B!Constrained(p, r)) # None

ASSUME RecordingsAssumption == Recordings \subseteq Seq(BOOLEAN)

VARIABLES tool,     \* which call this is
          input,    \* what it arrived with
          stage,    \* how far it is
          result    \* what the last stage computed

vars == <<tool, input, stage, result>>

(* A call arrives with the input of its tool.                              *)
Init ==
    /\ \/ /\ tool = "record_tutoring" /\ stage = "heard"
          /\ input \in [policy : {1}, turns : Conversations, reviews : {<<>>}]
       \/ /\ tool = "practice_brief" /\ stage = "arrived"
          /\ \E f \in BriefFamilies :
                input \in [prefs : f.prefs, request : f.request, rows : f.rows, day : f.day]
       \/ /\ tool = "delivery" /\ stage = "arrived"
          /\ input \in Recordings
    /\ result = None

Ends(how, what) == stage' = how /\ result' = what

(* The tutor proposes a review of one target, citing some of what was      *)
(* observed in the conversation, with or without a variation assessment.   *)
ProposeReview ==
    /\ tool = "record_tutoring" /\ stage = "heard"
    /\ \E rating \in Ratings, refs \in SUBSET ObservationAt(input) :
       \E key \in {Attempt(input, o).observations[o[3]].key : o \in refs},
          variation \in {None, ObservationAt(input), refs} :
          input' = [input EXCEPT !.reviews =
                      <<[key |-> key, rating |-> rating, rationale |-> TRUE,
                         strength |-> "spontaneous_production", confirmed |-> TRUE,
                         refs |-> refs, variation |-> variation]>>]
    /\ stage' = "arrived"
    /\ UNCHANGED <<tool, result>>

ExpandCompact ==
    /\ tool = "record_tutoring" /\ stage = "arrived"
    /\ IF Accepts(input) THEN Ends("expanded", Expand(input)) ELSE Ends("refused", None)
    /\ UNCHANGED <<tool, input>>

(* What every review may cite: existing observations of its own target.    *)
ReviewsFit(r) ==
    \A i \in DOMAIN r.reviews :
        /\ r.reviews[i].cited # {}
        /\ \A n \in r.reviews[i].cited :
               n \in DOMAIN r.obs /\ r.obs[n].key = r.reviews[i].key

DecideReviews ==
    /\ tool = "record_tutoring" /\ stage = "expanded"
    /\ IF /\ \A n \in DOMAIN result.obs : NormalizedPhase(result.obs[n]) # "rejected"
          /\ ReviewsFit(result)
          /\ ValidEvidence(result)
       THEN Ends("done", [i \in DOMAIN result.reviews |->
                             Decision(result, result.reviews[i])])
       ELSE Ends("refused", None)
    /\ UNCHANGED <<tool, input>>

PlanBrief ==
    /\ tool = "practice_brief" /\ stage = "arrived"
    /\ LET plan == B!Brief(input.prefs, input.request, input.rows, input.day) IN
       IF plan.status = "planned" THEN Ends("planned", plan) ELSE Ends("refused", plan)
    /\ UNCHANGED <<tool, input>>

(* A tutor who does what an activity plan says, with the settings it has   *)
(* (none at all is a setting too) and a stimulus it asks for, and then     *)
(* records it.                                                             *)
Followed(c, plan) ==
    LET r     == B!Constrained(c.prefs, c.request)
        items == [i \in DOMAIN plan.items |->
                     [targets |-> {plan.items[i].target},
                      drill   |-> CHOOSE d \in plan.items[i].drills : TRUE,
                      phase   |-> plan.items[i].phase]]
        asked == {[kind |-> k, mode |-> CHOOSE m \in B!StimulusModes[k] : TRUE,
                   text |-> TRUE, uri |-> FALSE] : k \in B!RequiredStimulus(r.activity)}
    IN [recordable |-> B!ActivityRecordingFits(r.activity, B!BriefConfig(r), asked, items),
        targets |-> plan.targets, items |-> items]

RunPlan ==
    /\ tool = "practice_brief" /\ stage = "planned"
    /\ result.items # <<>>
    /\ Ends("done", Followed(input, result))
    /\ UNCHANGED <<tool, input>>

AnalyzeDelivery ==
    /\ tool = "delivery" /\ stage = "arrived"
    /\ Ends("done", Metrics(input))
    /\ UNCHANGED <<tool, input>>

Finished ==
    /\ \/ stage \in {"done", "refused"}
       \/ stage = "planned" /\ result.items = <<>>
    /\ UNCHANGED vars

Next == ProposeReview \/ ExpandCompact \/ DecideReviews \/ PlanBrief \/ RunPlan \/ AnalyzeDelivery \/ Finished

Spec == Init /\ [][Next]_vars

(***************************************************************************)
(* What the reviews rest on, said of the request as the tutor wrote it.    *)
(***************************************************************************)
AskedOf(c, p) ==
    c.turns[p[1]].targets \cup {o.key : o \in SeqSet(Attempt(c, p).observations)}

(* Nobody and nothing helped with this attempt: not its prompt or format,  *)
(* not what the learner had seen, not a hint, not an earlier intervention. *)
Unaided(c, p) ==
    LET e == Attempt(c, p).evidence turn == c.turns[p[1]] IN
    /\ e.kind # "self_correction"
    /\ e.exposure = "none_known" /\ e.cueing = "none_detected"
    /\ turn.drill \notin Controlled
    /\ ~turn.prompt.explicit /\ turn.prompt.supplies \cap AskedOf(c, p) \cap Phrased = {}
    /\ \A o \in SeqSet(Attempt(c, p).observations) : o.hint \in {None, "no_hint"}
    /\ \A i \in InterventionAt(c) :
           Earlier(<<i[1], i[2]>>, p) =>
               LET named == Attempt(c, i).interventions[i[3]] IN
               named # {} /\ named \cap AskedOf(c, p) = {}

(* The unaided, first-hand, judged observations of a target.               *)
Independent(c, key) ==
    {o \in ObservationAt(c) :
        LET x == Attempt(c, o).observations[o[3]] IN
        /\ x.key = key /\ x.hint = "no_hint"
        /\ x.phase \in {"cold_retrieval", "transfer"}
        /\ x.assessment.realization \in Seen
        /\ x.assessment.accuracy # "not_assessable"
        /\ Unaided(c, <<o[1], o[2]>>)}

Failures(c, key) ==
    {o \in Independent(c, key) :
        Attempt(c, o).observations[o[3]].assessment.accuracy \in Failing}

Decided == tool = "record_tutoring" /\ stage = "done"

(* A review moves a schedule only on at least two independent observations *)
(* of its target in different scenarios, one of them a cold retrieval, and *)
(* what it rests on is exactly the independent part of what it cites.      *)
ReviewsRestOnIndependentWork ==
    Decided => \A i \in DOMAIN result :
        LET review == input.reviews[i]
            places == ObservationAt(input)
            rests  == {PlaceOf(places, n) : n \in result[i].supporting}
        IN result[i].eligible =>
            /\ rests = review.refs \cap Independent(input, review.key)
            /\ Cardinality(rests) >= 2
            /\ \E o \in rests : Attempt(input, o).observations[o[3]].phase = "cold_retrieval"
            /\ \E o, q \in rests : Attempt(input, o).evidence.scenario
                                     # Attempt(input, q).evidence.scenario

(* "A proposal cannot omit an independent failure": whatever a review      *)
(* cites, it moves the schedule as a success only when the session holds   *)
(* no independent failure of the target, and as a failure only when it     *)
(* cites every one of them.                                                *)
FailureCannotBeOmitted ==
    Decided => \A i \in DOMAIN result :
        LET review == input.reviews[i] failed == Failures(input, review.key) IN
        result[i].eligible =>
            /\ (review.rating = "again") <=> (failed # {})
            /\ failed \subseteq review.refs

(* Whatever the expansion accepts refers only to what it contains: every   *)
(* attempt to its turn and an earlier original, every intervention to a    *)
(* later attempt, every observation to the attempt it was made in.         *)
ExpansionRefersInside ==
    (tool = "record_tutoring" /\ stage = "expanded" /\ result.evidence # None) =>
        LET e == result.evidence IN
        /\ \A i \in DOMAIN e.attempts : AttemptEvidenceFits(result, e.attempts[i])
        /\ \A i \in e.interventions : InterventionFits(result, i)
        /\ \A i \in DOMAIN e.observations :
               result.obs[e.observations[i].observation].attempt = e.observations[i].attempt
        /\ \A i \in DOMAIN input.reviews : \A o \in input.reviews[i].refs :
               LET n == NumberIn(ObservationAt(input), o) IN
               /\ n \in result.reviews[i].cited
               /\ result.obs[n].key = Attempt(input, o).observations[o[3]].key

(***************************************************************************)
(* What a brief promises.                                                  *)
(***************************************************************************)
(* A tutor who follows an activity plan item by item can record it, and in *)
(* two cases cannot: the plan has settings without a field, which the      *)
(* recorder takes for a mistake, or a list of no keys brought in more      *)
(* targets than there were to be items and the activity fixes the number.  *)
(* Otherwise planner and recorder agree on drills, phases, counts and      *)
(* settings.                                                               *)
PlanCanBeRecorded ==
    (tool = "practice_brief" /\ stage = "done") =>
        LET r == B!Constrained(input.prefs, input.request) IN
        result.recordable <=>
            /\ B!BriefConfig(r) # B!NoConfig
            /\ \/ Len(result.items) = B!EffectiveCount(r)
               \/ r.activity \notin B!SingleResponse \cup {"question_answer_sprint"}

Planned == tool = "practice_brief" /\ stage \in {"planned", "done"}

Ranks(set) == {result.targets[i].row : i \in set}

(* A target that is overdue is never passed over for one less overdue or   *)
(* not due at all, and unless the learner named the targets at most two    *)
(* new ones are brought in.                                                *)
MoreOverdueFirst ==
    (Planned /\ input.request.keys = None) =>
        LET chosen == Ranks(DOMAIN result.targets)
            left   == input.rows \ chosen
        IN /\ Cardinality({x \in chosen : x.due = None}) <= 2
           /\ \A x \in chosen, y \in left :
                 x.due # None /\ y.due # None => x.due <= y.due

(* The items add up to the count, or to the targets that a list of no keys *)
(* brought in beyond it; every target gets its share, shares differ by one *)
(* at most, and no target comes twice in a row while another still has     *)
(* items left.                                                             *)
SharesAreFair ==
    Planned =>
        LET n        == Len(result.targets)
            share(i) == result.targets[i].share
            place(k) == CHOOSE i \in 1..n : result.targets[i].key
                            \in (IF stage = "done" THEN result.items[k].targets
                                 ELSE {result.items[k].target})
            uses(i, past) == Cardinality({k \in 1..past : place(k) = i})
            items    == Len(result.items)
            count    == B!EffectiveCount(B!Constrained(input.prefs, input.request))
        IN /\ SumFunctionOnSet([i \in 1..n |-> share(i)], 1..n)
                = IF input.request.keys = {} /\ n > count THEN n ELSE count
           /\ \A i, j \in 1..n : share(i) - share(j) \in {-1, 0, 1}
           /\ items > 0 =>
                 /\ \A i \in 1..n : uses(i, items) = share(i)
                 /\ \A k \in 1..(items - 1) :
                        place(k) = place(k + 1) =>
                            \A i \in (1..n) \ {place(k)} : uses(i, k) = share(i)

(***************************************************************************)
(* What the delivery processor promises.                                   *)
(***************************************************************************)
(* A frame is shown as speech iff it lies in a run long enough to count,   *)
(* or between two such runs with less than the silence threshold of other  *)
(* frames between neighbouring runs (or just the threshold, where that     *)
(* comes out as less); the pauses and the long ones are the remaining      *)
(* stretches inside the response that last long enough, and with the       *)
(* speech they take no longer than the response.                           *)
PausesAreSilences ==
    (tool = "delivery" /\ stage = "done") =>
        LET n       == Len(input)
            solid   == {f \in 1..n : \E a \in 1..f, b \in f..n :
                           b - a + 1 >= MinSpeech /\ \A k \in a..b : input[k]}
            bridged == {f \in 1..n \ solid : \E a \in 1..(f - 1), b \in (f + 1)..n :
                           /\ a \in solid /\ b \in solid
                           /\ \/ b - a - 1 < MinSilence
                              \/ b - a - 1 = MinSilence /\ <<a + 1, b>> \in NarrowGaps
                           /\ \A k \in (a + 1)..(b - 1) : k \notin solid}
            speech  == solid \cup bridged
            shown   == UNION {result.intervals[i][1]..(result.intervals[i][2] - 1) :
                                 i \in DOMAIN result.intervals}
            silence == {s \in (1..n) \X (1..n) :
                           /\ s[1] <= s[2] /\ s[2] - s[1] + 1 >= PauseFrames
                           /\ (s[1] - 1) \in speech /\ (s[2] + 1) \in speech
                           /\ \A k \in s[1]..s[2] : k \notin speech}
        IN /\ shown = speech
           /\ result.active = Cardinality(speech)
           /\ result.pauses = Cardinality(silence)
           /\ result.long = Cardinality({s \in silence : s[2] - s[1] + 1 >= LongFrames})
           /\ result.active + result.paused <= result.span
=============================================================================

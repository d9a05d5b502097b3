-------------------------- MODULE TutoringExpansion --------------------------
(***************************************************************************)
(* The compact tutoring request and its expansion into the canonical       *)
(* record request (src/tutoring.rs).                                       *)
(*                                                                         *)
(* A compact request c is a record                                         *)
(*   policy    the policy version, or None                                 *)
(*   turns     sequence of [drill, prompt, targets, attempts], attempts a  *)
(*             sequence of [evidence, observations, interventions]:        *)
(*             evidence is None or [kind, original, cueing, exposure,      *)
(*             scenario]; an observation has an assessment, None or        *)
(*             [realization, accuracy]; interventions is a sequence of     *)
(*             the target sets they name                                   *)
(*   reviews   sequence of [key, rating, rationale, strength, confirmed,   *)
(*             refs, variation]                                            *)
(* and refers to what it contains by array positions <<turn, attempt>> and *)
(* <<turn, attempt, observation>>.  Texts and their length limits are left *)
(* out: the texts of these requests are short and not blank.               *)
(***************************************************************************)
EXTENDS ReviewPolicy

CONSTANTS AttemptsCap,      \* 100 in the code
          ObservationsCap   \* 300 in the code

Attempt(c, p) == c.turns[p[1]].attempts[p[2]]

AttemptAt(c) ==
    UNION {{<<t, a>> : a \in DOMAIN c.turns[t].attempts} : t \in DOMAIN c.turns}

ObservationAt(c) ==
    UNION {{<<p[1], p[2], o>> : o \in DOMAIN Attempt(c, p).observations} : p \in AttemptAt(c)}

InterventionAt(c) ==
    UNION {{<<p[1], p[2], i>> : i \in DOMAIN Attempt(c, p).interventions} : p \in AttemptAt(c)}

(* Array order: the first position that differs decides.                   *)
Earlier(p, q) ==
    \E k \in DOMAIN p : p[k] < q[k] /\ \A j \in 1..(k - 1) : p[j] = q[j]

(* Canonical numbers count the positions in array order, from one, over    *)
(* the whole session.                                                      *)
NumberIn(places, p) == 1 + Cardinality({q \in places : Earlier(q, p)})

PlaceOf(places, n) == CHOOSE p \in places : NumberIn(places, p) = n

(* An out-of-range reference makes the whole request fail.                 *)
RefersTo(places, refs) == refs \subseteq places

ProductionPresent(c) ==
    \/ \E p \in AttemptAt(c) : Attempt(c, p).evidence # None
    \/ \E o \in ObservationAt(c) : Attempt(c, o).observations[o[3]].assessment # None
    \/ \E i \in DOMAIN c.reviews : c.reviews[i].variation # None

Originals(c) ==
    {p \in AttemptAt(c) : /\ Attempt(c, p).evidence # None
                          /\ Attempt(c, p).evidence.original # None}

Accepts(c) ==
    LET attempts == AttemptAt(c) observations == ObservationAt(c) IN
    /\ Cardinality(attempts) <= AttemptsCap
    /\ Cardinality(observations) <= ObservationsCap
    /\ \A p \in Originals(c) : Attempt(c, p).evidence.original \in attempts
    /\ \A i \in DOMAIN c.reviews : RefersTo(observations, c.reviews[i].refs)
    /\ ProductionPresent(c) =>
        /\ c.policy # None
        /\ \A p \in attempts : Attempt(c, p).evidence # None
        /\ \A o \in observations : Attempt(c, o).observations[o[3]].assessment # None
        /\ \A p \in attempts :
               LET e == Attempt(c, p).evidence IN
               /\ e.kind = "initial" => e.original = None
               /\ e.kind = "self_correction" => e.original # None
               /\ e.original # None => Earlier(e.original, p)
        /\ \A i \in DOMAIN c.reviews :
               LET v == c.reviews[i].variation IN
               v # None => v # {} /\ RefersTo(observations, v)

\* Mutant of InterventionBefore: the attempt itself is taken for the next one.
InterventionBeforeSame(c, p) == NumberIn(AttemptAt(c), <<p[1], p[2]>>)

(* An intervention comes before the next attempt of its turn; at the end   *)
(* of a turn, before the first attempt that names its own as the original. *)
InterventionBefore(c, p) ==
    LET attempts == AttemptAt(c)
        next     == <<p[1], p[2] + 1>>
        retries  == {NumberIn(attempts, q) :
                        q \in {x \in Originals(c) :
                                  Attempt(c, x).evidence.original = <<p[1], p[2]>>}}
    IN IF next \in attempts THEN NumberIn(attempts, next)
       ELSE IF retries = {} THEN 0
       ELSE CHOOSE n \in retries : \A m \in retries : n <= m

ExpandedEvidence(c) ==
    LET attempts == AttemptAt(c)
        observations == ObservationAt(c)
        no(p) == NumberIn(attempts, p)
    IN [attempts |-> [n \in 1..Cardinality(attempts) |->
            LET p == PlaceOf(attempts, n) e == Attempt(c, p).evidence IN
            [attempt |-> n, kind |-> e.kind, cueing |-> e.cueing,
             exposure |-> e.exposure, scenario |-> e.scenario, provenance |-> TRUE,
             original |-> IF e.original = None THEN 0 ELSE no(e.original)]],
        observations |-> [n \in 1..Cardinality(observations) |->
            LET o == PlaceOf(observations, n)
                x == Attempt(c, o).observations[o[3]].assessment IN
            [observation |-> n, attempt |-> no(<<o[1], o[2]>>),
             realization |-> x.realization, accuracy |-> x.accuracy,
             provenance |-> TRUE]],
        interventions |-> {[targets |-> Attempt(c, i).interventions[i[3]],
                            after |-> no(<<i[1], i[2]>>),
                            before |-> InterventionBefore(c, i)] : i \in InterventionAt(c)},
        variations |-> {[key |-> c.reviews[i].key, rationale |-> TRUE,
                         observations |-> {NumberIn(observations, o) :
                                              o \in c.reviews[i].variation}] :
                           i \in {j \in DOMAIN c.reviews : c.reviews[j].variation # None}}]

(* The canonical request of one that is accepted.                          *)
Expand(c) ==
    LET attempts == AttemptAt(c) observations == ObservationAt(c) IN
    [items |-> [t \in DOMAIN c.turns |->
                        [drill |-> c.turns[t].drill, prompt |-> c.turns[t].prompt,
                         targets |-> c.turns[t].targets]],
          attempts |-> [n \in 1..Cardinality(attempts) |->
                        [item |-> PlaceOf(attempts, n)[1], transcript |-> TRUE]],
          obs |-> [n \in 1..Cardinality(observations) |->
                        LET o == PlaceOf(observations, n)
                            x == Attempt(c, o).observations[o[3]] IN
                        [key |-> x.key, outcome |-> x.outcome, phase |-> x.phase,
                         hint |-> x.hint, effort |-> x.effort, strength |-> x.strength,
                         role |-> IF x.role = None THEN "incidental" ELSE x.role,
                         attempt |-> NumberIn(attempts, <<o[1], o[2]>>)]],
          evidence |-> IF ProductionPresent(c) THEN ExpandedEvidence(c) ELSE None,
          reviews |-> [i \in DOMAIN c.reviews |->
                        [key |-> c.reviews[i].key, rating |-> c.reviews[i].rating,
                         rationale |-> c.reviews[i].rationale,
                         strength |-> c.reviews[i].strength,
                         confirmed |-> c.reviews[i].confirmed,
                         cited |-> {NumberIn(observations, o) : o \in c.reviews[i].refs}]]]
=============================================================================

-------------------------- MODULE PracticeCallsProofs --------------------------
(***************************************************************************)
(* Theorems about the calls of PracticeCalls: for conversations of any     *)
(* number of turns, attempts, observations and interventions, what an      *)
(* expansion refers to, what an eligible review rests on, and that no      *)
(* failure gets past it; for requests and rows of any number, which        *)
(* targets a plan takes, how it shares its items out, and that it can be   *)
(* recorded when it was followed; for recordings of any length, that the   *)
(* pauses shown are their silences.                                        *)
(*                                                                         *)
(* Tutoring.  The argument goes from the canonical request back to the     *)
(* compact one.  Array order is a strict total order on the positions a    *)
(* request holds, so NumberIn numbers them from one without a gap and      *)
(* PlaceOf is its inverse (Numbering).  What the policy computes from      *)
(* numbers is thereby a statement about positions: the class of an attempt *)
(* says whether it was unaided (IndependentIsUnaided), and an observation  *)
(* is counted iff it is independent (CountedIsIndependent).                *)
(*                                                                         *)
(* Planning.  The comparison of rows is a strict total order, so Sorted    *)
(* lists every row once (Ranking, SortedRows); diversifying changes        *)
(* nothing (DiversifyKeepsOrder), so the order of due days survives to     *)
(* the plan (CandidateOrder, TargetsOrdered).  There are never more        *)
(* targets than items (EnoughItems), so the items go round the circle of   *)
(* targets without skipping one (Rounds) and the share of a target is the  *)
(* number of its turns (Allocation, TurnCount).                            *)
(*                                                                         *)
(* Pauses.  The runs of frames that are kept lie apart and hold just the   *)
(* frames that were spoken for long enough (RunsInOrder); joining them one *)
(* by one leaves intervals with the silence threshold between them         *)
(* (JoinOne, MergedRuns), whose frames are the speech (SpeechIsSpoken),    *)
(* whose lengths add up to it (LengthsAddUp) and between which the long    *)
(* enough silences are the gaps (SilencesAreGaps).                         *)
(***************************************************************************)
EXTENDS PracticeCalls, FoldTheorems

(***************************************************************************)
(* Numbers and positions.                                                  *)
(***************************************************************************)

\* A table of seven rules names one exactly when one of them holds.
LEMMA FirstOfSeven ==
    ASSUME NEW rules, DOMAIN rules = 1..7, \A i \in 1..7 : rules[i][2] \in Exclusions
    PROVE  (FirstRule(rules) = None) <=> \A i \in 1..7 : ~rules[i][1]
<1> DEFINE holding == {i \in DOMAIN rules : rules[i][1]}
<1>1. CASE holding = {}
  BY <1>1 DEF FirstRule
<1>2. CASE holding # {}
  <2>1. holding \subseteq 1..7
    OBVIOUS
  <2>2. \E i \in holding : \A j \in holding : i <= j
    BY <1>2, <2>1, FirstPosition
  <2> DEFINE first == CHOOSE i \in holding : \A j \in holding : i <= j
  <2>3. first \in holding
    BY <2>2
  <2>4. FirstRule(rules) = rules[first][2]
    BY <1>2 DEF FirstRule
  <2>5. FirstRule(rules) # None
    BY <2>1, <2>3, <2>4, AbsentIsNoText
  <2> QED
    BY <2>1, <2>3, <2>5
<1> QED
  BY <1>1, <1>2

LEMMA PairOrder ==
    ASSUME NEW p \in Nat \X Nat, NEW q \in Nat \X Nat
    PROVE  Earlier(p, q) <=> p[1] < q[1] \/ (p[1] = q[1] /\ p[2] < q[2])
<1>1. DOMAIN p = {1, 2}
  OBVIOUS
<1>2. 1..(1 - 1) = {} /\ 1..(2 - 1) = {1}
  OBVIOUS
<1> QED
  BY <1>1, <1>2 DEF Earlier

LEMMA TripleOrder ==
    ASSUME NEW p \in Nat \X Nat \X Nat, NEW q \in Nat \X Nat \X Nat
    PROVE  Earlier(p, q) <=> \/ p[1] < q[1]
                             \/ p[1] = q[1] /\ p[2] < q[2]
                             \/ p[1] = q[1] /\ p[2] = q[2] /\ p[3] < q[3]
<1>1. DOMAIN p = {1, 2, 3}
  OBVIOUS
<1>2. 1..(1 - 1) = {} /\ 1..(2 - 1) = {1} /\ 1..(3 - 1) = {1, 2}
  OBVIOUS
<1>3. Earlier(p, q) <=> \E k \in {1, 2, 3} : p[k] < q[k] /\ \A j \in 1..(k - 1) : p[j] = q[j]
  BY <1>1 DEF Earlier
<1> QED
  BY <1>2, <1>3

\* Array order is a strict total order on a set of positions.
Ordered(S) ==
    /\ \A p \in S : ~Earlier(p, p)
    /\ \A p, q \in S : p = q \/ Earlier(p, q) \/ Earlier(q, p)
    /\ \A p, q, r \in S : Earlier(p, q) /\ Earlier(q, r) => Earlier(p, r)

LEMMA PairsOrdered == ASSUME NEW S, S \subseteq Nat \X Nat PROVE Ordered(S)
<1>1. \A p, q \in S : Earlier(p, q) <=> p[1] < q[1] \/ (p[1] = q[1] /\ p[2] < q[2])
  BY PairOrder
<1>2. \A p \in S : p[1] \in Nat /\ p[2] \in Nat /\ p = <<p[1], p[2]>>
  OBVIOUS
<1>3. \A p, q \in S : p = q \/ Earlier(p, q) \/ Earlier(q, p)
  BY <1>1, <1>2
<1> QED
  BY <1>1, <1>2, <1>3 DEF Ordered

LEMMA TriplesOrdered == ASSUME NEW S, S \subseteq Nat \X Nat \X Nat PROVE Ordered(S)
<1>1. \A p, q \in S : Earlier(p, q) <=> \/ p[1] < q[1]
                                        \/ p[1] = q[1] /\ p[2] < q[2]
                                        \/ p[1] = q[1] /\ p[2] = q[2] /\ p[3] < q[3]
  BY TripleOrder
<1>2. \A p \in S : /\ p[1] \in Nat /\ p[2] \in Nat /\ p[3] \in Nat
                   /\ p = <<p[1], p[2], p[3]>>
  OBVIOUS
<1>3. \A p, q \in S : p = q \/ Earlier(p, q) \/ Earlier(q, p)
  BY <1>1, <1>2
<1>4. \A p, q, r \in S : Earlier(p, q) /\ Earlier(q, r) => Earlier(p, r)
  BY <1>1, <1>2
<1> QED
  BY <1>1, <1>2, <1>3, <1>4 DEF Ordered

\* Canonical numbers are a numbering: they run from one to the number of
\* places, grow with the array order, and PlaceOf undoes them.
LEMMA Numbering ==
    ASSUME NEW S, IsFiniteSet(S), Ordered(S)
    PROVE  /\ Cardinality(S) \in Nat
           /\ \A p \in S : NumberIn(S, p) \in 1..Cardinality(S)
           /\ \A p, q \in S : Earlier(p, q) <=> NumberIn(S, p) < NumberIn(S, q)
           /\ \A p \in S : PlaceOf(S, NumberIn(S, p)) = p
           /\ \A n \in 1..Cardinality(S) : PlaceOf(S, n) \in S /\ NumberIn(S, PlaceOf(S, n)) = n
<1> DEFINE before(p) == {q \in S : Earlier(q, p)}
           N == Cardinality(S)
<1>1. N \in Nat
  BY FS_CardinalityType
<1>2. ASSUME NEW p \in S
      PROVE  /\ IsFiniteSet(before(p)) /\ Cardinality(before(p)) \in Nat
             /\ Cardinality(before(p)) < N
             /\ NumberIn(S, p) = 1 + Cardinality(before(p))
  <2>1. before(p) \in SUBSET S /\ p \notin before(p)
    BY DEF Ordered
  <2>2. IsFiniteSet(before(p)) /\ Cardinality(before(p)) <= N /\ Cardinality(before(p)) # N
    BY <2>1, FS_Subset
  <2>3. Cardinality(before(p)) \in Nat
    BY <2>2, FS_CardinalityType
  <2> QED
    BY <1>1, <2>2, <2>3 DEF NumberIn
<1>3. \A p \in S : NumberIn(S, p) \in 1..N
  <2> TAKE p \in S
  <2> HIDE DEF N, before
  <2> QED
    BY <1>1, <1>2
<1>4. ASSUME NEW p \in S, NEW q \in S, Earlier(p, q)
      PROVE  NumberIn(S, p) < NumberIn(S, q)
  <2>1. before(p) \in SUBSET before(q) /\ p \in before(q) /\ p \notin before(p)
    BY <1>4 DEF Ordered
  <2>2. IsFiniteSet(before(q))
    BY <1>2
  <2>3. Cardinality(before(p)) <= Cardinality(before(q))
        /\ Cardinality(before(p)) # Cardinality(before(q))
    <3> HIDE DEF before
    <3> QED
      BY <2>1, <2>2, FS_Subset
  <2> HIDE DEF before
  <2> QED
    BY <1>2, <2>3
<1>5. \A p, q \in S : Earlier(p, q) <=> NumberIn(S, p) < NumberIn(S, q)
  <2> TAKE p, q \in S
  <2>1. NumberIn(S, p) \in Int /\ NumberIn(S, q) \in Int
    BY <1>3
  <2>2. p = q \/ Earlier(p, q) \/ Earlier(q, p)
    BY DEF Ordered
  <2>3. ~Earlier(p, p)
    BY DEF Ordered
  <2> QED
    BY <1>4, <2>1, <2>2, <2>3
<1>6. \A p, q \in S : NumberIn(S, p) = NumberIn(S, q) => p = q
  <2> TAKE p, q \in S
  <2>1. NumberIn(S, p) \in Int
    BY <1>3
  <2>2. p = q \/ Earlier(p, q) \/ Earlier(q, p)
    BY DEF Ordered
  <2> QED
    BY <1>4, <2>1, <2>2
<1>7. \A p \in S : PlaceOf(S, NumberIn(S, p)) = p
  BY <1>6 DEF PlaceOf
<1> DEFINE f == [p \in S |-> NumberIn(S, p)]
<1>8. f \in Surjection(S, 1..N)
  <2>1. f \in Injection(S, 1..N)
    BY <1>3, <1>6 DEF Injection, IsInjective
  <2>2. IsFiniteSet(1..N) /\ Cardinality(1..N) = N
    BY <1>1, FS_Interval
  <2> HIDE DEF f
  <2> QED
    BY <2>1, <2>2, FS_Injection
<1>9. ASSUME NEW n \in 1..N PROVE PlaceOf(S, n) \in S /\ NumberIn(S, PlaceOf(S, n)) = n
  <2>1. \E p \in S : f[p] = n
    BY <1>8 DEF Surjection
  <2>2. \E p \in S : NumberIn(S, p) = n
    BY <2>1
  <2> QED
    BY <2>2 DEF PlaceOf
<1> QED
  BY <1>1, <1>3, <1>5, <1>7, <1>9

(***************************************************************************)
(* The positions a request holds.                                          *)
(***************************************************************************)
LEMMA FiniteUnion ==
    ASSUME NEW S, IsFiniteSet(S), NEW f, \A x \in S : IsFiniteSet(f[x])
    PROVE  IsFiniteSet(UNION {f[x] : x \in S})
<1> DEFINE T == {f[x] : x \in S}
           g == [x \in S |-> f[x]]
<1>1. g \in Surjection(S, T)
  BY DEF Surjection
<1>2. IsFiniteSet(T)
  <2> HIDE DEF g, T
  <2> QED
    BY <1>1, FS_Surjection
<1>3. \A U \in T : IsFiniteSet(U)
  OBVIOUS
<1> HIDE DEF T
<1>4. IsFiniteSet(UNION T)
  BY <1>2, <1>3, FS_UNION
<1> QED
  BY <1>4 DEF T

LEMMA ListDomain ==
    ASSUME NEW s, List(s)
    PROVE  DOMAIN s \subseteq Nat \ {0} /\ IsFiniteSet(DOMAIN s)
<1> DEFINE R == SeqSet(s)
<1>1. s \in Seq(R)
  BY DEF List
<1> HIDE DEF R
<1>2. DOMAIN s = 1..Len(s) /\ Len(s) \in Nat
  BY <1>1
<1>3. IsFiniteSet(1..Len(s))
  BY <1>2, FS_Interval
<1> QED
  BY <1>2, <1>3

LEMMA AttemptPositions ==
    ASSUME NEW c, c.turns \in Conversations
    PROVE  /\ IsFiniteSet(AttemptAt(c)) /\ AttemptAt(c) \subseteq Nat \X Nat
           /\ \A p : p \in AttemptAt(c) <=>
                 /\ p = <<p[1], p[2]>>
                 /\ p[1] \in DOMAIN c.turns /\ p[2] \in DOMAIN c.turns[p[1]].attempts
<1> DEFINE T == DOMAIN c.turns
           A(t) == DOMAIN c.turns[t].attempts
           places == [t \in T |-> {<<t, a>> : a \in A(t)}]
<1>1. T \subseteq Nat /\ IsFiniteSet(T) /\ \A t \in T : A(t) \subseteq Nat /\ IsFiniteSet(A(t))
  BY ConversationsAssumption, ListDomain
<1>2. AttemptAt(c) = UNION {places[t] : t \in T}
  BY DEF AttemptAt
<1>3. \A t \in T : IsFiniteSet(places[t])
  <2> TAKE t \in T
  <2>1. IsFiniteSet(A(t))
    BY <1>1
  <2> DEFINE g == [a \in A(t) |-> <<t, a>>]
  <2>2. g \in Surjection(A(t), places[t])
    BY DEF Surjection
  <2> HIDE DEF g, places
  <2> QED
    BY <2>1, <2>2, FS_Surjection
<1>4. IsFiniteSet(AttemptAt(c))
  <2> HIDE DEF places
  <2> QED
    BY <1>1, <1>2, <1>3, FiniteUnion
<1>5. \A p : p \in AttemptAt(c) <=> /\ p = <<p[1], p[2]>>
                                    /\ p[1] \in T /\ p[2] \in A(p[1])
  BY DEF AttemptAt
<1> HIDE DEF A, T
<1>6. AttemptAt(c) \subseteq Nat \X Nat
  BY <1>1, <1>5
<1> QED
  BY <1>4, <1>5, <1>6 DEF A, T

LEMMA ObservationPositions ==
    ASSUME NEW c, c.turns \in Conversations
    PROVE  /\ IsFiniteSet(ObservationAt(c)) /\ ObservationAt(c) \subseteq Nat \X Nat \X Nat
           /\ \A o : o \in ObservationAt(c) <=>
                 /\ o = <<o[1], o[2], o[3]>> /\ <<o[1], o[2]>> \in AttemptAt(c)
                 /\ o[3] \in DOMAIN Attempt(c, <<o[1], o[2]>>).observations
<1> DEFINE P == AttemptAt(c)
           O(p) == DOMAIN Attempt(c, p).observations
           places == [p \in P |-> {<<p[1], p[2], o>> : o \in O(p)}]
<1>1. IsFiniteSet(P) /\ P \subseteq Nat \X Nat
  BY AttemptPositions
<1>2. \A p \in P : O(p) \subseteq Nat /\ IsFiniteSet(O(p))
  BY AttemptPositions, ConversationsAssumption, ListDomain DEF Attempt
<1>3. ObservationAt(c) = UNION {places[p] : p \in P}
  BY DEF ObservationAt
<1>4. \A p \in P : IsFiniteSet(places[p])
  <2> TAKE p \in P
  <2>1. IsFiniteSet(O(p))
    BY <1>2
  <2> DEFINE g == [o \in O(p) |-> <<p[1], p[2], o>>]
  <2>2. g \in Surjection(O(p), places[p])
    BY DEF Surjection
  <2> HIDE DEF g, places
  <2> QED
    BY <2>1, <2>2, FS_Surjection
<1>5. IsFiniteSet(ObservationAt(c))
  <2> HIDE DEF places, P
  <2> QED
    BY <1>1, <1>3, <1>4, FiniteUnion
<1>6. \A p \in P : p = <<p[1], p[2]>>
  BY AttemptPositions
<1> HIDE DEF P, O
<1>7. \A o : o \in ObservationAt(c) <=>
          \E p \in P : \E k \in O(p) : o = <<p[1], p[2], k>>
  BY DEF ObservationAt, P, O
<1>8. \A o : o \in ObservationAt(c) <=>
          /\ o = <<o[1], o[2], o[3]>> /\ <<o[1], o[2]>> \in P
          /\ o[3] \in O(<<o[1], o[2]>>)
  BY <1>6, <1>7
<1>9. \A p \in P : p[1] \in Nat /\ p[2] \in Nat
  BY <1>1
<1>10. ObservationAt(c) \subseteq Nat \X Nat \X Nat
  BY <1>2, <1>7, <1>9
<1> QED
  BY <1>5, <1>8, <1>10 DEF P, O

\* Canonical numbers of the attempts and of the observations of a request.
LEMMA Numbers ==
    ASSUME NEW c, c.turns \in Conversations
    PROVE  /\ IsFiniteSet(AttemptAt(c)) /\ Ordered(AttemptAt(c))
           /\ IsFiniteSet(ObservationAt(c)) /\ Ordered(ObservationAt(c))
BY AttemptPositions, ObservationPositions, PairsOrdered, TriplesOrdered

(***************************************************************************)
(* What the expansion makes of a request.                                  *)
(***************************************************************************)
AttemptNo(c, p)     == NumberIn(AttemptAt(c), p)
ObservationNo(c, o) == NumberIn(ObservationAt(c), o)
AttemptOf(o)        == <<o[1], o[2]>>
Observed(c, o)      == Attempt(c, o).observations[o[3]]

LEMMA NumbersExpanded ==
    ASSUME NEW c, c.turns \in Conversations
    PROVE  /\ Cardinality(AttemptAt(c)) \in Nat /\ Cardinality(ObservationAt(c)) \in Nat
           /\ \A p \in AttemptAt(c) : /\ AttemptNo(c, p) \in 1..Cardinality(AttemptAt(c))
                                      /\ PlaceOf(AttemptAt(c), AttemptNo(c, p)) = p
           /\ \A o \in ObservationAt(c) : /\ ObservationNo(c, o) \in 1..Cardinality(ObservationAt(c))
                                          /\ PlaceOf(ObservationAt(c), ObservationNo(c, o)) = o
                                          /\ AttemptOf(o) \in AttemptAt(c)
           /\ \A n \in 1..Cardinality(AttemptAt(c)) :
                 /\ PlaceOf(AttemptAt(c), n) \in AttemptAt(c)
                 /\ AttemptNo(c, PlaceOf(AttemptAt(c), n)) = n
           /\ \A n \in 1..Cardinality(ObservationAt(c)) :
                 /\ PlaceOf(ObservationAt(c), n) \in ObservationAt(c)
                 /\ ObservationNo(c, PlaceOf(ObservationAt(c), n)) = n
           /\ \A p, q \in AttemptAt(c) : Earlier(p, q) <=> AttemptNo(c, p) < AttemptNo(c, q)
<1>1. /\ IsFiniteSet(AttemptAt(c)) /\ Ordered(AttemptAt(c))
      /\ IsFiniteSet(ObservationAt(c)) /\ Ordered(ObservationAt(c))
  BY Numbers
<1>2. \A o \in ObservationAt(c) : AttemptOf(o) \in AttemptAt(c)
  BY ObservationPositions DEF AttemptOf
<1>3. /\ Cardinality(AttemptAt(c)) \in Nat
      /\ \A p \in AttemptAt(c) : AttemptNo(c, p) \in 1..Cardinality(AttemptAt(c))
      /\ \A p \in AttemptAt(c) : PlaceOf(AttemptAt(c), AttemptNo(c, p)) = p
      /\ \A n \in 1..Cardinality(AttemptAt(c)) :
            PlaceOf(AttemptAt(c), n) \in AttemptAt(c) /\ AttemptNo(c, PlaceOf(AttemptAt(c), n)) = n
      /\ \A p, q \in AttemptAt(c) : Earlier(p, q) <=> AttemptNo(c, p) < AttemptNo(c, q)
  BY <1>1, Numbering DEF AttemptNo
<1>4. /\ Cardinality(ObservationAt(c)) \in Nat
      /\ \A o \in ObservationAt(c) : ObservationNo(c, o) \in 1..Cardinality(ObservationAt(c))
      /\ \A o \in ObservationAt(c) : PlaceOf(ObservationAt(c), ObservationNo(c, o)) = o
      /\ \A n \in 1..Cardinality(ObservationAt(c)) :
            /\ PlaceOf(ObservationAt(c), n) \in ObservationAt(c)
            /\ ObservationNo(c, PlaceOf(ObservationAt(c), n)) = n
  BY <1>1, Numbering DEF ObservationNo
<1> QED
  BY <1>2, <1>3, <1>4

\* The items, attempts and observations of the canonical request.
LEMMA RequestExpanded ==
    ASSUME NEW c, c.turns \in Conversations, NEW r, r = Expand(c)
    PROVE  /\ DOMAIN r.items = DOMAIN c.turns
           /\ \A t \in DOMAIN c.turns : /\ r.items[t].drill = c.turns[t].drill
                                        /\ r.items[t].prompt = c.turns[t].prompt
                                        /\ r.items[t].targets = c.turns[t].targets
           /\ DOMAIN r.attempts = 1..Cardinality(AttemptAt(c))
           /\ \A p \in AttemptAt(c) : /\ r.attempts[AttemptNo(c, p)].item = p[1]
                                      /\ r.attempts[AttemptNo(c, p)].transcript
           /\ DOMAIN r.obs = 1..Cardinality(ObservationAt(c))
           /\ \A o \in ObservationAt(c) :
                 LET x == r.obs[ObservationNo(c, o)] IN
                 /\ x.key = Observed(c, o).key /\ x.hint = Observed(c, o).hint
                 /\ x.phase = Observed(c, o).phase
                 /\ x.attempt = AttemptNo(c, AttemptOf(o))
<1> DEFINE A == AttemptAt(c) O == ObservationAt(c)
<1>1. /\ \A p \in A : AttemptNo(c, p) \in 1..Cardinality(A) /\ PlaceOf(A, AttemptNo(c, p)) = p
      /\ \A o \in O : ObservationNo(c, o) \in 1..Cardinality(O) /\ PlaceOf(O, ObservationNo(c, o)) = o
  BY NumbersExpanded
<1>2. /\ DOMAIN r.items = DOMAIN c.turns
      /\ \A t \in DOMAIN c.turns : /\ r.items[t].drill = c.turns[t].drill
                                   /\ r.items[t].prompt = c.turns[t].prompt
                                   /\ r.items[t].targets = c.turns[t].targets
  BY DEF Expand
<1>3. r.attempts = [n \in 1..Cardinality(A) |-> [item |-> PlaceOf(A, n)[1], transcript |-> TRUE]]
  BY DEF Expand
<1>4. r.obs = [n \in 1..Cardinality(O) |->
                 LET o == PlaceOf(O, n) x == Observed(c, o) IN
                 [key |-> x.key, outcome |-> x.outcome, phase |-> x.phase,
                  hint |-> x.hint, effort |-> x.effort, strength |-> x.strength,
                  role |-> IF x.role = None THEN "incidental" ELSE x.role,
                  attempt |-> AttemptNo(c, AttemptOf(o))]]
  BY DEF Expand, Observed, AttemptNo, AttemptOf
<1> HIDE DEF A, O
<1>5. /\ DOMAIN r.attempts = 1..Cardinality(A)
      /\ \A p \in A : /\ r.attempts[AttemptNo(c, p)].item = p[1]
                      /\ r.attempts[AttemptNo(c, p)].transcript
  BY <1>1, <1>3
<1>6. /\ DOMAIN r.obs = 1..Cardinality(O)
      /\ \A o \in O : LET x == r.obs[ObservationNo(c, o)] IN
                      /\ x.key = Observed(c, o).key /\ x.hint = Observed(c, o).hint
                      /\ x.phase = Observed(c, o).phase
                      /\ x.attempt = AttemptNo(c, AttemptOf(o))
  BY <1>1, <1>4
<1> QED
  BY <1>2, <1>5, <1>6 DEF A, O

\* The evidence of the canonical request.
LEMMA EvidenceExpanded ==
    ASSUME NEW c, c.turns \in Conversations, NEW e, e = ExpandedEvidence(c)
    PROVE  /\ DOMAIN e.attempts = 1..Cardinality(AttemptAt(c))
           /\ \A p \in AttemptAt(c) :
                 LET a == e.attempts[AttemptNo(c, p)] x == Attempt(c, p).evidence IN
                 /\ a.attempt = AttemptNo(c, p) /\ a.provenance
                 /\ a.kind = x.kind /\ a.cueing = x.cueing
                 /\ a.exposure = x.exposure /\ a.scenario = x.scenario
                 /\ a.original = IF x.original = None THEN 0 ELSE AttemptNo(c, x.original)
           /\ DOMAIN e.observations = 1..Cardinality(ObservationAt(c))
           /\ \A o \in ObservationAt(c) :
                 LET x == e.observations[ObservationNo(c, o)] y == Observed(c, o).assessment IN
                 /\ x.observation = ObservationNo(c, o) /\ x.attempt = AttemptNo(c, AttemptOf(o))
                 /\ x.realization = y.realization /\ x.accuracy = y.accuracy
           /\ e.interventions =
                 {[targets |-> Attempt(c, i).interventions[i[3]], after |-> AttemptNo(c, AttemptOf(i)),
                   before |-> InterventionBefore(c, i)] : i \in InterventionAt(c)}
<1> DEFINE A == AttemptAt(c) O == ObservationAt(c)
<1>1. /\ \A p \in A : AttemptNo(c, p) \in 1..Cardinality(A) /\ PlaceOf(A, AttemptNo(c, p)) = p
      /\ \A o \in O : ObservationNo(c, o) \in 1..Cardinality(O) /\ PlaceOf(O, ObservationNo(c, o)) = o
  BY NumbersExpanded
<1>2. e.attempts = [n \in 1..Cardinality(A) |->
                      LET p == PlaceOf(A, n) x == Attempt(c, p).evidence IN
                      [attempt |-> n, kind |-> x.kind, cueing |-> x.cueing,
                       exposure |-> x.exposure, scenario |-> x.scenario, provenance |-> TRUE,
                       original |-> IF x.original = None THEN 0 ELSE AttemptNo(c, x.original)]]
  BY DEF ExpandedEvidence, AttemptNo
<1>3. e.observations = [n \in 1..Cardinality(O) |->
                          LET o == PlaceOf(O, n) x == Observed(c, o).assessment IN
                          [observation |-> n, attempt |-> AttemptNo(c, AttemptOf(o)),
                           realization |-> x.realization, accuracy |-> x.accuracy,
                           provenance |-> TRUE]]
  BY DEF ExpandedEvidence, AttemptNo, Observed, AttemptOf
<1>4. e.interventions =
         {[targets |-> Attempt(c, i).interventions[i[3]], after |-> AttemptNo(c, AttemptOf(i)),
           before |-> InterventionBefore(c, i)] : i \in InterventionAt(c)}
  BY DEF ExpandedEvidence, AttemptNo, AttemptOf
<1> HIDE DEF A, O
<1>5. /\ DOMAIN e.attempts = 1..Cardinality(A)
      /\ \A p \in A :
            LET a == e.attempts[AttemptNo(c, p)] x == Attempt(c, p).evidence IN
            /\ a.attempt = AttemptNo(c, p) /\ a.provenance
            /\ a.kind = x.kind /\ a.cueing = x.cueing
            /\ a.exposure = x.exposure /\ a.scenario = x.scenario
            /\ a.original = IF x.original = None THEN 0 ELSE AttemptNo(c, x.original)
  BY <1>1, <1>2
<1>6. /\ DOMAIN e.observations = 1..Cardinality(O)
      /\ \A o \in O :
            LET x == e.observations[ObservationNo(c, o)] y == Observed(c, o).assessment IN
            /\ x.observation = ObservationNo(c, o) /\ x.attempt = AttemptNo(c, AttemptOf(o))
            /\ x.realization = y.realization /\ x.accuracy = y.accuracy
  BY <1>1, <1>3
<1> QED
  BY <1>4, <1>5, <1>6 DEF A, O

\* The canonical observations of an attempt are those made in it.
LEMMA ObservationsMade ==
    ASSUME NEW c, c.turns \in Conversations, NEW r, r = Expand(c), NEW p \in AttemptAt(c)
    PROVE  /\ \A n \in ObservationsOf(r, AttemptNo(c, p)) :
                 \E k \in DOMAIN Attempt(c, p).observations :
                    LET x == Attempt(c, p).observations[k] IN
                    r.obs[n].key = x.key /\ r.obs[n].hint = x.hint
           /\ \A k \in DOMAIN Attempt(c, p).observations :
                 \E n \in ObservationsOf(r, AttemptNo(c, p)) :
                    LET x == Attempt(c, p).observations[k] IN
                    r.obs[n].key = x.key /\ r.obs[n].hint = x.hint
<1> DEFINE A == AttemptAt(c) O == ObservationAt(c)
<1>1. /\ \A q \in A : PlaceOf(A, AttemptNo(c, q)) = q
      /\ \A o \in O : ObservationNo(c, o) \in 1..Cardinality(O) /\ AttemptOf(o) \in A
      /\ \A n \in 1..Cardinality(O) : PlaceOf(O, n) \in O /\ ObservationNo(c, PlaceOf(O, n)) = n
  BY NumbersExpanded
<1>2. /\ DOMAIN r.obs = 1..Cardinality(O)
      /\ \A o \in O : LET x == r.obs[ObservationNo(c, o)] IN
                      /\ x.key = Observed(c, o).key /\ x.hint = Observed(c, o).hint
                      /\ x.attempt = AttemptNo(c, AttemptOf(o))
  BY RequestExpanded
<1>3. \A o : o \in O <=> /\ o = <<o[1], o[2], o[3]>> /\ AttemptOf(o) \in A
                         /\ o[3] \in DOMAIN Attempt(c, AttemptOf(o)).observations
  BY ObservationPositions DEF AttemptOf
<1>4. p = <<p[1], p[2]>>
  BY AttemptPositions
<1>5. ASSUME NEW n \in ObservationsOf(r, AttemptNo(c, p))
      PROVE  \E k \in DOMAIN Attempt(c, p).observations :
                LET x == Attempt(c, p).observations[k] IN
                r.obs[n].key = x.key /\ r.obs[n].hint = x.hint
  <2>1. n \in 1..Cardinality(O) /\ r.obs[n].attempt = AttemptNo(c, p)
    BY <1>2 DEF ObservationsOf
  <2> DEFINE o == PlaceOf(O, n)
  <2>2. o \in O /\ ObservationNo(c, o) = n
    BY <1>1, <2>1
  <2> HIDE DEF o
  <2>3. AttemptNo(c, AttemptOf(o)) = AttemptNo(c, p)
    BY <1>2, <2>1, <2>2
  <2>4. AttemptOf(o) = p
    BY <1>1, <2>2, <2>3
  <2>5. o[3] \in DOMAIN Attempt(c, p).observations /\ o[1] = p[1] /\ o[2] = p[2]
    BY <1>3, <2>2, <2>4 DEF AttemptOf
  <2>6. Observed(c, o) = Attempt(c, p).observations[o[3]]
    BY <2>5 DEF Observed, Attempt
  <2> QED
    BY <1>2, <2>2, <2>5, <2>6
<1>6. ASSUME NEW k \in DOMAIN Attempt(c, p).observations
      PROVE  \E n \in ObservationsOf(r, AttemptNo(c, p)) :
                LET x == Attempt(c, p).observations[k] IN
                r.obs[n].key = x.key /\ r.obs[n].hint = x.hint
  <2> DEFINE o == <<p[1], p[2], k>>
  <2>1. o[1] = p[1] /\ o[2] = p[2] /\ o[3] = k /\ o = <<o[1], o[2], o[3]>>
    OBVIOUS
  <2> HIDE DEF o
  <2>2. AttemptOf(o) = p
    BY <1>4, <2>1 DEF AttemptOf
  <2>3. o \in O
    BY <1>3, <2>1, <2>2
  <2>4. ObservationNo(c, o) \in ObservationsOf(r, AttemptNo(c, p))
    BY <1>1, <1>2, <2>2, <2>3 DEF ObservationsOf
  <2>5. Observed(c, o) = Attempt(c, p).observations[k]
    BY <2>1 DEF Observed, Attempt
  <2> QED
    BY <1>2, <2>3, <2>4, <2>5
<1> QED
  BY <1>5, <1>6

\* What an attempt was asked to show, before and after the expansion.
LEMMA AskedExpanded ==
    ASSUME NEW c, c.turns \in Conversations, NEW r, r = Expand(c), NEW p \in AttemptAt(c)
    PROVE  /\ TargetsOf(r, AttemptNo(c, p)) = AskedOf(c, p)
           /\ Hinted(r, AttemptNo(c, p)) <=>
                 \E x \in SeqSet(Attempt(c, p).observations) : x.hint \notin {None, "no_hint"}
<1> DEFINE no == AttemptNo(c, p) xs == Attempt(c, p).observations
<1>1. /\ \A n \in ObservationsOf(r, no) : \E k \in DOMAIN xs :
            r.obs[n].key = xs[k].key /\ r.obs[n].hint = xs[k].hint
      /\ \A k \in DOMAIN xs : \E n \in ObservationsOf(r, no) :
            r.obs[n].key = xs[k].key /\ r.obs[n].hint = xs[k].hint
  BY ObservationsMade
<1>2. r.items[r.attempts[no].item].targets = c.turns[p[1]].targets
  BY RequestExpanded, AttemptPositions
<1> HIDE DEF no, xs
<1>3. {r.obs[n].key : n \in ObservationsOf(r, no)} = {x.key : x \in SeqSet(xs)}
  BY <1>1 DEF SeqSet
<1>4. Hinted(r, no) <=> \E x \in SeqSet(xs) : x.hint \notin {None, "no_hint"}
  BY <1>1 DEF SeqSet, Hinted
<1>5. TargetsOf(r, no) = AskedOf(c, p)
  BY <1>2, <1>3 DEF TargetsOf, AskedOf, xs
<1> QED
  BY <1>4, <1>5 DEF no, xs

LEMMA InterventionPositions ==
    ASSUME NEW c, c.turns \in Conversations, NEW i \in InterventionAt(c)
    PROVE  /\ AttemptOf(i) \in AttemptAt(c) /\ Attempt(c, i) = Attempt(c, AttemptOf(i))
           /\ i[3] \in DOMAIN Attempt(c, i).interventions
<1>1. PICK p \in AttemptAt(c) :
          \E k \in DOMAIN Attempt(c, p).interventions : i = <<p[1], p[2], k>>
  BY DEF InterventionAt
<1>2. p = <<p[1], p[2]>>
  BY AttemptPositions
<1>3. i[1] = p[1] /\ i[2] = p[2] /\ i[3] \in DOMAIN Attempt(c, p).interventions
  BY <1>1
<1>4. AttemptOf(i) = p /\ Attempt(c, i) = Attempt(c, p)
  BY <1>2, <1>3 DEF AttemptOf, Attempt
<1> QED
  BY <1>3, <1>4

\* An attempt counts as independent exactly when nothing helped with it.
LEMMA IndependentIsUnaided ==
    ASSUME NEW c, c.turns \in Conversations, NEW r, r = Expand(c),
           NEW e, e = ExpandedEvidence(c), NEW p \in AttemptAt(c), Attempt(c, p).evidence # None
    PROVE  LET a == e.attempts[AttemptNo(c, p)] IN
           /\ AttemptClass(r, e, a) = "independent" <=> Unaided(c, p)
           /\ AttemptClass(r, e, a) = "independent" =>
                 ~FindingOf(r, a) /\ a.kind # "self_correction"
<1> DEFINE no == AttemptNo(c, p) a == e.attempts[no] x == Attempt(c, p).evidence
           turn == c.turns[p[1]] asked == AskedOf(c, p)
<1>1. /\ a.attempt = no /\ a.kind = x.kind /\ a.cueing = x.cueing /\ a.exposure = x.exposure
      /\ e.interventions =
            {[targets |-> Attempt(c, i).interventions[i[3]], after |-> AttemptNo(c, AttemptOf(i)),
              before |-> InterventionBefore(c, i)] : i \in InterventionAt(c)}
  BY EvidenceExpanded
<1>2. p[1] \in DOMAIN c.turns /\ p[2] \in DOMAIN turn.attempts
  BY AttemptPositions
<1>3. /\ no \in DOMAIN r.attempts /\ r.attempts[no].item = p[1]
      /\ p[1] \in DOMAIN r.items /\ r.items[p[1]].drill = turn.drill
      /\ r.items[p[1]].prompt = turn.prompt
  BY <1>2, RequestExpanded, NumbersExpanded
<1>4. /\ TargetsOf(r, no) = asked
      /\ Hinted(r, no) <=> \E y \in SeqSet(Attempt(c, p).observations) : y.hint \notin {None, "no_hint"}
  BY AskedExpanded
<1>5. x.cueing \in Cueings /\ x.exposure \in Exposures
  BY <1>2, ConversationsAssumption DEF Attempt
<1> DEFINE named(i) == Attempt(c, i).interventions[i[3]]
<1>6. ASSUME NEW i \in InterventionAt(c)
      PROVE  AttemptNo(c, AttemptOf(i)) < no <=> Earlier(<<i[1], i[2]>>, p)
  BY InterventionPositions, NumbersExpanded DEF AttemptOf
<1>7. Exposed(r, e, a) <=> \E i \in InterventionAt(c) :
                               /\ Earlier(<<i[1], i[2]>>, p)
                               /\ named(i) = {} \/ named(i) \cap asked # {}
  <2>1. Exposed(r, e, a) <=> \E i \in InterventionAt(c) :
                                 /\ AttemptNo(c, AttemptOf(i)) < no
                                 /\ named(i) = {} \/ named(i) \cap asked # {}
    <3>1. \A j \in e.interventions : \E i \in InterventionAt(c) :
             j.targets = named(i) /\ j.after = AttemptNo(c, AttemptOf(i))
      BY <1>1
    <3>2. \A i \in InterventionAt(c) : \E j \in e.interventions :
             j.targets = named(i) /\ j.after = AttemptNo(c, AttemptOf(i))
      <4> TAKE i \in InterventionAt(c)
      <4> DEFINE j == [targets |-> named(i), after |-> AttemptNo(c, AttemptOf(i)),
                       before |-> InterventionBefore(c, i)]
      <4>1. j \in e.interventions /\ j.targets = named(i) /\ j.after = AttemptNo(c, AttemptOf(i))
        BY <1>1
      <4> QED
        BY <4>1
    <3>3. a.attempt = no /\ TargetsOf(r, a.attempt) = asked
      BY <1>1, <1>4
    <3> HIDE DEF asked, no, a, named
    <3> QED
      BY <3>1, <3>2, <3>3 DEF Exposed
  <2> QED
    BY <1>6, <2>1
<1> DEFINE hinted == \E y \in SeqSet(Attempt(c, p).observations) : y.hint \notin {None, "no_hint"}
           found  == PromptFinding(turn.prompt, asked)
<1>8. Unaided(c, p) <=> /\ x.kind # "self_correction"
                        /\ x.exposure = "none_known" /\ x.cueing = "none_detected"
                        /\ turn.drill \notin Controlled /\ ~found /\ ~hinted /\ ~Exposed(r, e, a)
  <2> HIDE DEF asked, a
  <2> QED
    BY <1>7 DEF Unaided, PromptFinding, asked
<1>9. FindingOf(r, a) <=> found
  BY <1>1, <1>3, <1>4 DEF FindingOf
<1>10. AttemptClass(r, e, a) = "independent" <=>
          /\ ~hinted /\ x.kind # "self_correction" /\ ~Exposed(r, e, a)
          /\ x.exposure \notin {"model", "relevant_wording"}
          /\ ~found /\ x.cueing \notin {"indirect", "target_form", "model"}
          /\ turn.drill \notin Controlled
          /\ ~(x.cueing = "unknown" \/ x.exposure = "unknown")
  <2> HIDE DEF found, hinted, asked
  <2>1. Hinted(r, a.attempt) <=> hinted
    BY <1>1, <1>4 DEF hinted
  <2>2. PromptFinding(r.items[r.attempts[a.attempt].item].prompt, TargetsOf(r, a.attempt)) <=> found
    BY <1>1, <1>3, <1>4 DEF found
  <2> HIDE DEF a, no
  <2> QED
    BY <1>1, <1>3, <2>1, <2>2 DEF AttemptClass
<1> HIDE DEF found, hinted, x, turn, asked, a
<1>11. AttemptClass(r, e, a) = "independent" <=> Unaided(c, p)
  BY <1>5, <1>8, <1>10 DEF Cueings, Exposures
<1> QED
  BY <1>1, <1>9, <1>10, <1>11 DEF a, no

(***************************************************************************)
(* Which observations count.                                               *)
(***************************************************************************)
LEMMA ExclusionRules ==
    ASSUME NEW r, NEW e, NEW a, NEW o
    PROVE  (Exclusion(r, e, a, o) = None) <=>
              LET class == AttemptClass(r, e, a) hint == r.obs[o.observation].hint IN
              /\ o.realization \in Seen /\ ~FindingOf(r, a) /\ a.kind # "self_correction"
              /\ class # "unknown" /\ hint # None /\ class = "independent" /\ hint = "no_hint"
              /\ r.obs[o.observation].phase \in {"cold_retrieval", "transfer"}
              /\ o.accuracy # "not_assessable"
<1> DEFINE class == AttemptClass(r, e, a)
           hint  == r.obs[o.observation].hint
           phase == r.obs[o.observation].phase
           rules == <<
        <<o.realization \notin Seen,                   "target_not_observed">>,
        <<FindingOf(r, a),                             "prompt_supplied_target">>,
        <<a.kind = "self_correction",                  "assisted_retry">>,
        <<class = "unknown" \/ hint = None,            "unknown_assistance">>,
        <<class # "independent" \/ hint # "no_hint",   "assisted_or_cued">>,
        <<phase \notin {"cold_retrieval", "transfer"}, "not_independent_assessment_phase">>,
        <<o.accuracy = "not_assessable",               "insufficient_rating_evidence">> >>
<1>1. Exclusion(r, e, a, o) = FirstRule(rules)
  BY DEF Exclusion
<1> HIDE DEF class, hint, phase
<1>2. DOMAIN rules = 1..7 /\ \A i \in 1..7 : rules[i][2] \in Exclusions
  <2>1. DOMAIN rules = 1..7
    OBVIOUS
  <2>2. /\ rules[1][2] \in Exclusions /\ rules[2][2] \in Exclusions /\ rules[3][2] \in Exclusions
        /\ rules[4][2] \in Exclusions /\ rules[5][2] \in Exclusions /\ rules[6][2] \in Exclusions
        /\ rules[7][2] \in Exclusions
    BY DEF Exclusions
  <2> HIDE DEF rules
  <2> QED
    BY <2>1, <2>2
<1>3. (\A i \in 1..7 : ~rules[i][1]) <=>
        /\ ~rules[1][1] /\ ~rules[2][1] /\ ~rules[3][1] /\ ~rules[4][1]
        /\ ~rules[5][1] /\ ~rules[6][1] /\ ~rules[7][1]
  <2> HIDE DEF rules
  <2> QED
    OBVIOUS
<1>4. /\ rules[1][1] <=> o.realization \notin Seen
      /\ rules[2][1] <=> FindingOf(r, a)
      /\ rules[3][1] <=> a.kind = "self_correction"
      /\ rules[4][1] <=> class = "unknown" \/ hint = None
      /\ rules[5][1] <=> class # "independent" \/ hint # "no_hint"
      /\ rules[6][1] <=> phase \notin {"cold_retrieval", "transfer"}
      /\ rules[7][1] <=> o.accuracy = "not_assessable"
  OBVIOUS
<1> HIDE DEF rules
<1>5. (FirstRule(rules) = None) <=> \A i \in 1..7 : ~rules[i][1]
  BY <1>2, FirstOfSeven
<1> QED
  BY <1>1, <1>3, <1>4, <1>5 DEF class, hint, phase

LEMMA CountsWhenIndependent ==
    ASSUME NEW c, c.turns \in Conversations, NEW r, r = Expand(c),
           NEW e, e = ExpandedEvidence(c), NEW o \in ObservationAt(c),
           Attempt(c, AttemptOf(o)).evidence # None
    PROVE  LET a == e.attempts[AttemptNo(c, AttemptOf(o))]
               x == e.observations[ObservationNo(c, o)]
           IN (Exclusion(r, e, a, x) = None) <=> o \in Independent(c, Observed(c, o).key)
<1> DEFINE p == AttemptOf(o) y == Observed(c, o)
           a == e.attempts[AttemptNo(c, p)]
           x == e.observations[ObservationNo(c, o)]
<1>1. p \in AttemptAt(c)
  BY NumbersExpanded
<1>2. /\ x.observation = ObservationNo(c, o)
      /\ x.realization = y.assessment.realization /\ x.accuracy = y.assessment.accuracy
  BY EvidenceExpanded
<1>3. r.obs[x.observation].hint = y.hint /\ r.obs[x.observation].phase = y.phase
  BY <1>2, RequestExpanded
<1>4. /\ AttemptClass(r, e, a) = "independent" <=> Unaided(c, p)
      /\ AttemptClass(r, e, a) = "independent" => ~FindingOf(r, a) /\ a.kind # "self_correction"
  BY <1>1, IndependentIsUnaided
<1>5. o \in Independent(c, y.key) <=>
        /\ y.hint = "no_hint" /\ y.phase \in {"cold_retrieval", "transfer"}
        /\ y.assessment.realization \in Seen /\ y.assessment.accuracy # "not_assessable"
        /\ Unaided(c, p)
  BY DEF Independent, Observed, AttemptOf
<1>6. "no_hint" # None
  BY AbsentIsNoText
<1> HIDE DEF p, y, a, x
<1>7. (Exclusion(r, e, a, x) = None) <=>
        /\ x.realization \in Seen /\ ~FindingOf(r, a) /\ a.kind # "self_correction"
        /\ AttemptClass(r, e, a) # "unknown" /\ r.obs[x.observation].hint # None
        /\ AttemptClass(r, e, a) = "independent" /\ r.obs[x.observation].hint = "no_hint"
        /\ r.obs[x.observation].phase \in {"cold_retrieval", "transfer"}
        /\ x.accuracy # "not_assessable"
  BY ExclusionRules
<1>8. (Exclusion(r, e, a, x) = None) <=> o \in Independent(c, y.key)
  BY <1>2, <1>3, <1>4, <1>5, <1>6, <1>7
<1> QED
  BY <1>8 DEF p, y, a, x

(***************************************************************************)
(* What an eligible decision has established.                              *)
(***************************************************************************)
Known(r, key) ==
    {o \in TargetEvidence(r, key) : AttemptEvidence(r.evidence, o.attempt) # {}}

EvidenceFor(r, o) == CHOOSE a \in AttemptEvidence(r.evidence, o.attempt) : TRUE

Counted(r, key) ==
    {o \in Known(r, key) : Exclusion(r, r.evidence, EvidenceFor(r, o), o) = None}

Support(r, review) == {o \in Counted(r, review.key) : o.observation \in review.cited}

SupportNos(r, review) == {o.observation : o \in Support(r, review)}

Scenarios(r, review) == {EvidenceFor(r, o).scenario : o \in Support(r, review)}

Failed(r, key) == {o \in Counted(r, key) : o.accuracy \in Failing}

LEMMA EligibleDecision ==
    ASSUME NEW r, NEW review, Decision(r, review).eligible
    PROVE  /\ r.evidence # None
           /\ Decision(r, review).supporting = SupportNos(r, review)
           /\ Cardinality(SupportNos(r, review)) >= 2
           /\ Cardinality(Scenarios(r, review)) >= 2
           /\ \A o \in Failed(r, review.key) : o.observation \in review.cited
           /\ review.rating = "again" <=> Failed(r, review.key) # {}
           /\ \E n \in SupportNos(r, review) : r.obs[n].phase = "cold_retrieval"
<1> DEFINE d == ReviewDecision(r, review)
<1>0. CASE r.evidence = None
  <2>1. d = [eligible |-> FALSE, codes |-> {"unknown_assistance"},
             supporting |-> {}, excluded |-> review.cited]
    BY <1>0 DEF ReviewDecision
  <2>2. ~d.eligible
    BY <2>1
  <2> HIDE DEF d
  <2>3. Decision(r, review) = d
    BY <2>2 DEF Decision, d
  <2> QED
    BY <2>2, <2>3
<1>1. CASE r.evidence # None
  <2> DEFINE e        == r.evidence
             known    == Known(r, review.key)
             att(o)   == EvidenceFor(r, o)
             why      == [o \in known |-> Exclusion(r, e, att(o), o)]
             cited(o) == o.observation \in review.cited
             counted  == {o \in known : why[o] = None}
             support  == {o \in counted : cited(o)}
             nos      == {o.observation : o \in support}
             failed   == {o \in counted : o.accuracy \in Failing}
             varied   == /\ Cardinality(nos) >= 2
                         /\ Cardinality({att(o).scenario : o \in support}) >= 2
                         /\ \E v \in e.variations : v.key = review.key /\ nos \subseteq v.observations
             rated    == /\ review.rating # "again" =>
                                \A n \in nos : r.obs[n].effort \notin {None, "unknown"}
                         /\ review.rating # "again" => review.rationale
             code(on, name) == IF on THEN {name} ELSE {}
             excluded == {x \in known : cited(x) /\ why[x] # None}
             codes    == {why[o] : o \in excluded}
                         \cup code(known # TargetEvidence(r, review.key), "invalid_attempt_reference")
                         \cup code(\E o \in failed : ~cited(o), "independent_failure_not_cited")
                         \cup code(~rated, "insufficient_rating_evidence")
                         \cup code(~varied, "insufficient_varied_evidence")
                         \cup code(failed # {} /\ review.rating # "again",
                                   "independent_failure_requires_again")
                         \cup code(failed = {} /\ review.rating = "again",
                                   "rating_conflicts_with_success")
  <2>1. d = [eligible |-> Cardinality(nos) >= 2 /\ codes \cap Blocking = {}, codes |-> codes,
             supporting |-> nos, excluded |-> {o.observation : o \in excluded}]
    BY <1>1 DEF ReviewDecision, Known, EvidenceFor
  <2>2. counted = Counted(r, review.key)
    BY DEF Counted
  <2>3. support = Support(r, review) /\ failed = Failed(r, review.key)
    BY <2>2 DEF Support, Failed
  <2> HIDE DEF counted, support, failed, nos, varied, rated, excluded, known
  <2>4. /\ d.eligible <=> Cardinality(nos) >= 2 /\ codes \cap Blocking = {}
        /\ d.supporting = nos
        /\ [d EXCEPT !.eligible = FALSE, !.codes = @ \cup {"rating_policy"}].eligible = FALSE
    <3> HIDE DEF codes, d
    <3> QED
      BY <2>1
  <2> HIDE DEF d
  <2>5. /\ d.eligible /\ RatingPolicyFits(r, review, nos)
        /\ Decision(r, review) = d
    BY <2>4 DEF Decision, d
  <2>6. codes \cap Blocking = {} /\ Cardinality(nos) >= 2
    BY <2>4, <2>5
  <2>7. varied /\ (\A o \in failed : cited(o)) /\ (review.rating = "again" <=> failed # {})
    BY <2>6 DEF Blocking
  <2>8. \E n \in nos : r.obs[n].phase = "cold_retrieval"
    BY <2>5 DEF RatingPolicyFits
  <2>9. nos = SupportNos(r, review)
    BY <2>3 DEF nos, SupportNos
  <2>10. Cardinality(Scenarios(r, review)) >= 2
    BY <2>3, <2>7 DEF varied, Scenarios
  <2> QED
    BY <1>1, <2>3, <2>4, <2>5, <2>6, <2>7, <2>8, <2>9, <2>10
<1> QED
  BY <1>0, <1>1

(***************************************************************************)
(* A session that was accepted, expanded and decided.                      *)
(***************************************************************************)
Session(c, r) == c.turns \in Conversations /\ Accepts(c) /\ r = Expand(c) /\ r.evidence # None

LEMMA SessionEvidence ==
    ASSUME NEW c, NEW r, Session(c, r)
    PROVE  /\ r.evidence = ExpandedEvidence(c)
           /\ \A p \in AttemptAt(c) : Attempt(c, p).evidence # None
<1>1. r.evidence = IF ProductionPresent(c) THEN ExpandedEvidence(c) ELSE None
  BY DEF Session, Expand
<1>2. ProductionPresent(c)
  BY <1>1 DEF Session
<1> QED
  BY <1>1, <1>2 DEF Session, Accepts

\* The canonical observations that count are the numbers of the independent
\* ones, each judged by the evidence of its own attempt.
LEMMA CountedIsIndependent ==
    ASSUME NEW c, NEW r, Session(c, r), NEW key
    PROVE  /\ \A x \in Counted(r, key) : \E o \in Independent(c, key) :
                 x = r.evidence.observations[ObservationNo(c, o)]
           /\ \A o \in Independent(c, key) :
                 LET x == r.evidence.observations[ObservationNo(c, o)] IN
                 /\ x \in Counted(r, key) /\ x.observation = ObservationNo(c, o)
                 /\ x.accuracy = Observed(c, o).assessment.accuracy
                 /\ EvidenceFor(r, x).scenario = Attempt(c, o).evidence.scenario
<1> DEFINE e == r.evidence A == AttemptAt(c) O == ObservationAt(c)
           x(o) == e.observations[ObservationNo(c, o)]
           a(o) == e.attempts[AttemptNo(c, AttemptOf(o))]
<1>1. c.turns \in Conversations /\ r = Expand(c) /\ e = ExpandedEvidence(c)
  BY SessionEvidence DEF Session
<1>2. /\ \A o \in O : /\ ObservationNo(c, o) \in 1..Cardinality(O)
                      /\ AttemptOf(o) \in A /\ AttemptNo(c, AttemptOf(o)) \in 1..Cardinality(A)
      /\ \A n \in 1..Cardinality(O) : PlaceOf(O, n) \in O /\ ObservationNo(c, PlaceOf(O, n)) = n
      /\ \A n \in 1..Cardinality(A) : PlaceOf(A, n) \in A /\ AttemptNo(c, PlaceOf(A, n)) = n
  BY <1>1, NumbersExpanded
<1>3. /\ DOMAIN e.attempts = 1..Cardinality(A)
      /\ \A p \in A : e.attempts[AttemptNo(c, p)].attempt = AttemptNo(c, p)
      /\ \A p \in A : e.attempts[AttemptNo(c, p)].scenario = Attempt(c, p).evidence.scenario
      /\ DOMAIN e.observations = 1..Cardinality(O)
      /\ \A o \in O : /\ x(o).observation = ObservationNo(c, o)
                      /\ x(o).attempt = AttemptNo(c, AttemptOf(o))
                      /\ x(o).accuracy = Observed(c, o).assessment.accuracy
  BY <1>1, EvidenceExpanded
<1>4. /\ DOMAIN r.obs = 1..Cardinality(O)
      /\ \A o \in O : r.obs[ObservationNo(c, o)].key = Observed(c, o).key
  BY <1>1, RequestExpanded
<1>5. \A o \in O : (Exclusion(r, e, a(o), x(o)) = None) <=> o \in Independent(c, Observed(c, o).key)
  BY <1>1, <1>2, SessionEvidence, CountsWhenIndependent
<1>6. \A o \in O : Attempt(c, o) = Attempt(c, AttemptOf(o))
  BY DEF Attempt, AttemptOf
<1>7. Independent(c, key) = {o \in O : Observed(c, o).key = key /\ o \in Independent(c, Observed(c, o).key)}
  BY DEF Independent, Observed
<1> HIDE DEF e, A, O
<1>8. SeqSet(e.observations) = {x(o) : o \in O}
  BY <1>2, <1>3 DEF SeqSet
<1>9. ASSUME NEW o \in O
      PROVE  AttemptEvidence(e, x(o).attempt) = {a(o)}
  <2>1. \A n \in DOMAIN e.attempts : e.attempts[n].attempt = n
    BY <1>2, <1>3
  <2> QED
    BY <1>2, <1>3, <1>9, <2>1 DEF AttemptEvidence, SeqSet
<1> HIDE DEF a, x
<1>10. \A o \in O : EvidenceFor(r, x(o)) = a(o) /\ AttemptEvidence(e, x(o).attempt) # {}
  BY <1>9 DEF EvidenceFor, e
<1>11. Known(r, key) = {x(o) : o \in {q \in O : Observed(c, q).key = key}}
  <2>1. TargetEvidence(r, key) = {y \in SeqSet(e.observations) :
                                     y.observation \in DOMAIN r.obs /\ r.obs[y.observation].key = key}
    BY DEF TargetEvidence, e
  <2>2. Known(r, key) = {y \in TargetEvidence(r, key) : AttemptEvidence(e, y.attempt) # {}}
    BY DEF Known, e
  <2>3. \A o \in O : /\ x(o).observation \in DOMAIN r.obs
                     /\ r.obs[x(o).observation].key = Observed(c, o).key
    BY <1>2, <1>3, <1>4
  <2> QED
    BY <1>8, <1>10, <2>1, <2>2, <2>3
<1>12. Counted(r, key) = {y \in Known(r, key) : Exclusion(r, e, EvidenceFor(r, y), y) = None}
  BY DEF Counted, e
<1>13. \A o \in O : x(o) \in Counted(r, key) <=>
                       x(o) \in Known(r, key) /\ o \in Independent(c, Observed(c, o).key)
  BY <1>5, <1>10, <1>12
<1>14. \A y \in Counted(r, key) : \E o \in Independent(c, key) : y = x(o)
  BY <1>7, <1>11, <1>12, <1>13
<1>15. \A o \in Independent(c, key) :
          /\ x(o) \in Counted(r, key) /\ x(o).observation = ObservationNo(c, o)
          /\ x(o).accuracy = Observed(c, o).assessment.accuracy
          /\ EvidenceFor(r, x(o)).scenario = Attempt(c, o).evidence.scenario
  <2> TAKE o \in Independent(c, key)
  <2>1. o \in O /\ Observed(c, o).key = key /\ o \in Independent(c, Observed(c, o).key)
    BY <1>7
  <2>2. x(o) \in Counted(r, key)
    BY <1>11, <1>13, <2>1
  <2>3. a(o).scenario = Attempt(c, o).evidence.scenario
    BY <1>2, <1>3, <1>6, <2>1 DEF a
  <2> QED
    BY <1>3, <1>10, <2>1, <2>2, <2>3
<1> QED
  BY <1>14, <1>15 DEF x, e

LEMMA TwoElements ==
    ASSUME NEW S, IsFiniteSet(S), Cardinality(S) >= 2
    PROVE  \E x, y \in S : x # y
<1> SUFFICES ASSUME \A x, y \in S : x = y PROVE FALSE
  OBVIOUS
<1>1. S = {} \/ \E x : S = {x}
  OBVIOUS
<1> QED
  BY <1>1, FS_EmptySet, FS_Singleton

LEMMA ReviewsExpanded ==
    ASSUME NEW c, NEW r, Session(c, r), NEW i \in DOMAIN c.reviews
    PROVE  /\ r.reviews[i].key = c.reviews[i].key /\ r.reviews[i].rating = c.reviews[i].rating
           /\ r.reviews[i].cited = {ObservationNo(c, o) : o \in c.reviews[i].refs}
           /\ c.reviews[i].refs \subseteq ObservationAt(c)
<1>1. /\ r.reviews[i].key = c.reviews[i].key /\ r.reviews[i].rating = c.reviews[i].rating
      /\ r.reviews[i].cited = {ObservationNo(c, o) : o \in c.reviews[i].refs}
  BY DEF Session, Expand, ObservationNo
<1>2. c.reviews[i].refs \subseteq ObservationAt(c)
  BY DEF Session, Accepts, RefersTo
<1> QED
  BY <1>1, <1>2

Rests(c, r, i) == {PlaceOf(ObservationAt(c), n) : n \in SupportNos(r, r.reviews[i])}

\* What a review rests on: the independent part of what it cites.
LEMMA RestsOn ==
    ASSUME NEW c, NEW r, Session(c, r), NEW i \in DOMAIN c.reviews
    PROVE  /\ Rests(c, r, i) = c.reviews[i].refs \cap Independent(c, c.reviews[i].key)
           /\ IsFiniteSet(Rests(c, r, i))
           /\ Cardinality(Rests(c, r, i)) = Cardinality(SupportNos(r, r.reviews[i]))
           /\ \A n \in SupportNos(r, r.reviews[i]) :
                 /\ PlaceOf(ObservationAt(c), n) \in Rests(c, r, i)
                 /\ r.obs[n].phase = Observed(c, PlaceOf(ObservationAt(c), n)).phase
           /\ Scenarios(r, r.reviews[i]) = {Attempt(c, o).evidence.scenario : o \in Rests(c, r, i)}
<1> DEFINE O == ObservationAt(c) review == r.reviews[i] refs == c.reviews[i].refs
           mine == Independent(c, c.reviews[i].key)
           no(o) == ObservationNo(c, o)
           supporting == SupportNos(r, review)
           rests == {PlaceOf(O, n) : n \in supporting}
           x(o) == r.evidence.observations[no(o)]
<1>1. c.turns \in Conversations /\ r = Expand(c)
  BY DEF Session
<1>2. \A o \in O : PlaceOf(O, no(o)) = o
  BY <1>1, NumbersExpanded
<1>3. /\ review.key = c.reviews[i].key /\ review.cited = {no(o) : o \in refs} /\ refs \subseteq O
  BY ReviewsExpanded
<1>4. mine \subseteq O
  BY DEF Independent
<1>5. /\ \A y \in Counted(r, review.key) : \E o \in mine : y = x(o)
      /\ \A o \in mine : /\ x(o) \in Counted(r, review.key) /\ x(o).observation = no(o)
                         /\ EvidenceFor(r, x(o)).scenario = Attempt(c, o).evidence.scenario
  BY <1>3, CountedIsIndependent
<1>6. \A o \in O : r.obs[no(o)].phase = Observed(c, o).phase
  BY <1>1, RequestExpanded
<1>7. IsFiniteSet(O)
  BY <1>1, Numbers
<1> HIDE DEF O, mine, refs, no, x, review
<1>8. \A o \in mine : no(o) \in review.cited <=> o \in refs
  BY <1>2, <1>3, <1>4
<1>9. Support(r, review) = {x(o) : o \in refs \cap mine}
  BY <1>5, <1>8 DEF Support
<1>10. supporting = {no(o) : o \in refs \cap mine}
  BY <1>5, <1>9 DEF SupportNos
<1>11. \A y \in supporting : y = no(PlaceOf(O, y)) /\ PlaceOf(O, y) \in refs \cap mine
  BY <1>2, <1>4, <1>10
<1>12. rests = refs \cap mine
  BY <1>2, <1>4, <1>10
<1>13. IsFiniteSet(rests)
  <2>1. rests \in SUBSET O
    BY <1>4, <1>12
  <2> HIDE DEF rests
  <2> QED
    BY <2>1, <1>7, FS_Subset
<1>14. Cardinality(rests) = Cardinality(supporting)
  <2> DEFINE f == [o \in rests |-> no(o)]
  <2>1. f \in Surjection(rests, supporting)
    BY <1>10, <1>12 DEF Surjection
  <2>2. f \in Injection(rests, supporting)
    <3>1. \A o \in rests : no(o) \in supporting /\ PlaceOf(O, no(o)) = o
      BY <1>2, <1>4, <1>10, <1>12
    <3> HIDE DEF rests, supporting
    <3> QED
      BY <3>1 DEF Injection, IsInjective
  <2> HIDE DEF f, rests, supporting
  <2> QED
    BY <1>13, <2>1, <2>2, FS_Surjection
<1>15. \A n \in supporting : r.obs[n].phase = Observed(c, PlaceOf(O, n)).phase
  BY <1>4, <1>6, <1>11
<1>16. Scenarios(r, review) = {Attempt(c, o).evidence.scenario : o \in rests}
  BY <1>5, <1>9, <1>12 DEF Scenarios
<1>17. rests = Rests(c, r, i)
  BY DEF O, review, Rests
<1>18. \A n \in supporting : PlaceOf(O, n) \in rests
  OBVIOUS
<1> HIDE DEF rests, supporting
<1>19. /\ Rests(c, r, i) = refs \cap mine /\ IsFiniteSet(Rests(c, r, i))
       /\ Cardinality(Rests(c, r, i)) = Cardinality(supporting)
       /\ \A n \in supporting : /\ PlaceOf(O, n) \in Rests(c, r, i)
                                /\ r.obs[n].phase = Observed(c, PlaceOf(O, n)).phase
       /\ Scenarios(r, review) = {Attempt(c, o).evidence.scenario : o \in Rests(c, r, i)}
  BY <1>12, <1>13, <1>14, <1>15, <1>16, <1>17, <1>18
<1> QED
  BY <1>19 DEF O, mine, refs, review, supporting

\* What the two properties say of an eligible decision d on the i-th review.
Supported(c, i, d) ==
    LET review == c.reviews[i]
        rests  == {PlaceOf(ObservationAt(c), n) : n \in d.supporting}
    IN /\ rests = review.refs \cap Independent(c, review.key)
       /\ Cardinality(rests) >= 2
       /\ \E o \in rests : Attempt(c, o).observations[o[3]].phase = "cold_retrieval"
       /\ \E o, q \in rests : Attempt(c, o).evidence.scenario # Attempt(c, q).evidence.scenario

Faced(c, i) ==
    LET review == c.reviews[i] failed == Failures(c, review.key) IN
    /\ (review.rating = "again") <=> (failed # {})
    /\ failed \subseteq review.refs

\* An eligible review, said of the request as the tutor wrote it.
LEMMA EligibleReview ==
    ASSUME NEW c, c.turns \in Conversations, Accepts(c), NEW r, r = Expand(c),
           NEW i \in DOMAIN c.reviews, Decision(r, r.reviews[i]).eligible
    PROVE  Supported(c, i, Decision(r, r.reviews[i])) /\ Faced(c, i)
<1> DEFINE O == ObservationAt(c) review == c.reviews[i] ours == r.reviews[i]
           d == Decision(r, ours)
           supporting == SupportNos(r, ours)
           rests == Rests(c, r, i)
           mine  == Independent(c, review.key)
           scenarios == {Attempt(c, o).evidence.scenario : o \in rests}
           x(o) == r.evidence.observations[ObservationNo(c, o)]
<1>1. /\ r.evidence # None /\ d.supporting = supporting /\ Cardinality(supporting) >= 2
      /\ Cardinality(Scenarios(r, ours)) >= 2
      /\ \A y \in Failed(r, ours.key) : y.observation \in ours.cited
      /\ ours.rating = "again" <=> Failed(r, ours.key) # {}
      /\ \E n \in supporting : r.obs[n].phase = "cold_retrieval"
  <2>1. Decision(r, ours).eligible
    OBVIOUS
  <2> HIDE DEF ours
  <2> QED
    BY <2>1, EligibleDecision
<1>2. Session(c, r)
  BY <1>1 DEF Session
<1>3. /\ rests = review.refs \cap mine /\ IsFiniteSet(rests)
      /\ Cardinality(rests) = Cardinality(supporting)
      /\ \A n \in supporting : /\ PlaceOf(O, n) \in rests
                               /\ r.obs[n].phase = Observed(c, PlaceOf(O, n)).phase
      /\ Scenarios(r, ours) = scenarios
  BY <1>2, RestsOn
<1>4. /\ ours.key = review.key /\ ours.rating = review.rating
      /\ ours.cited = {ObservationNo(c, o) : o \in review.refs} /\ review.refs \subseteq O
  BY <1>2, ReviewsExpanded
<1>5. /\ \A y \in Counted(r, review.key) : \E o \in mine : y = x(o)
      /\ \A o \in mine : /\ x(o) \in Counted(r, review.key)
                         /\ x(o).observation = ObservationNo(c, o)
                         /\ x(o).accuracy = Observed(c, o).assessment.accuracy
  BY <1>2, CountedIsIndependent
<1>6. \A o \in O : PlaceOf(O, ObservationNo(c, o)) = o
  BY NumbersExpanded
<1>7. Failures(c, review.key) = {o \in mine : Observed(c, o).assessment.accuracy \in Failing}
  BY DEF Failures, Observed
<1>8. mine \subseteq O
  BY DEF Independent
<1>9. \E o \in rests : Observed(c, o).phase = "cold_retrieval"
  BY <1>1, <1>3
<1>10. \E o, q \in rests : Attempt(c, o).evidence.scenario # Attempt(c, q).evidence.scenario
  <2> DEFINE g == [o \in rests |-> Attempt(c, o).evidence.scenario]
  <2>1. g \in Surjection(rests, scenarios)
    BY DEF Surjection
  <2>2. IsFiniteSet(scenarios)
    <3> HIDE DEF g, rests, scenarios
    <3> QED
      BY <1>3, <2>1, FS_Surjection
  <2>3. Cardinality(scenarios) >= 2
    BY <1>1, <1>3
  <2>4. \E s, t \in scenarios : s # t
    <3> HIDE DEF scenarios
    <3> QED
      BY <2>2, <2>3, TwoElements
  <2> HIDE DEF rests
  <2> QED
    BY <2>4
<1> HIDE DEF mine, x, O, review, rests, supporting
<1>11. Failed(r, review.key) = {x(o) : o \in Failures(c, review.key)}
  BY <1>5, <1>7 DEF Failed
<1>12. \A o \in Failures(c, review.key) : x(o) \in Failed(r, review.key) /\ x(o).observation = ObservationNo(c, o) /\ o \in O
  BY <1>5, <1>7, <1>8, <1>11
<1>13. Failures(c, review.key) \subseteq review.refs
  <2> SUFFICES ASSUME NEW o \in Failures(c, review.key) PROVE o \in review.refs
    OBVIOUS
  <2>1. ObservationNo(c, o) \in ours.cited /\ o \in O
    BY <1>1, <1>4, <1>12
  <2> QED
    BY <1>4, <1>6, <2>1
<1>14. (review.rating = "again") <=> (Failures(c, review.key) # {})
  BY <1>1, <1>4, <1>11
<1>15. Cardinality(rests) >= 2
  BY <1>1, <1>3
<1>16. \E o \in rests : Attempt(c, o).observations[o[3]].phase = "cold_retrieval"
  BY <1>9 DEF Observed
<1>17. rests = {PlaceOf(ObservationAt(c), n) : n \in d.supporting}
  BY <1>1 DEF rests, O, Rests, supporting, ours
<1>18. /\ rests = review.refs \cap mine
       /\ \E o, q \in rests : Attempt(c, o).evidence.scenario # Attempt(c, q).evidence.scenario
  BY <1>3, <1>10
<1>19. Faced(c, i)
  BY <1>13, <1>14 DEF Faced, review
<1> HIDE DEF d
<1>20. Supported(c, i, d)
  BY <1>15, <1>16, <1>17, <1>18 DEF Supported, review, mine
<1> QED
  BY <1>19, <1>20 DEF d, ours

(***************************************************************************)
(* What the expansion of an accepted request refers to.                    *)
(***************************************************************************)
LEMMA AcceptedLinks ==
    ASSUME NEW c, NEW r, Session(c, r), NEW p \in AttemptAt(c)
    PROVE  LET x == Attempt(c, p).evidence IN
           /\ x # None
           /\ x.kind = "initial" => x.original = None
           /\ x.kind = "self_correction" => x.original # None
           /\ x.original # None => x.original \in AttemptAt(c) /\ Earlier(x.original, p)
<1>1. r.evidence = IF ProductionPresent(c) THEN ExpandedEvidence(c) ELSE None
  BY DEF Session, Expand
<1>2. ProductionPresent(c)
  BY <1>1 DEF Session
<1>3. Attempt(c, p).evidence # None
  BY SessionEvidence
<1>4. /\ Attempt(c, p).evidence.kind = "initial" => Attempt(c, p).evidence.original = None
      /\ Attempt(c, p).evidence.kind = "self_correction" => Attempt(c, p).evidence.original # None
      /\ Attempt(c, p).evidence.original # None => Earlier(Attempt(c, p).evidence.original, p)
  BY <1>2 DEF Session, Accepts
<1>5. Attempt(c, p).evidence.original # None => Attempt(c, p).evidence.original \in AttemptAt(c)
  BY <1>3 DEF Session, Accepts, Originals
<1> QED
  BY <1>3, <1>4, <1>5

LEMMA AttemptsReferInside ==
    ASSUME NEW c, NEW r, Session(c, r), NEW n \in DOMAIN r.evidence.attempts
    PROVE  AttemptEvidenceFits(r, r.evidence.attempts[n])
<1> DEFINE A == AttemptAt(c) p == PlaceOf(A, n) a == r.evidence.attempts[n]
           x == Attempt(c, p).evidence
<1>1. c.turns \in Conversations /\ r = Expand(c) /\ r.evidence = ExpandedEvidence(c)
  BY SessionEvidence DEF Session
<1>2. n \in 1..Cardinality(A)
  BY <1>1, EvidenceExpanded
<1>3. p \in A /\ AttemptNo(c, p) = n
  BY <1>1, <1>2, NumbersExpanded
<1>4. /\ a.attempt = n /\ a.provenance /\ a.kind = x.kind
      /\ a.original = IF x.original = None THEN 0 ELSE AttemptNo(c, x.original)
  BY <1>1, <1>3, EvidenceExpanded
<1>5. /\ n \in DOMAIN r.attempts /\ r.attempts[n].transcript
      /\ r.attempts[n].item \in DOMAIN r.items /\ DOMAIN r.attempts = 1..Cardinality(A)
  <2>1. p[1] \in DOMAIN c.turns
    BY <1>1, <1>3, AttemptPositions
  <2>2. /\ DOMAIN r.attempts = 1..Cardinality(A) /\ DOMAIN r.items = DOMAIN c.turns
        /\ r.attempts[AttemptNo(c, p)].item = p[1] /\ r.attempts[AttemptNo(c, p)].transcript
    BY <1>1, <1>3, RequestExpanded
  <2> HIDE DEF p, A
  <2> QED
    BY <1>2, <1>3, <2>1, <2>2
<1>6. /\ x.kind = "initial" => x.original = None
      /\ x.kind = "self_correction" => x.original # None
      /\ x.original # None => x.original \in A /\ Earlier(x.original, p)
  BY <1>3, AcceptedLinks
<1>7. x.original # None => AttemptNo(c, x.original) \in 1..Cardinality(A) /\ AttemptNo(c, x.original) < n
  BY <1>1, <1>3, <1>6, NumbersExpanded
<1> HIDE DEF A, p, a, x
<1>8. x.original # None => a.original # 0
  BY <1>4, <1>7
<1> QED
  BY <1>4, <1>5, <1>6, <1>7, <1>8 DEF AttemptEvidenceFits, a

\* An intervention comes before no attempt, or before one later than its own.
LEMMA InterventionsLookAhead ==
    ASSUME NEW c, NEW r, Session(c, r), NEW i \in InterventionAt(c)
    PROVE  LET before == InterventionBefore(c, i) IN
           \/ before = 0
           \/ /\ before \in 1..Cardinality(AttemptAt(c))
              /\ AttemptNo(c, AttemptOf(i)) < before
<1> DEFINE A == AttemptAt(c) own == AttemptOf(i) next == <<i[1], i[2] + 1>>
           later   == {x \in Originals(c) : Attempt(c, x).evidence.original = own}
           retries == {AttemptNo(c, q) : q \in later}
           before  == InterventionBefore(c, i)
<1>1. c.turns \in Conversations
  BY DEF Session
<1>2. own \in A /\ A \subseteq Nat \X Nat
  BY <1>1, InterventionPositions, AttemptPositions
<1>3. \A p, q \in A : Earlier(p, q) <=> AttemptNo(c, p) < AttemptNo(c, q)
  BY <1>1, NumbersExpanded
<1>4. \A p \in A : AttemptNo(c, p) \in 1..Cardinality(A)
  BY <1>1, NumbersExpanded
<1>5. before = IF next \in A THEN AttemptNo(c, next)
               ELSE IF retries = {} THEN 0
               ELSE CHOOSE n \in retries : \A m \in retries : n <= m
  BY DEF InterventionBefore, AttemptNo, AttemptOf
<1>6. CASE next \in A
  <2>1. own \in Nat \X Nat /\ next \in Nat \X Nat /\ own[1] = next[1] /\ own[2] < next[2]
    BY <1>2, <1>6 DEF AttemptOf
  <2>2. Earlier(own, next)
    <3> HIDE DEF own, next
    <3> QED
      BY <2>1, PairOrder
  <2> QED
    BY <1>2, <1>3, <1>4, <1>5, <1>6, <2>2
<1>7. CASE next \notin A /\ retries # {}
  <2>1. \A q \in later : q \in A /\ Earlier(own, q)
    <3> TAKE q \in later
    <3>1. q \in A /\ Attempt(c, q).evidence.original = own /\ Attempt(c, q).evidence.original # None
      BY DEF Originals
    <3> QED
      BY <3>1, AcceptedLinks
  <2>2. \A n \in retries : n \in 1..Cardinality(A) /\ AttemptNo(c, own) < n
    BY <1>2, <1>3, <1>4, <2>1
  <2>3. Cardinality(A) \in Nat
    BY <1>1, NumbersExpanded
  <2> HIDE DEF retries
  <2>4. \E n \in retries : \A m \in retries : n <= m
    BY <1>7, <2>2, <2>3, FirstPosition
  <2>5. before \in retries
    BY <1>5, <1>7, <2>4
  <2> QED
    BY <2>2, <2>5
<1>8. CASE next \notin A /\ retries = {}
  BY <1>5, <1>8
<1> QED
  BY <1>6, <1>7, <1>8

LEMMA ExpansionInside ==
    ASSUME NEW c, NEW r, Session(c, r)
    PROVE  LET e == r.evidence IN
           /\ \A i \in DOMAIN e.attempts : AttemptEvidenceFits(r, e.attempts[i])
           /\ \A i \in e.interventions : InterventionFits(r, i)
           /\ \A i \in DOMAIN e.observations :
                  r.obs[e.observations[i].observation].attempt = e.observations[i].attempt
           /\ \A i \in DOMAIN c.reviews : \A o \in c.reviews[i].refs :
                  LET n == NumberIn(ObservationAt(c), o) IN
                  /\ n \in r.reviews[i].cited
                  /\ r.obs[n].key = Attempt(c, o).observations[o[3]].key
<1> DEFINE e == r.evidence A == AttemptAt(c) O == ObservationAt(c)
<1>1. c.turns \in Conversations /\ r = Expand(c) /\ e = ExpandedEvidence(c)
  BY SessionEvidence DEF Session
<1>2. \A i \in DOMAIN e.attempts : AttemptEvidenceFits(r, e.attempts[i])
  BY AttemptsReferInside
<1>3. ASSUME NEW j \in e.interventions PROVE InterventionFits(r, j)
  <2>1. PICK i \in InterventionAt(c) :
            j = [targets |-> Attempt(c, i).interventions[i[3]], after |-> AttemptNo(c, AttemptOf(i)),
                 before |-> InterventionBefore(c, i)]
    BY <1>1, EvidenceExpanded
  <2>2. j.after = AttemptNo(c, AttemptOf(i)) /\ j.before = InterventionBefore(c, i)
    BY <2>1
  <2>3. DOMAIN r.attempts = 1..Cardinality(A)
    BY <1>1, RequestExpanded
  <2>4. j.after \in 1..Cardinality(A)
    BY <1>1, <2>2, InterventionPositions, NumbersExpanded
  <2>5. j.before = 0 \/ (j.before \in 1..Cardinality(A) /\ j.after < j.before)
    BY <2>2, InterventionsLookAhead
  <2> HIDE DEF A
  <2> QED
    BY <2>3, <2>4, <2>5 DEF InterventionFits
<1>4. ASSUME NEW n \in DOMAIN e.observations
      PROVE  r.obs[e.observations[n].observation].attempt = e.observations[n].attempt
  <2>1. n \in 1..Cardinality(O)
    BY <1>1, EvidenceExpanded
  <2> DEFINE o == PlaceOf(O, n)
  <2>2. o \in O /\ ObservationNo(c, o) = n
    BY <1>1, <2>1, NumbersExpanded
  <2>3. e.observations[n].observation = n /\ e.observations[n].attempt = AttemptNo(c, AttemptOf(o))
    BY <1>1, <2>2, EvidenceExpanded
  <2>4. r.obs[n].attempt = AttemptNo(c, AttemptOf(o))
    BY <1>1, <2>2, RequestExpanded
  <2> QED
    BY <2>3, <2>4
<1>5. ASSUME NEW i \in DOMAIN c.reviews, NEW o \in c.reviews[i].refs
      PROVE  /\ ObservationNo(c, o) \in r.reviews[i].cited
             /\ r.obs[ObservationNo(c, o)].key = Observed(c, o).key
  BY <1>1, ReviewsExpanded, RequestExpanded
<1> QED
  BY <1>2, <1>3, <1>4, <1>5 DEF ObservationNo, Observed

(***************************************************************************)
(* The calls.                                                              *)
(***************************************************************************)
\* A tutoring call keeps its conversation, expands only what it accepts, and
\* decides every review on the expansion.
CallInv ==
    tool = "record_tutoring" =>
        /\ input = [policy |-> input.policy, turns |-> input.turns, reviews |-> input.reviews]
        /\ input.turns \in Conversations
        /\ stage = "expanded" => Accepts(input) /\ result = Expand(input)
        /\ stage = "done" =>
              LET r == Expand(input) IN
              /\ Accepts(input)
              /\ result = [i \in DOMAIN r.reviews |-> Decision(r, r.reviews[i])]

LEMMA CallInvInit == Init => CallInv
<1> SUFFICES ASSUME Init, tool = "record_tutoring" PROVE CallInv
  BY DEF CallInv
<1>1. stage = "heard" /\ input \in [policy : {1}, turns : Conversations, reviews : {<<>>}]
  BY DEF Init
<1> QED
  BY <1>1 DEF CallInv

LEMMA CallInvNext == CallInv /\ [Next]_vars => CallInv'
<1> SUFFICES ASSUME CallInv, [Next]_vars, tool' = "record_tutoring" PROVE CallInv'
  BY DEF CallInv
<1>1. CASE ProposeReview
  <2>1. tool = "record_tutoring" /\ stage' = "arrived"
    BY <1>1 DEF ProposeReview
  <2>2. \E v : input' = [input EXCEPT !.reviews = v]
    BY <1>1 DEF ProposeReview
  <2>3. input' = [policy |-> input'.policy, turns |-> input'.turns, reviews |-> input'.reviews]
        /\ input'.turns = input.turns
    BY <2>1, <2>2 DEF CallInv
  <2> QED
    BY <2>1, <2>3 DEF CallInv
<1>2. CASE ExpandCompact
  <2>1. /\ tool = "record_tutoring" /\ input' = input
        /\ \/ Accepts(input) /\ stage' = "expanded" /\ result' = Expand(input)
           \/ stage' = "refused"
    BY <1>2 DEF ExpandCompact, Ends
  <2> QED
    BY <2>1 DEF CallInv
<1>3. CASE DecideReviews
  <2>1. /\ tool = "record_tutoring" /\ input' = input /\ stage = "expanded"
        /\ \/ /\ stage' = "done"
              /\ result' = [i \in DOMAIN result.reviews |-> Decision(result, result.reviews[i])]
           \/ stage' = "refused"
    BY <1>3 DEF DecideReviews, Ends
  <2> QED
    BY <2>1 DEF CallInv
<1>4. CASE PlanBrief \/ RunPlan \/ AnalyzeDelivery
  BY <1>4 DEF PlanBrief, RunPlan, AnalyzeDelivery
<1>5. CASE Finished \/ UNCHANGED vars
  BY <1>5 DEF Finished, vars, CallInv
<1> QED
  BY <1>1, <1>2, <1>3, <1>4, <1>5 DEF Next

\* A tutoring call only ever decides on the expansion of a conversation that
\* was accepted (learning_api.rs, record).
THEOREM CallsKept == Spec => []CallInv
BY CallInvInit, CallInvNext, PTL DEF Spec

LEMMA DecidedReviews ==
    ASSUME CallInv, Decided, NEW i \in DOMAIN result
    PROVE  LET r == Expand(input) IN
           /\ input.turns \in Conversations /\ Accepts(input)
           /\ i \in DOMAIN input.reviews /\ result[i] = Decision(r, r.reviews[i])
<1>1. /\ input.turns \in Conversations /\ Accepts(input)
      /\ result = [k \in DOMAIN Expand(input).reviews
                      |-> Decision(Expand(input), Expand(input).reviews[k])]
  BY DEF CallInv, Decided
<1>2. DOMAIN Expand(input).reviews = DOMAIN input.reviews
  BY DEF Expand
<1> QED
  BY <1>1, <1>2

\* Whatever the conversation and however long: a review that moves a schedule
\* rests on two unaided observations of its target, in different scenarios,
\* one of them cold (production.rs, review_decision; tutoring.rs, expand).
THEOREM ReviewsAreSupported == Spec => []ReviewsRestOnIndependentWork
<1>1. CallInv => ReviewsRestOnIndependentWork
  <2> SUFFICES ASSUME CallInv, Decided, NEW i \in DOMAIN result, result[i].eligible
               PROVE  Supported(input, i, result[i])
    BY DEF ReviewsRestOnIndependentWork, Supported
  <2>1. /\ input.turns \in Conversations /\ Accepts(input) /\ i \in DOMAIN input.reviews
        /\ result[i] = Decision(Expand(input), Expand(input).reviews[i])
    BY DecidedReviews
  <2> QED
    BY <2>1, EligibleReview
<1> QED
  BY <1>1, CallsKept, PTL

\* No proposal gets past an independent failure by leaving it out
\* (production.rs, review_decision).
THEOREM FailuresAreFaced == Spec => []FailureCannotBeOmitted
<1>1. CallInv => FailureCannotBeOmitted
  <2> SUFFICES ASSUME CallInv, Decided, NEW i \in DOMAIN result, result[i].eligible
               PROVE  Faced(input, i)
    BY DEF FailureCannotBeOmitted, Faced
  <2>1. /\ input.turns \in Conversations /\ Accepts(input) /\ i \in DOMAIN input.reviews
        /\ result[i] = Decision(Expand(input), Expand(input).reviews[i])
    BY DecidedReviews
  <2> QED
    BY <2>1, EligibleReview
<1> QED
  BY <1>1, CallsKept, PTL

\* The canonical numbers a compact request is expanded to name what it
\* contains, and never something later than they should (tutoring.rs, expand).
THEOREM ReferencesStayInside == Spec => []ExpansionRefersInside
<1>1. CallInv => ExpansionRefersInside
  <2> SUFFICES ASSUME CallInv, tool = "record_tutoring", stage = "expanded", result.evidence # None
               PROVE  ExpansionRefersInside
    BY DEF ExpansionRefersInside
  <2>1. Session(input, result)
    BY DEF CallInv, Session
  <2> QED
    BY <2>1, ExpansionInside DEF ExpansionRefersInside
<1> QED
  BY <1>1, CallsKept, PTL

(***************************************************************************)
(* The order that targets are taken in.                                    *)
(***************************************************************************)

\* In a strict total order each element of a finite set is preceded by a number of others
\* of its own, and every number that is possible is one.
LEMMA Ranking ==
    ASSUME NEW S, IsFiniteSet(S), NEW R,
           \A x \in S : <<x, x>> \notin R,
           \A x, y \in S : x = y \/ <<x, y>> \in R \/ <<y, x>> \in R,
           \A x, y, z \in S : <<x, y>> \in R /\ <<y, z>> \in R => <<x, z>> \in R
    PROVE  LET rank(x) == Cardinality({y \in S : <<y, x>> \in R}) IN
           /\ Cardinality(S) \in Nat
           /\ \A x \in S : rank(x) \in 0..(Cardinality(S) - 1)
           /\ \A x, y \in S : <<x, y>> \in R <=> rank(x) < rank(y)
           /\ \A x, y \in S : rank(x) = rank(y) => x = y
           /\ \A n \in 1..Cardinality(S) : \E x \in S : rank(x) = n - 1
<1> DEFINE before(x) == {y \in S : <<y, x>> \in R}
           rank(x) == Cardinality(before(x))
           N == Cardinality(S)
<1>1. N \in Nat
  BY FS_CardinalityType
<1>2. ASSUME NEW x \in S
      PROVE  IsFiniteSet(before(x)) /\ rank(x) \in Nat /\ rank(x) < N
  <2>1. before(x) \in SUBSET S /\ x \notin before(x)
    OBVIOUS
  <2>2. IsFiniteSet(before(x)) /\ Cardinality(before(x)) <= N /\ Cardinality(before(x)) # N
    BY <2>1, FS_Subset
  <2>3. Cardinality(before(x)) \in Nat
    BY <2>2, FS_CardinalityType
  <2> HIDE DEF before, N
  <2> QED
    BY <1>1, <2>2, <2>3
<1>3. ASSUME NEW x \in S, NEW y \in S, <<x, y>> \in R PROVE rank(x) < rank(y)
  <2>1. before(x) \in SUBSET before(y) /\ x \in before(y) /\ x \notin before(x)
    BY <1>3
  <2>2. IsFiniteSet(before(y))
    BY <1>2
  <2>3. Cardinality(before(x)) <= Cardinality(before(y))
        /\ Cardinality(before(x)) # Cardinality(before(y))
    <3> HIDE DEF before
    <3> QED
      BY <2>1, <2>2, FS_Subset
  <2> HIDE DEF before
  <2> QED
    BY <1>2, <2>3
<1> HIDE DEF before, rank, N
<1>4. \A x, y \in S : <<x, y>> \in R <=> rank(x) < rank(y)
  <2> TAKE x, y \in S
  <2>1. rank(x) \in Int /\ rank(y) \in Int
    BY <1>2
  <2>2. x = y \/ <<x, y>> \in R \/ <<y, x>> \in R
    OBVIOUS
  <2>3. <<x, x>> \notin R
    OBVIOUS
  <2> QED
    BY <1>3, <2>1, <2>2, <2>3
<1>5. \A x, y \in S : rank(x) = rank(y) => x = y
  <2> TAKE x, y \in S
  <2>1. rank(x) \in Int
    BY <1>2
  <2>2. x = y \/ <<x, y>> \in R \/ <<y, x>> \in R
    OBVIOUS
  <2> QED
    BY <1>3, <2>1, <2>2
<1> DEFINE f == [x \in S |-> rank(x) + 1]
<1>6. f \in Injection(S, 1..N)
  <2>1. \A x \in S : f[x] \in 1..N
    BY <1>1, <1>2
  <2>2. \A x, y \in S : f[x] = f[y] => x = y
    BY <1>2, <1>5
  <2> HIDE DEF f
  <2>3. f \in [S -> 1..N]
    BY <2>1 DEF f
  <2> QED
    BY <2>2, <2>3 DEF Injection, IsInjective
<1>7. f \in Surjection(S, 1..N)
  <2>1. IsFiniteSet(1..N) /\ Cardinality(1..N) = N
    BY <1>1, FS_Interval
  <2> HIDE DEF f
  <2> QED
    BY <1>6, <2>1, FS_Injection DEF N
<1>8. \A n \in 1..N : \E x \in S : rank(x) = n - 1
  <2> TAKE n \in 1..N
  <2>1. \E x \in S : f[x] = n
    BY <1>7 DEF Surjection
  <2> QED
    BY <1>2, <2>1
<1>9. \A x \in S : rank(x) \in 0..(N - 1)
  BY <1>1, <1>2
<1> QED
  BY <1>1, <1>4, <1>5, <1>8, <1>9 DEF rank, before, N

\* The planner's comparison of rows is a strict total order.
LEMMA RowOrder ==
    ASSUME NEW S, RowsFit(S)
    PROVE  /\ \A x \in S : ~B!RowBefore(x, x)
           /\ \A x, y \in S : x = y \/ B!RowBefore(x, y) \/ B!RowBefore(y, x)
           /\ \A x, y, z \in S : B!RowBefore(x, y) /\ B!RowBefore(y, z) => B!RowBefore(x, z)
<1>1. ASSUME NEW x \in S, NEW y \in S, x # y PROVE B!RowBefore(x, y) \/ B!RowBefore(y, x)
  <2>1. RowFits(x) /\ RowFits(y) /\ x.key # y.key
    BY <1>1 DEF RowsFit
  <2> QED
    BY <2>1 DEF RowFits, B!RowBefore
<1>2. ASSUME NEW x \in S PROVE ~B!RowBefore(x, x)
  <2>1. RowFits(x)
    BY DEF RowsFit
  <2> QED
    BY <2>1 DEF RowFits, B!RowBefore
<1>3. ASSUME NEW x \in S, NEW y \in S, NEW z \in S, B!RowBefore(x, y), B!RowBefore(y, z)
      PROVE  B!RowBefore(x, z)
  <2>1. RowFits(x) /\ RowFits(y) /\ RowFits(z)
    BY DEF RowsFit
  <2>2. CASE x.due # None /\ z.due # None
    BY <1>3, <2>1, <2>2 DEF RowFits, B!RowBefore
  <2>3. CASE x.due = None /\ z.due = None
    BY <1>3, <2>1, <2>3 DEF RowFits, B!RowBefore
  <2>4. CASE (x.due = None) # (z.due = None)
    BY <1>3, <2>1, <2>4 DEF RowFits, B!RowBefore
  <2> QED
    BY <2>2, <2>3, <2>4
<1> QED
  BY <1>1, <1>2, <1>3

\* The operators of the library that the planner sees are those of this module.
LEMMA SameCardinality == \A S : B!Cardinality(S) = Cardinality(S)
BY DEF B!Cardinality, Cardinality

\* What is sorted holds every row once, in order.
LEMMA SortedRows ==
    ASSUME NEW S, RowsFit(S)
    PROVE  LET s == B!Sorted(S) N == Cardinality(S) IN
           /\ N \in Nat /\ s \in [1..N -> S] /\ Len(s) = N /\ s \in Seq(S)
           /\ \A i, j \in 1..N : i < j => B!RowBefore(s[i], s[j])
           /\ \A x \in S : \E i \in 1..N : s[i] = x
<1> DEFINE s == B!Sorted(S)
           N == Cardinality(S)
           R == {p \in S \X S : B!RowBefore(p[1], p[2])}
           rank(x) == Cardinality({y \in S : <<y, x>> \in R})
<1>1. \A x, y \in S : <<x, y>> \in R <=> B!RowBefore(x, y)
  OBVIOUS
<1>2. \A x \in S : rank(x) = Cardinality({y \in S : B!RowBefore(y, x)})
  <2> TAKE x \in S
  <2>1. {y \in S : <<y, x>> \in R} = {y \in S : B!RowBefore(y, x)}
    BY <1>1
  <2> QED
    BY <2>1
<1>3. IsFiniteSet(S)
  BY DEF RowsFit
<1> HIDE DEF R
<1>4. /\ \A x \in S : <<x, x>> \notin R
      /\ \A x, y \in S : x = y \/ <<x, y>> \in R \/ <<y, x>> \in R
      /\ \A x, y, z \in S : <<x, y>> \in R /\ <<y, z>> \in R => <<x, z>> \in R
  BY <1>1, RowOrder
<1>5. /\ N \in Nat
      /\ \A x \in S : rank(x) \in 0..(N - 1)
      /\ \A x, y \in S : <<x, y>> \in R <=> rank(x) < rank(y)
      /\ \A x, y \in S : rank(x) = rank(y) => x = y
      /\ \A n \in 1..N : \E x \in S : rank(x) = n - 1
  BY <1>3, <1>4, Ranking
<1> HIDE DEF N, rank
<1> DEFINE place(x) == B!Cardinality({y \in S : B!RowBefore(y, x)})
           at(n) == CHOOSE x \in S : place(x) = n - 1
<1>6. s = [n \in 1..N |-> at(n)]
  <2>1. B!Cardinality(S) = N
    BY SameCardinality DEF N
  <2>2. s = [n \in 1..B!Cardinality(S) |-> at(n)]
    BY DEF B!Sorted
  <2> HIDE DEF s, at
  <2> QED
    BY <2>1, <2>2
<1> HIDE DEF s
<1>7. \A n \in 1..N : s[n] \in S /\ rank(s[n]) = n - 1
  <2> TAKE n \in 1..N
  <2>1. \A x \in S : place(x) = rank(x)
    BY <1>2, SameCardinality
  <2> HIDE DEF place
  <2>2. \E x \in S : place(x) = n - 1
    BY <1>5, <2>1
  <2>3. at(n) \in S /\ place(at(n)) = n - 1
    BY <2>2
  <2> HIDE DEF at
  <2> QED
    BY <1>6, <2>1, <2>3
<1>8. s \in [1..N -> S]
  <2> HIDE DEF at
  <2> QED
    BY <1>6, <1>7
<1>9. Len(s) = N /\ s \in Seq(S)
  <2> QED
    BY <1>5, <1>8
<1>10. ASSUME NEW i \in 1..N, NEW j \in 1..N, i < j PROVE B!RowBefore(s[i], s[j])
  <2>1. rank(s[i]) < rank(s[j])
    BY <1>5, <1>7, <1>10
  <2> QED
    BY <1>1, <1>5, <1>7, <2>1
<1>11. ASSUME NEW x \in S PROVE \E i \in 1..N : s[i] = x
  <2>1. rank(x) + 1 \in 1..N /\ (rank(x) + 1) - 1 = rank(x)
    BY <1>5
  <2>2. s[rank(x) + 1] \in S /\ rank(s[rank(x) + 1]) = rank(x)
    BY <1>7, <2>1
  <2> QED
    BY <1>5, <2>1, <2>2
<1> QED
  BY <1>5, <1>8, <1>9, <1>10, <1>11 DEF N, s

\* Two tables that agree on each entry when they agree on the one before agree on all.
SameStart(f, g, n) ==
    f[0] = g[0] /\ \A i \in 1..n : f[i - 1] = g[i - 1] => f[i] = g[i]

LEMMA SameSteps ==
    ASSUME NEW n \in Nat, NEW f, NEW g, SameStart(f, g, n)
    PROVE  \A i \in 0..n : f[i] = g[i]
<1> USE DEF SameStart
<1> DEFINE Bad == {i \in 1..n : f[i] # g[i]}
<1> SUFFICES ASSUME Bad # {} PROVE FALSE
  OBVIOUS
<1>0. Bad \subseteq 1..n
  OBVIOUS
<1> HIDE DEF Bad
<1>1. PICK i \in Bad : \A j \in Bad : i <= j
  BY <1>0, FirstPosition
<1> USE DEF Bad
<1>2. i - 1 = 0 \/ i - 1 \in 1..n
  BY <1>1
<1>3. f[i - 1] = g[i - 1]
  BY <1>1, <1>2
<1> QED
  BY <1>1, <1>3

\* A segment is left in its order: every row that was placed has its branch among the
\* used ones, so there is never one to be put before.
LEMMA SegmentKept ==
    ASSUME NEW segment, NEW S, segment \in Seq(S)
    PROVE  B!DiversifySegment(segment) = segment
<1> DEFINE step(acc, row) ==
             LET unused == {i \in DOMAIN acc.out : acc.out[i].branch \notin acc.used}
                 at     == IF unused = {} THEN Len(acc.out) + 1
                           ELSE CHOOSE i \in unused : \A j \in unused : i <= j
             IN IF row.branch \in acc.used
                THEN [acc EXCEPT !.out = Append(@, row)]
                ELSE [out |-> B!InsertAt(acc.out, at, row), used |-> acc.used \cup {row.branch}]
           N == Len(segment)
           branches(n) == {segment[i].branch : i \in 1..n}
           h == [n \in 0..N |-> [out |-> SubSeq(segment, 1, n), used |-> branches(n)]]
           Table2(f) == f = [n \in 0..N |-> IF n = 0 THEN [out |-> <<>>, used |-> {}]
                                            ELSE step(f[n - 1], segment[n])]
           after == CHOOSE f : Table2(f)
<1>1. N \in Nat
  OBVIOUS
<1>2. ASSUME NEW n \in 1..N PROVE step(h[n - 1], segment[n]) = h[n]
  <2> DEFINE acc == [out |-> SubSeq(segment, 1, n - 1), used |-> branches(n - 1)]
  <2>1. h[n - 1] = acc /\ h[n] = [out |-> SubSeq(segment, 1, n), used |-> branches(n)]
    OBVIOUS
  <2>2. Len(acc.out) = n - 1 /\ \A i \in DOMAIN acc.out : acc.out[i].branch \in acc.used
    OBVIOUS
  <2>3. branches(n) = branches(n - 1) \cup {segment[n].branch}
    <3>1. 1..n = (1..(n - 1)) \cup {n}
      BY <1>1
    <3> QED
      BY <3>1
  <2>4. B!InsertAt(acc.out, n, segment[n]) = SubSeq(segment, 1, n)
    BY DEF B!InsertAt
  <2>5. Append(acc.out, segment[n]) = SubSeq(segment, 1, n)
    OBVIOUS
  <2> HIDE DEF h, N
  <2>6. CASE segment[n].branch \in acc.used
    <3>1. branches(n) = branches(n - 1)
      BY <2>3, <2>6
    <3> HIDE DEF branches
    <3>2. step(acc, segment[n]) = [out |-> Append(acc.out, segment[n]), used |-> acc.used]
      BY <2>6
    <3> QED
      BY <2>1, <2>5, <3>1, <3>2
  <2>7. CASE segment[n].branch \notin acc.used
    <3>1. {i \in DOMAIN acc.out : acc.out[i].branch \notin acc.used} = {}
      BY <2>2
    <3>2. (n - 1) + 1 = n
      BY <1>1
    <3> HIDE DEF acc
    <3>3. step(acc, segment[n]) = [out |-> B!InsertAt(acc.out, n, segment[n]),
                                   used |-> acc.used \cup {segment[n].branch}]
      BY <2>2, <2>7, <3>1, <3>2
    <3>4. acc.used = branches(n - 1)
      BY DEF acc
    <3> HIDE DEF step, branches
    <3> QED
      BY <2>1, <2>3, <2>4, <3>3, <3>4
  <2> QED
    BY <2>6, <2>7
<1>3. h[0] = [out |-> <<>>, used |-> {}]
  <2>1. SubSeq(segment, 1, 0) = <<>> /\ branches(0) = {}
    OBVIOUS
  <2>2. h[0] = [out |-> SubSeq(segment, 1, 0), used |-> branches(0)]
    BY <1>1
  <2> HIDE DEF branches, h
  <2> QED
    BY <2>1, <2>2
<1> HIDE DEF step
<1>4. Table2(h)
  <2>1. h = [n \in 0..N |-> h[n]]
    OBVIOUS
  <2>2. \A n \in 0..N : h[n] = IF n = 0 THEN [out |-> <<>>, used |-> {}]
                                ELSE step(h[n - 1], segment[n])
    <3> HIDE DEF h, N
    <3> QED
      BY <1>1, <1>2, <1>3
  <2> HIDE DEF h
  <2> QED
    BY <2>1, <2>2
<1>5. Table2(after)
  BY <1>4
<1>6. \A n \in 0..N : after[n] = h[n]
  <2>1. after[0] = h[0]
    <3> HIDE DEF after, h
    <3> QED
      BY <1>1, <1>3, <1>5
  <2>2. \A n \in 1..N : after[n] = step(after[n - 1], segment[n]) /\ h[n] = step(h[n - 1], segment[n])
    <3> TAKE n \in 1..N
    <3>1. n \in 0..N /\ n # 0
      BY <1>1
    <3> HIDE DEF after, h, N
    <3>2. after[n] = step(after[n - 1], segment[n])
      BY <1>5, <3>1
    <3>3. h[n] = step(h[n - 1], segment[n])
      BY <1>4, <3>1
    <3> QED
      BY <3>2, <3>3
  <2> HIDE DEF after, h, N, Table2
  <2>3. \A n \in 1..N : after[n - 1] = h[n - 1] => after[n] = h[n]
    BY <2>2
  <2>4. SameStart(after, h, N)
    BY <2>1, <2>3 DEF SameStart
  <2> QED
    BY <1>1, <2>4, SameSteps
<1>7. B!DiversifySegment(segment) = after[N].out
  BY DEF B!DiversifySegment, step
<1>8. h[N].out = segment
  <2>1. h[N] = [out |-> SubSeq(segment, 1, N), used |-> branches(N)]
    BY <1>1
  <2>2. SubSeq(segment, 1, N) = segment
    OBVIOUS
  <2> HIDE DEF h, branches
  <2> QED
    BY <2>1, <2>2
<1> HIDE DEF h, after
<1> QED
  BY <1>1, <1>6, <1>7, <1>8

\* Targets are never diversified: the order they were sorted into stays.
LEMMA DiversifyKeepsOrder ==
    ASSUME NEW rows, NEW S, rows \in Seq(S)
    PROVE  B!Diversify(rows) = rows
<1> DEFINE N == Len(rows)
           same(i, j) == \A k \in i..j : rows[k].due = rows[i].due
           first(i) == CHOOSE j \in 1..i : same(j, i) /\ (j = 1 \/ ~same(j - 1, i))
           last(i)  == CHOOSE j \in i..N : same(i, j) /\ (j = N \/ ~same(i, j + 1))
<1>1. N \in Nat /\ DOMAIN rows = 1..N
  OBVIOUS
<1>2. ASSUME NEW i \in 1..N PROVE first(i) \in 1..i
  <2> DEFINE T == {j \in 1..i : same(j, i)}
  <2>1. T \subseteq 1..i /\ i \in T /\ i \in Nat
    OBVIOUS
  <2>2. PICK j \in T : \A k \in T : j <= k
    <3> HIDE DEF T
    <3> QED
      BY <2>1, FirstPosition
  <2> HIDE DEF same
  <2>3. j = 1 \/ (j - 1 \in 1..i /\ j - 1 \notin T)
    BY <2>1, <2>2
  <2>4. j \in 1..i /\ same(j, i) /\ (j = 1 \/ ~same(j - 1, i))
    BY <2>2, <2>3
  <2> QED
    BY <2>4
<1>3. ASSUME NEW i \in 1..N PROVE last(i) \in i..N
  <2> DEFINE T == {j \in i..N : j = N \/ ~same(i, j + 1)}
  <2>1. T \subseteq 1..N /\ N \in T
    OBVIOUS
  <2>2. PICK j \in T : \A k \in T : j <= k
    <3> HIDE DEF T, N
    <3> QED
      BY <1>1, <2>1, FirstPosition
  <2>3. same(i, j)
    <3>1. CASE j = i
      BY <3>1
    <3>2. CASE j # i
      <4> HIDE DEF same
      <4>0. j \in i..N
        BY <2>2
      <4>1. j - 1 \in i..N /\ (j - 1) + 1 = j
        <5> HIDE DEF T, N
        <5> QED
          BY <1>1, <3>2, <4>0
      <4>2. j - 1 \notin T
        <5> HIDE DEF T
        <5> QED
          BY <1>1, <2>1, <2>2, <4>1
      <4>3. j - 1 = N \/ ~same(i, j) => j - 1 \in T
        BY <4>1
      <4> QED
        BY <4>2, <4>3
    <3> QED
      BY <3>1, <3>2
  <2> HIDE DEF same
  <2>4. j \in i..N /\ same(i, j) /\ (j = N \/ ~same(i, j + 1))
    BY <2>2, <2>3
  <2> QED
    BY <2>4
<1>4. B!Diversify(rows)
        = [i \in DOMAIN rows |->
             B!DiversifySegment(SubSeq(rows, first(i), last(i)))[i + 1 - first(i)]]
  BY DEF B!Diversify
<1> HIDE DEF first, last
<1>5. ASSUME NEW i \in 1..N
      PROVE  B!DiversifySegment(SubSeq(rows, first(i), last(i)))[i + 1 - first(i)] = rows[i]
  <2> DEFINE s == SubSeq(rows, first(i), last(i))
  <2>1. first(i) \in 1..i /\ last(i) \in i..N
    BY <1>2, <1>3
  <2>2. s \in Seq(S)
    BY <1>1, <2>1
  <2>3. s[i + 1 - first(i)] = rows[i]
    BY <1>1, <2>1
  <2> QED
    BY <2>2, <2>3, SegmentKept
<1>6. rows = [i \in 1..N |-> rows[i]]
  OBVIOUS
<1> QED
  BY <1>1, <1>4, <1>5, <1>6

\* Three sequences one after the other.
LEMMA Joined ==
    ASSUME NEW S, NEW a \in Seq(S), NEW b \in Seq(S), NEW c \in Seq(S)
    PROVE  /\ (a \o b) \o c \in Seq(S)
           /\ Len((a \o b) \o c) = Len(a) + Len(b) + Len(c)
           /\ \A i \in 1..(Len(a) + Len(b) + Len(c)) :
                 ((a \o b) \o c)[i] = IF i <= Len(a) THEN a[i]
                                      ELSE IF i <= Len(a) + Len(b) THEN b[i - Len(a)]
                                      ELSE c[i - Len(a) - Len(b)]
OBVIOUS

\* Rows in order, all with a due day or all without: none comes twice, due days do not
\* fall.
InOrder(s, S) ==
    /\ s \in Seq(S)
    /\ \A i, j \in 1..Len(s) : s[i] = s[j] => i = j
    /\ \A i, j \in 1..Len(s) : i <= j /\ s[i].due # None /\ s[j].due # None => s[i].due <= s[j].due

\* What is sorted is in order of due days.
LEMMA SortedInOrder ==
    ASSUME NEW S, NEW T, S \subseteq T, RowsFit(T)
    PROVE  /\ InOrder(B!Sorted(S), T) /\ Len(B!Sorted(S)) = Cardinality(S)
           /\ \A i \in 1..Len(B!Sorted(S)) : B!Sorted(S)[i] \in S
           /\ \A x \in S : \E i \in 1..Len(B!Sorted(S)) : B!Sorted(S)[i] = x
<1> DEFINE s == B!Sorted(S) N == Cardinality(S)
<1>1. RowsFit(S)
  BY FS_Subset DEF RowsFit
<1>2. /\ N \in Nat /\ s \in [1..N -> S] /\ Len(s) = N /\ s \in Seq(S)
      /\ \A i, j \in 1..N : i < j => B!RowBefore(s[i], s[j])
      /\ \A x \in S : \E i \in 1..N : s[i] = x
  BY <1>1, SortedRows
<1> HIDE DEF s, N
<1>3. ASSUME NEW i \in 1..N, NEW j \in 1..N, s[i] = s[j] PROVE i = j
  <2>1. s[i] \in S /\ s[j] \in S
    BY <1>2
  <2>2. ~B!RowBefore(s[i], s[i])
    BY <1>1, <2>1, RowOrder
  <2>3. ~(i < j) /\ ~(j < i)
    BY <1>2, <1>3, <2>2
  <2> QED
    BY <1>2, <2>3
<1>4. ASSUME NEW i \in 1..N, NEW j \in 1..N, i <= j, s[i].due # None, s[j].due # None
      PROVE  s[i].due <= s[j].due
  <2>1. s[i] \in S /\ s[j] \in S
    BY <1>2
  <2>2. RowFits(s[i]) /\ RowFits(s[j])
    BY <1>1, <2>1 DEF RowsFit
  <2>3. CASE i = j
    BY <1>4, <2>2, <2>3 DEF RowFits
  <2>4. CASE i < j
    <3>1. B!RowBefore(s[i], s[j])
      BY <1>2, <2>4
    <3> QED
      BY <1>4, <2>2, <3>1 DEF RowFits, B!RowBefore
  <2> QED
    BY <1>2, <1>4, <2>3, <2>4
<1>5. s \in Seq(T)
  BY <1>2
<1>6. InOrder(s, T)
  BY <1>2, <1>3, <1>4, <1>5 DEF InOrder
<1> QED
  BY <1>2, <1>6 DEF s, N

\* The first two of a sequence at most are two rows at most.
LEMMA TwoRows ==
    ASSUME NEW S, NEW s \in Seq(S), Len(s) <= 2
    PROVE  \E E \in SUBSET S : /\ IsFiniteSet(E) /\ Cardinality(E) <= 2
                               /\ \A i \in 1..Len(s) : s[i] \in E
<1>1. Len(s) = 0 \/ Len(s) = 1 \/ Len(s) = 2
  <2>1. Len(s) \in Nat
    OBVIOUS
  <2>2. \A n \in Nat : n <= 2 => n = 0 \/ n = 1 \/ n = 2
    OBVIOUS
  <2> QED
    BY <2>1, <2>2
<1>2. CASE Len(s) = 0
  BY <1>2, FS_EmptySet
<1>3. CASE Len(s) = 1
  <2>1. {s[1]} \in SUBSET S /\ \A i \in 1..Len(s) : s[i] \in {s[1]}
    BY <1>3
  <2>2. IsFiniteSet({s[1]}) /\ Cardinality({s[1]}) = 1
    BY FS_Singleton
  <2> QED
    BY <2>1, <2>2
<1>4. CASE Len(s) = 2
  <2>1. {s[1]} \cup {s[2]} \in SUBSET S
        /\ \A i \in 1..Len(s) : s[i] \in {s[1]} \cup {s[2]}
    BY <1>4
  <2>2. IsFiniteSet({s[1]}) /\ Cardinality({s[1]}) = 1
    BY FS_Singleton
  <2>3. IsFiniteSet({s[1]} \cup {s[2]}) /\ Cardinality({s[1]} \cup {s[2]}) <= 2
    <3> DEFINE e == {s[1]}
    <3> HIDE DEF e
    <3>1. IsFiniteSet(e \cup {s[2]}) /\ (Cardinality(e \cup {s[2]}) = Cardinality(e)
                                          \/ Cardinality(e \cup {s[2]}) = Cardinality(e) + 1)
      BY <2>2, FS_AddElement DEF e
    <3> QED
      BY <2>2, <3>1 DEF e
  <2> QED
    BY <2>1, <2>3
<1> QED
  BY <1>1, <1>2, <1>3, <1>4

\* s has the entries of a, b and c and no others.
Covers(s, a, b, c) ==
    /\ \A i \in 1..Len(s) : \/ \E k \in 1..Len(a) : s[i] = a[k]
                            \/ \E k \in 1..Len(b) : s[i] = b[k]
                            \/ \E k \in 1..Len(c) : s[i] = c[k]
    /\ \A k \in 1..Len(a) : \E i \in 1..Len(s) : s[i] = a[k]
    /\ \A k \in 1..Len(b) : \E i \in 1..Len(s) : s[i] = b[k]
    /\ \A k \in 1..Len(c) : \E i \in 1..Len(s) : s[i] = c[k]

\* Three sequences one after the other have the rows of each of them and no others.
LEMMA JoinedRows ==
    ASSUME NEW S, NEW a \in Seq(S), NEW b \in Seq(S), NEW c \in Seq(S)
    PROVE  Covers((a \o b) \o c, a, b, c)
<1> DEFINE s == (a \o b) \o c
<1> DEFINE A == Len(a)
           AB == Len(a) + Len(b)
           N == Len(a) + Len(b) + Len(c)
<1>1. A \in Nat /\ AB \in Nat /\ N \in Nat /\ A <= AB /\ N = AB + Len(c) /\ AB = A + Len(b)
      /\ Len(b) \in Nat /\ Len(c) \in Nat
  OBVIOUS
<1>2. /\ Len(s) = N
      /\ \A i \in 1..N : s[i] = IF i <= A THEN a[i] ELSE IF i <= AB THEN b[i - A] ELSE c[i - AB]
  <2>1. \A i \in 1..N : i - Len(a) - Len(b) = i - (Len(a) + Len(b))
    BY <1>1
  <2> QED
    BY <2>1, Joined
<1> HIDE DEF s, N, AB
<1>3. \A i \in 1..N : \/ \E k \in 1..Len(a) : s[i] = a[k]
                      \/ \E k \in 1..Len(b) : s[i] = b[k]
                      \/ \E k \in 1..Len(c) : s[i] = c[k]
  <2> TAKE i \in 1..N
  <2>1. CASE i <= A
    BY <1>1, <1>2, <2>1
  <2>2. CASE ~(i <= A) /\ i <= AB
    <3>1. i - A \in 1..Len(b) /\ s[i] = b[i - A]
      BY <1>1, <1>2, <2>2
    <3> QED
      BY <3>1
  <2>3. CASE ~(i <= A) /\ ~(i <= AB)
    <3>1. i - AB \in 1..Len(c) /\ s[i] = c[i - AB]
      BY <1>1, <1>2, <2>3
    <3> QED
      BY <3>1
  <2> QED
    BY <2>1, <2>2, <2>3
<1>4. ASSUME NEW k \in 1..Len(a) PROVE \E i \in 1..N : s[i] = a[k]
  <2>1. k \in 1..N /\ k <= A
    BY <1>1
  <2> QED
    BY <1>2, <2>1
<1>5. ASSUME NEW k \in 1..Len(b) PROVE \E i \in 1..N : s[i] = b[k]
  <2>1. A + k \in 1..N /\ ~(A + k <= A) /\ A + k <= AB /\ (A + k) - A = k
    BY <1>1
  <2>2. s[A + k] = b[k]
    BY <1>2, <2>1
  <2> QED
    BY <2>1, <2>2
<1>6. ASSUME NEW k \in 1..Len(c) PROVE \E i \in 1..N : s[i] = c[k]
  <2>1. AB + k \in 1..N /\ ~(AB + k <= A) /\ ~(AB + k <= AB) /\ (AB + k) - AB = k
    BY <1>1
  <2>2. s[AB + k] = c[k]
    BY <1>2, <2>1
  <2> QED
    BY <2>1, <2>2
<1> QED
  BY <1>2, <1>3, <1>4, <1>5, <1>6 DEF s, Covers

\* Joined segments stay in order of due days when the segments are.
LEMMA JoinedInOrder ==
    ASSUME NEW S, NEW day \in Int, \A x \in S : x.due # None => x.due \in Int,
           NEW a, NEW b, NEW c, InOrder(a, S), InOrder(b, S), InOrder(c, S),
           \A i \in 1..Len(a), j \in 1..Len(b) : (a[i].due = None) # (b[j].due = None),
           \A i \in 1..Len(a) : a[i].due = None \/ a[i].due <= day,
           \A i \in 1..Len(b) : b[i].due = None \/ b[i].due <= day,
           \A i \in 1..Len(c) : c[i].due # None /\ ~(c[i].due <= day)
    PROVE  InOrder((a \o b) \o c, S)
<1> DEFINE s == (a \o b) \o c
           A == Len(a)
           AB == Len(a) + Len(b)
           N == Len(a) + Len(b) + Len(c)
<1>1. a \in Seq(S) /\ b \in Seq(S) /\ c \in Seq(S)
  BY DEF InOrder
<1>2. A \in Nat /\ AB \in Nat /\ N \in Nat /\ A <= AB
  BY <1>1
<1>3. /\ s \in Seq(S) /\ Len(s) = N
      /\ \A i \in 1..N : s[i] = IF i <= A THEN a[i] ELSE IF i <= AB THEN b[i - A] ELSE c[i - AB]
  <2>1. \A i \in 1..N : i - Len(a) - Len(b) = i - (Len(a) + Len(b))
    BY <1>1
  <2> QED
    BY <1>1, <2>1, Joined
<1>4. \A i \in 1..N :
         \/ i <= A /\ i \in 1..Len(a) /\ s[i] = a[i]
         \/ A < i /\ i <= AB /\ i - A \in 1..Len(b) /\ s[i] = b[i - A]
         \/ AB < i /\ i - AB \in 1..Len(c) /\ s[i] = c[i - AB]
  BY <1>1, <1>2, <1>3
<1>5. \A i \in 1..N : s[i] \in S
  BY <1>3
<1> HIDE DEF s
<1>6. ASSUME NEW i \in 1..N, NEW j \in 1..N, i < j
      PROVE  /\ s[i] # s[j]
             /\ s[i].due # None /\ s[j].due # None => s[i].due <= s[j].due
  <2>1. /\ s[i].due # None => s[i].due \in Int
        /\ s[j].due # None => s[j].due \in Int
    BY <1>5
  <2>2. /\ \A k, l \in 1..Len(a) : a[k] = a[l] => k = l
        /\ \A k, l \in 1..Len(a) : k <= l /\ a[k].due # None /\ a[l].due # None => a[k].due <= a[l].due
    BY DEF InOrder
  <2>3. /\ \A k, l \in 1..Len(b) : b[k] = b[l] => k = l
        /\ \A k, l \in 1..Len(b) : k <= l /\ b[k].due # None /\ b[l].due # None => b[k].due <= b[l].due
    BY DEF InOrder
  <2>4. /\ \A k, l \in 1..Len(c) : c[k] = c[l] => k = l
        /\ \A k, l \in 1..Len(c) : k <= l /\ c[k].due # None /\ c[l].due # None => c[k].due <= c[l].due
    BY DEF InOrder
  <2> HIDE DEF N, A, AB
  <2>5. i \in Int /\ j \in Int
    BY <1>2
  <2>6. CASE j <= A
    <3>1. i \in 1..Len(a) /\ s[i] = a[i] /\ j \in 1..Len(a) /\ s[j] = a[j]
      BY <1>2, <1>4, <1>6, <2>5, <2>6
    <3> QED
      BY <1>6, <2>2, <2>5, <3>1
  <2>7. CASE A < i /\ j <= AB
    <3>1. i - A \in 1..Len(b) /\ s[i] = b[i - A] /\ j - A \in 1..Len(b) /\ s[j] = b[j - A]
      BY <1>2, <1>4, <1>6, <2>5, <2>7
    <3>2. i - A < j - A /\ i - A <= j - A /\ i - A # j - A
      BY <1>2, <1>6, <2>5
    <3> QED
      BY <2>3, <3>1, <3>2
  <2>8. CASE AB < i
    <3>0. i \in 1..N /\ AB < i /\ j \in 1..N /\ AB < j
      BY <1>2, <1>6, <2>5, <2>8
    <3>1. i - AB \in 1..Len(c) /\ s[i] = c[i - AB] /\ j - AB \in 1..Len(c) /\ s[j] = c[j - AB]
      <4>1. \A k \in 1..N : AB < k => ~(k <= AB) /\ ~(k <= A)
        BY <1>2
      <4> QED
        BY <1>4, <3>0, <4>1
    <3>2. i - AB < j - AB /\ i - AB <= j - AB /\ i - AB # j - AB
      BY <1>2, <1>6, <2>5
    <3> QED
      BY <2>4, <3>1, <3>2
  <2>9. CASE i <= A /\ A < j /\ j <= AB
    <3>1. i \in 1..Len(a) /\ s[i] = a[i] /\ j - A \in 1..Len(b) /\ s[j] = b[j - A]
      BY <1>1, <1>2, <1>4, <1>6, <2>5, <2>9
    <3> QED
      BY <3>1
  <2>10. CASE i <= AB /\ AB < j
    <3>1. /\ j - AB \in 1..Len(c) /\ s[j] = c[j - AB]
          /\ (i \in 1..Len(a) /\ s[i] = a[i]) \/ (i - A \in 1..Len(b) /\ s[i] = b[i - A])
      BY <1>1, <1>2, <1>4, <1>6, <2>5, <2>10
    <3>2. s[j].due # None /\ ~(s[j].due <= day)
      BY <3>1
    <3>3. s[i].due = None \/ s[i].due <= day
      BY <3>1
    <3> QED
      BY <2>1, <3>2, <3>3
  <2> QED
    BY <1>2, <1>6, <2>5, <2>6, <2>7, <2>8, <2>9, <2>10
<1>7. ASSUME NEW i \in 1..N, NEW j \in 1..N, s[i] = s[j] PROVE i = j
  BY <1>2, <1>6, <1>7
<1>8. ASSUME NEW i \in 1..N, NEW j \in 1..N, i <= j, s[i].due # None, s[j].due # None
      PROVE  s[i].due <= s[j].due
  <2>1. CASE i = j
    BY <1>5, <1>8, <2>1
  <2> QED
    BY <1>2, <1>6, <1>8, <2>1
<1> HIDE DEF N
<1> QED
  BY <1>3, <1>7, <1>8 DEF InOrder, s

\* The candidates of a request that names no targets: nothing comes twice, what is due
\* earlier comes earlier, a due row that is left out is not due before any that is there,
\* and two rows at most have no due day.
LEMMA CandidateOrder ==
    ASSUME NEW r, NEW rows, RowsFit(rows), NEW day \in Int
    PROVE  LET c == B!Candidates(r, rows, day) IN
           /\ r.keys # None => /\ Len(c) = Cardinality(rows)
                               /\ c \in Seq(rows)
                               /\ \A i, j \in 1..Len(c) : c[i] = c[j] => i = j
           /\ r.keys = None =>
                /\ InOrder(c, rows)
                /\ \A i \in 1..Len(c), y \in rows :
                      c[i].due # None /\ y.due # None /\ (\A j \in 1..Len(c) : c[j] # y)
                        => c[i].due <= y.due
                /\ \E F \in SUBSET rows :
                      /\ IsFiniteSet(F) /\ Cardinality(F) <= 2
                      /\ \A i \in 1..Len(c) : c[i].due = None => c[i] \in F
<1> DEFINE D == {x \in rows : B!Initialised(x) /\ B!IsDue(x, day)}
           F == {x \in rows : ~B!Initialised(x)}
           U == {x \in rows : B!Initialised(x) /\ ~B!IsDue(x, day)}
           due == B!Sorted(D)
           fresh == B!Sorted(F)
           upcoming == B!Sorted(U)
           m == B!Lesser(2, Len(fresh))
           two == SubSeq(fresh, 1, m)
           late == IF r.upcoming THEN upcoming ELSE <<>>
           c == B!Candidates(r, rows, day)
<1>1. CASE r.keys # None
  <2>1. c = B!Sorted(rows)
    BY <1>1 DEF B!Candidates
  <2>2. InOrder(c, rows) /\ Len(c) = Cardinality(rows)
    BY <2>1, SortedInOrder
  <2> HIDE DEF c
  <2> QED
    BY <1>1, <2>2 DEF InOrder, c
<1>2. CASE r.keys = None
  <2>1. c = IF r.explore THEN (two \o due) \o late ELSE (due \o two) \o late
    BY <1>2 DEF B!Candidates
  <2>2. /\ \A x \in rows : x.due # None => x.due \in Int
        /\ \A x \in D : x \in rows /\ x.due # None /\ x.due <= day
        /\ \A x \in F : x \in rows /\ x.due = None
        /\ \A x \in U : x \in rows /\ x.due # None /\ ~(x.due <= day)
        /\ \A x \in rows : x \in D \/ x \in F \/ x \in U
    BY DEF RowsFit, RowFits, B!Initialised, B!IsDue
  <2>3. /\ InOrder(due, rows) /\ \A i \in 1..Len(due) : due[i] \in D
        /\ \A x \in D : \E i \in 1..Len(due) : due[i] = x
    <3>1. D \subseteq rows
      OBVIOUS
    <3> HIDE DEF D
    <3> QED
      BY <3>1, SortedInOrder
  <2>4. InOrder(fresh, rows) /\ \A i \in 1..Len(fresh) : fresh[i] \in F
    <3>1. F \subseteq rows
      OBVIOUS
    <3> HIDE DEF F
    <3> QED
      BY <3>1, SortedInOrder
  <2>5. /\ InOrder(upcoming, rows) /\ \A i \in 1..Len(upcoming) : upcoming[i] \in U
        /\ \A x \in U : \E i \in 1..Len(upcoming) : upcoming[i] = x
    <3>1. U \subseteq rows
      OBVIOUS
    <3> HIDE DEF U
    <3> QED
      BY <3>1, SortedInOrder
  <2> HIDE DEF D, F, U, due, fresh, upcoming
  <2>6. InOrder(two, rows) /\ Len(two) <= 2 /\ \A i \in 1..Len(two) : two[i] \in F
    <3>1. m \in Nat /\ m <= 2 /\ m <= Len(fresh)
      BY <2>4 DEF B!Lesser, InOrder
    <3> HIDE DEF m
    <3>2. two \in Seq(rows) /\ Len(two) = m /\ \A i \in 1..m : two[i] = fresh[i]
      BY <2>4, <3>1 DEF InOrder
    <3> HIDE DEF two
    <3> QED
      BY <2>4, <3>1, <3>2 DEF InOrder
  <2> HIDE DEF two, m
  <2>7. /\ InOrder(late, rows) /\ \A i \in 1..Len(late) : late[i] \in U
        /\ late = <<>> \/ \A x \in U : \E i \in 1..Len(late) : late[i] = x
    <3>1. CASE r.upcoming
      <4>1. late = upcoming
        BY <3>1
      <4> HIDE DEF late
      <4> QED
        BY <2>5, <4>1
    <3>2. CASE ~r.upcoming
      BY <3>2 DEF InOrder
    <3> QED
      BY <3>1, <3>2
  <2> HIDE DEF late, c
  <2>8. due \in Seq(rows) /\ two \in Seq(rows) /\ late \in Seq(rows)
    BY <2>3, <2>6, <2>7 DEF InOrder
  <2>9. InOrder(c, rows)
    <3>1. CASE r.explore
      BY <2>1, <2>2, <2>3, <2>6, <2>7, <3>1, JoinedInOrder
    <3>2. CASE ~r.explore
      BY <2>1, <2>2, <2>3, <2>6, <2>7, <3>2, JoinedInOrder
    <3> QED
      BY <3>1, <3>2
  <2>10. /\ \A i \in 1..Len(c) : \/ \E k \in 1..Len(due) : c[i] = due[k]
                                 \/ \E k \in 1..Len(two) : c[i] = two[k]
                                 \/ \E k \in 1..Len(late) : c[i] = late[k]
         /\ \A k \in 1..Len(due) : \E i \in 1..Len(c) : c[i] = due[k]
         /\ \A k \in 1..Len(late) : \E i \in 1..Len(c) : c[i] = late[k]
    <3>1. CASE r.explore
      <4>1. c = (two \o due) \o late
        BY <2>1, <3>1
      <4>2. Covers((two \o due) \o late, two, due, late)
        BY <2>8, JoinedRows
      <4>3. Covers(c, two, due, late)
        BY <4>1, <4>2
      <4> QED
        BY <4>3 DEF Covers
    <3>2. CASE ~r.explore
      <4>1. c = (due \o two) \o late
        BY <2>1, <3>2
      <4>2. Covers((due \o two) \o late, due, two, late)
        BY <2>8, JoinedRows
      <4>3. Covers(c, due, two, late)
        BY <4>1, <4>2
      <4> QED
        BY <4>3 DEF Covers
    <3> QED
      BY <3>1, <3>2
  <2>11. PICK E \in SUBSET rows : /\ IsFiniteSet(E) /\ Cardinality(E) <= 2
                                  /\ \A i \in 1..Len(two) : two[i] \in E
    <3> HIDE DEF two
    <3> QED
      BY <2>6, <2>8, TwoRows
  <2>12. ASSUME NEW i \in 1..Len(c), NEW y \in rows, c[i].due # None, y.due # None,
                \A j \in 1..Len(c) : c[j] # y
         PROVE  c[i].due <= y.due
    <3>1. y \in U
      BY <2>2, <2>3, <2>10, <2>12
    <3>2. Len(late) = 0
      BY <2>7, <2>10, <2>12, <3>1
    <3>3. c[i] \in D
      BY <2>2, <2>3, <2>6, <2>10, <2>12, <3>2
    <3>4. c[i].due <= day /\ ~(y.due <= day) /\ c[i].due \in Int /\ y.due \in Int
      BY <2>2, <2>12, <3>1, <3>3
    <3> QED
      BY <3>4
  <2>13. ASSUME NEW i \in 1..Len(c), c[i].due = None PROVE c[i] \in E
    BY <2>2, <2>3, <2>7, <2>10, <2>11, <2>13
  <2> QED
    BY <1>2, <2>9, <2>11, <2>12, <2>13 DEF c
<1> QED
  BY <1>1, <1>2

(***************************************************************************)
(* Plans.                                                                  *)
(***************************************************************************)
IsBrief(c) ==
    \E f \in BriefFamilies :
        c \in [prefs : f.prefs, request : f.request, rows : f.rows, day : f.day]

Scoped(c) == B!Constrained(c.prefs, c.request)
ChosenOf(c) == B!Chosen(Scoped(c), c.rows, c.day)
SharesOf(c) == B!Allocate(B!EffectiveCount(Scoped(c)), Len(ChosenOf(c)))
OrderOf(c) == B!RoundRobin(SharesOf(c))
PlanOf(c) == B!Brief(c.prefs, c.request, c.rows, c.day)

\* What is planned, and under which conditions.
LEMMA Planning ==
    ASSUME NEW c, PlanOf(c).status = "planned"
    PROVE  LET r == Scoped(c) chosen == ChosenOf(c) order == OrderOf(c) IN
           /\ B!RequestFits(r) /\ B!KeysFit(r, c.rows) /\ chosen # <<>>
           /\ \A i \in DOMAIN chosen : B!DrillsFor(r, chosen[i]) # {}
           /\ PlanOf(c).targets = [i \in DOMAIN chosen |->
                                     [key |-> chosen[i].key, share |-> SharesOf(c)[i], row |-> chosen[i]]]
           /\ PlanOf(c).items # <<>> => r.activity # None
           /\ PlanOf(c).items # <<>> =>
                 PlanOf(c).items = [i \in DOMAIN order |->
                    [target |-> chosen[order[i]].key,
                     drills |-> {x.drill : x \in B!Heaviest(B!DrillsFor(r, chosen[order[i]]))},
                     phase  |-> B!PhaseForItem(r.activity, i, Len(order), B!Complications(r))]]
<1>1. \A why \in {"exam_task_practice", "no_compatible_activity", "invalid"} :
          B!Refused(why).status # "planned"
  BY DEF B!Refused
<1> QED
  BY <1>1 DEF PlanOf, B!Brief, Scoped, ChosenOf, SharesOf, OrderOf

\* A request keeps what its policy does not touch.
LEMMA ScopedFields ==
    ASSUME NEW c, DOMAIN c.request = RequestFields
    PROVE  /\ Scoped(c).keys = c.request.keys /\ Scoped(c).config = c.request.config
           /\ Scoped(c).activity = c.request.activity
<1> DEFINE s == B!ScopedToExam(c.request)
<1>1. DOMAIN s = RequestFields /\ s.keys = c.request.keys /\ s.config = c.request.config
      /\ s.activity = c.request.activity
  BY DEF B!ScopedToExam, RequestFields
<1> HIDE DEF s
<1> DEFINE new == [s EXCEPT
               !.allowed = IF B!Spontaneous(c.prefs) \/ c.prefs.excluded # {}
                           THEN (IF s.allowed = None THEN B!Drills ELSE s.allowed) \cap B!Permitted(c.prefs)
                           ELSE @,
               !.count = IF B!Spontaneous(c.prefs)
                         THEN B!Lesser(IF @ = None THEN 3 ELSE @, c.prefs.maximum) ELSE @]
<1>2. Scoped(c) = new
  BY DEF Scoped, B!Constrained, s
<1>3. new.keys = s.keys /\ new.config = s.config /\ new.activity = s.activity
  BY <1>1 DEF RequestFields
<1> QED
  BY <1>1, <1>2, <1>3

\* What every request for a brief comes with.
LEMMA BriefInputs ==
    ASSUME NEW c, IsBrief(c)
    PROVE  /\ c.day \in Int /\ RowsFit(c.rows)
           /\ DOMAIN c.request = RequestFields
           /\ c.request.activity \in B!Activities \cup {None}
           /\ c.request.config # None => SettingsFit(c.request.config)
BY BriefsAssumption DEF IsBrief

\* A brief that is being run or has been run is the one its request led to.
BriefInv ==
    tool = "practice_brief" =>
        /\ IsBrief(input)
        /\ stage \in {"planned", "done"} => PlanOf(input).status = "planned"
        /\ stage = "planned" => result = PlanOf(input)
        /\ stage = "done" => PlanOf(input).items # <<>> /\ result = Followed(input, PlanOf(input))

\* It holds at the start.
LEMMA BriefInvInit == Init => BriefInv
<1> SUFFICES ASSUME Init, tool = "practice_brief" PROVE BriefInv
  BY DEF BriefInv
<1>1. stage = "arrived" /\ IsBrief(input)
  BY DEF Init, IsBrief
<1> QED
  BY <1>1 DEF BriefInv

\* And every step keeps it.
LEMMA BriefInvNext == BriefInv /\ [Next]_vars => BriefInv'
<1> SUFFICES ASSUME BriefInv, [Next]_vars, tool' = "practice_brief" PROVE BriefInv'
  BY DEF BriefInv
<1>1. CASE PlanBrief
  <2>1. /\ tool = "practice_brief" /\ input' = input
        /\ \/ PlanOf(input).status = "planned" /\ stage' = "planned" /\ result' = PlanOf(input)
           \/ stage' = "refused"
    BY <1>1 DEF PlanBrief, Ends, PlanOf
  <2> QED
    BY <2>1 DEF BriefInv, IsBrief, PlanOf
<1>2. CASE RunPlan
  <2>1. /\ tool = "practice_brief" /\ stage = "planned" /\ input' = input
        /\ result.items # <<>> /\ stage' = "done" /\ result' = Followed(input, result)
    BY <1>2 DEF RunPlan, Ends
  <2> QED
    BY <2>1 DEF BriefInv, IsBrief, PlanOf
<1>3. CASE ProposeReview \/ ExpandCompact \/ DecideReviews \/ AnalyzeDelivery
  BY <1>3 DEF ProposeReview, ExpandCompact, DecideReviews, AnalyzeDelivery
<1>4. CASE Finished \/ UNCHANGED vars
  BY <1>4 DEF Finished, vars, BriefInv, IsBrief, PlanOf
<1> QED
  BY <1>1, <1>2, <1>3, <1>4 DEF Next

\* A plan that is carried out is the one the brief made (db.rs, practice_brief).
THEOREM BriefsKept == Spec => []BriefInv
BY BriefInvInit, BriefInvNext, PTL DEF Spec

\* The targets of a plan are a first part of the candidates.
LEMMA ChosenRows ==
    ASSUME NEW c, IsBrief(c), PlanOf(c).status = "planned"
    PROVE  LET chosen == ChosenOf(c) r == Scoped(c)
               rows == B!Selected(r, c.rows) all == B!Candidates(r, rows, c.day) IN
           /\ all \in Seq(rows) /\ rows \subseteq c.rows /\ RowsFit(rows)
           /\ chosen \in Seq(rows)
           /\ Len(chosen) \in Nat \ {0} /\ Len(chosen) <= Len(all)
           /\ Len(chosen) <= B!TargetLimit(r, all)
           /\ \A i \in 1..Len(chosen) : chosen[i] = all[i]
<1> DEFINE r == Scoped(c)
           rows == B!Selected(r, c.rows)
           all == B!Candidates(r, rows, c.day)
           limit == B!TargetLimit(r, all)
           m == B!Lesser(Len(all), limit)
           chosen == ChosenOf(c)
<1>1. rows \subseteq c.rows /\ RowsFit(rows)
  <2>1. RowsFit(c.rows) /\ rows \subseteq c.rows
    BY BriefInputs DEF B!Selected
  <2> HIDE DEF rows
  <2> QED
    BY <2>1, FS_Subset DEF RowsFit
<1>2. all \in Seq(rows)
  <2>1. c.day \in Int
    BY BriefInputs
  <2> HIDE DEF rows, r
  <2> QED
    BY <1>1, <2>1, CandidateOrder DEF InOrder
<1> HIDE DEF all
<1>3. B!Diversify(all) = all
  BY <1>2, DiversifyKeepsOrder
<1>4. chosen = SubSeq(all, 1, m)
  BY <1>3 DEF ChosenOf, B!Chosen, all
<1>5. limit \in Int
  <2>1. Len(all) \in Nat
    BY <1>2
  <2>2. B!EffectiveCount(r) \in 1..20
    BY Planning DEF B!RequestFits
  <2> QED
    BY <2>1, <2>2 DEF B!TargetLimit
<1>6. chosen # <<>>
  BY Planning
<1> HIDE DEF r, rows, limit, chosen
<1>7. m \in Int /\ m <= Len(all) /\ m <= limit
  BY <1>2, <1>5 DEF B!Lesser
<1> HIDE DEF m
<1>8. m \in Nat /\ m # 0 /\ Len(chosen) = m /\ chosen \in Seq(rows) /\ \A i \in 1..m : chosen[i] = all[i]
  BY <1>2, <1>4, <1>6, <1>7
<1> QED
  BY <1>1, <1>2, <1>7, <1>8 DEF r, rows, all, limit, chosen

\* The targets of a plan are all different; unless the learner named them, they are the
\* most overdue ones and two new ones at most.
LEMMA TargetsOrdered ==
    ASSUME NEW c, IsBrief(c), PlanOf(c).status = "planned"
    PROVE  LET chosen == ChosenOf(c) set == {chosen[i] : i \in 1..Len(chosen)} IN
           /\ \A i, j \in 1..Len(chosen) : chosen[i] = chosen[j] => i = j
           /\ c.request.keys = None =>
                /\ Cardinality({x \in set : x.due = None}) <= 2
                /\ \A x \in set, y \in c.rows \ set : x.due # None /\ y.due # None => x.due <= y.due
<1> DEFINE r == Scoped(c)
           rows == B!Selected(r, c.rows)
           all == B!Candidates(r, rows, c.day)
           chosen == ChosenOf(c)
           N == Len(chosen)
           set == {chosen[i] : i \in 1..N}
<1>1. /\ all \in Seq(rows) /\ rows \subseteq c.rows /\ RowsFit(rows) /\ c.day \in Int
      /\ N \in Nat /\ Len(all) \in Nat /\ N <= Len(all)
      /\ \A i \in 1..N : chosen[i] = all[i]
  BY ChosenRows, BriefInputs
<1>2. r.keys = c.request.keys /\ (r.keys = None => rows = c.rows)
  BY BriefInputs, ScopedFields DEF B!Selected
<1> HIDE DEF rows, r
<1>3. \A i, j \in 1..Len(all) : all[i] = all[j] => i = j
  BY <1>1, CandidateOrder DEF InOrder
<1> HIDE DEF chosen, N
<1>4. \A i, j \in 1..N : chosen[i] = chosen[j] => i = j
  <2> HIDE DEF all
  <2> QED
    BY <1>1, <1>3
<1>5. ASSUME c.request.keys = None PROVE Cardinality({x \in set : x.due = None}) <= 2
  <2>1. PICK F \in SUBSET rows : /\ IsFiniteSet(F) /\ Cardinality(F) <= 2
                                 /\ \A i \in 1..Len(all) : all[i].due = None => all[i] \in F
    BY <1>1, <1>2, <1>5, CandidateOrder
  <2> HIDE DEF all
  <2>2. {x \in set : x.due = None} \subseteq F
    BY <1>1, <2>1
  <2> HIDE DEF set
  <2>3. /\ Cardinality({x \in set : x.due = None}) \in Nat /\ Cardinality(F) \in Nat
        /\ Cardinality({x \in set : x.due = None}) <= Cardinality(F)
    BY <2>1, <2>2, FS_Subset, FS_CardinalityType
  <2> QED
    BY <2>1, <2>3
<1>6. ASSUME c.request.keys = None, NEW x \in set, NEW y \in c.rows \ set, x.due # None, y.due # None
      PROVE  x.due <= y.due
  <2>1. PICK i \in 1..N : x = all[i]
    BY <1>1
  <2>2. /\ \A k, l \in 1..Len(all) : k <= l /\ all[k].due # None /\ all[l].due # None
                                      => all[k].due <= all[l].due
        /\ \A k \in 1..Len(all), z \in rows :
              all[k].due # None /\ z.due # None /\ (\A l \in 1..Len(all) : all[l] # z)
                => all[k].due <= z.due
    BY <1>1, <1>2, <1>6, CandidateOrder DEF InOrder
  <2> HIDE DEF all
  <2>3. i \in 1..Len(all) /\ y \in rows
    BY <1>1, <1>2, <1>6
  <2>4. CASE \E l \in 1..Len(all) : all[l] = y
    <3>1. PICK l \in 1..Len(all) : all[l] = y
      BY <2>4
    <3>2. l \notin 1..N
      BY <1>1, <3>1
    <3>3. i <= l
      BY <1>1, <3>1, <3>2
    <3> QED
      BY <1>6, <2>1, <2>2, <2>3, <3>1, <3>3
  <2> QED
    BY <1>6, <2>1, <2>2, <2>3, <2>4
<1> QED
  BY <1>4, <1>5, <1>6 DEF chosen, N

\* The learner is never given a target while one that is more overdue is left
\* out, nor more than two new ones at once (db.rs, practice_brief).
THEOREM OverdueComeFirst == Spec => []MoreOverdueFirst
<1>1. BriefInv => MoreOverdueFirst
  <2> SUFFICES ASSUME BriefInv, Planned, input.request.keys = None PROVE MoreOverdueFirst
    BY DEF MoreOverdueFirst
  <2> DEFINE chosen == ChosenOf(input)
             set == {chosen[i] : i \in 1..Len(chosen)}
  <2>1. IsBrief(input) /\ PlanOf(input).status = "planned" /\ result.targets = PlanOf(input).targets
    BY DEF BriefInv, Planned, Followed
  <2>2. result.targets = [i \in 1..Len(chosen) |->
                             [key |-> chosen[i].key, share |-> SharesOf(input)[i], row |-> chosen[i]]]
    <3>1. DOMAIN chosen = 1..Len(chosen)
      BY <2>1, ChosenRows
    <3> QED
      BY <2>1, <3>1, Planning
  <2>3. Ranks(DOMAIN result.targets) = set
    <3> HIDE DEF chosen
    <3> QED
      BY <2>2 DEF Ranks
  <2>4. /\ Cardinality({x \in set : x.due = None}) <= 2
        /\ \A x \in set, y \in input.rows \ set : x.due # None /\ y.due # None => x.due <= y.due
    BY <2>1, TargetsOrdered
  <2> HIDE DEF set
  <2> QED
    BY <2>3, <2>4 DEF MoreOverdueFirst
<1> QED
  BY <1>1, BriefsKept, PTL

(***************************************************************************)
(* Shares and turns.                                                       *)
(***************************************************************************)

\* Division with remainder.
LEMMA Dividing ==
    ASSUME NEW a \in Nat, NEW n \in Nat \ {0}
    PROVE  a \div n \in Nat /\ a % n \in 0..(n - 1) /\ a = n * (a \div n) + (a % n)
OBVIOUS

\* Quotient and remainder are determined by what they add up to.
LEMMA DividedBy ==
    ASSUME NEW a \in Nat, NEW n \in Nat \ {0}, NEW q \in Nat, NEW r \in 0..(n - 1), a = n * q + r
    PROVE  a \div n = q /\ a % n = r
<1> DEFINE p == a \div n
           s == a % n
<1>1. p \in Nat /\ s \in 0..(n - 1) /\ a = n * p + s
  BY Dividing
<1> HIDE DEF p, s
<1>2. n * (p - q) = r - s
  BY <1>1
<1>3. CASE p > q
  <2>1. p - q >= 1 /\ p - q \in Nat
    BY <1>1, <1>3
  <2>2. n * (p - q) >= n
    BY <2>1
  <2> QED
    BY <1>1, <1>2, <2>2
<1>4. CASE p < q
  <2>1. q - p >= 1 /\ q - p \in Nat
    BY <1>1, <1>4
  <2>2. n * (q - p) >= n
    BY <2>1
  <2>3. n * (q - p) = s - r
    BY <1>1
  <2> QED
    BY <1>1, <2>2, <2>3
<1>5. CASE p = q
  BY <1>1, <1>5
<1>6. p = q
  BY <1>1, <1>3, <1>4, <1>5
<1> QED
  BY <1>1, <1>2, <1>6 DEF p, s

\* One turn further round the circle.
LEMMA NextTurn ==
    ASSUME NEW a \in Nat, NEW n \in Nat \ {0}
    PROVE  IF (a % n) + 1 = n THEN (a + 1) % n = 0 /\ (a + 1) \div n = (a \div n) + 1
                            ELSE (a + 1) % n = (a % n) + 1 /\ (a + 1) \div n = a \div n
<1> DEFINE q == a \div n
           r == a % n
<1>1. q \in Nat /\ r \in 0..(n - 1) /\ a = n * q + r
  BY Dividing
<1> HIDE DEF q, r
<1>2. CASE r + 1 = n
  <2>1. a + 1 = n * (q + 1) + 0 /\ q + 1 \in Nat /\ 0 \in 0..(n - 1) /\ a + 1 \in Nat
    BY <1>1, <1>2
  <2>2. (a + 1) \div n = q + 1 /\ (a + 1) % n = 0
    BY <2>1, DividedBy
  <2> QED
    BY <1>2, <2>2 DEF q, r
<1>3. CASE r + 1 # n
  <2>1. a + 1 = n * q + (r + 1) /\ r + 1 \in 0..(n - 1) /\ a + 1 \in Nat
    BY <1>1, <1>3
  <2>2. (a + 1) \div n = q /\ (a + 1) % n = r + 1
    BY <1>1, <2>1, DividedBy
  <2> QED
    BY <1>3, <2>2 DEF q, r
<1> QED
  BY <1>2, <1>3

\* How often the i-th of n has had its turn after a turns.
Turns(a, n, i) == (a \div n) + (IF i <= a % n THEN 1 ELSE 0)

\* One more turn goes to whoever comes next round the circle.
LEMMA TurnStep ==
    ASSUME NEW a \in Nat, NEW n \in Nat \ {0}, NEW i \in 1..n
    PROVE  Turns(a + 1, n, i) = Turns(a, n, i) + (IF i = (a % n) + 1 THEN 1 ELSE 0)
<1> DEFINE q == a \div n
           r == a % n
           q1 == (a + 1) \div n
           r1 == (a + 1) % n
<1>1. q \in Nat /\ r \in 0..(n - 1)
  BY Dividing
<1>2. IF r + 1 = n THEN r1 = 0 /\ q1 = q + 1 ELSE r1 = r + 1 /\ q1 = q
  BY NextTurn
<1>3. /\ Turns(a, n, i) = q + (IF i <= r THEN 1 ELSE 0)
      /\ Turns(a + 1, n, i) = q1 + (IF i <= r1 THEN 1 ELSE 0)
  BY DEF Turns
<1> HIDE DEF q, r, q1, r1
<1>4. Turns(a + 1, n, i) = Turns(a, n, i) + (IF i = r + 1 THEN 1 ELSE 0)
  BY <1>1, <1>2, <1>3
<1> QED
  BY <1>4 DEF r

\* Whoever's turn it is has had fewer than there will be after any later turn.
LEMMA TurnsLeft ==
    ASSUME NEW a \in Nat, NEW b \in Nat, a < b, NEW n \in Nat \ {0}
    PROVE  Turns(a, n, (a % n) + 1) < Turns(b, n, (a % n) + 1)
<1> DEFINE q == a \div n
           r == a % n
           p == b \div n
           s == b % n
<1>1. q \in Nat /\ r \in 0..(n - 1) /\ a = n * q + r /\ p \in Nat /\ s \in 0..(n - 1) /\ b = n * p + s
  BY Dividing
<1>2. /\ Turns(a, n, r + 1) = q + (IF r + 1 <= r THEN 1 ELSE 0)
      /\ Turns(b, n, r + 1) = p + (IF r + 1 <= s THEN 1 ELSE 0)
  BY DEF Turns
<1> HIDE DEF q, r, p, s
<1>3. Turns(a, n, r + 1) = q
  BY <1>1, <1>2
<1>4. CASE p < q
  <2>1. q - p >= 1 /\ q - p \in Nat
    BY <1>1, <1>4
  <2>2. n * (q - p) >= n
    BY <2>1
  <2>3. n * (q - p) < s - r
    BY <1>1
  <2> QED
    BY <1>1, <2>2, <2>3
<1>5. CASE p = q
  <2>1. r < s
    BY <1>1, <1>5
  <2> QED
    BY <1>1, <1>2, <1>3, <1>5, <2>1
<1>6. CASE p > q
  BY <1>1, <1>2, <1>3, <1>6
<1>7. Turns(a, n, r + 1) < Turns(b, n, r + 1)
  BY <1>1, <1>4, <1>5, <1>6
<1> QED
  BY <1>7 DEF r

\* Turns are counted in natural numbers.
LEMMA TurnsNat ==
    ASSUME NEW a \in Nat, NEW n \in Nat \ {0}, NEW i
    PROVE  Turns(a, n, i) \in Nat
<1>1. a \div n \in Nat
  BY Dividing
<1> QED
  BY <1>1 DEF Turns

\* Every target gets as many items as it has turns.
LEMMA Allocation ==
    ASSUME NEW n \in Nat \ {0}, NEW total \in Nat, n <= total
    PROVE  B!Allocate(total, n) = [i \in 1..n |-> Turns(total, n, i)]
<1> DEFINE q == (total - n) \div n
           r == (total - n) % n
<1>1. total - n \in Nat
  OBVIOUS
<1>2. q \in Nat /\ r \in 0..(n - 1) /\ total - n = n * q + r
  BY <1>1, Dividing
<1> HIDE DEF q, r
<1>3. total = n * (q + 1) + r /\ q + 1 \in Nat
  BY <1>2
<1>4. total \div n = q + 1 /\ total % n = r
  BY <1>2, <1>3, DividedBy
<1>5. ASSUME NEW i \in 1..n
      PROVE  Turns(total, n, i) = IF total <= n THEN 1 ELSE 1 + q + (IF i <= r THEN 1 ELSE 0)
  <2>1. Turns(total, n, i) = (q + 1) + (IF i <= r THEN 1 ELSE 0)
    BY <1>4 DEF Turns
  <2>2. CASE total <= n
    <3>1. n * q + r = 0
      BY <1>2, <2>2
    <3>2. q = 0 /\ r = 0
      <4>1. q >= 1 => n * q >= n
        BY <1>2
      <4> QED
        BY <1>2, <3>1, <4>1
    <3> QED
      BY <2>1, <2>2, <3>2
  <2> QED
    BY <1>2, <2>1, <2>2
<1>6. B!Allocate(total, n) = [i \in 1..n |-> IF total <= n THEN 1
                                             ELSE 1 + q + (IF i <= r THEN 1 ELSE 0)]
  BY DEF B!Allocate, q, r
<1> QED
  BY <1>5, <1>6

\* All turns together are as many as were had.
LEMMA SharesAddUp ==
    ASSUME NEW n \in Nat \ {0}, NEW total \in Nat
    PROVE  SumFunctionOnSet([i \in 1..n |-> Turns(total, n, i)], 1..n) = total
<1> DEFINE q == total \div n
           r == total % n
           S == 1..n
           T == 1..r
           one == [i \in T |-> 1]
           more == [i \in S |-> IF i \in T THEN one[i] ELSE 0]
           all == [i \in S |-> q]
           sum == [i \in S |-> all[i] + more[i]]
<1>1. q \in Nat /\ r \in 0..(n - 1) /\ total = n * q + r
  BY Dividing
<1>2. [i \in S |-> Turns(total, n, i)] = sum
  <2>1. \A i \in S : Turns(total, n, i) = q + (IF i <= r THEN 1 ELSE 0)
    BY DEF Turns
  <2> HIDE DEF q, r
  <2>2. \A i \in S : Turns(total, n, i) = all[i] + more[i]
    BY <1>1, <2>1
  <2> HIDE DEF all, more
  <2> QED
    BY <2>2
<1> HIDE DEF q, r
<1>3. IsFiniteSet(S) /\ Cardinality(S) = n /\ IsFiniteSet(T) /\ Cardinality(T) = r /\ T \in SUBSET S
  <2>1. T \in SUBSET S
    BY <1>1
  <2>2. IsFiniteSet(S) /\ Cardinality(S) = IF 1 > n THEN 0 ELSE n - 1 + 1
    BY FS_Interval
  <2>3. r \in Int /\ IsFiniteSet(T) /\ Cardinality(T) = IF 1 > r THEN 0 ELSE r - 1 + 1
    BY <1>1, FS_Interval
  <2> QED
    BY <1>1, <2>1, <2>2, <2>3
<1>4. /\ \A i \in S : all[i] \in Nat /\ more[i] \in Nat
      /\ \A i \in T : one[i] \in Nat
  BY <1>1
<1> HIDE DEF S, T
<1>5. SumFunctionOnSet(sum, S) = SumFunctionOnSet(all, S) + SumFunctionOnSet(more, S)
  <2> HIDE DEF all, more
  <2> QED
    BY <1>3, <1>4, SumPlus
<1>6. SumFunctionOnSet(more, S) = SumFunctionOnSet(one, T)
  <2> HIDE DEF one
  <2> QED
    BY <1>3, <1>4, SumSupport
<1>7. SumFunctionOnSet(all, S) = q * n
  BY <1>1, <1>3, SumConstant
<1>8. SumFunctionOnSet(one, T) = 1 * r
  <2>1. 1 \in Nat
    OBVIOUS
  <2> QED
    BY <1>3, <2>1, SumConstant
<1>9. SumFunctionOnSet(sum, S) = total
  <2> HIDE DEF sum, all, more, one
  <2> QED
    BY <1>1, <1>5, <1>6, <1>7, <1>8
<1> HIDE DEF sum
<1> QED
  BY <1>2, <1>9 DEF S

\* The library's sum that the planner sees is the one of this module.
LEMMA SameSum == ASSUME NEW f, NEW S PROVE B!SumFunctionOnSet(f, S) = SumFunctionOnSet(f, S)
BY DEF B!SumFunctionOnSet, SumFunctionOnSet, B!FoldFunctionOnSet, FoldFunctionOnSet,
       B!MapThenFoldSet, MapThenFoldSet

\* Whose turn the k-th is.
Turn(k, n) == ((k - 1) % n) + 1

\* The items go round the circle without ever skipping a target.
LEMMA Rounds ==
    ASSUME NEW n \in Nat \ {0}, NEW total \in Nat,
           NEW shares, shares = [i \in 1..n |-> Turns(total, n, i)]
    PROVE  B!RoundRobin(shares) = [k \in 1..total |-> Turn(k, n)]
<1> DEFINE N == Len(shares)
           step(acc) ==
             LET open(i)  == acc.used[i] < shares[i]
                 at(k)    == ((acc.cursor + k) % N) + 1
                 k        == CHOOSE x \in 0..(N - 1) :
                               open(at(x)) /\ \A y \in 0..(x - 1) : ~open(at(y))
             IN [targets |-> Append(acc.targets, at(k)),
                 used    |-> [acc.used EXCEPT ![at(k)] = @ + 1],
                 cursor  |-> at(k) % N]
           sum == B!SumFunctionOnSet(shares, 1..N)
           start == [targets |-> <<>>, used |-> [i \in 1..N |-> 0], cursor |-> 0]
           Table2(f) == f = [item \in 0..sum |-> IF item = 0 THEN start ELSE step(f[item - 1])]
           after == CHOOSE f : Table2(f)
           place(k) == ((k - 1) % n) + 1
           h == [m \in 0..total |->
                   [targets |-> [k \in 1..m |-> place(k)],
                    used    |-> [i \in 1..n |-> Turns(m, n, i)],
                    cursor  |-> m % n]]
<1>1. N = n
  OBVIOUS
<1>2. sum = total
  BY <1>1, SameSum, SharesAddUp
<1>3. h[0] = start
  <2>1. 0 \div n = 0 /\ 0 % n = 0
    <3>1. 0 = n * 0 + 0 /\ 0 \in 0..(n - 1)
      OBVIOUS
    <3> QED
      BY <3>1, DividedBy
  <2>2. \A i \in 1..n : Turns(0, n, i) = 0
    BY <2>1 DEF Turns
  <2>3. [k \in 1..0 |-> place(k)] = <<>>
    OBVIOUS
  <2>4. h[0] = [targets |-> [k \in 1..0 |-> place(k)],
                used |-> [i \in 1..n |-> Turns(0, n, i)], cursor |-> 0 % n]
    OBVIOUS
  <2> HIDE DEF h, place
  <2> QED
    BY <1>1, <2>1, <2>2, <2>3, <2>4
<1>4. ASSUME NEW m \in 1..total PROVE step(h[m - 1]) = h[m]
  <2> DEFINE a == m - 1
             acc == h[a]
             open(i)  == acc.used[i] < shares[i]
             at(k)    == ((acc.cursor + k) % N) + 1
             k        == CHOOSE x \in 0..(N - 1) :
                               open(at(x)) /\ \A y \in 0..(x - 1) : ~open(at(y))
             r == a % n
  <2>1. a \in Nat /\ a \in 0..total /\ a + 1 = m /\ a < total /\ m \in Nat
    OBVIOUS
  <2>2. r \in 0..(n - 1) /\ r % n = r
    <3>1. r \in 0..(n - 1)
      BY <2>1, Dividing
    <3>2. r \in Nat /\ r = n * 0 + r
      BY <3>1
    <3> HIDE DEF r
    <3> QED
      BY <3>1, <3>2, DividedBy
  <2>3. /\ acc.targets = [x \in 1..a |-> place(x)]
        /\ acc.used = [i \in 1..n |-> Turns(a, n, i)]
        /\ acc.cursor = r
    BY <2>1
  <2>4. step(acc) = [targets |-> Append(acc.targets, at(k)),
                     used    |-> [acc.used EXCEPT ![at(k)] = @ + 1],
                     cursor  |-> at(k) % N]
    OBVIOUS
  <2>5. h[m] = [targets |-> [x \in 1..m |-> place(x)],
                used    |-> [i \in 1..n |-> Turns(m, n, i)],
                cursor  |-> m % n]
    OBVIOUS
  <2>6. place(m) = r + 1 /\ r + 1 \in 1..n
    BY <2>1, <2>2
  <2> HIDE DEF acc, h, step
  <2>7. at(0) = r + 1
    BY <1>1, <2>2, <2>3
  <2>8. open(at(0))
    <3>1. Turns(a, n, r + 1) < Turns(total, n, r + 1)
      BY <2>1, TurnsLeft
    <3> HIDE DEF a, r, at
    <3> QED
      BY <2>3, <2>6, <2>7, <3>1
  <2>9. k = 0
    <3>1. \A x \in 0..(N - 1) :
             (open(at(x)) /\ \A y \in 0..(x - 1) : ~open(at(y))) <=> x = 0
      <4> HIDE DEF open, at
      <4> QED
        BY <2>8
    <3>2. 0 \in 0..(N - 1)
      BY <1>1
    <3> HIDE DEF open, at, N
    <3> QED
      BY <3>1, <3>2
  <2> HIDE DEF k
  <2>10. at(k) = r + 1
    BY <2>7, <2>9
  <2> HIDE DEF at, open
  <2>11. Append(acc.targets, r + 1) = [x \in 1..m |-> place(x)]
    <3> HIDE DEF place, r
    <3> QED
      BY <2>1, <2>3, <2>6
  <2>12. [acc.used EXCEPT ![r + 1] = @ + 1] = [i \in 1..n |-> Turns(m, n, i)]
    <3>1. \A i \in 1..n : Turns(m, n, i) = Turns(a, n, i) + (IF i = r + 1 THEN 1 ELSE 0)
      <4> HIDE DEF a
      <4>1. \A i \in 1..n : Turns(a + 1, n, i) = Turns(a, n, i) + (IF i = (a % n) + 1 THEN 1 ELSE 0)
        BY ONLY <2>1, n \in Nat \ {0}, TurnStep
      <4> QED
        BY ONLY <2>1, <4>1 DEF r
    <3>2. \A i \in 1..n : Turns(a, n, i) \in Nat
      BY <2>1, TurnsNat
    <3> DEFINE u == [i \in 1..n |-> Turns(a, n, i)]
    <3>3. \A i \in 1..n : [u EXCEPT ![r + 1] = @ + 1][i] = Turns(m, n, i)
      <4>1. \A i \in 1..n : u[i] = Turns(a, n, i)
        OBVIOUS
      <4>2. u = [i \in 1..n |-> u[i]]
        OBVIOUS
      <4> HIDE DEF u, a, r
      <4> QED
        BY <2>6, <3>1, <3>2, <4>1, <4>2
    <3>4. [u EXCEPT ![r + 1] = @ + 1] = [i \in 1..n |-> [u EXCEPT ![r + 1] = @ + 1][i]]
      OBVIOUS
    <3>5. acc.used = u
      BY <2>3
    <3> HIDE DEF u, a, r
    <3> QED
      BY <3>3, <3>4, <3>5
  <2>13. (r + 1) % N = m % n
    <3>1. CASE r + 1 = n
      <4>1. m % n = 0
        BY <2>1, <3>1, NextTurn
      <4>2. n % n = 0
        <5>1. n = n * 1 + 0 /\ 0 \in 0..(n - 1) /\ n \in Nat /\ 1 \in Nat
          OBVIOUS
        <5> QED
          BY <5>1, DividedBy
      <4> HIDE DEF r
      <4> QED
        BY <1>1, <3>1, <4>1, <4>2
    <3>2. CASE r + 1 # n
      <4>1. m % n = r + 1
        BY <2>1, <3>2, NextTurn
      <4> HIDE DEF r
      <4>2. r + 1 \in 0..(n - 1) /\ r + 1 \in Nat /\ r + 1 = n * 0 + (r + 1) /\ 0 \in Nat
        BY <2>2, <3>2
      <4>3. (r + 1) % n = r + 1
        BY <4>2, DividedBy
      <4> QED
        BY <1>1, <4>1, <4>3
    <3> QED
      BY <3>1, <3>2
  <2>14. step(acc) = h[m]
    <3> HIDE DEF a, r, N, place
    <3> QED
      BY <2>4, <2>5, <2>10, <2>11, <2>12, <2>13
  <2> QED
    BY <2>14 DEF acc
<1> HIDE DEF step, start, sum
<1>5. Table2(h)
  <2>1. h = [m \in 0..total |-> h[m]]
    OBVIOUS
  <2> HIDE DEF h
  <2>2. \A m \in 0..sum : h[m] = IF m = 0 THEN start ELSE step(h[m - 1])
    BY <1>2, <1>3, <1>4
  <2> QED
    BY <1>2, <2>1, <2>2
<1>6. Table2(after)
  BY <1>5
<1>7. \A m \in 0..total : after[m] = h[m]
  <2> HIDE DEF after, h
  <2>1. after[0] = h[0]
    BY <1>2, <1>3, <1>6
  <2>2. \A m \in 1..total : after[m] = step(after[m - 1]) /\ h[m] = step(h[m - 1])
    <3> TAKE m \in 1..total
    <3>1. m \in 0..sum /\ m # 0
      BY <1>2
    <3>2. after[m] = step(after[m - 1])
      BY <1>6, <3>1
    <3>3. h[m] = step(h[m - 1])
      BY <1>5, <3>1
    <3> QED
      BY <3>2, <3>3
  <2>3. \A m \in 1..total : after[m - 1] = h[m - 1] => after[m] = h[m]
    BY <2>2
  <2>4. SameStart(after, h, total)
    BY <2>1, <2>3 DEF SameStart
  <2> QED
    BY <2>4, SameSteps
<1>8. B!RoundRobin(shares) = after[sum].targets
  BY DEF B!RoundRobin, step, start, sum
<1>9. h[total].targets = [k \in 1..total |-> place(k)]
  OBVIOUS
<1> HIDE DEF h, after, place
<1>10. B!RoundRobin(shares) = [k \in 1..total |-> place(k)]
  BY <1>2, <1>7, <1>8, <1>9
<1> QED
  BY <1>10 DEF place, Turn

\* Round the circle everyone is met as often as there are turns for them.
LEMMA TurnCount ==
    ASSUME NEW n \in Nat \ {0}, NEW i \in 1..n, NEW p \in Nat
    PROVE  Cardinality({k \in 1..p : Turn(k, n) = i}) = Turns(p, n, i)
<1> DEFINE met(m) == {k \in 1..m : ((k - 1) % n) + 1 = i}
           f == [m \in 0..p |-> Cardinality(met(m))]
           g == [m \in 0..p |-> Turns(m, n, i)]
<1>1. f[0] = g[0]
  <2>1. 0 \div n = 0 /\ 0 % n = 0
    <3>1. 0 = n * 0 + 0 /\ 0 \in 0..(n - 1)
      OBVIOUS
    <3> QED
      BY <3>1, DividedBy
  <2>2. Turns(0, n, i) = 0
    BY <2>1 DEF Turns
  <2>3. met(0) = {}
    OBVIOUS
  <2>4. f[0] = Cardinality(met(0)) /\ g[0] = Turns(0, n, i)
    OBVIOUS
  <2> HIDE DEF met, f, g
  <2> QED
    BY <2>2, <2>3, <2>4, FS_EmptySet
<1>2. ASSUME NEW m \in 1..p, f[m - 1] = g[m - 1] PROVE f[m] = g[m]
  <2> DEFINE a == m - 1
             mine == (a % n) + 1 = i
  <2>1. a \in Nat /\ a + 1 = m /\ a \in 0..p /\ m \in 0..p
    OBVIOUS
  <2>2. met(m) = IF mine THEN met(a) \cup {m} ELSE met(a)
    <3>1. 1..m = (1..a) \cup {m}
      BY <2>1
    <3> QED
      BY <3>1
  <2>3. IsFiniteSet(met(a)) /\ m \notin met(a)
    <3>1. IsFiniteSet(1..a) /\ met(a) \subseteq 1..a
      BY <2>1, FS_Interval
    <3>2. m \notin 1..a
      BY <2>1
    <3> HIDE DEF met
    <3> QED
      BY <3>1, <3>2, FS_Subset
  <2>4. Turns(m, n, i) = Turns(a, n, i) + (IF mine THEN 1 ELSE 0)
    <3>1. Turns(a + 1, n, i) = Turns(a, n, i) + (IF i = (a % n) + 1 THEN 1 ELSE 0)
      BY <2>1, TurnStep
    <3> HIDE DEF a
    <3> QED
      BY <2>1, <3>1
  <2>5. Cardinality(met(a)) = Turns(a, n, i)
    <3>1. f[a] = Cardinality(met(a)) /\ g[a] = Turns(a, n, i) /\ f[a] = g[a]
      BY <1>2, <2>1
    <3> HIDE DEF f, g, a, met
    <3> QED
      BY <3>1
  <2>6. Turns(a, n, i) \in Nat
    BY <2>1, TurnsNat
  <2>7. f[m] = Cardinality(met(m)) /\ g[m] = Turns(m, n, i)
    BY <2>1
  <2> HIDE DEF a, met, f, g, mine
  <2>8. Cardinality(met(a) \cup {m}) = Cardinality(met(a)) + 1
    BY <2>3, FS_AddElement
  <2> QED
    BY <2>2, <2>4, <2>5, <2>6, <2>7, <2>8
<1>3. SameStart(f, g, p)
  <2> HIDE DEF f, g
  <2> QED
    BY <1>1, <1>2 DEF SameStart
<1>4. f[p] = g[p]
  <2> HIDE DEF f, g
  <2>1. p \in 0..p
    OBVIOUS
  <2> QED
    BY <1>3, <2>1, SameSteps
<1>5. f[p] = Cardinality(met(p)) /\ g[p] = Turns(p, n, i)
  OBVIOUS
<1> HIDE DEF f, g
<1> QED
  BY <1>4, <1>5 DEF Turn

\* The same one twice in a row only when it is alone.
LEMMA TurnsAlternate ==
    ASSUME NEW n \in Nat \ {0}, NEW m \in Nat \ {0}, Turn(m, n) = Turn(m + 1, n)
    PROVE  n = 1
<1> DEFINE k == m - 1
           r == k % n
           s == (k + 1) % n
<1>1. k \in Nat /\ (m + 1) - 1 = k + 1
  OBVIOUS
<1>2. r \in 0..(n - 1) /\ (IF r + 1 = n THEN s = 0 ELSE s = r + 1)
  BY <1>1, Dividing, NextTurn
<1>3. Turn(m, n) = r + 1 /\ Turn(m + 1, n) = s + 1
  BY <1>1 DEF Turn
<1> HIDE DEF r, s
<1> QED
  BY <1>2, <1>3

\* It is always the turn of one of them.
LEMMA TurnsInside ==
    ASSUME NEW n \in Nat \ {0}, NEW k \in Nat \ {0}
    PROVE  Turn(k, n) \in 1..n
<1> DEFINE r == (k - 1) % n
<1>1. k - 1 \in Nat
  OBVIOUS
<1>2. r \in 0..(n - 1)
  BY <1>1, Dividing
<1>3. Turn(k, n) = r + 1
  BY DEF Turn
<1> HIDE DEF r
<1> QED
  BY <1>2, <1>3

\* How many items there are to be: what was asked for, or what the targets need.
CountOf(c) == B!EffectiveCount(Scoped(c))

TotalOf(c) == IF Len(ChosenOf(c)) > CountOf(c) THEN Len(ChosenOf(c)) ELSE CountOf(c)

\* There are items enough for every target to have one, and no more than were asked for
\* unless the request named no target at all.
LEMMA EnoughItems ==
    ASSUME NEW c, IsBrief(c), PlanOf(c).status = "planned"
    PROVE  LET n == Len(ChosenOf(c)) total == TotalOf(c) IN
           /\ CountOf(c) \in 1..20 /\ total \in Nat \ {0} /\ n \in Nat \ {0} /\ n <= total
           /\ CountOf(c) <= total
           /\ n > CountOf(c) => c.request.keys = {}
           /\ SharesOf(c) = [i \in 1..n |-> Turns(total, n, i)]
           /\ OrderOf(c) = [k \in 1..total |-> Turn(k, n)]
<1> DEFINE r == Scoped(c)
           rows == B!Selected(r, c.rows)
           all == B!Candidates(r, rows, c.day)
           n == Len(ChosenOf(c))
           count == CountOf(c)
           total == TotalOf(c)
<1>1. count \in 1..20 /\ B!KeysFit(r, c.rows)
  BY Planning DEF B!RequestFits, CountOf
<1>2. n \in Nat \ {0} /\ n <= B!TargetLimit(r, all) /\ RowsFit(rows) /\ RowsFit(c.rows) /\ c.day \in Int
  BY ChosenRows, BriefInputs
<1>3. ASSUME r.keys = None PROVE n <= count
  <2>1. B!TargetLimit(r, all) = count \div 2 \/ B!TargetLimit(r, all) = (count + 1) \div 2
    BY <1>3 DEF B!TargetLimit, CountOf
  <2> HIDE DEF count, all, n, r
  <2>2. count \div 2 <= count /\ (count + 1) \div 2 <= count
    BY <1>1
  <2>3. count \div 2 \in Int /\ (count + 1) \div 2 \in Int /\ count \in Int
    BY <1>1
  <2>4. n <= count
    BY <1>2, <2>1, <2>2, <2>3
  <2> QED
    BY <2>4
<1>4. ASSUME r.keys # None, r.keys # {} PROVE n <= count
  <2>1. B!TargetLimit(r, all) = Len(all) /\ rows = {x \in c.rows : x.key \in r.keys}
    BY <1>4 DEF B!TargetLimit, B!Selected
  <2>2. Len(all) = Cardinality(rows)
    <3> HIDE DEF rows, r
    <3> QED
      BY <1>2, <1>4, CandidateOrder
  <2>3. Cardinality(r.keys) <= count /\ r.keys \subseteq {x.key : x \in c.rows}
    BY <1>1, <1>4, SameCardinality DEF B!KeysFit, CountOf
  <2> HIDE DEF r, count, all, n
  <2>4. IsFiniteSet(r.keys)
    <3> DEFINE keyOf == [x \in c.rows |-> x.key]
    <3>1. IsFiniteSet(c.rows)
      BY <1>2 DEF RowsFit
    <3>2. keyOf \in Surjection(c.rows, {x.key : x \in c.rows})
      BY DEF Surjection
    <3> HIDE DEF keyOf
    <3>3. IsFiniteSet({x.key : x \in c.rows})
      BY <3>1, <3>2, FS_Surjection
    <3> QED
      BY <2>3, <3>3, FS_Subset
  <2>5. \E f : f \in Injection(rows, r.keys)
    <3> DEFINE keyOf == [x \in rows |-> x.key]
    <3>1. \A x \in rows : keyOf[x] \in r.keys
      BY <2>1
    <3>2. \A x, y \in rows : keyOf[x] = keyOf[y] => x = y
      BY <1>2 DEF RowsFit
    <3>3. keyOf \in [rows -> r.keys]
      BY <3>1
    <3> HIDE DEF keyOf, rows
    <3> QED
      BY <3>2, <3>3 DEF Injection, IsInjective
  <2>6. Cardinality(rows) <= Cardinality(r.keys) /\ Cardinality(rows) \in Nat /\ Cardinality(r.keys) \in Nat
    <3>1. IsFiniteSet(rows)
      BY <1>2 DEF RowsFit
    <3> HIDE DEF rows
    <3> QED
      BY <2>4, <2>5, <3>1, FS_Injection, FS_CardinalityType
  <2>7. n <= count
    <3> HIDE DEF rows
    <3> QED
      BY <1>1, <1>2, <2>1, <2>2, <2>3, <2>6
  <2> QED
    BY <2>7
<1>5. n <= count \/ r.keys = {}
  BY <1>3, <1>4
<1>6. r.keys = c.request.keys
  BY BriefInputs, ScopedFields
<1>7. total = IF n > count THEN n ELSE count
  BY DEF TotalOf
<1>8. SharesOf(c) = B!Allocate(count, n)
  BY DEF SharesOf, CountOf
<1> HIDE DEF n, count, total, r, rows
<1>9. total \in Nat \ {0} /\ n <= total /\ count <= total
  BY <1>1, <1>2, <1>7
<1>10. B!Allocate(count, n) = B!Allocate(total, n)
  <2>1. CASE n > count
    <3>1. total = n /\ count <= n /\ n <= n
      BY <1>1, <1>2, <1>7, <2>1
    <3>2. B!Allocate(count, n) = [i \in 1..n |-> 1] /\ B!Allocate(total, n) = [i \in 1..n |-> 1]
      BY <3>1 DEF B!Allocate
    <3> QED
      BY <3>2
  <2>2. CASE ~(n > count)
    BY <1>7, <2>2
  <2> QED
    BY <2>1, <2>2
<1>11. SharesOf(c) = [i \in 1..n |-> Turns(total, n, i)]
  BY <1>2, <1>8, <1>9, <1>10, Allocation
<1>12. OrderOf(c) = [k \in 1..total |-> Turn(k, n)]
  BY <1>2, <1>9, <1>11, Rounds DEF OrderOf
<1>13. n > count => c.request.keys = {}
  BY <1>1, <1>2, <1>5, <1>6
<1> QED
  BY <1>1, <1>2, <1>9, <1>11, <1>12, <1>13 DEF n, count, total

\* The keys that the k-th item of an answer is for.
AskedIn(k) == IF stage = "done" THEN result.items[k].targets ELSE {result.items[k].target}

\* The answer has the plan's targets and its items, followed or not.
LEMMA AnswerOfPlan ==
    ASSUME BriefInv, Planned
    PROVE  LET plan == PlanOf(input) IN
           /\ IsBrief(input) /\ plan.status = "planned" /\ result.targets = plan.targets
           /\ plan.items = <<>> => result.items = <<>>
           /\ plan.items = [k \in DOMAIN plan.items |-> plan.items[k]] =>
                 result.items = [k \in DOMAIN plan.items |-> result.items[k]]
           /\ \A k \in DOMAIN plan.items : AskedIn(k) = {plan.items[k].target}
<1> DEFINE plan == PlanOf(input)
<1>1. CASE stage = "planned"
  <2>1. result = plan /\ IsBrief(input) /\ plan.status = "planned"
    BY <1>1 DEF BriefInv, Planned
  <2>2. \A k \in DOMAIN plan.items : AskedIn(k) = {plan.items[k].target}
    BY <1>1, <2>1 DEF AskedIn
  <2> HIDE DEF plan
  <2> QED
    BY <2>1, <2>2 DEF plan
<1>2. CASE stage = "done"
  <2>1. result = Followed(input, plan) /\ IsBrief(input) /\ plan.status = "planned"
    BY <1>2 DEF BriefInv, Planned
  <2>2. /\ result.targets = plan.targets
        /\ result.items = [i \in DOMAIN plan.items |->
              [targets |-> {plan.items[i].target}, drill |-> CHOOSE d \in plan.items[i].drills : TRUE,
               phase |-> plan.items[i].phase]]
    BY <2>1 DEF Followed
  <2> HIDE DEF plan
  <2>3. \A k \in DOMAIN plan.items : AskedIn(k) = {plan.items[k].target}
    BY <1>2, <2>2 DEF AskedIn
  <2>4. plan.items = <<>> => result.items = <<>>
    BY <2>2
  <2>5. result.items = [k \in DOMAIN plan.items |-> result.items[k]]
    BY <2>2
  <2> QED
    BY <2>1, <2>2, <2>3, <2>4, <2>5 DEF plan
<1> QED
  BY <1>1, <1>2 DEF Planned

\* What a plan consists of: targets with their turns, items round the circle.
LEMMA PlanTurns ==
    ASSUME NEW c, IsBrief(c), PlanOf(c).status = "planned"
    PROVE  LET chosen == ChosenOf(c) n == Len(chosen) total == TotalOf(c) plan == PlanOf(c) IN
           /\ DOMAIN plan.targets = 1..n /\ Len(plan.targets) = n
           /\ \A i \in 1..n : /\ plan.targets[i].key = chosen[i].key
                              /\ plan.targets[i].share = Turns(total, n, i)
           /\ \A i, j \in 1..n : chosen[i].key = chosen[j].key => i = j
           /\ \/ plan.items = <<>>
              \/ /\ plan.items = [k \in 1..total |-> plan.items[k]]
                 /\ \A k \in 1..total : plan.items[k].target = chosen[Turn(k, n)].key
<1> DEFINE chosen == ChosenOf(c)
           n == Len(chosen)
           total == TotalOf(c)
           plan == PlanOf(c)
           rows == B!Selected(Scoped(c), c.rows)
           order == OrderOf(c)
           shares == SharesOf(c)
<1>1. /\ n \in Nat \ {0} /\ total \in Nat
      /\ shares = [i \in 1..n |-> Turns(total, n, i)]
      /\ order = [k \in 1..total |-> Turn(k, n)]
  BY EnoughItems
<1>2. /\ \A i, j \in 1..n : chosen[i] = chosen[j] => i = j
      /\ chosen \in Seq(rows) /\ RowsFit(rows)
  BY ChosenRows, TargetsOrdered
<1>3. /\ plan.targets = [i \in DOMAIN chosen |-> [key |-> chosen[i].key, share |-> shares[i],
                                                   row |-> chosen[i]]]
      /\ plan.items # <<>> =>
            plan.items = [i \in DOMAIN order |->
              [target |-> chosen[order[i]].key,
               drills |-> {x.drill : x \in B!Heaviest(B!DrillsFor(Scoped(c), chosen[order[i]]))},
               phase  |-> B!PhaseForItem(Scoped(c).activity, i, Len(order),
                                         B!Complications(Scoped(c)))]]
  BY Planning
<1> HIDE DEF plan, shares, order, rows, total, chosen
<1>4. DOMAIN chosen = 1..n /\ \A i, j \in 1..n : chosen[i].key = chosen[j].key => i = j
  BY <1>2 DEF RowsFit
<1>5. /\ DOMAIN plan.targets = 1..n /\ Len(plan.targets) = n
      /\ \A i \in 1..n : /\ plan.targets[i].key = chosen[i].key
                         /\ plan.targets[i].share = Turns(total, n, i)
  <2> HIDE DEF n
  <2> QED
    BY <1>1, <1>3, <1>4
<1>6. plan.items # <<>> =>
          /\ plan.items = [k \in 1..total |-> plan.items[k]]
          /\ \A k \in 1..total : plan.items[k].target = chosen[Turn(k, n)].key
  <2> HIDE DEF n
  <2> QED
    BY <1>1, <1>3
<1> QED
  BY <1>4, <1>5, <1>6 DEF plan, total, chosen

\* The same of the answer, before and after it was followed.
LEMMA PlannedTurns ==
    ASSUME BriefInv, Planned
    PROVE  LET chosen == ChosenOf(input) n == Len(chosen) total == TotalOf(input) IN
           /\ n \in Nat \ {0} /\ total \in Nat \ {0} /\ n <= total
           /\ total = IF input.request.keys = {} /\ n > CountOf(input) THEN n ELSE CountOf(input)
           /\ Len(result.targets) = n
           /\ \A i \in 1..n : /\ result.targets[i].key = chosen[i].key
                              /\ result.targets[i].share = Turns(total, n, i)
           /\ \A i, j \in 1..n : chosen[i].key = chosen[j].key => i = j
           /\ Len(result.items) = 0 \/ Len(result.items) = total
           /\ Len(result.items) = total =>
                 \A k \in 1..total : AskedIn(k) = {chosen[Turn(k, n)].key}
<1> DEFINE chosen == ChosenOf(input)
           n == Len(chosen)
           total == TotalOf(input)
           plan == PlanOf(input)
<1>1. /\ IsBrief(input) /\ plan.status = "planned" /\ result.targets = plan.targets
      /\ plan.items = <<>> => result.items = <<>>
      /\ plan.items = [k \in DOMAIN plan.items |-> plan.items[k]] =>
                 result.items = [k \in DOMAIN plan.items |-> result.items[k]]
      /\ \A k \in DOMAIN plan.items : AskedIn(k) = {plan.items[k].target}
  BY AnswerOfPlan
<1>2. /\ n \in Nat \ {0} /\ total \in Nat \ {0} /\ n <= total
      /\ total = IF input.request.keys = {} /\ n > CountOf(input) THEN n ELSE CountOf(input)
  BY <1>1, EnoughItems DEF TotalOf
<1>3. /\ DOMAIN plan.targets = 1..n /\ Len(plan.targets) = n
      /\ \A i \in 1..n : /\ plan.targets[i].key = chosen[i].key
                         /\ plan.targets[i].share = Turns(total, n, i)
      /\ \A i, j \in 1..n : chosen[i].key = chosen[j].key => i = j
      /\ \/ plan.items = <<>>
         \/ /\ plan.items = [k \in 1..total |-> plan.items[k]]
            /\ \A k \in 1..total : plan.items[k].target = chosen[Turn(k, n)].key
  BY <1>1, PlanTurns
<1> HIDE DEF plan, total, n, chosen
<1>4. CASE plan.items = <<>>
  <2>1. Len(result.items) = 0
    BY <1>1, <1>4
  <2> QED
    BY <1>1, <1>2, <1>3, <2>1 DEF total, n, chosen
<1>5. CASE /\ plan.items = [k \in 1..total |-> plan.items[k]]
           /\ \A k \in 1..total : plan.items[k].target = chosen[Turn(k, n)].key
  <2>1. DOMAIN plan.items = 1..total
    BY <1>5
  <2>2. result.items = [k \in 1..total |-> result.items[k]]
    BY <1>1, <1>5, <2>1
  <2>3. Len(result.items) = total
    BY <1>2, <2>2
  <2>4. \A k \in 1..total : AskedIn(k) = {chosen[Turn(k, n)].key}
    BY <1>1, <1>5, <2>1
  <2> QED
    BY <1>1, <1>2, <1>3, <2>3, <2>4 DEF total, n, chosen
<1> QED
  BY <1>3, <1>4, <1>5

\* Whatever is planned, everyone gets a fair share of the items and they come round in
\* turn (db.rs, practice_brief and allocate).
THEOREM SharesStayFair == Spec => []SharesAreFair
<1>1. BriefInv => SharesAreFair
  <2> SUFFICES ASSUME BriefInv, Planned PROVE SharesAreFair
    BY DEF SharesAreFair
  <2> DEFINE total == TotalOf(input)
             n == Len(result.targets)
             share(i) == result.targets[i].share
             place(k) == CHOOSE i \in 1..n : result.targets[i].key \in AskedIn(k)
             met(i, past) == {k \in 1..past : place(k) = i}
             uses(i, past) == Cardinality(met(i, past))
             items == Len(result.items)
  <2>1. /\ n \in Nat \ {0} /\ total \in Nat \ {0} /\ n <= total
        /\ total = IF input.request.keys = {} /\ n > CountOf(input) THEN n ELSE CountOf(input)
        /\ \A i \in 1..n : share(i) = Turns(total, n, i)
        /\ items = 0 \/ items = total
    BY PlannedTurns
  <2>2. items = total => \A k \in 1..total : place(k) = Turn(k, n) /\ Turn(k, n) \in 1..n
    <3> SUFFICES ASSUME items = total, NEW k \in 1..total PROVE place(k) = Turn(k, n) /\ Turn(k, n) \in 1..n
      OBVIOUS
    <3> DEFINE chosen == ChosenOf(input)
    <3>3. k \in Nat \ {0} /\ n \in Nat \ {0}
      BY <2>1
    <3>0. Turn(k, n) \in 1..n
      BY <3>3, TurnsInside
    <3>1. /\ AskedIn(k) = {chosen[Turn(k, n)].key}
          /\ \A i \in 1..n : result.targets[i].key = chosen[i].key
          /\ \A i, j \in 1..n : chosen[i].key = chosen[j].key => i = j
      BY PlannedTurns
    <3> HIDE DEF chosen, n
    <3>2. \A i \in 1..n : result.targets[i].key \in AskedIn(k) <=> i = Turn(k, n)
      BY <3>0, <3>1
    <3> QED
      BY <3>0, <3>2
  <2> HIDE DEF total, n, share, place, items
  <2>3. SumFunctionOnSet([i \in 1..n |-> share(i)], 1..n) = total
    <3>1. [i \in 1..n |-> share(i)] = [i \in 1..n |-> Turns(total, n, i)]
      BY <2>1
    <3> QED
      BY <2>1, <3>1, SharesAddUp
  <2>4. \A i, j \in 1..n : share(i) - share(j) \in {-1, 0, 1}
    <3> TAKE i, j \in 1..n
    <3>1. total \div n \in Nat
      BY <2>1, Dividing
    <3> DEFINE q == total \div n
               r == total % n
    <3>2. /\ share(i) = q + (IF i <= r THEN 1 ELSE 0)
          /\ share(j) = q + (IF j <= r THEN 1 ELSE 0)
      BY <2>1 DEF Turns
    <3>3. q \in Int
      BY <3>1
    <3> HIDE DEF q, r
    <3>4. (share(i) = q \/ share(i) = q + 1) /\ (share(j) = q \/ share(j) = q + 1)
      BY <3>2, <3>3
    <3> QED
      BY <3>3, <3>4
  <2>5. ASSUME items > 0, NEW i \in 1..n PROVE uses(i, items) = share(i)
    <3>1. items = total /\ \A k \in 1..total : place(k) = Turn(k, n)
      BY <2>1, <2>2, <2>5
    <3>2. met(i, items) = {k \in 1..total : Turn(k, n) = i}
      BY <3>1
    <3>3. Cardinality({k \in 1..total : Turn(k, n) = i}) = Turns(total, n, i)
      BY <2>1, TurnCount
    <3> HIDE DEF met
    <3> QED
      BY <2>1, <3>2, <3>3
  <2>6. ASSUME items > 0, NEW k \in 1..(items - 1), place(k) = place(k + 1) PROVE n = 1
    <3>1. items = total /\ k \in 1..total /\ k + 1 \in 1..total
      BY <2>1, <2>6
    <3>2. Turn(k, n) = Turn(k + 1, n)
      BY <2>2, <2>6, <3>1
    <3> QED
      BY <2>1, <3>1, <3>2, TurnsAlternate
  <2>7. \A k \in 1..(items - 1) : items > 0 /\ place(k) = place(k + 1) =>
            \A i \in (1..n) \ {place(k)} : uses(i, k) = share(i)
    <3> SUFFICES ASSUME NEW k \in 1..(items - 1), items > 0, place(k) = place(k + 1)
                 PROVE  (1..n) \ {place(k)} = {}
      OBVIOUS
    <3>1. n = 1
      BY <2>6
    <3>2. items = total /\ k \in 1..total
      BY <2>1
    <3>3. place(k) \in 1..n
      BY <2>2, <3>2
    <3> QED
      BY <3>1, <3>3
  <2>8. SumFunctionOnSet([i \in 1..n |-> share(i)], 1..n)
          = IF input.request.keys = {} /\ n > CountOf(input) THEN n ELSE CountOf(input)
    BY <2>1, <2>3
  <2> HIDE DEF met
  <2> QED
    BY <2>4, <2>5, <2>7, <2>8 DEF SharesAreFair, Scoped, CountOf, n, share, place, items, met, AskedIn
<1> QED
  BY <1>1, BriefsKept, PTL

(***************************************************************************)
(* A plan that is followed can be recorded.                                *)
(***************************************************************************)
\* Among finitely many recommendations there is a heaviest one.
LEMMA SomeHeaviest ==
    ASSUME NEW S, IsFiniteSet(S), S # {}, \A x \in S : x.weight \in Int
    PROVE  B!Heaviest(S) # {}
<1> DEFINE above(x) == {y \in S : y.weight > x.weight}
           T == {above(x) : x \in S}
<1>1. T \subseteq SUBSET S /\ T # {}
  OBVIOUS
<1> HIDE DEF T
<1>2. PICK U \in T : \A V \in T : V \subseteq U => V = U
  BY <1>1, SmallestSubset
<1> USE DEF T
<1>3. PICK x \in S : U = above(x)
  OBVIOUS
<1>4. ASSUME NEW y \in S, y.weight > x.weight PROVE FALSE
  <2>1. y \in above(x) /\ y \notin above(y) /\ above(y) \subseteq above(x) /\ above(y) \in T
    BY <1>4
  <2> HIDE DEF above, T
  <2> QED
    BY <1>2, <1>3, <2>1
<1>5. \A y \in S : y.weight <= x.weight
  BY <1>4
<1> HIDE DEF above, T
<1> QED
  BY <1>5 DEF B!Heaviest

\* What an activity plan may prescribe for a target fits the activity, and something does.
LEMMA DrillsFitActivity ==
    ASSUME NEW r, r.activity \in B!Activities, r.activity # None,
           NEW row, RowFits(row), B!DrillsFor(r, row) # {}
    PROVE  LET drills == {x.drill : x \in B!Heaviest(B!DrillsFor(r, row))} IN
           drills # {} /\ drills \subseteq B!CompatibleDrills[r.activity]
<1> DEFINE recs == B!Recommendations(row.own, row.recs)
           fitting == {x \in recs : x.drill \in B!CompatibleDrills[r.activity]}
           fallback == B!ActivityFallback(r.activity)
           for == B!DrillsFor(r, row)
<1>1. for \subseteq IF fitting # {} THEN fitting ELSE fallback
  BY DEF B!DrillsFor, B!Eligible
<1>2. recs \subseteq row.own \/ recs \subseteq row.recs
  BY DEF B!Recommendations
<1>3. \A x \in fallback : x.weight = 1 /\ x.drill \in B!CompatibleDrills[r.activity]
  BY DEF B!ActivityFallback, B!Fallback
<1> HIDE DEF for, recs, fallback
<1>4. for \subseteq {x \in for : x.drill \in B!CompatibleDrills[r.activity]}
  BY <1>1, <1>3
<1>5. B!Heaviest(for) # {}
  <2>1. CASE fitting # {}
    <3>1. for \subseteq row.own \/ for \subseteq row.recs
      BY <1>1, <1>2, <2>1
    <3>2. IsFiniteSet(for) /\ \A x \in for : x.weight \in Int
      BY <3>1, FS_Subset DEF RowFits
    <3>3. for # {}
      BY DEF for
    <3> QED
      BY <3>2, <3>3, SomeHeaviest
  <2>2. CASE fitting = {}
    <3>1. for # {} /\ for \subseteq fallback
      BY <1>1, <2>2 DEF for
    <3>2. \A x \in for : x.weight = 1
      BY <1>3, <3>1
    <3> QED
      BY <3>1, <3>2 DEF B!Heaviest
  <2> QED
    BY <2>1, <2>2
<1>6. B!Heaviest(for) \subseteq for
  BY DEF B!Heaviest
<1>7. \A x \in B!Heaviest(for) : x.drill \in B!CompatibleDrills[r.activity]
  BY <1>4, <1>6
<1> QED
  BY <1>5, <1>7 DEF for

\* The settings of a plan that fit the activity it is for.
LEMMA BriefConfigFits ==
    ASSUME NEW r, r.activity \in B!Activities, B!RequestFits(r),
           r.config # None => SettingsFit(r.config), r.activity # None
    PROVE  LET made == B!BriefConfig(r) IN
           /\ B!ConfigFieldsFit(r.activity, made)
           /\ r.activity \in {"dictogloss", "read_close_explain"} => made.hidden = TRUE
           /\ r.activity = "dictogloss" => made.exposures # None
           /\ made.questions # None => made.questions = B!EffectiveCount(r)
           /\ r.activity = "question_answer_sprint" => made.questions = B!EffectiveCount(r)
           /\ made.complications # None =>
                /\ r.activity = "role_play_complications"
                /\ made.complications \in Nat /\ made.complications < B!EffectiveCount(r)
<1> DEFINE a == r.activity
           given == B!DefaultConfig(a)
           merged == B!MergedConfig(a, r.config)
           made == B!BriefConfig(r)
           fields == {"pace", "questions", "exposures", "hidden", "complications"}
<1>0. DOMAIN B!NoConfig = fields
  BY DEF B!NoConfig
<1>1. /\ \A f \in fields : r.config # None /\ r.config[f] # None => a \in B!FieldActivities[f]
      /\ r.config # None /\ r.config.hidden = FALSE => a \notin {"dictogloss", "read_close_explain"}
  BY <1>0 DEF B!RequestFits, B!ConfigFieldsFit
<1>2. /\ \A f \in fields : given[f] # None => a \in B!FieldActivities[f]
      /\ given.hidden \in {None, TRUE} /\ given.complications \in {None, 1}
      /\ a = "dictogloss" => given.exposures = 2
      /\ a \in {"dictogloss", "read_close_explain"} => given.hidden = TRUE
  BY <1>0 DEF B!DefaultConfig, B!FieldActivities
<1>3. merged = [f \in fields |-> IF r.config # None /\ r.config[f] # None
                                 THEN r.config[f] ELSE given[f]]
  BY <1>0 DEF B!MergedConfig
<1>4. /\ \A f \in fields : merged[f] # None => a \in B!FieldActivities[f]
      /\ merged.hidden = FALSE => a \notin {"dictogloss", "read_close_explain"}
      /\ a \in {"dictogloss", "read_close_explain"} => merged.hidden = TRUE
      /\ a = "dictogloss" => merged.exposures # None
      /\ merged.complications # None => merged.complications \in Nat
  <2> HIDE DEF given, merged
  <2>1. \A f \in fields : merged[f] # None => a \in B!FieldActivities[f]
    BY <1>1, <1>2, <1>3
  <2>2. r.config # None => /\ r.config.hidden \in BOOLEAN \cup {None}
                           /\ r.config.complications # None => r.config.complications \in Nat
    BY DEF SettingsFit
  <2>3. None \notin {1, 2, TRUE}
    <3>1. 1 \in 1..20 /\ 2 \in 1..20
      OBVIOUS
    <3> QED
      BY <3>1, BriefsAssumption
  <2>4. /\ merged.hidden = FALSE => a \notin {"dictogloss", "read_close_explain"}
        /\ a \in {"dictogloss", "read_close_explain"} => merged.hidden = TRUE
    BY <1>1, <1>2, <1>3, <2>2, <2>3
  <2>5. a = "dictogloss" => merged.exposures # None
    BY <1>2, <1>3, <2>3
  <2>6. merged.complications # None => merged.complications \in Nat
    BY <1>2, <1>3, <2>2
  <2> QED
    BY <2>1, <2>4, <2>5, <2>6
<1>5. /\ \A f \in fields \ {"questions"} : made[f] = merged[f]
      /\ made.questions = merged.questions \/ a = "question_answer_sprint"
  <2> HIDE DEF merged, given
  <2>1. made = merged \/ (a = "question_answer_sprint" /\ made = [merged EXCEPT !.questions = B!EffectiveCount(r)])
    BY DEF B!BriefConfig, merged
  <2> HIDE DEF made
  <2> QED
    BY <1>3, <2>1
<1>6. /\ a = "question_answer_sprint" => made.questions = B!EffectiveCount(r)
      /\ a = "role_play_complications" => made.complications < B!EffectiveCount(r)
  BY DEF B!RequestFits
<1> HIDE DEF made, merged, given
<1>7. /\ B!FieldActivities["questions"] = {"question_answer_sprint"}
      /\ B!FieldActivities["complications"] = {"role_play_complications"}
  BY DEF B!FieldActivities
<1>8. \A f \in fields : made[f] # None => a \in B!FieldActivities[f]
  BY <1>4, <1>5, <1>7
<1>9. made.hidden = merged.hidden /\ made.exposures = merged.exposures
      /\ made.complications = merged.complications
  BY <1>5
<1>10. B!ConfigFieldsFit(a, made)
  BY <1>0, <1>4, <1>8, <1>9 DEF B!ConfigFieldsFit
<1>11. made.questions # None => made.questions = B!EffectiveCount(r)
  BY <1>6, <1>7, <1>8
<1>12. made.complications # None =>
          a = "role_play_complications" /\ made.complications \in Nat /\ made.complications < B!EffectiveCount(r)
  BY <1>4, <1>6, <1>7, <1>8, <1>9
<1> QED
  BY <1>4, <1>6, <1>9, <1>10, <1>11, <1>12 DEF made

\* The last items of a role play are its complications, as many as there should be.
LEMMA ComplicationItems ==
    ASSUME NEW total \in Nat, NEW many \in Nat, many < total
    PROVE  Cardinality({k \in 1..total :
              B!PhaseForItem("role_play_complications", k, total, many) = "complication"}) = many
<1> DEFINE set == {k \in 1..total :
              B!PhaseForItem("role_play_complications", k, total, many) = "complication"}
<1>1. \A k \in 1..total : B!PhaseForItem("role_play_complications", k, total, many) = "complication"
                             <=> k > total - many
  BY DEF B!PhaseForItem
<1>2. set = (total - many + 1)..total
  <2>1. \A k \in (total - many + 1)..total : k \in 1..total /\ k > total - many
    OBVIOUS
  <2>2. \A k \in 1..total : k > total - many => k \in (total - many + 1)..total
    OBVIOUS
  <2> QED
    BY <1>1, <2>1, <2>2
<1>3. Cardinality((total - many + 1)..total) = many
  <2>1. total - many + 1 \in Int /\ total \in Int
    OBVIOUS
  <2>2. Cardinality((total - many + 1)..total)
          = IF total - many + 1 > total THEN 0 ELSE total - (total - many + 1) + 1
    BY <2>1, FS_Interval
  <2> QED
    BY <2>2
<1> QED
  BY <1>2, <1>3

\* A stimulus chosen for the activity is one it accepts.
LEMMA StimuliFit ==
    ASSUME NEW a \in B!Activities
    PROVE  LET asked == {[kind |-> k, mode |-> CHOOSE m \in B!StimulusModes[k] : TRUE,
                          text |-> TRUE, uri |-> FALSE] : k \in B!RequiredStimulus(a)} IN
           /\ \A s \in asked : B!StimulusFits(s)
           /\ B!StimuliSatisfy(a, asked)
<1> DEFINE stimulus(k) == [kind |-> k, mode |-> CHOOSE m \in B!StimulusModes[k] : TRUE,
                           text |-> TRUE, uri |-> FALSE]
           asked == {stimulus(k) : k \in B!RequiredStimulus(a)}
<1>1. \A k \in B!RequiredStimulus(a) : B!StimulusModes[k] # {}
  BY DEF B!RequiredStimulus, B!StimulusModes
<1>2. \A k \in B!RequiredStimulus(a) : stimulus(k).mode \in B!StimulusModes[k]
  BY <1>1
<1>3. \A k : stimulus(k).kind = k /\ stimulus(k).text /\ ~stimulus(k).uri
  OBVIOUS
<1> HIDE DEF stimulus
<1>4. \A s \in asked : B!StimulusFits(s)
  BY <1>2, <1>3 DEF B!StimulusFits
<1>5. B!StimuliSatisfy(a, asked)
  BY <1>3 DEF B!StimuliSatisfy
<1> QED
  BY <1>4, <1>5 DEF stimulus

\* What following a plan records, and when that is refused.
LEMMA FollowedFits ==
    ASSUME NEW c, IsBrief(c), PlanOf(c).status = "planned", PlanOf(c).items # <<>>
    PROVE  LET made == B!BriefConfig(Scoped(c)) followed == Followed(c, PlanOf(c)) IN
           followed.recordable <=>
               /\ made # B!NoConfig
               /\ \/ Len(followed.items) = B!EffectiveCount(Scoped(c))
                  \/ Scoped(c).activity \notin B!SingleResponse \cup {"question_answer_sprint"}
<1> DEFINE r == Scoped(c)
           a == r.activity
           plan == PlanOf(c)
           count == CountOf(c)
           total == TotalOf(c)
           chosen == ChosenOf(c)
           n == Len(chosen)
           order == OrderOf(c)
           held == a \in B!SingleResponse \cup {"question_answer_sprint"}
           items == [i \in DOMAIN plan.items |->
                      [targets |-> {plan.items[i].target},
                       drill   |-> CHOOSE d \in plan.items[i].drills : TRUE,
                       phase   |-> plan.items[i].phase]]
           asked == {[kind |-> k, mode |-> CHOOSE m \in B!StimulusModes[k] : TRUE,
                      text |-> TRUE, uri |-> FALSE] : k \in B!RequiredStimulus(a)}
           made == B!BriefConfig(r)
           many == B!Complications(r)
           drills(i) == {x.drill : x \in B!Heaviest(B!DrillsFor(r, chosen[i]))}
<1>1. /\ B!RequestFits(r) /\ a # None /\ a \in B!Activities
      /\ r.config # None => SettingsFit(r.config)
  <2>1. r.activity = c.request.activity /\ r.config = c.request.config
    BY BriefInputs, ScopedFields
  <2> QED
    BY <2>1, BriefInputs, Planning
<1>2. /\ total \in Nat \ {0} /\ n \in Nat \ {0} /\ order = [k \in 1..total |-> Turn(k, n)]
      /\ count = B!EffectiveCount(r) /\ count \in 1..20 /\ count <= total
  BY EnoughItems DEF CountOf
<1>3. \A i \in 1..n : B!DrillsFor(r, chosen[i]) # {} /\ RowFits(chosen[i])
  <2> DEFINE rows == B!Selected(r, c.rows)
  <2>1. chosen \in Seq(rows) /\ RowsFit(rows)
    BY ChosenRows
  <2>2. \A i \in DOMAIN chosen : B!DrillsFor(r, chosen[i]) # {}
    BY Planning
  <2> HIDE DEF chosen, r, rows
  <2>3. \A i \in 1..n : chosen[i] \in rows /\ i \in DOMAIN chosen
    BY <2>1
  <2> QED
    BY <2>1, <2>2, <2>3 DEF RowsFit
<1>4. plan.items = [i \in DOMAIN order |->
              [target |-> chosen[order[i]].key, drills |-> drills(order[i]),
               phase  |-> B!PhaseForItem(a, i, Len(order), many)]]
  BY Planning
<1>5. \A i \in 1..n : drills(i) # {} /\ drills(i) \subseteq B!CompatibleDrills[a]
  BY <1>1, <1>3, DrillsFitActivity
<1>6. /\ B!ConfigFieldsFit(a, made)
      /\ a \in {"dictogloss", "read_close_explain"} => made.hidden = TRUE
      /\ a = "dictogloss" => made.exposures # None
      /\ made.questions # None => made.questions = count
      /\ a = "question_answer_sprint" => made.questions = count
      /\ made.complications # None =>
           /\ a = "role_play_complications"
           /\ made.complications \in Nat /\ made.complications < count
           /\ many = made.complications
  BY <1>1, <1>2, BriefConfigFits DEF B!Complications
<1>7. /\ Followed(c, plan).recordable = B!ActivityRecordingFits(a, made, asked, items)
      /\ Followed(c, plan).items = items
  BY DEF Followed, Scoped
<1>8. (\A s \in asked : B!StimulusFits(s)) /\ B!StimuliSatisfy(a, asked)
  BY <1>1, StimuliFit
<1> HIDE DEF drills, plan, chosen, n, total, count, order, asked, made, many, r
<1>9. Len(order) = total /\ \A k \in 1..total : order[k] \in 1..n
  <2>1. \A k \in 1..total : Turn(k, n) \in 1..n
    <3> TAKE k \in 1..total
    <3>1. k \in Nat \ {0} /\ n \in Nat \ {0}
      BY <1>2
    <3> QED
      BY <3>1, TurnsInside
  <2> QED
    BY <1>2, <2>1
<1>10. /\ DOMAIN items = 1..total /\ Len(items) = total
       /\ \A k \in 1..total : /\ items[k].targets = {chosen[order[k]].key}
                              /\ items[k].drill = CHOOSE d \in drills(order[k]) : TRUE
                              /\ items[k].phase = B!PhaseForItem(a, k, total, many)
  <2>1. DOMAIN plan.items = 1..total
    BY <1>2, <1>4
  <2>2. \A k \in 1..total : /\ plan.items[k].target = chosen[order[k]].key
                            /\ plan.items[k].drills = drills(order[k])
                            /\ plan.items[k].phase = B!PhaseForItem(a, k, total, many)
    BY <1>2, <1>4, <1>9
  <2>3. items = [k \in 1..total |-> items[k]]
    BY <2>1
  <2>4. Len(items) = total
    BY <1>2, <2>3
  <2> QED
    BY <2>1, <2>2, <2>4
<1> HIDE DEF items
<1>11. \A i \in DOMAIN items : B!ActivityItemFits(a, items[i])
  <2> TAKE k \in DOMAIN items
  <2>1. B!Cardinality(items[k].targets) = 1
    <3>1. PICK x : items[k].targets = {x}
      BY <1>10
    <3>2. Cardinality({x}) = 1
      BY FS_Singleton
    <3> QED
      BY <3>1, <3>2, SameCardinality
  <2>2. items[k].drill \in B!CompatibleDrills[a]
    BY <1>5, <1>9, <1>10
  <2>3. items[k].phase = "complication" => a = "role_play_complications"
    BY <1>10 DEF B!PhaseForItem
  <2> QED
    BY <2>1, <2>2, <2>3 DEF B!ActivityItemFits
<1>12. (IF a \in B!SingleResponse THEN Len(items) = 1 ELSE items # <<>>)
         <=> (a \in B!SingleResponse => total = count)
  <2>1. a \in B!SingleResponse => count = 1
    BY <1>1, <1>2 DEF B!RequestFits
  <2> QED
    BY <1>2, <1>10, <2>1
<1>13. made # None
  BY BriefsAssumption DEF IsBrief, made, r, Scoped
<1>14. made.complications # None =>
          /\ made.complications = B!Cardinality({i \in DOMAIN items : items[i].phase = "complication"})
          /\ made.complications < Len(items)
  <2> SUFFICES ASSUME made.complications # None
               PROVE  /\ many = B!Cardinality({i \in DOMAIN items : items[i].phase = "complication"})
                      /\ many < Len(items)
    BY <1>6
  <2>1. a = "role_play_complications" /\ many \in Nat /\ many < count
    BY <1>6
  <2>2. {i \in DOMAIN items : items[i].phase = "complication"}
          = {k \in 1..total : B!PhaseForItem("role_play_complications", k, total, many) = "complication"}
    BY <1>10, <2>1
  <2>3. total \in Nat /\ many < total
    BY <1>2, <2>1
  <2> QED
    BY <1>10, <2>1, <2>2, <2>3, ComplicationItems, SameCardinality
<1>15. made.questions # None <=> a = "question_answer_sprint"
  <2>1. made.questions # None => a \in B!FieldActivities["questions"]
    BY <1>6 DEF B!ConfigFieldsFit, B!NoConfig
  <2>2. count # None
    BY <1>2, BriefsAssumption
  <2> QED
    BY <1>6, <2>1, <2>2 DEF B!FieldActivities
<1> DEFINE asItSays == (made.questions # None => made.questions = Len(items))
<1>16. asItSays <=> (a = "question_answer_sprint" => total = count)
  BY <1>6, <1>10, <1>15
<1> HIDE DEF asItSays
<1>17. B!RunConfigFits(a, made, items) <=> made # B!NoConfig /\ asItSays
  BY <1>6, <1>13, <1>14 DEF B!RunConfigFits, asItSays
<1>18. (Len(items) = B!EffectiveCount(r) \/ ~held) <=>
          /\ a \in B!SingleResponse => total = count
          /\ a = "question_answer_sprint" => total = count
  BY <1>2, <1>10
<1>19. Followed(c, plan).recordable <=>
           made # B!NoConfig /\ (Len(items) = B!EffectiveCount(r) \/ ~held)
  BY <1>7, <1>8, <1>11, <1>12, <1>16, <1>17, <1>18 DEF B!ActivityRecordingFits
<1> QED
  BY <1>7, <1>19 DEF plan, made, r

\* What the planner prescribes is something the recorder accepts, but for settings without
\* a field and more items than the activity is fixed to (db.rs, practice_brief;
\* activities.rs).
THEOREM PlansAreRecordable == Spec => []PlanCanBeRecorded
<1>1. BriefInv => PlanCanBeRecorded
  BY FollowedFits DEF BriefInv, PlanCanBeRecorded, Scoped
<1> QED
  BY <1>1, BriefsKept, PTL

(***************************************************************************)
(* Pauses: what is shown of a recording, said of its frames.               *)
(***************************************************************************)
\* The frame f lies in the interval x.
Within(f, x) == x[1] <= f /\ f < x[2]

Intervals(n) == {x \in (1..n) \X (2..(n + 1)) : x[1] < x[2]}

\* A stretch of speech frames that is as long as it can be.
IsRun(frames, x) ==
    LET n == Len(frames) IN
    /\ x \in Intervals(n)
    /\ \A k \in x[1]..(x[2] - 1) : frames[k]
    /\ x[1] = 1 \/ ~frames[x[1] - 1]
    /\ x[2] = n + 1 \/ ~frames[x[2]]

KeptRuns(frames) == {x \in Intervals(Len(frames)) : IsRun(frames, x) /\ Length(x) >= MinSpeech}

\* Runs do not touch.
LEMMA RunsApart ==
    ASSUME NEW frames \in Seq(BOOLEAN), NEW x, NEW y, IsRun(frames, x), IsRun(frames, y)
    PROVE  x = y \/ x[2] < y[1] \/ y[2] < x[1]
<1> DEFINE n == Len(frames)
<1>0. n \in Nat
  OBVIOUS
<1>1. ASSUME NEW p, NEW q, IsRun(frames, p), IsRun(frames, q), p[1] < q[1] PROVE p[2] < q[1]
  <2>1. /\ p[1] \in 1..n /\ p[2] \in 2..(n + 1) /\ p[1] < p[2]
        /\ q[1] \in 1..n /\ q[2] \in 2..(n + 1) /\ q[1] < q[2]
    BY <1>1 DEF IsRun, Intervals
  <2>2. /\ \A k \in p[1]..(p[2] - 1) : frames[k]
        /\ p[2] = n + 1 \/ ~frames[p[2]]
        /\ \A k \in q[1]..(q[2] - 1) : frames[k]
        /\ q[1] = 1 \/ ~frames[q[1] - 1]
    BY <1>1 DEF IsRun
  <2> HIDE DEF n
  <2>3. frames[q[1]]
    BY <1>0, <2>1, <2>2
  <2>4. q[1] # p[2]
    BY <1>0, <2>1, <2>2, <2>3
  <2>5. ASSUME q[1] < p[2] PROVE FALSE
    <3>1. q[1] - 1 \in p[1]..(p[2] - 1)
      BY <1>0, <1>1, <2>1, <2>5
    <3>2. q[1] # 1
      BY <1>1, <2>1
    <3> QED
      BY <2>2, <3>1, <3>2
  <2> QED
    BY <1>0, <2>1, <2>4, <2>5
<1>2. ASSUME x[1] = y[1] PROVE x = y
  <2>1. /\ x \in (1..n) \X (2..(n + 1)) /\ y \in (1..n) \X (2..(n + 1))
        /\ x[1] < x[2] /\ y[1] < y[2]
    BY DEF IsRun, Intervals
  <2>2. ASSUME NEW p, NEW q, IsRun(frames, p), IsRun(frames, q), p[1] = q[1], p[2] < q[2] PROVE FALSE
    <3>1. /\ p[1] \in 1..n /\ p[2] \in 2..(n + 1) /\ p[1] < p[2]
          /\ q[2] \in 2..(n + 1)
      BY <2>2 DEF IsRun, Intervals
    <3>2. /\ p[2] = n + 1 \/ ~frames[p[2]]
          /\ \A k \in q[1]..(q[2] - 1) : frames[k]
      BY <2>2 DEF IsRun
    <3> HIDE DEF n
    <3>3. p[2] \in q[1]..(q[2] - 1) /\ p[2] # n + 1
      BY <1>0, <2>2, <3>1
    <3> QED
      BY <3>2, <3>3
  <2>3. x[2] = y[2]
    <3>1. x[2] \in Int /\ y[2] \in Int
      BY <1>0, <2>1
    <3>2. ~(x[2] < y[2]) /\ ~(y[2] < x[2])
      BY <1>2, <2>2
    <3> HIDE DEF n
    <3> QED
      BY <3>1, <3>2
  <2> HIDE DEF n
  <2> QED
    BY <1>2, <2>1, <2>3
<1>3. x[1] \in Int /\ y[1] \in Int
  BY <1>0 DEF IsRun, Intervals
<1>4. x[1] = y[1] \/ x[1] < y[1] \/ y[1] < x[1]
  BY <1>3
<1> QED
  BY <1>1, <1>2, <1>4

\* Every speech frame is in a run, with every stretch of speech around it.
LEMMA RunAround ==
    ASSUME NEW frames \in Seq(BOOLEAN), NEW f \in 1..Len(frames), frames[f]
    PROVE  \E x : /\ IsRun(frames, x) /\ Within(f, x)
                  /\ \A a \in 1..f, b \in f..Len(frames) :
                        (\A k \in a..b : frames[k]) => x[1] <= a /\ b < x[2]
<1> DEFINE n == Len(frames)
           S == {k \in 1..f : \A l \in k..f : frames[l]}
           E == {k \in (f + 1)..(n + 1) : k = n + 1 \/ ~frames[k]}
<1>0. n \in Nat /\ f \in 1..n /\ n + 1 \in Nat /\ f \in Nat
  OBVIOUS
<1>1. PICK s \in S : \A k \in S : s <= k
  <2>1. f \in S /\ S \subseteq 1..n
    <3> HIDE DEF n
    <3>1. \A l \in f..f : frames[l]
      BY <1>0
    <3> QED
      BY <1>0, <3>1
  <2> HIDE DEF S, n
  <2> QED
    BY <1>0, <2>1, FirstPosition
<1>2. PICK p \in E : \A k \in E : p <= k
  <2>1. n + 1 \in E /\ E \subseteq 1..(n + 1)
    <3> HIDE DEF n
    <3> QED
      BY <1>0
  <2> HIDE DEF E, n
  <2> QED
    BY <1>0, <2>1, FirstPosition
<1> DEFINE x == <<s, p>>
<1>3. s \in 1..f /\ p \in (f + 1)..(n + 1) /\ (\A l \in s..f : frames[l]) /\ (p = n + 1 \/ ~frames[p])
  BY <1>1, <1>2
<1>4. \A k \in (f + 1)..(p - 1) : frames[k]
  <2> SUFFICES ASSUME NEW k \in (f + 1)..(p - 1), ~frames[k] PROVE FALSE
    OBVIOUS
  <2> HIDE DEF n
  <2>1. k \in (f + 1)..(n + 1) /\ ~(p <= k)
    BY <1>0, <1>3
  <2>2. k \in E
    BY <2>1
  <2> QED
    BY <1>2, <2>1, <2>2
<1>5. s = 1 \/ ~frames[s - 1]
  <2> SUFFICES ASSUME s # 1, frames[s - 1] PROVE FALSE
    <3>1. frames[s - 1] \in BOOLEAN \/ s = 1
      <4>1. s = 1 \/ s - 1 \in 1..n
        <5> HIDE DEF n
        <5> QED
          BY <1>0, <1>3
      <4> QED
        BY <4>1
    <3> QED
      BY <3>1
  <2> HIDE DEF n
  <2>1. s - 1 \in 1..f /\ ~(s <= s - 1)
    BY <1>0, <1>3
  <2>2. \A l \in (s - 1)..f : l = s - 1 \/ l \in s..f
    BY <1>0, <1>3
  <2>3. s - 1 \in S
    BY <1>3, <2>1, <2>2
  <2> QED
    BY <1>1, <2>1, <2>3
<1>6. IsRun(frames, x)
  <2>1. x \in Intervals(n)
    <3> HIDE DEF n
    <3> QED
      BY <1>0, <1>3 DEF Intervals
  <2>2. \A k \in s..(p - 1) : k \in s..f \/ k \in (f + 1)..(p - 1)
    <3> HIDE DEF n
    <3> QED
      BY <1>0, <1>3
  <2> QED
    BY <1>3, <1>4, <1>5, <2>1, <2>2 DEF IsRun
<1>7. ASSUME NEW a \in 1..f, NEW b \in f..n, \A k \in a..b : frames[k] PROVE s <= a /\ b < p
  <2> HIDE DEF n
  <2>1. \A l \in a..f : l \in a..b
    BY <1>0
  <2>2. a \in S
    BY <1>7, <2>1
  <2>3. ASSUME p <= b PROVE FALSE
    <3>1. p \in a..b /\ p # n + 1
      BY <1>0, <1>3, <2>3
    <3> QED
      BY <1>3, <1>7, <3>1
  <2>4. b \in Int /\ p \in Int
    BY <1>0, <1>3
  <2> QED
    BY <1>1, <2>2, <2>3, <2>4
<1>8. Within(f, x)
  <2> HIDE DEF n
  <2> QED
    BY <1>0, <1>3 DEF Within
<1> QED
  BY <1>6, <1>7, <1>8

\* The frames of a stretch of speech that is long enough to count.
Solid(frames) ==
    LET n == Len(frames) IN
    {f \in 1..n : \E a \in 1..f, b \in f..n : b - a + 1 >= MinSpeech /\ \A k \in a..b : frames[k]}

\* They are the frames of the runs that are kept.
LEMMA SolidFrames ==
    ASSUME NEW frames \in Seq(BOOLEAN), NEW f \in 1..Len(frames)
    PROVE  f \in Solid(frames) <=> \E x \in KeptRuns(frames) : Within(f, x)
<1> DEFINE n == Len(frames)
<1>0. n \in Nat /\ f \in 1..n /\ MinSpeech \in Nat \ {0}
  BY FramesAssumption
<1>1. ASSUME f \in Solid(frames) PROVE \E x \in KeptRuns(frames) : Within(f, x)
  <2>1. PICK a \in 1..f, b \in f..n : b - a + 1 >= MinSpeech /\ \A k \in a..b : frames[k]
    BY <1>1 DEF Solid
  <2> HIDE DEF n
  <2>2. frames[f]
    BY <1>0, <2>1
  <2>3. PICK x : IsRun(frames, x) /\ Within(f, x) /\ x[1] <= a /\ b < x[2]
    BY <2>1, <2>2, RunAround DEF n
  <2>4. x \in Intervals(n) /\ x[1] \in 1..n /\ x[2] \in 2..(n + 1)
    BY <2>3 DEF IsRun, Intervals, n
  <2>5. x[2] - x[1] >= MinSpeech
    BY <1>0, <2>1, <2>3, <2>4
  <2> QED
    BY <2>3, <2>4, <2>5 DEF KeptRuns, Length, n
<1>2. ASSUME NEW x \in KeptRuns(frames), Within(f, x) PROVE f \in Solid(frames)
  <2>1. /\ x[1] \in 1..n /\ x[2] \in 2..(n + 1) /\ x[1] < x[2] /\ x[2] - x[1] >= MinSpeech
        /\ \A k \in x[1]..(x[2] - 1) : frames[k]
    BY <1>2 DEF KeptRuns, IsRun, Intervals, Length
  <2> DEFINE a == x[1]
             b == x[2] - 1
  <2> HIDE DEF n
  <2>2. a \in 1..f /\ b \in f..n /\ b - a + 1 >= MinSpeech /\ \A k \in a..b : frames[k]
    BY <1>0, <1>2, <2>1 DEF Within
  <2> HIDE DEF a, b
  <2> QED
    BY <2>2 DEF Solid, n
<1> QED
  BY <1>1, <1>2

\* Intervals in their order, with room between them.
Apart(s, n, room) ==
    /\ s \in Seq(Intervals(n))
    /\ \A i, j \in 1..Len(s) : i < j => s[i][2] + room <= s[j][1]

\* The runs that are long enough, one after the other.
LEMMA RunsInOrder ==
    ASSUME NEW frames \in Seq(BOOLEAN)
    PROVE  LET runs == SpeechRuns(frames) IN
           /\ Apart(runs, Len(frames), 1)
           /\ \A f \in 1..Len(frames) :
                 f \in Solid(frames) <=> \E i \in 1..Len(runs) : Within(f, runs[i])
<1> DEFINE n == Len(frames)
           runs == SpeechRuns(frames)
           starts == {i \in 1..n : frames[i] /\ (i = 1 \/ ~frames[i - 1])}
           past(i) == CHOOSE j \in (i + 1)..(n + 1) :
                        (\A k \in i..(j - 1) : frames[k]) /\ (j = n + 1 \/ ~frames[j])
           kept == {r \in {<<i, past(i)>> : i \in starts} : Length(r) >= MinSpeech}
<1>0. n \in Nat
  OBVIOUS
<1>1. ASSUME NEW i \in starts
      PROVE  IsRun(frames, <<i, past(i)>>)
  <2>1. i \in 1..n /\ frames[i] /\ (i = 1 \/ ~frames[i - 1])
    OBVIOUS
  <2>2. PICK x : IsRun(frames, x) /\ Within(i, x)
    BY <2>1, RunAround
  <2>3. /\ x[1] \in 1..n /\ x[2] \in 2..(n + 1) /\ x[1] < x[2]
        /\ \A k \in x[1]..(x[2] - 1) : frames[k]
        /\ x[2] = n + 1 \/ ~frames[x[2]]
    BY <2>2 DEF IsRun, Intervals
  <2> HIDE DEF n
  <2>4. x[1] <= i /\ i < x[2]
    BY <2>2 DEF Within
  <2>5. x[2] \in (i + 1)..(n + 1) /\ \A k \in i..(x[2] - 1) : frames[k]
    BY <1>0, <2>1, <2>3, <2>4
  <2>6. /\ past(i) \in (i + 1)..(n + 1)
        /\ \A k \in i..(past(i) - 1) : frames[k]
        /\ past(i) = n + 1 \/ ~frames[past(i)]
    BY <2>3, <2>5
  <2> HIDE DEF past
  <2>7. <<i, past(i)>> \in Intervals(n)
    BY <1>0, <2>1, <2>6 DEF Intervals
  <2> QED
    BY <2>1, <2>6, <2>7 DEF IsRun, n
<1>2. kept = KeptRuns(frames)
  <2>1. kept \subseteq KeptRuns(frames)
    <3> SUFFICES ASSUME NEW x \in kept PROVE x \in KeptRuns(frames)
      OBVIOUS
    <3>1. PICK i \in starts : x = <<i, past(i)>>
      OBVIOUS
    <3>2. Length(x) >= MinSpeech
      OBVIOUS
    <3>3. IsRun(frames, x)
      BY <1>1, <3>1
    <3> HIDE DEF kept, past, starts
    <3> QED
      BY <3>2, <3>3 DEF KeptRuns, IsRun
  <2>2. ASSUME NEW x \in KeptRuns(frames) PROVE x \in kept
    <3>1. IsRun(frames, x) /\ Length(x) >= MinSpeech /\ x \in (1..n) \X (2..(n + 1))
      BY <2>2 DEF KeptRuns, Intervals
    <3>2. x[1] \in starts
      <4>1. /\ x[1] \in 1..n /\ x[2] \in 2..(n + 1) /\ x[1] < x[2]
            /\ \A k \in x[1]..(x[2] - 1) : frames[k]
            /\ x[1] = 1 \/ ~frames[x[1] - 1]
        BY <3>1 DEF IsRun, Intervals
      <4>2. x[1] \in x[1]..(x[2] - 1)
        <5> HIDE DEF n
        <5> QED
          BY <1>0, <4>1
      <4> HIDE DEF n, past, kept
      <4>3. frames[x[1]]
        BY <4>1, <4>2
      <4> QED
        BY <4>1, <4>3
    <3>3. IsRun(frames, <<x[1], past(x[1])>>)
      BY <1>1, <3>2
    <3> HIDE DEF past, n, starts
    <3>4. x = <<x[1], past(x[1])>>
      <4> DEFINE y == <<x[1], past(x[1])>>
      <4>1. y[1] = x[1] /\ x[1] < x[2] /\ y[1] < y[2] /\ {x[1], x[2], y[2]} \subseteq Int
        BY <1>0, <3>1, <3>3 DEF IsRun, Intervals
      <4> HIDE DEF y
      <4>2. x = y \/ x[2] < y[1] \/ y[2] < x[1]
        BY <3>1, <3>3, RunsApart DEF y
      <4>3. x = y
        BY <4>1, <4>2
      <4> QED
        BY <4>3 DEF y
    <3> QED
      BY <3>1, <3>2, <3>4
  <2> HIDE DEF kept
  <2> QED
    BY <2>1, <2>2
<1> DEFINE K == KeptRuns(frames)
           before(r) == Cardinality({q \in K : q[1] < r[1]})
           at(k) == CHOOSE r \in K : before(r) = k - 1
           N == Cardinality(K)
<1>3. runs = [k \in 1..N |-> at(k)]
  <2>1. runs = [k \in 1..Cardinality(kept) |->
                  CHOOSE r \in kept : Cardinality({q \in kept : q[1] < r[1]}) = k - 1]
    BY DEF SpeechRuns
  <2> HIDE DEF kept, runs
  <2> QED
    BY <1>2, <2>1
<1> HIDE DEF runs, kept, past, starts
<1>4. IsFiniteSet(K)
  <2>1. IsFiniteSet((1..n) \X (2..(n + 1)))
    <3>1. IsFiniteSet(1..n) /\ IsFiniteSet(2..(n + 1))
      BY <1>0, FS_Interval
    <3> QED
      BY <3>1, FS_Product
  <2>2. K \subseteq (1..n) \X (2..(n + 1))
    BY DEF KeptRuns, Intervals
  <2> QED
    BY <2>1, <2>2, FS_Subset
<1>5. \A x \in K : /\ x \in Intervals(n) /\ IsRun(frames, x)
                   /\ x[1] \in Int /\ x[2] \in Int /\ x[1] < x[2]
  BY <1>0 DEF KeptRuns, Intervals
<1>6. \A x, y \in K : x = y \/ x[2] < y[1] \/ y[2] < x[1]
  BY <1>5, RunsApart
<1> HIDE DEF K, n
<1> DEFINE R == {p \in K \X K : p[1][1] < p[2][1]}
           rank(x) == Cardinality({y \in K : <<y, x>> \in R})
<1>7. \A x, y \in K : <<x, y>> \in R <=> x[1] < y[1]
  OBVIOUS
<1>8. \A x \in K : rank(x) = before(x)
  <2> TAKE x \in K
  <2>1. {y \in K : <<y, x>> \in R} = {q \in K : q[1] < x[1]}
    BY <1>7
  <2> QED
    BY <2>1
<1> HIDE DEF R
<1>9. /\ \A x \in K : <<x, x>> \notin R
      /\ \A x, y \in K : x = y \/ <<x, y>> \in R \/ <<y, x>> \in R
      /\ \A x, y, z \in K : <<x, y>> \in R /\ <<y, z>> \in R => <<x, z>> \in R
  <2>1. \A x, y \in K : x = y \/ x[1] < y[1] \/ y[1] < x[1]
    BY <1>5, <1>6
  <2> QED
    BY <1>5, <1>7, <2>1
<1>10. /\ N \in Nat
       /\ \A x \in K : rank(x) \in 0..(N - 1)
       /\ \A x, y \in K : <<x, y>> \in R <=> rank(x) < rank(y)
       /\ \A k \in 1..N : \E x \in K : rank(x) = k - 1
  BY <1>4, <1>9, Ranking
<1> HIDE DEF N, rank, before
<1>11. \A k \in 1..N : runs[k] \in K /\ rank(runs[k]) = k - 1
  <2> TAKE k \in 1..N
  <2>1. \E x \in K : before(x) = k - 1
    BY <1>8, <1>10
  <2>2. at(k) \in K /\ before(at(k)) = k - 1
    BY <2>1
  <2> HIDE DEF at
  <2> QED
    BY <1>3, <1>8, <2>2
<1> HIDE DEF at
<1>12. runs \in Seq(K) /\ Len(runs) = N
  <2>1. runs \in [1..N -> K]
    BY <1>3, <1>11
  <2> QED
    BY <1>10, <2>1
<1>13. ASSUME NEW i \in 1..N, NEW j \in 1..N, i < j PROVE runs[i][2] + 1 <= runs[j][1]
  <2>1. runs[i] \in K /\ runs[j] \in K /\ rank(runs[i]) < rank(runs[j])
    BY <1>10, <1>11, <1>13
  <2>2. runs[i][1] < runs[j][1]
    BY <1>7, <1>10, <2>1
  <2> QED
    BY <1>5, <1>6, <2>1, <2>2
<1>14. \A x \in K : \E i \in 1..N : runs[i] = x
  <2> TAKE x \in K
  <2>1. rank(x) + 1 \in 1..N /\ (rank(x) + 1) - 1 = rank(x)
    BY <1>10
  <2> DEFINE i == rank(x) + 1
  <2>2. runs[i] \in K /\ rank(runs[i]) = rank(x) /\ rank(x) \in Int
    BY <1>10, <1>11, <2>1
  <2>3. ~(<<runs[i], x>> \in R) /\ ~(<<x, runs[i]>> \in R)
    BY <1>10, <2>2
  <2>4. runs[i] = x
    BY <1>9, <2>2, <2>3
  <2> QED
    BY <2>1, <2>4
<1>15. runs \in Seq(Intervals(n))
  BY <1>5, <1>12
<1>16. Apart(runs, n, 1)
  BY <1>12, <1>13, <1>15 DEF Apart
<1>17. \A f \in 1..n : f \in Solid(frames) <=> \E i \in 1..N : Within(f, runs[i])
  <2> TAKE f \in 1..n
  <2>1. f \in Solid(frames) <=> \E x \in K : Within(f, x)
    BY SolidFrames DEF K, n
  <2> QED
    BY <1>11, <1>14, <2>1
<1> QED
  BY <1>12, <1>16, <1>17 DEF n, runs

\* Runs joined one after the other.
Joining(h, runs, n) == h = [k \in 0..n |-> IF k = 0 THEN <<>> ELSE JoinRun(h[k - 1], runs[k])]

\* What it is at each of them.
LEMMA JoiningEntries ==
    ASSUME NEW h, NEW runs, NEW n \in Nat, Joining(h, runs, n)
    PROVE  h[0] = <<>> /\ \A k \in 1..n : h[k] = JoinRun(h[k - 1], runs[k])
<1>1. \A k \in 0..n : h[k] = IF k = 0 THEN <<>> ELSE JoinRun(h[k - 1], runs[k])
  BY DEF Joining
<1>2. 0 \in 0..n /\ \A k \in 1..n : k \in 0..n /\ k # 0
  OBVIOUS
<1> QED
  BY <1>1, <1>2

\* There is such a function: to say so of a recursive definition is what it needs.
LEMMA JoiningExists ==
    ASSUME NEW runs, NEW n \in Nat
    PROVE  \E h : Joining(h, runs, n)
<1> DEFINE Bad == {m \in 1..(n + 1) : ~\E h : Joining(h, runs, m - 1)}
<1> SUFFICES ASSUME ~\E h : Joining(h, runs, n) PROVE FALSE
  OBVIOUS
<1>1. Bad # {}
  <2>1. n + 1 \in 1..(n + 1) /\ (n + 1) - 1 = n
    OBVIOUS
  <2>2. ~\E h : Joining(h, runs, (n + 1) - 1)
    BY <2>1
  <2> QED
    BY <2>1, <2>2
<1>2. Bad \subseteq 1..(n + 1) /\ n + 1 \in Nat
  OBVIOUS
<1> HIDE DEF Bad
<1>3. PICK m \in Bad : \A j \in Bad : m <= j
  BY <1>1, <1>2, FirstPosition
<1> USE DEF Bad
<1>4. m \in 1..(n + 1) /\ ~\E h : Joining(h, runs, m - 1)
  BY <1>3
<1>5. CASE m = 1
  <2> DEFINE h == [k \in 0..0 |-> <<>>]
  <2>1. h = [k \in 0..(m - 1) |-> IF k = 0 THEN <<>> ELSE JoinRun(h[k - 1], runs[k])]
    BY <1>5
  <2> QED
    BY <1>4, <2>1 DEF Joining
<1>6. CASE m # 1
  <2>1. m - 1 \in 1..(n + 1) /\ m - 1 < m /\ (m - 1) - 1 = m - 2 /\ m - 2 \in Nat
    BY <1>4, <1>6
  <2>2. PICK h : Joining(h, runs, m - 2)
    BY <1>3, <2>1
  <2> DEFINE g == [k \in 0..(m - 1) |-> IF k = 0 THEN <<>> ELSE JoinRun(h[k - 1], runs[k])]
  <2>3. ASSUME NEW k \in 0..(m - 1), k # 0 PROVE g[k - 1] = h[k - 1]
    <3>1. k - 1 \in 0..(m - 2) /\ k - 1 \in 0..(m - 1)
      BY <1>4, <2>3
    <3>2. h[k - 1] = IF k - 1 = 0 THEN <<>> ELSE JoinRun(h[(k - 1) - 1], runs[k - 1])
      BY <2>2, <3>1 DEF Joining
    <3> QED
      BY <3>1, <3>2
  <2>4. g = [k \in 0..(m - 1) |-> IF k = 0 THEN <<>> ELSE JoinRun(g[k - 1], runs[k])]
    <3> HIDE DEF g
    <3>1. ASSUME NEW k \in 0..(m - 1)
          PROVE  (IF k = 0 THEN <<>> ELSE JoinRun(g[k - 1], runs[k]))
                    = (IF k = 0 THEN <<>> ELSE JoinRun(h[k - 1], runs[k]))
      BY <2>3
    <3>2. [k \in 0..(m - 1) |-> IF k = 0 THEN <<>> ELSE JoinRun(g[k - 1], runs[k])]
            = [k \in 0..(m - 1) |-> IF k = 0 THEN <<>> ELSE JoinRun(h[k - 1], runs[k])]
      BY <3>1, Zenon
    <3> QED
      BY <3>2, Zenon DEF g
  <2> HIDE DEF g
  <2> QED
    BY <1>4, <2>4 DEF Joining
<1> QED
  BY <1>5, <1>6

\* The frame is in one of the first k runs, or in a short silence between two of them.
Spoken(f, runs, k) ==
    \/ \E j \in 1..k : Within(f, runs[j])
    \/ \E j \in 1..(k - 1) : /\ runs[j][2] <= f /\ f < runs[j + 1][1]
                             /\ Short(runs[j][2], runs[j + 1][1])

\* What the first k runs have been joined to.
JoinedSoFar(acc, runs, k, n) ==
    /\ Apart(acc, n, MinSilence)
    /\ k = 0 => acc = <<>>
    /\ k > 0 => Len(acc) > 0 /\ acc[Len(acc)][2] = runs[k][2]
    /\ \A f \in 1..n : (\E i \in 1..Len(acc) : Within(f, acc[i])) <=> Spoken(f, runs, k)

\* One run more.
LEMMA SpokenStep ==
    ASSUME NEW runs, NEW k \in Nat \ {0}, NEW f
    PROVE  Spoken(f, runs, k) <=>
              \/ Spoken(f, runs, k - 1)
              \/ Within(f, runs[k])
              \/ /\ k > 1 /\ runs[k - 1][2] <= f /\ f < runs[k][1]
                 /\ Short(runs[k - 1][2], runs[k][1])
<1> DEFINE short(j) == /\ runs[j][2] <= f /\ f < runs[j + 1][1]
                       /\ Short(runs[j][2], runs[j + 1][1])
<1>1. \A j \in 1..k : j \in 1..(k - 1) \/ j = k
  OBVIOUS
<1>2. \A j \in 1..(k - 1) : j \in 1..((k - 1) - 1) \/ (k > 1 /\ j = k - 1)
  OBVIOUS
<1>3. /\ \A j \in 1..(k - 1) : j \in 1..k
      /\ \A j \in 1..((k - 1) - 1) : j \in 1..(k - 1)
      /\ k \in 1..k /\ (k > 1 => k - 1 \in 1..(k - 1)) /\ (k - 1) + 1 = k
  OBVIOUS
<1>4. (\E j \in 1..k : Within(f, runs[j])) <=> ((\E j \in 1..(k - 1) : Within(f, runs[j])) \/ Within(f, runs[k]))
  BY <1>1, <1>3
<1>5. short(k - 1) <=> /\ runs[k - 1][2] <= f /\ f < runs[k][1]
                       /\ Short(runs[k - 1][2], runs[k][1])
  BY <1>3
<1>6. Spoken(f, runs, k) <=> (\E j \in 1..k : Within(f, runs[j])) \/ (\E j \in 1..(k - 1) : short(j))
  BY DEF Spoken
<1>7. Spoken(f, runs, k - 1) <=> (\E j \in 1..(k - 1) : Within(f, runs[j]))
                                 \/ (\E j \in 1..((k - 1) - 1) : short(j))
  BY DEF Spoken
<1> HIDE DEF short
<1>8. (\E j \in 1..(k - 1) : short(j)) <=> (\E j \in 1..((k - 1) - 1) : short(j)) \/ (k > 1 /\ short(k - 1))
  BY <1>2, <1>3
<1> QED
  BY <1>4, <1>5, <1>6, <1>7, <1>8

\* A further run keeps it so, joined to the last interval or put after it.
LEMMA JoinOne ==
    ASSUME NEW n \in Nat, NEW runs, Apart(runs, n, 1), NEW k \in 1..Len(runs),
           NEW acc, JoinedSoFar(acc, runs, k - 1, n)
    PROVE  JoinedSoFar(JoinRun(acc, runs[k]), runs, k, n)
<1> DEFINE p == Len(acc)
           run == runs[k]
           new == JoinRun(acc, run)
           short == acc # <<>> /\ Short(acc[p][2], run[1])
<1>0. /\ MinSilence \in Nat \ {0} /\ p \in Nat /\ Len(runs) \in Nat /\ k \in Nat \ {0}
      /\ acc \in Seq(Intervals(n)) /\ runs \in Seq(Intervals(n))
  BY FramesAssumption DEF JoinedSoFar, Apart
<1>1. /\ \A i \in 1..p : acc[i] \in Intervals(n) /\ acc[i] = <<acc[i][1], acc[i][2]>>
                         /\ acc[i][1] \in Int /\ acc[i][2] \in Int /\ acc[i][1] < acc[i][2]
                         /\ 1 <= acc[i][1] /\ acc[i][1] <= n /\ 2 <= acc[i][2] /\ acc[i][2] <= n + 1
      /\ run \in Intervals(n) /\ run[1] \in Int /\ run[2] \in Int /\ run[1] < run[2]
      /\ 1 <= run[1] /\ run[1] <= n /\ 2 <= run[2] /\ run[2] <= n + 1
  <2>1. \A x \in Intervals(n) :
           /\ x = <<x[1], x[2]>> /\ x[1] \in Int /\ x[2] \in Int /\ x[1] < x[2]
           /\ 1 <= x[1] /\ x[1] <= n /\ 2 <= x[2] /\ x[2] <= n + 1
    BY ONLY n \in Nat DEF Intervals
  <2>2. \A i \in 1..p : acc[i] \in Intervals(n)
    BY ONLY <1>0 DEF p
  <2>3. run \in Intervals(n)
    <3>1. k \in 1..Len(runs)
      OBVIOUS
    <3> QED
      BY ONLY <1>0, <3>1 DEF run
  <2> QED
    BY ONLY <2>1, <2>2, <2>3
<1>2. /\ \A i, j \in 1..p : i < j => acc[i][2] + MinSilence <= acc[j][1]
      /\ k = 1 => acc = <<>>
      /\ k > 1 => p > 0 /\ acc[p][2] = runs[k - 1][2] /\ runs[k - 1][2] + 1 <= run[1]
      /\ \A f \in 1..n : (\E i \in 1..p : Within(f, acc[i])) <=> Spoken(f, runs, k - 1)
  <2>1. k > 1 => k - 1 \in 1..Len(runs) /\ k - 1 < k /\ k - 1 > 0
    BY <1>0
  <2>2. \A i, j \in 1..Len(runs) : i < j => runs[i][2] + 1 <= runs[j][1]
    BY DEF Apart
  <2>3. /\ \A i, j \in 1..p : i < j => acc[i][2] + MinSilence <= acc[j][1]
        /\ k - 1 = 0 => acc = <<>>
        /\ k - 1 > 0 => p > 0 /\ acc[p][2] = runs[k - 1][2]
        /\ \A f \in 1..n : (\E i \in 1..p : Within(f, acc[i])) <=> Spoken(f, runs, k - 1)
    BY DEF JoinedSoFar, Apart
  <2>4. k > 1 => runs[k - 1][2] + 1 <= run[1]
    BY <2>1, <2>2
  <2>5. (k = 1 => k - 1 = 0) /\ (k > 1 => k - 1 > 0)
    BY <1>0
  <2> HIDE DEF run, p
  <2> QED
    BY <2>3, <2>4, <2>5
<1>3. acc = <<>> <=> p = 0
  BY <1>0
<1>4. \A f \in 1..n :
         Spoken(f, runs, k) <=>
            \/ \E i \in 1..p : Within(f, acc[i])
            \/ Within(f, run)
            \/ p > 0 /\ acc[p][2] <= f /\ f < run[1] /\ Short(acc[p][2], run[1])
  <2> TAKE f \in 1..n
  <2>1. Spoken(f, runs, k) <=>
              \/ Spoken(f, runs, k - 1)
              \/ Within(f, run)
              \/ /\ k > 1 /\ runs[k - 1][2] <= f /\ f < run[1]
                 /\ Short(runs[k - 1][2], run[1])
    BY <1>0, SpokenStep
  <2>2. k > 1 <=> p > 0
    BY <1>0, <1>2, <1>3
  <2> HIDE DEF run, p
  <2> QED
    BY <1>2, <2>1, <2>2
<1>5. CASE short
  <2>1. new = [acc EXCEPT ![p] = <<acc[p][1], run[2]>>] /\ p > 0
    <3>1. acc[p] = Last(acc)
      BY DEF Last
    <3> QED
      BY <1>0, <1>3, <1>5, <3>1 DEF JoinRun
  <2> HIDE DEF new, p, run
  <2>2. /\ new \in Seq(Intervals(n)) /\ Len(new) = p
        /\ \A i \in 1..p : i # p => new[i] = acc[i]
        /\ new[p] = <<acc[p][1], run[2]>>
    <3>1. p \in 1..p /\ acc[p][2] < run[1] /\ acc[p][1] < run[2]
      <4>1. k > 1
        BY <1>0, <1>2, <1>3, <2>1
      <4>2. p \in 1..p
        BY <1>0, <2>1
      <4> QED
        BY <1>1, <1>2, <4>1, <4>2
    <3>2. <<acc[p][1], run[2]>> \in Intervals(n)
      <4>1. acc[p][1] \in 1..n /\ run[2] \in 2..(n + 1)
        BY <1>0, <1>1, <3>1
      <4> QED
        BY <3>1, <4>1 DEF Intervals
    <3>3. p = Len(acc)
      BY DEF p
    <3> QED
      BY <1>0, <2>1, <3>1, <3>2, <3>3
  <2>3. acc[p][2] + 1 <= run[1] /\ p \in 1..p /\ Short(acc[p][2], run[1])
    <3>1. k > 1
      BY <1>0, <1>2, <1>3, <2>1
    <3> QED
      BY <1>0, <1>2, <1>5, <2>1, <3>1
  <2>4. \A i, j \in 1..p : i < j => new[i][2] + MinSilence <= new[j][1]
    <3> TAKE i, j \in 1..p
    <3>1. i < j => i # p /\ new[i] = acc[i] /\ new[j][1] = acc[j][1]
      BY <1>0, <2>2
    <3> QED
      BY <1>2, <3>1
  <2>5. new[p][2] = run[2]
    BY <2>2
  <2>6. \A f \in 1..n : (\E i \in 1..p : Within(f, new[i])) <=> Spoken(f, runs, k)
    <3> TAKE f \in 1..n
    <3>0. f \in Int
      BY <1>0
    <3>1. Within(f, new[p]) <=>
             Within(f, acc[p]) \/ Within(f, run) \/ (acc[p][2] <= f /\ f < run[1])
      BY <1>1, <2>2, <2>3, <3>0 DEF Within
    <3>2. (\E i \in 1..p : Within(f, new[i])) <=>
             (\E i \in 1..p : i # p /\ Within(f, acc[i])) \/ Within(f, new[p])
      BY <2>2, <2>3
    <3> QED
      BY <1>4, <2>1, <2>3, <3>1, <3>2
  <2> QED
    BY <1>0, <2>1, <2>2, <2>4, <2>5, <2>6 DEF JoinedSoFar, Apart, new, run
<1>6. CASE ~short
  <2>1. new = Append(acc, run)
    <3>1. acc[p] = Last(acc)
      BY DEF Last
    <3> QED
      BY <1>6, <3>1 DEF JoinRun
  <2> HIDE DEF new, run
  <2>2. /\ new \in Seq(Intervals(n)) /\ Len(new) = p + 1
        /\ \A i \in 1..p : new[i] = acc[i]
        /\ new[p + 1] = run
    BY <1>0, <1>1, <2>1
  <2>3. p > 0 => acc[p][2] + MinSilence <= run[1] /\ p \in 1..p
    <3> HIDE DEF p
    <3> QED
      BY <1>0, <1>1, <1>3, <1>6 DEF Short
  <2> HIDE DEF p
  <2>4. \A i, j \in 1..(p + 1) : i < j => new[i][2] + MinSilence <= new[j][1]
    <3> TAKE i, j \in 1..(p + 1)
    <3>1. CASE j = p + 1
      <4>1. i < j => i \in 1..p /\ (i < p \/ i = p) /\ p > 0
        BY <1>0, <3>1
      <4>2. i < j => acc[i][2] <= acc[p][2]
        <5> SUFFICES ASSUME i < p, i \in 1..p, p > 0 PROVE acc[i][2] <= acc[p][2]
          BY <1>1, <4>1
        <5>1. p \in 1..p /\ acc[i][2] + MinSilence <= acc[p][1]
          BY <1>2, <2>3
        <5>2. i \in 1..p
          OBVIOUS
        <5>3. /\ acc[i][2] \in Int /\ acc[p][1] \in Int /\ acc[p][2] \in Int
              /\ acc[p][1] < acc[p][2]
          BY ONLY <1>1, <5>1, <5>2
        <5> QED
          BY ONLY <1>0, <5>1, <5>3
      <4>3. i < j => new[i][2] = acc[i][2] /\ new[j][1] = run[1]
        BY <2>2, <3>1, <4>1
      <4>4. i < j => {acc[i][2], acc[p][2], run[1]} \subseteq Int
        BY <1>1, <2>3, <4>1
      <4>5. i < j => acc[i][2] + MinSilence <= run[1]
        BY <1>0, <2>3, <4>1, <4>2, <4>4
      <4> QED
        BY <4>3, <4>5
    <3>2. CASE j # p + 1
      <4>1. i < j => i \in 1..p /\ j \in 1..p
        BY <1>0, <3>2
      <4>2. i < j => acc[i][2] + MinSilence <= acc[j][1]
        BY <1>2, <4>1 DEF p
      <4>3. i < j => new[i] = acc[i] /\ new[j] = acc[j]
        BY <2>2, <4>1
      <4> QED
        BY <4>2, <4>3
    <3> QED
      BY <3>1, <3>2
  <2>5. \A f \in 1..n : (\E i \in 1..(p + 1) : Within(f, new[i])) <=> Spoken(f, runs, k)
    <3> TAKE f \in 1..n
    <3>1. (\E i \in 1..(p + 1) : Within(f, new[i])) <=>
             (\E i \in 1..p : Within(f, acc[i])) \/ Within(f, run)
      <4>1. \A i \in 1..(p + 1) : i \in 1..p \/ i = p + 1
        BY <1>0
      <4>2. p + 1 \in 1..(p + 1) /\ \A i \in 1..p : i \in 1..(p + 1)
        BY <1>0
      <4> QED
        BY <2>2, <4>1, <4>2
    <3>2. p > 0 => ~Short(acc[p][2], run[1])
      BY <1>0, <1>3, <1>6 DEF p
    <3> QED
      BY <1>4, <3>1, <3>2
  <2>6. p + 1 > 0 /\ new[p + 1][2] = run[2]
    BY <1>0, <2>2
  <2> QED
    BY <1>0, <2>2, <2>4, <2>5, <2>6 DEF JoinedSoFar, Apart, new, run
<1> QED
  BY <1>5, <1>6

\* So it is of all of them.
LEMMA MergedRuns ==
    ASSUME NEW n \in Nat, NEW runs, Apart(runs, n, 1)
    PROVE  LET m == Merged(runs) IN
           /\ Apart(m, n, MinSilence)
           /\ \A f \in 1..n : (\E i \in 1..Len(m) : Within(f, m[i])) <=> Spoken(f, runs, Len(runs))
<1> DEFINE N == Len(runs)
           h == CHOOSE g : g = [k \in 0..N |-> IF k = 0 THEN <<>> ELSE JoinRun(g[k - 1], runs[k])]
           Bad == {k \in 1..N : ~JoinedSoFar(h[k], runs, k, n)}
<1>0. N \in Nat /\ MinSilence \in Nat \ {0}
  BY FramesAssumption DEF Apart
<1>1. Merged(runs) = h[N]
  BY DEF Merged
<1>2. Joining(h, runs, N)
  <2> HIDE DEF N
  <2>1. \E g : Joining(g, runs, N)
    BY <1>0, JoiningExists
  <2> QED
    BY <2>1 DEF Joining
<1> HIDE DEF h
<1>3. h[0] = <<>> /\ \A k \in 1..N : h[k] = JoinRun(h[k - 1], runs[k])
  BY <1>0, <1>2, JoiningEntries
<1>4. JoinedSoFar(h[0], runs, 0, n)
  <2>1. ASSUME NEW f PROVE ~Spoken(f, runs, 0)
    <3>1. 1..0 = {} /\ 1..(0 - 1) = {}
      OBVIOUS
    <3> QED
      BY <3>1 DEF Spoken
  <2>2. Apart(<<>>, n, MinSilence) /\ Len(<<>>) = 0 /\ 1..0 = {}
    BY DEF Apart
  <2> QED
    BY <1>3, <2>1, <2>2 DEF JoinedSoFar
<1> HIDE DEF N
<1>5. ASSUME Bad # {} PROVE FALSE
  <2>1. PICK k \in Bad : \A j \in Bad : k <= j
    BY <1>0, <1>5, FirstPosition
  <2>2. k \in 1..N /\ k - 1 \in 0..N /\ ~(k <= k - 1)
    BY <1>0, <2>1
  <2>3. JoinedSoFar(h[k - 1], runs, k - 1, n)
    <3>1. CASE k = 1
      BY <1>4, <3>1
    <3>2. CASE k # 1
      <4>1. k - 1 \in 1..N /\ k - 1 \notin Bad
        BY <1>0, <2>1, <2>2, <3>2
      <4> QED
        BY <4>1
    <3> QED
      BY <3>1, <3>2
  <2>4. JoinedSoFar(h[k], runs, k, n)
    BY <1>3, <2>2, <2>3, JoinOne DEF N
  <2> QED
    BY <2>1, <2>4
<1>6. JoinedSoFar(h[N], runs, N, n)
  <2>1. N = 0 \/ N \in 1..N
    BY <1>0
  <2> QED
    BY <1>4, <1>5, <2>1
<1> QED
  BY <1>1, <1>6 DEF JoinedSoFar, N

\* What the order of intervals says of their ends.
LEMMA IntervalOrder ==
    ASSUME NEW n \in Nat, NEW room \in Nat, NEW s, Apart(s, n, room)
    PROVE  /\ Len(s) \in Nat /\ DOMAIN s = 1..Len(s)
           /\ \A i \in 1..Len(s) : /\ s[i][1] \in 1..n /\ s[i][2] \in 2..(n + 1)
                                   /\ s[i][1] < s[i][2]
           /\ \A i, j \in 1..Len(s) : i < j => s[i][2] + room <= s[j][1]
<1>1. s \in Seq(Intervals(n)) /\ \A i, j \in 1..Len(s) : i < j => s[i][2] + room <= s[j][1]
  BY DEF Apart
<1>2. \A i \in 1..Len(s) : s[i] \in Intervals(n)
  BY <1>1
<1>3. \A x \in Intervals(n) : x[1] \in 1..n /\ x[2] \in 2..(n + 1) /\ x[1] < x[2]
  BY DEF Intervals
<1> QED
  BY <1>1, <1>2, <1>3

\* No interval reaches between two neighbours, and none lies between them.
LEMMA Neighbours ==
    ASSUME NEW n \in Nat, NEW room \in Nat, NEW s, Apart(s, n, room),
           NEW i \in 1..(Len(s) - 1), NEW f \in Int, s[i][2] <= f, f < s[i + 1][1]
    PROVE  \A j \in 1..Len(s) : ~Within(f, s[j])
<1> DEFINE N == Len(s)
<1>0. N \in Nat /\ i \in 1..N /\ i + 1 \in 1..N
  BY IntervalOrder
<1> SUFFICES ASSUME NEW j \in 1..N, Within(f, s[j]) PROVE FALSE
  OBVIOUS
<1> HIDE DEF N
<1>1. /\ {s[i][1], s[i][2], s[i + 1][1], s[j][1], s[j][2]} \subseteq Int
      /\ s[j][1] < s[j][2] /\ s[i][1] < s[i][2]
  <2>1. \A l \in 1..N : s[l][1] \in 1..n /\ s[l][2] \in 2..(n + 1) /\ s[l][1] < s[l][2]
    BY IntervalOrder DEF N
  <2>2. \A l \in 1..N : s[l][1] \in Int /\ s[l][2] \in Int
    BY ONLY <2>1, n \in Nat
  <2>3. j \in 1..N
    OBVIOUS
  <2> QED
    BY ONLY <1>0, <2>1, <2>2, <2>3
<1>2. s[j][1] <= f /\ f < s[j][2]
  BY DEF Within
<1>3. j < i \/ j = i \/ j = i + 1 \/ i + 1 < j
  BY <1>0
<1>4. CASE j < i
  <2>1. s[j][2] + room <= s[i][1]
    BY <1>0, <1>4, IntervalOrder DEF N
  <2> QED
    BY <1>1, <1>2, <2>1
<1>5. CASE j = i
  BY <1>1, <1>2, <1>5
<1>6. CASE j = i + 1
  BY <1>1, <1>2, <1>6
<1>7. CASE i + 1 < j
  <2>1. s[i + 1][2] + room <= s[j][1] /\ s[i + 1][2] \in Int /\ s[i + 1][1] < s[i + 1][2]
    BY <1>0, <1>7, IntervalOrder DEF N
  <2> QED
    BY <1>1, <1>2, <2>1
<1> QED
  BY <1>3, <1>4, <1>5, <1>6, <1>7

\* Two frames of intervals with none between them are in neighbours.
LEMMA NextInterval ==
    ASSUME NEW n \in Nat, NEW room \in Nat, NEW s, Apart(s, n, room),
           NEW i \in 1..Len(s), NEW j \in 1..Len(s), s[i][2] <= s[j][1],
           \A k \in s[i][2]..(s[j][1] - 1) : \A l \in 1..Len(s) : ~Within(k, s[l])
    PROVE  j = i + 1
<1> DEFINE N == Len(s)
<1>0. N \in Nat /\ i \in 1..N /\ j \in 1..N
  BY IntervalOrder
<1>1. /\ {s[i][1], s[i][2], s[j][1], s[j][2]} \subseteq Int
      /\ s[j][1] < s[j][2] /\ s[i][1] < s[i][2]
  BY IntervalOrder
<1> HIDE DEF N
<1>2. ~(j < i)
  <2> SUFFICES ASSUME j < i PROVE FALSE
    OBVIOUS
  <2>1. s[j][2] + room <= s[i][1]
    BY <1>0, IntervalOrder DEF N
  <2> QED
    BY <1>1, <2>1
<1>3. j # i
  BY <1>1
<1>4. ASSUME i + 1 < j PROVE FALSE
  <2>0. i + 1 \in 1..N /\ i < i + 1
    BY <1>0, <1>4
  <2> DEFINE k == s[i + 1][1]
  <2>1. /\ s[i][2] + room <= k /\ s[i + 1][2] + room <= s[j][1]
        /\ k \in Int /\ s[i + 1][2] \in Int /\ k < s[i + 1][2]
    BY <1>0, <1>4, <2>0, IntervalOrder DEF N
  <2>2. Within(k, s[i + 1])
    BY <2>1 DEF Within
  <2> HIDE DEF k
  <2>3. k \in s[i][2]..(s[j][1] - 1)
    <3>1. s[i][2] \in Int /\ s[j][1] \in Int
      BY <1>1
    <3> QED
      BY ONLY <2>1, <3>1, room \in Nat
  <2> QED
    BY <2>0, <2>2, <2>3 DEF N
<1> QED
  BY <1>0, <1>2, <1>3, <1>4

\* A silence between speech that is too short to count.
Bridged(frames) ==
    LET n == Len(frames) solid == Solid(frames) IN
    {f \in 1..n \ solid : \E a \in 1..(f - 1), b \in (f + 1)..n :
        /\ a \in solid /\ b \in solid
        /\ \/ b - a - 1 < MinSilence
           \/ b - a - 1 = MinSilence /\ <<a + 1, b>> \in NarrowGaps
        /\ \A k \in (a + 1)..(b - 1) : k \notin solid}

\* Runs and the short silences between neighbours are what speech is.
LEMMA SpeechIsSpoken ==
    ASSUME NEW frames \in Seq(BOOLEAN)
    PROVE  LET runs == SpeechRuns(frames) IN
           \A f \in 1..Len(frames) :
              f \in Solid(frames) \cup Bridged(frames) <=> Spoken(f, runs, Len(runs))
<1> DEFINE runs == SpeechRuns(frames)
           n == Len(frames)
           N == Len(runs)
           solid == Solid(frames)
<1>0. n \in Nat /\ MinSilence \in Nat \ {0}
  BY FramesAssumption
<1>1. /\ Apart(runs, n, 1)
      /\ \A f \in 1..n : f \in solid <=> \E i \in 1..N : Within(f, runs[i])
  BY RunsInOrder
<1>2. /\ N \in Nat
      /\ \A i \in 1..N : /\ runs[i][1] \in 1..n /\ runs[i][2] \in 2..(n + 1)
                         /\ runs[i][1] < runs[i][2]
      /\ \A i, j \in 1..N : i < j => runs[i][2] + 1 <= runs[j][1]
  BY <1>0, <1>1, IntervalOrder
<1>3. solid \subseteq 1..n
  BY DEF Solid
<1> SUFFICES ASSUME NEW f \in 1..n
             PROVE  f \in solid \cup Bridged(frames) <=> Spoken(f, runs, N)
  OBVIOUS
<1>4. f \in Bridged(frames) <=>
          /\ f \notin solid
          /\ \E a \in 1..(f - 1), b \in (f + 1)..n :
                /\ a \in solid /\ b \in solid /\ Short(a + 1, b)
                /\ \A k \in (a + 1)..(b - 1) : k \notin solid
  <2>1. \A a, b \in Int :
           Short(a + 1, b) <=>
              \/ b - a - 1 < MinSilence
              \/ b - a - 1 = MinSilence /\ <<a + 1, b>> \in NarrowGaps
    BY <1>0 DEF Short
  <2>2. \A a \in 1..(f - 1), b \in (f + 1)..n : a \in Int /\ b \in Int
    OBVIOUS
  <2> HIDE DEF solid, n
  <2> QED
    BY <2>1, <2>2 DEF Bridged, solid, n
<1> HIDE DEF runs, n, N, solid
<1>5. Spoken(f, runs, N) <=>
         \/ f \in solid
         \/ \E j \in 1..(N - 1) : /\ runs[j][2] <= f /\ f < runs[j + 1][1]
                                  /\ Short(runs[j][2], runs[j + 1][1])
  BY <1>1 DEF Spoken
<1>6. ASSUME NEW j \in 1..(N - 1), runs[j][2] <= f, f < runs[j + 1][1],
             Short(runs[j][2], runs[j + 1][1])
      PROVE  f \in solid \/ f \in Bridged(frames)
  <2> DEFINE a == runs[j][2] - 1
             b == runs[j + 1][1]
  <2>1. j \in 1..N /\ j + 1 \in 1..N
    BY <1>2
  <2>2. /\ runs[j][1] \in 1..n /\ runs[j][2] \in 2..(n + 1) /\ runs[j][1] < runs[j][2]
        /\ b \in 1..n /\ runs[j + 1][2] \in 2..(n + 1) /\ b < runs[j + 1][2]
    BY <1>2, <2>1
  <2>3. /\ a \in 1..(f - 1) /\ b \in (f + 1)..n /\ Short(a + 1, b)
        /\ a \in 1..n /\ runs[j][1] <= a /\ a < runs[j][2]
    <3>1. /\ f \in Int /\ 1 <= f /\ f <= n /\ runs[j][1] \in Int /\ runs[j][2] \in Int /\ b \in Int
          /\ 1 <= runs[j][1] /\ b <= n /\ runs[j][1] < runs[j][2]
      BY <1>0, <2>2
    <3>2. runs[j][2] <= f /\ f < b /\ Short(runs[j][2], b)
      BY <1>6
    <3>3. a \in Int /\ a = runs[j][2] - 1
      BY <3>1
    <3> DEFINE lo == runs[j][1]
               hi == runs[j][2]
    <3>4. /\ lo \in Int /\ hi \in Int /\ 1 <= lo /\ lo < hi /\ hi <= f
          /\ Short(hi, b) /\ a = hi - 1
      BY <3>1, <3>2, <3>3
    <3>5. b \in Int /\ b <= n /\ f < b
      BY <3>1, <3>2
    <3> HIDE DEF a, b, lo, hi
    <3>6. a \in Int /\ 1 <= a /\ a <= f - 1 /\ a <= n /\ lo <= a /\ a < hi
      BY <1>0, <3>1, <3>3, <3>4
    <3>7. Short(a + 1, b)
      <4>1. a + 1 = hi
        BY <3>4
      <4> QED
        BY <3>4, <4>1
    <3>8. a \in 1..(f - 1) /\ a \in 1..n /\ b \in (f + 1)..n
      BY <1>0, <3>1, <3>5, <3>6
    <3> QED
      BY <3>6, <3>7, <3>8 DEF lo, hi
  <2>4. a \in solid /\ b \in solid
    <3>1. Within(a, runs[j]) /\ Within(b, runs[j + 1])
      BY <2>2, <2>3 DEF Within
    <3> QED
      BY <1>1, <2>1, <2>2, <2>3, <3>1
  <2>5. \A k \in (a + 1)..(b - 1) : k \notin solid
    <3> TAKE k \in (a + 1)..(b - 1)
    <3>1. k \in Int /\ runs[j][2] <= k /\ k < b
      BY <2>2
    <3>2. \A i \in 1..N : ~Within(k, runs[i])
      BY <1>0, <1>1, <3>1, Neighbours DEF N
    <3> QED
      BY <1>1, <1>3, <3>2
  <2> HIDE DEF a, b
  <2> QED
    BY <1>4, <2>3, <2>4, <2>5
<1>7. ASSUME f \in Bridged(frames), f \notin solid
      PROVE  \E j \in 1..(N - 1) : /\ runs[j][2] <= f /\ f < runs[j + 1][1]
                                   /\ Short(runs[j][2], runs[j + 1][1])
  <2>1. PICK a \in 1..(f - 1), b \in (f + 1)..n :
                /\ a \in solid /\ b \in solid /\ Short(a + 1, b)
                /\ \A k \in (a + 1)..(b - 1) : k \notin solid
    BY <1>4, <1>7
  <2>2. a \in 1..n /\ b \in 1..n /\ f \in Int
    BY <1>0
  <2>3. PICK i \in 1..N : Within(a, runs[i])
    BY <1>1, <2>1, <2>2
  <2>4. PICK j \in 1..N : Within(b, runs[j])
    BY <1>1, <2>1, <2>2
  <2>5. ~Within(f, runs[i]) /\ ~Within(f, runs[j])
    BY <1>1, <1>7
  <2>6. /\ {runs[i][1], runs[i][2], runs[j][1], runs[j][2]} \subseteq Int
        /\ runs[i][1] < runs[i][2] /\ runs[j][1] < runs[j][2]
    BY <1>0, <1>2
  <2>7. runs[i][1] <= a /\ a < runs[i][2] /\ runs[j][1] <= b /\ b < runs[j][2]
    BY <2>3, <2>4 DEF Within
  <2>8. runs[i][2] <= f /\ f < runs[j][1] /\ a < f /\ f < b
    BY <2>2, <2>5, <2>6, <2>7 DEF Within
  <2>9. \A k \in runs[i][2]..(runs[j][1] - 1) : \A l \in 1..N : ~Within(k, runs[l])
    <3> TAKE k \in runs[i][2]..(runs[j][1] - 1)
    <3>0. /\ runs[i][2] \in Int /\ runs[j][1] \in Int /\ k \in runs[i][2]..(runs[j][1] - 1)
          /\ a \in 1..n /\ b \in 1..n /\ a < runs[i][2] /\ runs[j][1] <= b
      BY <2>2, <2>6, <2>7
    <3>1. k \in (a + 1)..(b - 1) /\ k \in 1..n
      BY ONLY <1>0, <3>0
    <3> QED
      BY <1>1, <2>1, <3>1
  <2>10. j = i + 1
    <3>1. runs[i][2] <= runs[j][1]
      BY <2>2, <2>6, <2>8
    <3> QED
      BY <1>0, <1>1, <2>9, <3>1, NextInterval DEF N
  <2>11. i \in 1..(N - 1) /\ Short(runs[i][2], runs[j][1])
    <3>1. \A k \in 1..n : (\E l \in 1..N : Within(k, runs[l])) => k \in solid
      BY <1>1
    <3>2. ASSUME a + 1 < runs[i][2] PROVE FALSE
      <4>1. a + 1 \in (a + 1)..(b - 1) /\ a + 1 \in 1..n
        BY <1>0, <2>2, <2>8
      <4>2. Within(a + 1, runs[i])
        BY <2>2, <2>6, <2>7, <3>2 DEF Within
      <4> QED
        BY <2>1, <3>1, <4>1, <4>2
    <3>3. ASSUME runs[j][1] < b PROVE FALSE
      <4>1. b - 1 \in (a + 1)..(b - 1) /\ b - 1 \in 1..n
        BY <1>0, <2>2, <2>8
      <4>2. Within(b - 1, runs[j])
        BY <2>2, <2>6, <2>7, <3>3 DEF Within
      <4> QED
        BY <2>1, <3>1, <4>1, <4>2
    <3>4. runs[i][2] = a + 1 /\ runs[j][1] = b
      BY <2>2, <2>6, <2>7, <3>2, <3>3
    <3>5. i \in 1..(N - 1)
      BY <1>2, <2>10
    <3> QED
      BY <2>1, <3>4, <3>5
  <2> QED
    BY <2>8, <2>10, <2>11
<1> QED
  BY <1>5, <1>6, <1>7

\* The frames of the first k intervals.
Covered(s, k, n) == {f \in 1..n : \E i \in 1..k : Within(f, s[i])}

\* A sum up to a number is the last summand and the sum before it.
LEMMA SumUpTo ==
    ASSUME NEW k \in Nat \ {0}, NEW g, \A i \in 1..k : g[i] \in Nat
    PROVE  /\ SumFunctionOnSet(g, 1..k) = g[k] + SumFunctionOnSet(g, 1..(k - 1))
           /\ SumFunctionOnSet(g, 1..k) \in Nat
           /\ SumFunctionOnSet(g, 1..(k - 1)) \in Nat
<1>1. k \in Int /\ k - 1 \in Int /\ 1 \in Int
  OBVIOUS
<1>2. IsFiniteSet(1..k) /\ IsFiniteSet(1..(k - 1))
  BY <1>1, FS_Interval
<1>3. k \in 1..k /\ (1..k) \ {k} = 1..(k - 1) /\ \A i \in 1..(k - 1) : i \in 1..k
  OBVIOUS
<1>4. SumFunctionOnSet(g, 1..k) = g[k] + SumFunctionOnSet(g, (1..k) \ {k})
  BY <1>2, <1>3, SumRemove
<1>5. SumFunctionOnSet(g, 1..k) \in Nat
  BY <1>2, SumNat
<1>6. SumFunctionOnSet(g, 1..(k - 1)) \in Nat
  <2>1. \A i \in 1..(k - 1) : g[i] \in Nat
    BY <1>3
  <2> QED
    BY <1>2, <2>1, SumNat
<1> QED
  BY <1>3, <1>4, <1>5, <1>6

\* Their number is the sum of the lengths.
LEMMA LengthsAddUp ==
    ASSUME NEW n \in Nat, NEW room \in Nat, NEW s, Apart(s, n, room),
           NEW g, \A i \in 1..Len(s) : g[i] = Length(s[i])
    PROVE  SumFunctionOnSet(g, 1..Len(s)) = Cardinality(Covered(s, Len(s), n))
<1> DEFINE N == Len(s)
           Sum(k) == SumFunctionOnSet(g, 1..k)
           C(k) == Covered(s, k, n)
           Bad == {k \in 1..N : Sum(k) # Cardinality(C(k))}
<1>0. /\ N \in Nat
      /\ \A i \in 1..N : s[i][1] \in 1..n /\ s[i][2] \in 2..(n + 1) /\ s[i][1] < s[i][2]
      /\ \A i, j \in 1..N : i < j => s[i][2] + room <= s[j][1]
  BY IntervalOrder
<1>1. \A i \in 1..N : g[i] = s[i][2] - s[i][1] /\ g[i] \in Nat
  <2> TAKE i \in 1..N
  <2>1. g[i] = s[i][2] - s[i][1]
    BY DEF Length
  <2>2. s[i][1] \in 1..n /\ s[i][2] \in 2..(n + 1) /\ s[i][1] < s[i][2]
    BY <1>0
  <2> QED
    BY <2>1, <2>2
<1>2. Sum(0) = 0 /\ C(0) = {} /\ Cardinality(C(0)) = 0
  <2>1. 1..0 = {}
    OBVIOUS
  <2>2. C(0) = {}
    BY <2>1 DEF Covered
  <2> QED
    BY <2>1, <2>2, SumEmpty, FS_EmptySet
<1> HIDE DEF N
<1>3. ASSUME NEW k \in 1..N, Sum(k - 1) = Cardinality(C(k - 1)) PROVE Sum(k) = Cardinality(C(k))
  <2> DEFINE T == s[k][1]..(s[k][2] - 1)
  <2>0. k \in Nat /\ s[k][1] \in 1..n /\ s[k][2] \in 2..(n + 1) /\ s[k][1] < s[k][2]
    BY <1>0
  <2>1. Sum(k) = g[k] + Sum(k - 1)
    <3>1. k \in Nat \ {0} /\ \A i \in 1..k : g[i] \in Nat
      BY <1>0, <1>1
    <3> QED
      BY <3>1, SumUpTo
  <2>2. C(k) = C(k - 1) \cup T
    <3>1. \A f \in 1..n : Within(f, s[k]) <=> f \in T
      BY <2>0 DEF Within
    <3>2. T \subseteq 1..n
      BY <2>0
    <3>3. \A i : i \in 1..k <=> i \in 1..(k - 1) \/ i = k
      BY <2>0
    <3> HIDE DEF T
    <3> QED
      BY <3>1, <3>2, <3>3 DEF Covered
  <2>3. C(k - 1) \cap T = {}
    <3> SUFFICES ASSUME NEW f \in T, NEW i \in 1..(k - 1), Within(f, s[i]) PROVE FALSE
      BY DEF Covered
    <3>1. i \in 1..N /\ i < k
      BY <1>0
    <3>2. s[i][2] + room <= s[k][1] /\ s[i][2] \in Int
      BY <1>0, <3>1
    <3>3. f < s[i][2] /\ s[k][1] <= f /\ f \in Int
      BY <2>0 DEF Within
    <3> QED
      BY <2>0, <3>2, <3>3
  <2>4. IsFiniteSet(T) /\ Cardinality(T) = g[k]
    <3>1. s[k][1] \in Int /\ s[k][2] - 1 \in Int /\ ~(s[k][1] > s[k][2] - 1)
      BY <2>0
    <3>2. IsFiniteSet(T) /\ Cardinality(T) = (s[k][2] - 1) - s[k][1] + 1
      BY <3>1, FS_Interval
    <3> HIDE DEF T
    <3> QED
      BY <1>1, <2>0, <3>2
  <2>5. IsFiniteSet(C(k - 1))
    <3>1. IsFiniteSet(1..n) /\ C(k - 1) \subseteq 1..n
      BY FS_Interval DEF Covered
    <3> QED
      BY <3>1, FS_Subset
  <2> HIDE DEF T, C, Sum
  <2>6. Cardinality(C(k)) = Cardinality(C(k - 1)) + Cardinality(T)
    <3>1. Cardinality(C(k - 1)) \in Nat /\ Cardinality(T) \in Nat
      BY <2>4, <2>5, FS_CardinalityType
    <3>2. Cardinality(C(k)) = Cardinality(C(k - 1)) + Cardinality(T) - Cardinality({})
      BY <2>2, <2>3, <2>4, <2>5, FS_Union
    <3>3. Cardinality({}) = 0
      BY FS_EmptySet
    <3> QED
      BY <3>1, <3>2, <3>3
  <2>7. Cardinality(C(k - 1)) \in Nat /\ g[k] \in Nat
    BY <1>1, <2>5, FS_CardinalityType
  <2> QED
    BY <1>3, <2>1, <2>4, <2>6, <2>7
<1> HIDE DEF Sum, C
<1>4. ASSUME Bad # {} PROVE FALSE
  <2>1. PICK k \in Bad : \A j \in Bad : k <= j
    BY <1>0, <1>4, FirstPosition
  <2>2. k \in 1..N /\ Sum(k) # Cardinality(C(k))
    BY <2>1
  <2>3. CASE k = 1
    <3>1. k - 1 = 0
      BY <2>3
    <3> QED
      BY <1>2, <1>3, <2>2, <3>1
  <2>4. CASE k # 1
    <3>1. k - 1 \in 1..N /\ ~(k <= k - 1)
      BY <1>0, <2>2, <2>4
    <3>2. k - 1 \notin Bad
      BY <2>1, <3>1
    <3> QED
      BY <1>3, <2>2, <3>1, <3>2
  <2> QED
    BY <2>3, <2>4
<1>5. Sum(N) = Cardinality(C(N))
  <2>1. N = 0 \/ N \in 1..N
    BY <1>0
  <2> QED
    BY <1>2, <1>4, <2>1
<1> QED
  BY <1>5 DEF Sum, C, N

\* Lengths and gaps together reach from the first start to the last end.
LEMMA SpanAddsUp ==
    ASSUME NEW n \in Nat, NEW room \in Nat, NEW s, Apart(s, n, room), Len(s) > 0,
           NEW g, \A i \in 1..Len(s) : g[i] = Length(s[i]),
           NEW h, \A i \in 1..(Len(s) - 1) : h[i] = s[i + 1][1] - s[i][2]
    PROVE  SumFunctionOnSet(g, 1..Len(s)) + SumFunctionOnSet(h, 1..(Len(s) - 1))
              = s[Len(s)][2] - s[1][1]
<1> DEFINE N == Len(s)
           G(k) == SumFunctionOnSet(g, 1..k)
           H(k) == SumFunctionOnSet(h, 1..(k - 1))
           Bad == {k \in 1..N : G(k) + H(k) # s[k][2] - s[1][1]}
<1>0. /\ N \in Nat /\ N > 0
      /\ \A i \in 1..N : s[i][1] \in Int /\ s[i][2] \in Int /\ s[i][1] < s[i][2]
      /\ \A i, j \in 1..N : i < j => s[i][2] + room <= s[j][1]
  BY IntervalOrder
<1>1. \A i \in 1..N : g[i] = s[i][2] - s[i][1] /\ g[i] \in Nat
  <2> TAKE i \in 1..N
  <2>1. g[i] = s[i][2] - s[i][1]
    BY DEF Length
  <2> QED
    BY <1>0, <2>1
<1>2. \A i \in 1..(N - 1) : h[i] = s[i + 1][1] - s[i][2] /\ h[i] \in Nat
  <2> TAKE i \in 1..(N - 1)
  <2>1. i \in 1..N /\ i + 1 \in 1..N /\ i < i + 1
    BY <1>0
  <2>2. s[i][2] + room <= s[i + 1][1] /\ s[i][2] \in Int /\ s[i + 1][1] \in Int
    BY <1>0, <2>1
  <2>3. h[i] = s[i + 1][1] - s[i][2]
    OBVIOUS
  <2> QED
    BY <2>2, <2>3
<1> HIDE DEF N
<1>3. /\ G(0) = 0 /\ H(1) = 0
      /\ \A k \in 1..N : G(k) = g[k] + G(k - 1) /\ G(k) \in Nat /\ G(k - 1) \in Nat
      /\ \A k \in 2..N : H(k) = h[k - 1] + H(k - 1) /\ H(k - 1) \in Nat
  <2>1. 1..0 = {} /\ 1..(1 - 1) = {}
    OBVIOUS
  <2>2. ASSUME NEW k \in 1..N PROVE G(k) = g[k] + G(k - 1) /\ G(k) \in Nat /\ G(k - 1) \in Nat
    <3>1. k \in Nat \ {0} /\ \A i \in 1..k : g[i] \in Nat
      BY <1>0, <1>1
    <3> QED
      BY <3>1, SumUpTo
  <2>3. ASSUME NEW k \in 2..N PROVE H(k) = h[k - 1] + H(k - 1) /\ H(k - 1) \in Nat
    <3>1. k - 1 \in Nat \ {0} /\ \A i \in 1..(k - 1) : h[i] \in Nat
      BY <1>0, <1>2
    <3> QED
      BY <3>1, SumUpTo
  <2> QED
    BY <2>1, <2>2, <2>3, SumEmpty
<1> HIDE DEF G, H
<1>4. G(1) + H(1) = s[1][2] - s[1][1]
  <2>1. 1 \in 1..N /\ 1 - 1 = 0
    BY <1>0
  <2>2. G(1) = g[1] + G(0)
    BY <1>3, <2>1
  <2> QED
    BY <1>0, <1>1, <1>3, <2>1, <2>2
<1>5. ASSUME NEW k \in 2..N, G(k - 1) + H(k - 1) = s[k - 1][2] - s[1][1]
      PROVE  G(k) + H(k) = s[k][2] - s[1][1]
  <2>1. k \in 1..N /\ k - 1 \in 1..(N - 1) /\ k - 1 \in 1..N /\ (k - 1) + 1 = k /\ 1 \in 1..N
    BY <1>0
  <2>2. G(k) = (s[k][2] - s[k][1]) + G(k - 1) /\ G(k - 1) \in Nat
    BY <1>1, <1>3, <2>1
  <2>3. H(k) = (s[k][1] - s[k - 1][2]) + H(k - 1) /\ H(k - 1) \in Nat
    <3>1. h[k - 1] = s[k][1] - s[k - 1][2]
      BY <1>2, <2>1
    <3> QED
      BY <1>3, <3>1
  <2>4. {s[k][1], s[k][2], s[k - 1][2], s[1][1]} \subseteq Int
    BY <1>0, <2>1
  <2> DEFINE a == s[k][1]
             b == s[k][2]
             c == s[k - 1][2]
             d == s[1][1]
             x == G(k - 1)
             y == H(k - 1)
  <2>5. x + y = c - d /\ G(k) = (b - a) + x /\ H(k) = (a - c) + y
    BY <1>5, <2>2, <2>3
  <2>6. a \in Int /\ b \in Int /\ c \in Int /\ d \in Int /\ x \in Int /\ y \in Int
    BY <2>2, <2>3, <2>4
  <2>7. G(k) + H(k) = b - d
    <3> HIDE DEF a, b, c, d, x, y
    <3> QED
      BY <2>5, <2>6
  <2> QED
    BY <2>7
<1>6. ASSUME Bad # {} PROVE FALSE
  <2>1. PICK k \in Bad : \A j \in Bad : k <= j
    BY <1>0, <1>6, FirstPosition
  <2>2. k \in 1..N /\ G(k) + H(k) # s[k][2] - s[1][1]
    BY <2>1
  <2>3. k # 1
    BY <1>4, <2>2
  <2>4. k \in 2..N /\ k - 1 \in 1..N /\ ~(k <= k - 1)
    BY <1>0, <2>2, <2>3
  <2>5. k - 1 \notin Bad
    BY <2>1, <2>4
  <2> QED
    BY <1>5, <2>2, <2>4, <2>5
<1> QED
  <2>1. N \in 1..N
    BY <1>0
  <2>2. G(N) + H(N) = s[N][2] - s[1][1]
    BY <1>6, <2>1
  <2> QED
    BY <2>2 DEF G, H, N

\* The stretches of other frames between speech that are long enough for a pause.
Silences(speech, n) ==
    {s \in (1..n) \X (1..n) :
        /\ s[1] <= s[2] /\ s[2] - s[1] + 1 >= PauseFrames
        /\ (s[1] - 1) \in speech /\ (s[2] + 1) \in speech
        /\ \A k \in s[1]..s[2] : k \notin speech}

\* They are the long enough gaps between neighbours.
LEMMA SilencesAreGaps ==
    ASSUME NEW n \in Nat, NEW m, Apart(m, n, MinSilence), NEW speech, speech \subseteq 1..n,
           \A f \in 1..n : (\E i \in 1..Len(m) : Within(f, m[i])) <=> f \in speech
    PROVE  /\ \A i \in 1..(Len(m) - 1) :
                 m[i + 1][1] - m[i][2] >= PauseFrames =>
                    <<m[i][2], m[i + 1][1] - 1>> \in Silences(speech, n)
           /\ \A s \in Silences(speech, n) :
                 \E i \in 1..(Len(m) - 1) : /\ s = <<m[i][2], m[i + 1][1] - 1>>
                                            /\ m[i + 1][1] - m[i][2] >= PauseFrames
<1> DEFINE N == Len(m)
<1>0. /\ MinSilence \in Nat \ {0} /\ PauseFrames \in Nat \ {0} /\ N \in Nat
      /\ \A i \in 1..N : m[i][1] \in 1..n /\ m[i][2] \in 2..(n + 1) /\ m[i][1] < m[i][2]
      /\ \A i, j \in 1..N : i < j => m[i][2] + MinSilence <= m[j][1]
  BY FramesAssumption, IntervalOrder
<1> HIDE DEF N
<1>1. ASSUME NEW i \in 1..(N - 1), m[i + 1][1] - m[i][2] >= PauseFrames
      PROVE  <<m[i][2], m[i + 1][1] - 1>> \in Silences(speech, n)
  <2> DEFINE a == m[i][2]
             b == m[i + 1][1]
  <2>1. i \in 1..N /\ i + 1 \in 1..N
    BY <1>0
  <2>2. /\ m[i][1] \in 1..n /\ a \in 2..(n + 1) /\ m[i][1] < a
        /\ b \in 1..n /\ m[i + 1][2] \in 2..(n + 1) /\ b < m[i + 1][2]
    BY <1>0, <2>1
  <2>3. b - a >= PauseFrames
    BY <1>1
  <2>4. Within(a - 1, m[i]) /\ Within(b, m[i + 1])
    <3> HIDE DEF b
    <3>1. m[i][1] <= a - 1 /\ a - 1 < a
      BY <2>2
    <3>2. Within(a - 1, m[i])
      BY <3>1 DEF Within
    <3>3. b <= b /\ b < m[i + 1][2]
      BY <2>2
    <3> QED
      BY <3>2, <3>3 DEF Within, b
  <2>5. \A k \in a..(b - 1) : k \notin speech
    <3> TAKE k \in a..(b - 1)
    <3>1. k \in Int /\ a <= k /\ k < b
      BY <2>2
    <3>2. \A j \in 1..N : ~Within(k, m[j])
      BY <1>0, <3>1, Neighbours DEF N
    <3> QED
      BY <3>2 DEF N
  <2> HIDE DEF a, b
  <2>6. /\ a \in 1..n /\ b - 1 \in 1..n /\ a - 1 \in 1..n /\ (b - 1) + 1 = b
        /\ a <= b - 1 /\ (b - 1) - a + 1 >= PauseFrames
    BY <1>0, <2>2, <2>3
  <2>7. a - 1 \in speech /\ b \in speech
    BY <2>1, <2>2, <2>4, <2>6 DEF N
  <2> DEFINE s == <<a, b - 1>>
  <2>8. s[1] = a /\ s[2] = b - 1 /\ s \in (1..n) \X (1..n)
    BY <2>6
  <2> HIDE DEF s
  <2>9. s \in Silences(speech, n)
    BY <2>5, <2>6, <2>7, <2>8 DEF Silences
  <2> QED
    BY <2>9 DEF s, a, b
<1>2. ASSUME NEW s \in Silences(speech, n)
      PROVE  \E i \in 1..(N - 1) : /\ s = <<m[i][2], m[i + 1][1] - 1>>
                                   /\ m[i + 1][1] - m[i][2] >= PauseFrames
  <2> DEFINE p == s[1]
             q == s[2]
  <2>1. /\ s = <<p, q>> /\ p \in 1..n /\ q \in 1..n /\ p <= q /\ q - p + 1 >= PauseFrames
        /\ p - 1 \in speech /\ q + 1 \in speech
        /\ \A k \in p..q : k \notin speech
    BY DEF Silences
  <2> HIDE DEF p, q
  <2>2. p - 1 \in 1..n /\ q + 1 \in 1..n
    BY <2>1
  <2>3. PICK i \in 1..N : Within(p - 1, m[i])
    BY <2>1, <2>2 DEF N
  <2>4. PICK j \in 1..N : Within(q + 1, m[j])
    BY <2>1, <2>2 DEF N
  <2>5. p \notin speech /\ q \notin speech
    <3>1. p \in p..q /\ q \in p..q
      BY <2>1
    <3> QED
      BY <2>1, <3>1
  <2>6. ~Within(p, m[i]) /\ ~Within(q, m[j])
    BY <2>1, <2>5 DEF N
  <2>7. m[i][1] \in Int /\ m[i][2] \in Int /\ m[j][1] \in Int /\ m[j][2] \in Int
    BY <1>0
  <2>8. m[i][1] <= p - 1 /\ p - 1 < m[i][2] /\ m[j][1] <= q + 1 /\ q + 1 < m[j][2]
    BY <2>3, <2>4 DEF Within
  <2>9. p = m[i][2] /\ q + 1 = m[j][1]
    <3>1. ~(m[i][1] <= p /\ p < m[i][2]) /\ ~(m[j][1] <= q /\ q < m[j][2])
      BY <2>6 DEF Within
    <3>2. p \in Int /\ q \in Int /\ p - 1 \in Int /\ q + 1 \in Int
      BY <2>1
    <3>3. p = m[i][2]
      <4> DEFINE x == m[i][1]
                 y == m[i][2]
      <4>1. x \in Int /\ y \in Int /\ x <= p - 1 /\ p - 1 < y /\ ~(x <= p /\ p < y)
        BY <2>7, <2>8, <3>1
      <4> HIDE DEF x, y
      <4>2. p = y
        BY <3>2, <4>1
      <4> QED
        BY <4>2 DEF y
    <3>4. q + 1 = m[j][1]
      <4> DEFINE x == m[j][1]
                 y == m[j][2]
      <4>1. x \in Int /\ y \in Int /\ x <= q + 1 /\ q + 1 < y /\ ~(x <= q /\ q < y)
        BY <2>7, <2>8, <3>1
      <4> HIDE DEF x, y
      <4>2. q + 1 = x
        BY <3>2, <4>1
      <4> QED
        BY <4>2 DEF x
    <3> QED
      BY <3>3, <3>4
  <2>10. \A k \in m[i][2]..(m[j][1] - 1) : \A l \in 1..N : ~Within(k, m[l])
    <3> TAKE k \in m[i][2]..(m[j][1] - 1)
    <3>1. k \in p..q /\ k \in 1..n
      BY <2>1, <2>7, <2>9
    <3> QED
      BY <2>1, <3>1 DEF N
  <2>11. j = i + 1
    <3>1. m[i][2] <= m[j][1]
      BY <2>1, <2>7, <2>9
    <3> QED
      BY <1>0, <2>10, <3>1, NextInterval DEF N
  <2>12. i \in 1..(N - 1) /\ q = m[j][1] - 1 /\ m[j][1] - m[i][2] >= PauseFrames
    <3>1. i \in 1..(N - 1)
      BY <1>0, <2>11
    <3>2. p \in Int /\ q \in Int
      BY <2>1
    <3>3. (q + 1) - p >= PauseFrames /\ q = (q + 1) - 1
      BY <1>0, <2>1, <3>2
    <3> QED
      BY <2>9, <3>1, <3>3
  <2> QED
    BY <2>1, <2>9, <2>11, <2>12
<1> QED
  BY <1>1, <1>2 DEF N

\* The stretches from one interval to the next.
Stretches(m, P) == {<<m[i][2], m[i + 1][1] - 1>> : i \in P}

\* Some of the gaps of m.
GapsIn(P, m) == P \subseteq 1..(Len(m) - 1)

\* There is one for each of the gaps.
LEMMA GapsCounted ==
    ASSUME NEW n \in Nat, NEW room \in Nat, NEW m, Apart(m, n, room),
           NEW P, GapsIn(P, m)
    PROVE  Cardinality(Stretches(m, P)) = Cardinality(P)
<1> DEFINE T == {<<m[i][2], m[i + 1][1] - 1>> : i \in P}
           f == [i \in P |-> <<m[i][2], m[i + 1][1] - 1>>]
           N == Len(m)
<1>0. /\ N \in Nat /\ P \subseteq 1..(N - 1)
      /\ \A i \in 1..N : m[i][1] \in 1..n /\ m[i][2] \in 2..(n + 1) /\ m[i][1] < m[i][2]
      /\ \A i, j \in 1..N : i < j => m[i][2] + room <= m[j][1]
  BY IntervalOrder DEF GapsIn
<1>1. IsFiniteSet(P)
  <2>1. N - 1 \in Int /\ 1 \in Int
    BY <1>0
  <2>2. IsFiniteSet(1..(N - 1))
    BY <2>1, FS_Interval
  <2> QED
    BY <1>0, <2>2, FS_Subset
<1> HIDE DEF N
<1>2. \A i, j \in P : i < j => m[i][2] < m[j][2]
  <2> TAKE i, j \in P
  <2>1. i \in 1..N /\ j \in 1..N
    BY <1>0 DEF N
  <2>2. m[i][2] \in Int /\ m[j][1] \in Int /\ m[j][2] \in Int /\ m[j][1] < m[j][2]
    BY <1>0, <2>1
  <2>3. i < j => m[i][2] + room <= m[j][1]
    BY <1>0, <2>1
  <2> QED
    BY <2>2, <2>3
<1>3. \A i, j \in P : f[i] = f[j] => i = j
  <2> TAKE i, j \in P
  <2>1. f[i] = f[j] => m[i][2] = m[j][2]
    OBVIOUS
  <2>2. i \in Int /\ j \in Int /\ i \in 1..N /\ j \in 1..N
    BY <1>0 DEF N
  <2>3. m[i][2] \in Int /\ m[j][2] \in Int
    BY <1>0, <2>2
  <2> HIDE DEF f
  <2> QED
    BY <1>2, <2>1, <2>2, <2>3
<1>4. f \in [P -> T] /\ \A t \in T : \E i \in P : f[i] = t
  OBVIOUS
<1> HIDE DEF f, T
<1>5. f \in Bijection(P, T)
  BY <1>3, <1>4 DEF Bijection, Injection, Surjection, IsInjective
<1>6. ExistsBijection(P, T)
  BY <1>5 DEF ExistsBijection
<1> QED
  BY <1>1, <1>6, FS_Bijection DEF T, Stretches

\* The frames of the intervals, and the silences that count as long.
Shown(m) == UNION {m[i][1]..(m[i][2] - 1) : i \in DOMAIN m}
LongOnes(silence) == {s \in silence : s[2] - s[1] + 1 >= LongFrames}

\* What the metrics of a recording say is true of its frames.
LEMMA MetricsAreTrue ==
    ASSUME NEW frames \in Seq(BOOLEAN), NEW metrics, metrics = Metrics(frames)
    PROVE  LET n == Len(frames)
               speech == Solid(frames) \cup Bridged(frames)
               silence == Silences(speech, n)
           IN /\ Shown(metrics.intervals) = speech
              /\ metrics.active = Cardinality(speech)
              /\ metrics.pauses = Cardinality(silence)
              /\ metrics.long = Cardinality(LongOnes(silence))
              /\ metrics.active + metrics.paused <= metrics.span
<1> DEFINE n == Len(frames)
           speech == Solid(frames) \cup Bridged(frames)
           m == Merged(SpeechRuns(frames))
           N == Len(m)
           g == [i \in DOMAIN m |-> Length(m[i])]
           h == Gaps(m)
           pauses == {i \in DOMAIN h : h[i] >= PauseFrames}
           long == {i \in pauses : h[i] >= LongFrames}
           shown == UNION {m[i][1]..(m[i][2] - 1) : i \in DOMAIN m}
           silence == Silences(speech, n)
           gap(i) == <<m[i][2], m[i + 1][1] - 1>>
<1>1. /\ metrics.intervals = m
      /\ metrics.span = IF m = <<>> THEN 0 ELSE Last(m)[2] - Head(m)[1]
      /\ metrics.active = SumFunctionOnSet(g, DOMAIN g)
      /\ metrics.pauses = Cardinality(pauses)
      /\ metrics.long = Cardinality(long)
      /\ metrics.paused = SumFunctionOnSet(h, pauses)
  BY DEF Metrics, SumOf
<1>2. n \in Nat /\ MinSilence \in Nat \ {0} /\ PauseFrames \in Nat \ {0} /\ LongFrames \in Nat \ {0}
  BY FramesAssumption
<1>3. /\ Apart(m, n, MinSilence)
      /\ \A f \in 1..n : (\E i \in 1..N : Within(f, m[i])) <=> f \in speech
  <2>1. Apart(SpeechRuns(frames), n, 1)
    BY RunsInOrder
  <2>2. \A f \in 1..n : f \in speech <=> Spoken(f, SpeechRuns(frames), Len(SpeechRuns(frames)))
    BY SpeechIsSpoken
  <2> HIDE DEF n, speech
  <2> QED
    BY <1>2, <2>1, <2>2, MergedRuns
<1>4. speech \subseteq 1..n
  BY DEF Solid, Bridged
<1>5. /\ N \in Nat /\ DOMAIN m = 1..N
      /\ \A i \in 1..N : m[i][1] \in 1..n /\ m[i][2] \in 2..(n + 1) /\ m[i][1] < m[i][2]
      /\ \A i, j \in 1..N : i < j => m[i][2] + MinSilence <= m[j][1]
  <2> HIDE DEF m, n
  <2> QED
    BY <1>2, <1>3, IntervalOrder
<1>6. /\ DOMAIN g = 1..N /\ \A i \in 1..N : g[i] = Length(m[i])
      /\ DOMAIN h = 1..(N - 1) /\ \A i \in 1..(N - 1) : h[i] = m[i + 1][1] - m[i][2]
  <2> HIDE DEF m
  <2> QED
    BY <1>5 DEF Gaps
<1> HIDE DEF m, g, h, n, speech, N
<1>7. shown = speech
  <2>1. ASSUME NEW f \in speech PROVE f \in shown
    <3>1. PICK i \in 1..N : Within(f, m[i])
      BY <1>3, <1>4
    <3>2. f \in m[i][1]..(m[i][2] - 1)
      BY <1>2, <1>4, <1>5, <3>1 DEF Within
    <3> QED
      BY <1>5, <3>2
  <2>2. ASSUME NEW i \in 1..N, NEW f \in m[i][1]..(m[i][2] - 1) PROVE f \in speech
    <3>1. f \in 1..n /\ Within(f, m[i])
      BY <1>2, <1>5 DEF Within
    <3> QED
      BY <1>3, <3>1
  <2>3. shown \subseteq speech
    BY <1>5, <2>2
  <2> HIDE DEF shown
  <2> QED
    BY <2>1, <2>3
<1>8. metrics.active = Cardinality(speech)
  <2>1. Covered(m, N, n) = speech
    BY <1>3, <1>4 DEF Covered
  <2>2. SumFunctionOnSet(g, 1..N) = Cardinality(Covered(m, N, n))
    BY <1>2, <1>3, <1>6, LengthsAddUp DEF N
  <2> QED
    BY <1>1, <1>6, <2>1, <2>2
<1>9. /\ \A i \in 1..(N - 1) : h[i] >= PauseFrames => gap(i) \in silence
      /\ \A s \in silence : \E i \in 1..(N - 1) : s = gap(i) /\ h[i] >= PauseFrames
  <2>1. /\ \A i \in 1..(N - 1) : m[i + 1][1] - m[i][2] >= PauseFrames => gap(i) \in silence
        /\ \A s \in silence :
              \E i \in 1..(N - 1) : s = gap(i) /\ m[i + 1][1] - m[i][2] >= PauseFrames
    BY <1>2, <1>3, <1>4, SilencesAreGaps DEF N
  <2> HIDE DEF gap, silence
  <2> QED
    BY <1>6, <2>1
<1>10. \A i \in 1..(N - 1) : gap(i)[2] - gap(i)[1] + 1 = h[i]
  <2> TAKE i \in 1..(N - 1)
  <2>1. i \in 1..N /\ i + 1 \in 1..N
    BY <1>5
  <2>2. m[i][2] \in Int /\ m[i + 1][1] \in Int
    BY <1>2, <1>5, <2>1
  <2>3. gap(i)[2] = m[i + 1][1] - 1 /\ gap(i)[1] = m[i][2]
    OBVIOUS
  <2>4. h[i] = m[i + 1][1] - m[i][2]
    BY <1>6
  <2> HIDE DEF gap
  <2> QED
    BY ONLY <2>2, <2>3, <2>4
<1>11. ASSUME NEW P, P \subseteq 1..(N - 1) PROVE Cardinality(Stretches(m, P)) = Cardinality(P)
  <2>1. GapsIn(P, m) /\ n \in Nat /\ MinSilence \in Nat /\ Apart(m, n, MinSilence)
    BY <1>2, <1>3, <1>11 DEF N, GapsIn
  <2> QED
    BY ONLY <2>1, GapsCounted
<1>12. \A P, x : x \in Stretches(m, P) <=> \E i \in P : x = gap(i)
  BY DEF Stretches
<1> HIDE DEF gap, silence
<1>13. silence = Stretches(m, pauses)
  <2>1. \A i : i \in pauses <=> i \in 1..(N - 1) /\ h[i] >= PauseFrames
    BY <1>6
  <2> HIDE DEF pauses
  <2>2. \A s : s \in silence <=> s \in Stretches(m, pauses)
    BY <1>9, <1>12, <2>1
  <2> QED
    BY <2>2
<1>14. LongOnes(silence) = Stretches(m, long)
  BY <1>6, <1>10, <1>13, <1>12 DEF LongOnes
<1>15. pauses \subseteq 1..(N - 1) /\ long \subseteq 1..(N - 1)
  BY <1>6
<1>16. metrics.active + metrics.paused <= metrics.span
  <2>1. \A i \in 1..(N - 1) : h[i] \in Nat
    <3> TAKE i \in 1..(N - 1)
    <3>1. i \in 1..N /\ i + 1 \in 1..N /\ i < i + 1
      BY <1>5
    <3>2. m[i][2] + MinSilence <= m[i + 1][1]
      BY ONLY <1>5, <3>1
    <3>3. m[i][2] \in Int /\ m[i + 1][1] \in Int
      BY ONLY <1>2, <1>5, <3>1
    <3> QED
      BY <1>2, <1>6, <3>2, <3>3
  <2>2. IsFiniteSet(1..(N - 1))
    <3>1. N - 1 \in Int /\ 1 \in Int
      BY <1>5
    <3> QED
      BY <3>1, FS_Interval
  <2>3. SumFunctionOnSet(h, pauses) <= SumFunctionOnSet(h, 1..(N - 1))
    <3>1. \A i \in pauses : h[i] \in Nat /\ h[i] <= h[i]
      BY <1>15, <2>1
    <3> HIDE DEF pauses
    <3> QED
      BY <1>15, <2>1, <2>2, <3>1, SumMonotone
  <2>4. SumFunctionOnSet(h, pauses) \in Nat /\ SumFunctionOnSet(h, 1..(N - 1)) \in Nat
    <3>1. IsFiniteSet(pauses)
      BY <1>15, <2>2, FS_Subset
    <3>2. \A i \in pauses : h[i] \in Nat
      BY <1>15, <2>1
    <3> HIDE DEF pauses
    <3> QED
      BY <2>1, <2>2, <3>1, <3>2, SumNat
  <2>5. SumFunctionOnSet(g, 1..N) \in Nat
    <3>1. \A i \in 1..N : g[i] \in Nat
      <4> TAKE i \in 1..N
      <4>1. g[i] = m[i][2] - m[i][1]
        BY <1>6 DEF Length
      <4> QED
        BY <1>2, <1>5, <4>1
    <3>2. IsFiniteSet(1..N)
      <4>1. N \in Int /\ 1 \in Int
        BY <1>5
      <4> QED
        BY <4>1, FS_Interval
    <3> QED
      BY <3>1, <3>2, SumNat
  <2>6. CASE N = 0
    <3>1. m = <<>>
      BY <1>3, <2>6 DEF Apart, N
    <3>2. 1..N = {} /\ pauses = {}
      BY <1>5, <1>15, <2>6
    <3> HIDE DEF pauses
    <3>3. SumFunctionOnSet(g, 1..N) = 0 /\ SumFunctionOnSet(h, pauses) = 0
      BY <3>2, SumEmpty
    <3> QED
      BY <1>1, <1>6, <3>1, <3>3
  <2>7. CASE N # 0
    <3>1. m # <<>> /\ N > 0 /\ Last(m) = m[N] /\ Head(m) = m[1]
      BY <1>5, <2>7 DEF Last, N
    <3>2. SumFunctionOnSet(g, 1..N) + SumFunctionOnSet(h, 1..(N - 1)) = m[N][2] - m[1][1]
      BY <1>2, <1>3, <1>6, <3>1, SpanAddsUp DEF N
    <3>3. metrics.active = SumFunctionOnSet(g, 1..N) /\ metrics.span = m[N][2] - m[1][1]
      BY <1>1, <1>6, <3>1
    <3> HIDE DEF pauses
    <3> QED
      BY <1>1, <2>3, <2>4, <2>5, <3>2, <3>3
  <2> QED
    BY <2>6, <2>7
<1>17. metrics.pauses = Cardinality(silence)
  <2> HIDE DEF pauses
  <2> QED
    BY <1>1, <1>11, <1>13, <1>15
<1>18. metrics.long = Cardinality(LongOnes(silence))
  <2> HIDE DEF long
  <2> QED
    BY <1>1, <1>11, <1>14, <1>15
<1> QED
  BY <1>1, <1>7, <1>8, <1>16, <1>17, <1>18 DEF silence, speech, n, Shown

\* An analysis is of the recording it was made for.
DeliveryInv ==
    tool = "delivery" =>
        /\ input \in Recordings
        /\ stage = "done" => result = Metrics(input)

\* It holds at the start and every step keeps it.
LEMMA DeliveryKept == Spec => []DeliveryInv
<1>1. Init => DeliveryInv
  BY DEF Init, DeliveryInv
<1>2. DeliveryInv /\ [Next]_vars => DeliveryInv'
  <2> SUFFICES ASSUME DeliveryInv, [Next]_vars, tool' = "delivery" PROVE DeliveryInv'
    BY DEF DeliveryInv
  <2>1. CASE AnalyzeDelivery
    <3>1. tool = "delivery" /\ input' = input /\ result' = Metrics(input)
      BY <2>1 DEF AnalyzeDelivery, Ends
    <3>2. result' = Metrics(input')
      BY <3>1
    <3> QED
      BY <3>1, <3>2 DEF DeliveryInv
  <2>2. CASE ProposeReview \/ ExpandCompact \/ DecideReviews \/ PlanBrief \/ RunPlan
    BY <2>2 DEF ProposeReview, ExpandCompact, DecideReviews, PlanBrief, RunPlan
  <2>3. CASE Finished \/ UNCHANGED vars
    <3>1. UNCHANGED <<tool, input, stage, result>>
      BY <2>3 DEF Finished, vars
    <3> QED
      BY <3>1 DEF DeliveryInv
  <2> QED
    BY <2>1, <2>2, <2>3 DEF Next
<1> QED
  BY <1>1, <1>2, PTL DEF Spec

\* The pauses the learner is shown are the silences of the recording: speech is
\* all of it that was spoken for long enough, with what shorter breaks join, and
\* speech and pauses take no longer than the response (analysis.rs,
\* build_delivery_metrics).
THEOREM PausesStaySilences == Spec => []PausesAreSilences
<1>1. DeliveryInv => PausesAreSilences
  <2> SUFFICES ASSUME DeliveryInv, tool = "delivery", stage = "done" PROVE PausesAreSilences
    BY DEF PausesAreSilences
  <2>1. input \in Seq(BOOLEAN) /\ result = Metrics(input)
    BY RecordingsAssumption DEF DeliveryInv
  <2>2. LET n == Len(input)
            speech == Solid(input) \cup Bridged(input)
            silence == Silences(speech, n)
        IN /\ Shown(result.intervals) = speech
           /\ result.active = Cardinality(speech)
           /\ result.pauses = Cardinality(silence)
           /\ result.long = Cardinality(LongOnes(silence))
           /\ result.active + result.paused <= result.span
    BY <2>1, MetricsAreTrue
  <2> QED
    BY <2>2 DEF PausesAreSilences, Solid, Bridged, Silences, Shown, LongOnes
<1> QED
  BY <1>1, DeliveryKept, PTL
=============================================================================

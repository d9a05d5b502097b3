---------------------------- MODULE ConceptGraph ----------------------------
(***************************************************************************)
(* The concept graph of the taxonomy as pure operators                     *)
(* (src/src/taxonomy.rs, src/src/db.rs upsert_concept_tx).                 *)
(*                                                                         *)
(* A concept is the place of its key in the byte order of all keys, so     *)
(* that CanonicalPair can compare two of them.  An edge is                 *)
(* [from, predicate, to].                                                  *)
(***************************************************************************)
EXTENDS Integers, Sequences, FiniteSets

CONSTANTS Concepts, None

ASSUME ConceptsAssumption == Concepts \subseteq Nat /\ IsFiniteSet(Concepts)

Directed == {"broader", "requires"}
Symmetric == {"contrasts_with", "related"}

Edge == [from : Concepts, predicate : Directed \cup Symmetric, to : Concepts]

(* A symmetric edge is stored once, from the lesser key to the greater.    *)
CanonicalPair(a, b) == IF a <= b THEN <<a, b>> ELSE <<b, a>>

Canonical(e) ==
    IF e.predicate \in Symmetric
    THEN LET pair == CanonicalPair(e.from, e.to)
         IN [from |-> pair[1], predicate |-> e.predicate, to |-> pair[2]]
    ELSE e

Follows(S, edges, predicate) ==
    \A e \in edges : e.predicate = predicate /\ e.from \in S => e.to \in S

(* The recursive query: the least set with the start that follows the      *)
(* edges of one predicate.                                                 *)
Reachable(edges, predicate, start) ==
    {c \in Concepts : \A S \in SUBSET Concepts :
                         start \in S /\ Follows(S, edges, predicate) => c \in S}

\* Mutant of MakesCycle: only a direct edge back is looked for.
MakesCycleDirect(edges, e) ==
    /\ e.predicate \in Directed
    /\ \/ e.from = e.to
       \/ [from |-> e.to, predicate |-> e.predicate, to |-> e.from] \in edges

MakesCycle(edges, e) ==
    /\ e.predicate \in Directed
    /\ e.from \in Reachable(edges, e.predicate, e.to)

(* The edges of one request are inserted one by one.                       *)
Inserted(edges, new, i) == edges \cup {Canonical(new[j]) : j \in 1..(i - 1)}

(* None when one of them is refused, and with it the whole request.        *)
InsertEdges(edges, new) ==
    IF \E i \in DOMAIN new : MakesCycle(Inserted(edges, new, i), Canonical(new[i]))
    THEN None ELSE Inserted(edges, new, Len(new) + 1)

Acyclic(edges) ==
    \A e \in edges : e.predicate \in Directed =>
        e.from \notin Reachable(edges, e.predicate, e.to)
=============================================================================

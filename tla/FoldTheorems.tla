----------------------------- MODULE FoldTheorems -----------------------------
(***************************************************************************)
(* Sums over finite sets (SumFunctionOnSet of the community module         *)
(* Functions), for the proofs about the byte caps and quotas of the media  *)
(* stores.  A sum is a fold, computed by a function that is defined by     *)
(* recursion over the subsets of a finite set; what holds of it is shown   *)
(* by looking at a smallest subset for which it would not.                 *)
(***************************************************************************)
EXTENDS FiniteSetsExt, FiniteSetTheorems, TLAPS

\* Induction over the subsets of a finite set: a set of them has a smallest one.
LEMMA SmallestSubset ==
    ASSUME NEW S, IsFiniteSet(S), NEW T, T \subseteq SUBSET S, T # {}
    PROVE  \E x \in T : \A y \in T : y \subseteq x => y = x
<1>1. IsWellFoundedOn(StrictSubsetOrdering(S), SUBSET S)
  BY FS_StrictSubsetOrderingWellFounded, FS_FiniteSubsetsOfFinite
<1>2. PICK x \in T : \A y \in T : ~(<<y, x>> \in StrictSubsetOrdering(S))
  BY <1>1, WFMin
<1>3. ASSUME NEW y \in T, y \subseteq x, y # x PROVE FALSE
  BY <1>2, <1>3 DEF StrictSubsetOrdering
<1> QED
  BY <1>2, <1>3

\* And a set of positions has a first one.
LEMMA FirstPosition ==
    ASSUME NEW n \in Nat, NEW T, T \subseteq 1..n, T # {}
    PROVE  \E i \in T : \A j \in T : i <= j
<1> DEFINE N == 1..n
           F == {1..i : i \in T}
<1>1. IsFiniteSet(N)
  BY FS_Interval
<1>2. F \subseteq SUBSET N /\ F # {}
  <2>1. \A i \in T : 1..i \subseteq N
    OBVIOUS
  <2> QED
    BY <2>1
<1> HIDE DEF N, F
<1>3. PICK X \in F : \A Y \in F : Y \subseteq X => Y = X
  BY ONLY <1>1, <1>2, SmallestSubset
<1> USE DEF N, F
<1>4. PICK i \in T : X = 1..i
  BY <1>3
<1>5. ASSUME NEW j \in T, j < i PROVE FALSE
  <2>1. 1..j \subseteq 1..i /\ i \in 1..i /\ i \notin 1..j
    BY <1>5
  <2> QED
    BY <1>3, <1>4, <2>1
<1> QED
  BY <1>5

-----------------------------------------------------------------------------
(* The table of partial sums that the fold computes.                       *)

Pick(s) == CHOOSE x \in s : TRUE
Rest(s) == s \ {Pick(s)}

LEMMA PickRest == ASSUME NEW s, s # {} PROVE Pick(s) \in s /\ Rest(s) \subseteq s /\ Rest(s) # s
BY DEF Pick, Rest

Table(h, g, S) == h = [s \in SUBSET S |-> IF s = {} THEN 0 ELSE g[Pick(s)] + h[Rest(s)]]

LEMMA TableEntries ==
    ASSUME NEW h, NEW g, NEW S, Table(h, g, S), NEW s \in SUBSET S
    PROVE  h[s] = IF s = {} THEN 0 ELSE g[Pick(s)] + h[Rest(s)]
BY DEF Table

\* Two tables agree on the entries that both have.
LEMMA TablesAgree ==
    ASSUME NEW S, IsFiniteSet(S), NEW g, NEW h1, NEW h2, NEW T1, NEW T2 \in SUBSET S,
           T1 \subseteq S, Table(h1, g, T1), Table(h2, g, T2), NEW s, s \subseteq T1, s \subseteq T2
    PROVE  h1[s] = h2[s]
<1> DEFINE Bad == {x \in SUBSET S : x \subseteq T1 /\ x \subseteq T2 /\ h1[x] # h2[x]}
<1> SUFFICES ASSUME Bad # {} PROVE FALSE
  OBVIOUS
<1>0. Bad \subseteq SUBSET S
  OBVIOUS
<1> HIDE DEF Bad
<1>1. PICK x \in Bad : \A y \in Bad : y \subseteq x => y = x
  BY <1>0, SmallestSubset
<1> USE DEF Bad
<1>2. x # {}
  BY <1>1, TableEntries
<1>3. Rest(x) \subseteq x /\ Rest(x) # x
  BY <1>2, PickRest
<1>4. h1[Rest(x)] = h2[Rest(x)]
  BY <1>1, <1>3
<1>5. h1[x] = g[Pick(x)] + h1[Rest(x)] /\ h2[x] = g[Pick(x)] + h2[Rest(x)]
  BY <1>2, TableEntries
<1> QED
  BY <1>4, <1>5
  
LEMMA TableExists ==
    ASSUME NEW S, IsFiniteSet(S), NEW g
    PROVE  \E h : Table(h, g, S)
<1> DEFINE Bad == {T \in SUBSET S : ~\E h : Table(h, g, T)}
<1> SUFFICES ASSUME Bad # {} PROVE FALSE
  OBVIOUS
<1>0. Bad \subseteq SUBSET S
  OBVIOUS
<1> HIDE DEF Bad
<1>1. PICK T \in Bad : \A U \in Bad : U \subseteq T => U = T
  BY <1>0, SmallestSubset
<1> USE DEF Bad
<1> DEFINE Of(U) == CHOOSE h : Table(h, g, U)
           h == [s \in SUBSET T |-> IF s = {} THEN 0 ELSE g[Pick(s)] + Of(Rest(s))[Rest(s)]]
<1>2. ASSUME NEW U \in SUBSET T, U # T PROVE Table(Of(U), g, U)
  <2>1. \E f : Table(f, g, U)
    BY <1>1, <1>2
  <2> QED
    BY <2>1
<1>3. ASSUME NEW s \in SUBSET T, s # {} PROVE h[Rest(s)] = Of(Rest(s))[Rest(s)]
  <2> DEFINE r == Rest(s)
  <2>1. r \in SUBSET T /\ r # T /\ r \in SUBSET r
    BY <1>3, PickRest
  <2>2. Table(Of(r), g, r)
    BY <1>2, <2>1
  <2>3. CASE r = {}
    BY <2>1, <2>2, <2>3, TableEntries
  <2>4. CASE r # {}
    <3>1. Rest(r) \subseteq r /\ Rest(r) # r
      BY <2>4, PickRest
    <3>2. Rest(r) \in SUBSET T /\ Rest(r) # T
      BY <2>1, <3>1
    <3>3. Table(Of(Rest(r)), g, Rest(r))
      BY <1>2, <3>2
    <3>4. Of(Rest(r))[Rest(r)] = Of(r)[Rest(r)]
      <4> HIDE DEF Of
      <4> QED
        BY <1>1, <2>1, <2>2, <3>1, <3>2, <3>3, TablesAgree
    <3>5. Of(r)[r] = g[Pick(r)] + Of(r)[Rest(r)]
      BY <2>1, <2>2, <2>4, TableEntries
    <3>6. h[r] = g[Pick(r)] + Of(Rest(r))[Rest(r)]
      BY <2>1, <2>4
    <3> QED
      BY <3>4, <3>5, <3>6
  <2> QED
    BY <2>3, <2>4
<1>4. Table(h, g, T)
  <2>1. \A s \in SUBSET T : h[s] = IF s = {} THEN 0 ELSE g[Pick(s)] + h[Rest(s)]
    <3> TAKE s \in SUBSET T
    <3>1. CASE s = {}
      BY <3>1
    <3>2. CASE s # {}
      <4>1. h[s] = g[Pick(s)] + Of(Rest(s))[Rest(s)]
        BY <3>2
      <4>2. h[Rest(s)] = Of(Rest(s))[Rest(s)]
        BY <1>3, <3>2
      <4> QED
        BY <3>2, <4>1, <4>2
    <3> QED
      BY <3>1, <3>2
  <2>2. h = [s \in SUBSET T |-> h[s]]
    OBVIOUS
  <2> HIDE DEF h
  <2>3. h = [s \in SUBSET T |-> IF s = {} THEN 0 ELSE g[Pick(s)] + h[Rest(s)]]
    BY <2>1, <2>2
  <2> QED
    BY <2>3 DEF Table
<1> QED
  BY <1>1, <1>4

-----------------------------------------------------------------------------
(* What a sum is.                                                          *)

LEMMA SumInTable ==
    ASSUME NEW S, IsFiniteSet(S), NEW g
    PROVE  \E h : Table(h, g, S) /\ SumFunctionOnSet(g, S) = h[S]
<1> DEFINE iter == CHOOSE h : h = [s \in SUBSET S |-> IF s = {} THEN 0 ELSE g[Pick(s)] + h[Rest(s)]]
<1>1. SumFunctionOnSet(g, S) = iter[S]
  BY DEF SumFunctionOnSet, FoldFunctionOnSet, MapThenFoldSet, Pick, Rest
<1>2. PICK h : Table(h, g, S)
  BY TableExists
<1>3. Table(iter, g, S)
  BY <1>2 DEF Table
<1> QED
  BY <1>1, <1>3

LEMMA SumEmpty == ASSUME NEW g, NEW S, S = {} PROVE SumFunctionOnSet(g, S) = 0
<1>1. IsFiniteSet(S) /\ S \in SUBSET S
  BY FS_EmptySet
<1>2. PICK h : Table(h, g, S) /\ SumFunctionOnSet(g, S) = h[S]
  BY <1>1, SumInTable
<1> QED
  BY <1>1, <1>2, TableEntries

LEMMA SumPick ==
    ASSUME NEW S, IsFiniteSet(S), NEW g, S # {}
    PROVE  SumFunctionOnSet(g, S) = g[Pick(S)] + SumFunctionOnSet(g, Rest(S))
<1>1. PICK h : Table(h, g, S) /\ SumFunctionOnSet(g, S) = h[S]
  BY SumInTable
<1>2. Rest(S) \subseteq S /\ IsFiniteSet(Rest(S))
  BY PickRest, FS_Subset
<1>3. PICK f : Table(f, g, Rest(S)) /\ SumFunctionOnSet(g, Rest(S)) = f[Rest(S)]
  BY <1>2, SumInTable
<1>4. h[Rest(S)] = f[Rest(S)]
  BY <1>1, <1>2, <1>3, TablesAgree
<1> QED
  BY <1>1, <1>3, <1>4, TableEntries

LEMMA SumNat ==
    ASSUME NEW S, IsFiniteSet(S), NEW g, \A x \in S : g[x] \in Nat
    PROVE  SumFunctionOnSet(g, S) \in Nat
<1> DEFINE Bad == {T \in SUBSET S : SumFunctionOnSet(g, T) \notin Nat}
<1> SUFFICES ASSUME Bad # {} PROVE FALSE
  OBVIOUS
<1>0. Bad \subseteq SUBSET S
  OBVIOUS
<1> HIDE DEF Bad
<1>1. PICK T \in Bad : \A U \in Bad : U \subseteq T => U = T
  BY <1>0, SmallestSubset
<1> USE DEF Bad
<1>2. T # {}
  BY <1>1, SumEmpty
<1>3. Pick(T) \in S /\ Rest(T) \in SUBSET S /\ Rest(T) \notin Bad
  BY <1>1, <1>2, PickRest
<1>4. SumFunctionOnSet(g, T) = g[Pick(T)] + SumFunctionOnSet(g, Rest(T))
  BY <1>2, SumPick, FS_Subset
<1> QED
  BY <1>3, <1>4

\* Whichever element is taken out.
LEMMA SumRemove ==
    ASSUME NEW S, IsFiniteSet(S), NEW g, \A x \in S : g[x] \in Nat, NEW e \in S
    PROVE  SumFunctionOnSet(g, S) = g[e] + SumFunctionOnSet(g, S \ {e})
<1> DEFINE Sum(T) == SumFunctionOnSet(g, T)
           Bad == {T \in SUBSET S : \E x \in T : Sum(T) # g[x] + Sum(T \ {x})}
<1> SUFFICES ASSUME Bad # {} PROVE FALSE
  OBVIOUS
<1>0. Bad \subseteq SUBSET S
  OBVIOUS
<1> HIDE DEF Bad
<1>1. PICK T \in Bad : \A U \in Bad : U \subseteq T => U = T
  BY <1>0, SmallestSubset
<1>2. PICK x \in T : Sum(T) # g[x] + Sum(T \ {x})
  BY <1>1 DEF Bad
<1> DEFINE p == Pick(T)
           both == (T \ {p}) \ {x}
<1>3. p \in T /\ IsFiniteSet(T) /\ T \subseteq S
  BY <1>1, <1>2, PickRest, FS_Subset DEF Bad
<1>4. Sum(T) = g[p] + Sum(T \ {p})
  BY <1>2, <1>3, SumPick DEF Rest
<1>5. p # x
  BY <1>2, <1>4
<1>6. Sum(T \ {p}) = g[x] + Sum(both)
  <2>1. T \ {p} \notin Bad /\ x \in T \ {p}
    BY <1>1, <1>3, <1>5
  <2> QED
    BY <1>3, <2>1 DEF Bad
<1>7. Sum(T \ {x}) = g[p] + Sum(both)
  <2>1. T \ {x} \notin Bad /\ p \in T \ {x} /\ (T \ {x}) \ {p} = both
    BY <1>1, <1>2, <1>3, <1>5
  <2> QED
    BY <1>3, <2>1 DEF Bad
<1>8. Sum(both) \in Nat /\ g[p] \in Nat /\ g[x] \in Nat
  <2>1. IsFiniteSet(both) /\ both \subseteq S
    BY <1>3, FS_Subset
  <2>2. \A y \in both : g[y] \in Nat
    BY <2>1
  <2> QED
    BY <1>2, <1>3, <2>1, <2>2, SumNat
<1> HIDE DEF Sum, p, both
<1> QED
  BY <1>2, <1>4, <1>6, <1>7, <1>8

\* A sum looks at its elements only.
LEMMA SumEqual ==
    ASSUME NEW S, IsFiniteSet(S), NEW f, NEW g, \A x \in S : f[x] = g[x]
    PROVE  SumFunctionOnSet(f, S) = SumFunctionOnSet(g, S)
<1> DEFINE Bad == {T \in SUBSET S : SumFunctionOnSet(f, T) # SumFunctionOnSet(g, T)}
<1> SUFFICES ASSUME Bad # {} PROVE FALSE
  OBVIOUS
<1>0. Bad \subseteq SUBSET S
  OBVIOUS
<1> HIDE DEF Bad
<1>1. PICK T \in Bad : \A U \in Bad : U \subseteq T => U = T
  BY <1>0, SmallestSubset
<1> USE DEF Bad
<1>2. T # {}
  BY <1>1, SumEmpty
<1>3. Pick(T) \in S /\ Rest(T) \in SUBSET S /\ Rest(T) \notin Bad
  BY <1>1, <1>2, PickRest
<1>4. /\ SumFunctionOnSet(f, T) = f[Pick(T)] + SumFunctionOnSet(f, Rest(T))
      /\ SumFunctionOnSet(g, T) = g[Pick(T)] + SumFunctionOnSet(g, Rest(T))
  BY <1>2, SumPick, FS_Subset
<1> QED
  BY <1>1, <1>3, <1>4

\* More elements, and larger ones, make a larger sum.
LEMMA SumMonotone ==
    ASSUME NEW S, IsFiniteSet(S), NEW f, NEW g, NEW T, T \subseteq S,
           \A x \in T : f[x] \in Nat /\ f[x] <= g[x], \A x \in S : g[x] \in Nat
    PROVE  SumFunctionOnSet(f, T) <= SumFunctionOnSet(g, S)
<1> DEFINE Bad == {U \in SUBSET S : ~(SumFunctionOnSet(f, U \cap T) <= SumFunctionOnSet(g, U))}
<1> SUFFICES Bad = {}
  <2>1. S \notin Bad /\ S \cap T = T
    OBVIOUS
  <2> QED
    BY <2>1
<1> SUFFICES ASSUME Bad # {} PROVE FALSE
  OBVIOUS
<1>0. Bad \subseteq SUBSET S
  OBVIOUS
<1> HIDE DEF Bad
<1>1. PICK U \in Bad : \A V \in Bad : V \subseteq U => V = U
  BY <1>0, SmallestSubset
<1> DEFINE p == Pick(U)
           V == U \ {p}
<1>2. U # {} /\ U \in SUBSET S
  <2>1. U \in SUBSET S /\ ~(SumFunctionOnSet(f, U \cap T) <= SumFunctionOnSet(g, U))
    BY <1>1 DEF Bad
  <2>2. ASSUME U = {} PROVE SumFunctionOnSet(f, U \cap T) = 0 /\ SumFunctionOnSet(g, U) = 0
    BY <2>2, SumEmpty
  <2> QED
    BY <2>1, <2>2
<1>3. p \in U /\ p \in S /\ V \in SUBSET S /\ V \notin Bad /\ IsFiniteSet(U) /\ IsFiniteSet(V)
  BY <1>1, <1>2, PickRest, FS_Subset
<1>4. SumFunctionOnSet(g, U) = g[p] + SumFunctionOnSet(g, V)
  BY <1>2, <1>3, SumPick DEF Rest
<1>5. SumFunctionOnSet(f, V \cap T) <= SumFunctionOnSet(g, V)
  BY <1>3 DEF Bad
<1>6. IsFiniteSet(U \cap T) /\ IsFiniteSet(V \cap T)
  BY <1>3, FS_Subset
<1>7. SumFunctionOnSet(f, V \cap T) \in Nat /\ SumFunctionOnSet(g, V) \in Nat /\ g[p] \in Nat
  <2>1. (\A x \in V \cap T : f[x] \in Nat) /\ (\A x \in V : g[x] \in Nat)
    BY <1>3
  <2> QED
    BY <1>3, <1>6, <2>1, SumNat
<1>8. CASE p \in T
  <2>1. p \in U \cap T /\ (U \cap T) \ {p} = V \cap T /\ \A x \in U \cap T : f[x] \in Nat
    BY <1>3, <1>8
  <2>2. SumFunctionOnSet(f, U \cap T) = f[p] + SumFunctionOnSet(f, V \cap T)
    BY <1>6, <2>1, SumRemove
  <2>3. f[p] \in Nat /\ f[p] <= g[p]
    BY <1>8
  <2>4. SumFunctionOnSet(f, U \cap T) <= SumFunctionOnSet(g, U)
    <3> HIDE DEF p, V
    <3> QED
      BY <1>4, <1>5, <1>7, <2>2, <2>3
  <2> QED
    BY <1>1, <2>4 DEF Bad
<1>9. CASE p \notin T
  <2>1. U \cap T = V \cap T
    BY <1>9
  <2>2. SumFunctionOnSet(f, U \cap T) <= SumFunctionOnSet(g, U)
    <3>1. SumFunctionOnSet(f, U \cap T) = SumFunctionOnSet(f, V \cap T)
      BY <2>1
    <3> HIDE DEF p, V
    <3> QED
      BY <1>4, <1>5, <1>7, <3>1
  <2> QED
    BY <1>1, <2>2 DEF Bad
<1> QED
  BY <1>8, <1>9

\* The sum of two functions, the part of a set as a sum over the whole, and the sum
\* of a constant.
LEMMA SumPlus ==
    ASSUME NEW S, IsFiniteSet(S), NEW f, NEW g, \A x \in S : f[x] \in Nat /\ g[x] \in Nat
    PROVE  SumFunctionOnSet([x \in S |-> f[x] + g[x]], S)
               = SumFunctionOnSet(f, S) + SumFunctionOnSet(g, S)
<1> DEFINE h == [x \in S |-> f[x] + g[x]]
           Bad == {U \in SUBSET S : SumFunctionOnSet(h, U)
                                        # SumFunctionOnSet(f, U) + SumFunctionOnSet(g, U)}
<1> SUFFICES ASSUME Bad # {} PROVE FALSE
  OBVIOUS
<1>0. Bad \subseteq SUBSET S
  OBVIOUS
<1> HIDE DEF Bad
<1>1. PICK U \in Bad : \A V \in Bad : V \subseteq U => V = U
  BY <1>0, SmallestSubset
<1> USE DEF Bad
<1>2. U \in SUBSET S /\ U # {}
  <2>1. CASE U = {}
    <3>1. /\ SumFunctionOnSet(h, U) = 0 /\ SumFunctionOnSet(f, U) = 0
          /\ SumFunctionOnSet(g, U) = 0
      BY <2>1, SumEmpty
    <3> HIDE DEF h
    <3> QED
      BY <1>1, <3>1
  <2> QED
    BY <2>1, <1>1
<1> DEFINE p == Pick(U)
           V == Rest(U)
<1>3. p \in S /\ V \in SUBSET S /\ V \notin Bad /\ IsFiniteSet(U) /\ IsFiniteSet(V)
  BY <1>1, <1>2, PickRest, FS_Subset
<1>4. h[p] = f[p] + g[p] /\ f[p] \in Nat /\ g[p] \in Nat
  BY <1>3
<1>5. /\ SumFunctionOnSet(f, V) \in Nat /\ SumFunctionOnSet(g, V) \in Nat
  <2>1. \A x \in V : f[x] \in Nat /\ g[x] \in Nat
    BY <1>3
  <2> QED
    BY <1>3, <2>1, SumNat
<1> HIDE DEF h
<1>6. /\ SumFunctionOnSet(h, U) = h[p] + SumFunctionOnSet(h, V)
      /\ SumFunctionOnSet(f, U) = f[p] + SumFunctionOnSet(f, V)
      /\ SumFunctionOnSet(g, U) = g[p] + SumFunctionOnSet(g, V)
  BY <1>2, <1>3, SumPick
<1>7. SumFunctionOnSet(h, V) = SumFunctionOnSet(f, V) + SumFunctionOnSet(g, V)
  BY <1>3
<1>8. SumFunctionOnSet(h, U) # SumFunctionOnSet(f, U) + SumFunctionOnSet(g, U)
  BY <1>1
<1> HIDE DEF p, V
<1> QED
  BY <1>4, <1>5, <1>6, <1>7, <1>8

LEMMA SumSupport ==
    ASSUME NEW S, IsFiniteSet(S), NEW T \in SUBSET S, NEW g, \A x \in T : g[x] \in Nat
    PROVE  SumFunctionOnSet([x \in S |-> IF x \in T THEN g[x] ELSE 0], S) = SumFunctionOnSet(g, T)
<1> DEFINE h == [x \in S |-> IF x \in T THEN g[x] ELSE 0]
<1>1. \A x \in S : h[x] \in Nat
  OBVIOUS
<1>2. IsFiniteSet(T)
  BY FS_Subset
<1>3. SumFunctionOnSet(h, T) = SumFunctionOnSet(g, T)
  <2>1. \A x \in T : h[x] = g[x]
    OBVIOUS
  <2> HIDE DEF h
  <2> QED
    BY <1>2, <2>1, SumEqual
<1> DEFINE Bad == {U \in SUBSET S : T \subseteq U /\ SumFunctionOnSet(h, U) # SumFunctionOnSet(h, T)}
<1> SUFFICES ASSUME Bad # {} PROVE FALSE
  BY <1>3
<1>4. Bad \subseteq SUBSET S
  OBVIOUS
<1> HIDE DEF Bad
<1>5. PICK U \in Bad : \A V \in Bad : V \subseteq U => V = U
  BY <1>4, SmallestSubset
<1> USE DEF Bad
<1>6. PICK x \in U : x \notin T
  <2>1. T \subseteq U /\ U # T
    <3> HIDE DEF h
    <3> QED
      BY <1>5
  <2> QED
    BY <2>1
<1>7. /\ x \in S /\ U \in SUBSET S /\ IsFiniteSet(U) /\ T \subseteq U \ {x}
      /\ U \ {x} \in SUBSET S /\ IsFiniteSet(U \ {x}) /\ U \ {x} \notin Bad
  BY <1>5, <1>6, FS_Subset
<1>8. h[x] = 0
  BY <1>6, <1>7
<1>9. SumFunctionOnSet(h, U) = h[x] + SumFunctionOnSet(h, U \ {x})
  <2>1. \A y \in U : h[y] \in Nat
    BY <1>1, <1>7
  <2> HIDE DEF h
  <2> QED
    BY <1>7, <2>1, SumRemove
<1>10. SumFunctionOnSet(h, U \ {x}) \in Nat
  <2>1. \A y \in U \ {x} : h[y] \in Nat
    BY <1>1, <1>7
  <2> HIDE DEF h
  <2> QED
    BY <1>7, <2>1, SumNat
<1>11. SumFunctionOnSet(h, U \ {x}) = SumFunctionOnSet(h, T) /\ SumFunctionOnSet(h, U) # SumFunctionOnSet(h, T)
  BY <1>5, <1>7
<1> HIDE DEF h
<1> QED
  BY <1>8, <1>9, <1>10, <1>11

LEMMA SumConstant ==
    ASSUME NEW S, IsFiniteSet(S), NEW c \in Nat
    PROVE  SumFunctionOnSet([x \in S |-> c], S) = c * Cardinality(S)
<1> DEFINE h == [x \in S |-> c]
           Bad == {U \in SUBSET S : SumFunctionOnSet(h, U) # c * Cardinality(U)}
<1> SUFFICES ASSUME Bad # {} PROVE FALSE
  OBVIOUS
<1>1. Bad \subseteq SUBSET S
  OBVIOUS
<1> HIDE DEF Bad
<1>2. PICK U \in Bad : \A V \in Bad : V \subseteq U => V = U
  BY <1>1, SmallestSubset
<1> USE DEF Bad
<1>3. U \in SUBSET S /\ U # {}
  <2>1. CASE U = {}
    <3>1. SumFunctionOnSet(h, U) = 0 /\ Cardinality(U) = 0
      BY <2>1, SumEmpty, FS_EmptySet
    <3> HIDE DEF h
    <3> QED
      BY <1>2, <3>1
  <2> QED
    BY <1>2, <2>1
<1> DEFINE p == Pick(U)
           V == Rest(U)
<1>4. p \in U /\ p \in S /\ V \in SUBSET S /\ V \notin Bad /\ IsFiniteSet(U) /\ IsFiniteSet(V)
  BY <1>2, <1>3, PickRest, FS_Subset
<1>5. h[p] = c
  BY <1>4
<1> HIDE DEF h
<1>6. SumFunctionOnSet(h, U) = h[p] + SumFunctionOnSet(h, V)
  BY <1>3, <1>4, SumPick
<1>7. Cardinality(V) = Cardinality(U) - 1 /\ Cardinality(U) \in Nat
  BY <1>4, FS_RemoveElement, FS_CardinalityType DEF Rest
<1>8. SumFunctionOnSet(h, V) = c * Cardinality(V) /\ SumFunctionOnSet(h, U) # c * Cardinality(U)
  BY <1>2, <1>4
<1>9. c * (Cardinality(U) - 1) = c * Cardinality(U) - c
  BY <1>7
<1>10. c * Cardinality(U) \in Nat
  BY <1>7
<1> HIDE DEF p, V
<1> QED
  BY <1>5, <1>6, <1>7, <1>8, <1>9, <1>10
=============================================================================

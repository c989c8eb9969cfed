----------------------------- MODULE SumTheorems -----------------------------
(* Sums over finite sets, as the community modules define them by recursion on *)
(* an element that CHOOSE picks. The induction runs over minimal               *)
(* counterexamples: a set of finite sets that is not empty has a member of     *)
(* which no proper subset belongs to it.                                       *)
EXTENDS Integers, FiniteSets, Functions, FiniteSetTheorems, WellFoundedInduction, TLAPS

\* The element the recursion takes first.
First(s) == CHOOSE x \in s : TRUE

\* The graph g is the recursion of the sum of f over the subsets of S.
Adds(g, f, S) ==
    g = [s \in SUBSET S |-> IF s = {} THEN 0 ELSE f[First(s)] + g[s \ {First(s)}]]

Adding(f, S) == CHOOSE g : Adds(g, f, S)

\* A set of subsets of a finite set has a minimal member, unless it is empty.
LEMMA MinimalSubset ==
    ASSUME NEW S, IsFiniteSet(S), NEW B \in SUBSET SUBSET S, B # {}
    PROVE  \E s \in B : \A t \in B : t \subseteq s => t = s
<1>1. IsWellFoundedOn(StrictSubsetOrdering(S), FiniteSubsetsOf(S))
    BY FS_StrictSubsetOrderingWellFounded
<1>2. B \subseteq FiniteSubsetsOf(S)
    BY FS_FiniteSubsetsOfFinite
<1>3. PICK s \in B : \A t \in B : ~(<<t, s>> \in StrictSubsetOrdering(S))
    BY <1>1, <1>2, WFMin
<1>4. ASSUME NEW t \in B, t \subseteq s
      PROVE  t = s
    <2>1. <<t, s>> \in (SUBSET S) \X (SUBSET S)
        OBVIOUS
    <2>2. <<t, s>> \notin StrictSubsetOrdering(S)
        BY <1>3
    <2> QED
        BY <1>4, <2>1, <2>2 DEF StrictSubsetOrdering
<1> QED
    BY <1>4

\* The community module's sum is the recursion's value at the whole set.
LEMMA SumIsAdding ==
    ASSUME NEW f, NEW S
    PROVE  SumFunctionOnSet(f, S) = Adding(f, S)[S]
    BY DEF SumFunctionOnSet, FoldFunctionOnSet, MapThenFoldSet, Adding, Adds, First

\* The first element of a non-empty set is one of its elements.
LEMMA FirstIn ==
    ASSUME NEW s, s # {}
    PROVE  First(s) \in s
    BY DEF First

\* Two graphs of the recursion agree wherever both are defined.
LEMMA AddsAgree ==
    ASSUME NEW f, NEW S, NEW T, IsFiniteSet(S), NEW g, NEW h, Adds(g, f, S), Adds(h, f, T)
    PROVE  \A s \in SUBSET (S \cap T) : g[s] = h[s]
<1> DEFINE B == {s \in SUBSET (S \cap T) : g[s] # h[s]}
<1>1. SUFFICES ASSUME B # {}
               PROVE  FALSE
    OBVIOUS
<1>2. PICK s \in B : \A t \in B : t \subseteq s => t = s
    <2>1. B \in SUBSET SUBSET S
        OBVIOUS
    <2> HIDE DEF B
    <2> QED
        BY <1>1, <2>1, MinimalSubset
<1> DEFINE t == s \ {First(s)}
<1>3. /\ g[s] = IF s = {} THEN 0 ELSE f[First(s)] + g[t]
      /\ h[s] = IF s = {} THEN 0 ELSE f[First(s)] + h[t]
    BY DEF Adds
<1>4. s # {} => t \subseteq s /\ t # s
    BY FirstIn
<1>5. s # {} => g[t] = h[t]
    BY <1>2, <1>4
<1> QED
    BY <1>3, <1>5

\* The recursion has a graph.
LEMMA AddsExists ==
    ASSUME NEW f, NEW S, IsFiniteSet(S)
    PROVE  Adds(Adding(f, S), f, S)
<1> DEFINE B == {T \in SUBSET S : ~Adds(Adding(f, T), f, T)}
<1>1. SUFFICES ASSUME B # {}
               PROVE  FALSE
    OBVIOUS
<1>2. PICK T \in B : \A U \in B : U \subseteq T => U = T
    <2>1. B \in SUBSET SUBSET S
        OBVIOUS
    <2> HIDE DEF B
    <2> QED
        BY <1>1, <2>1, MinimalSubset
<1>3. ASSUME NEW U \in SUBSET T, U # T
      PROVE  Adds(Adding(f, U), f, U)
    BY <1>2, <1>3
<1> DEFINE Rest(s) == s \ {First(s)}
           g == [s \in SUBSET T |->
                    IF s = {} THEN 0 ELSE f[First(s)] + Adding(f, Rest(s))[Rest(s)]]
<1>4. ASSUME NEW s \in SUBSET T, s # {}
      PROVE  g[Rest(s)] = Adding(f, Rest(s))[Rest(s)]
    <2> DEFINE u == Rest(s)
    <2>1. u \in SUBSET T /\ u # T
        BY <1>4, FirstIn
    <2>2. Adding(f, u)[u] = IF u = {} THEN 0 ELSE f[First(u)] + Adding(f, u)[Rest(u)]
        BY <2>1, <1>3 DEF Adds
    <2>3. g[u] = IF u = {} THEN 0 ELSE f[First(u)] + Adding(f, Rest(u))[Rest(u)]
        BY <2>1
    <2>4. u # {} => Adding(f, u)[Rest(u)] = Adding(f, Rest(u))[Rest(u)]
        <3>1. Rest(u) \in SUBSET T /\ (u # {} => Rest(u) # T)
            BY <2>1, FirstIn
        <3>2. IsFiniteSet(u)
            BY <2>1, FS_Subset
        <3>3. u # {} => Adds(Adding(f, u), f, u) /\ Adds(Adding(f, Rest(u)), f, Rest(u))
            BY <2>1, <3>1, <1>3
        <3>4. Rest(u) \in SUBSET (u \cap Rest(u))
            OBVIOUS
        <3> HIDE DEF u, Rest
        <3> QED
            BY <3>2, <3>3, <3>4, AddsAgree
    <2> QED
        BY <2>2, <2>3, <2>4
<1>5. g = [s \in SUBSET T |-> IF s = {} THEN 0 ELSE f[First(s)] + g[s \ {First(s)}]]
    <2>1. \A s \in SUBSET T : g[s] = IF s = {} THEN 0 ELSE f[First(s)] + g[Rest(s)]
        BY <1>4
    <2> QED
        BY <2>1
<1>6. Adds(g, f, T)
    BY <1>5 DEF Adds
<1>7. Adds(Adding(f, T), f, T)
    <2> HIDE DEF g
    <2> QED
        BY <1>6 DEF Adding
<1> QED
    BY <1>2, <1>7

-------------------------------------------------------------------------------
(* What a sum is, without the element that was chosen. *)

\* The sum over nothing is nothing.
THEOREM SumEmpty ==
    ASSUME NEW f
    PROVE  SumFunctionOnSet(f, {}) = 0
<1>1. Adds(Adding(f, {}), f, {})
    BY AddsExists, FS_EmptySet
<1> QED
    BY <1>1, SumIsAdding DEF Adds

\* The sum over a set is that of its first element and the rest.
LEMMA SumFirst ==
    ASSUME NEW f, NEW S, IsFiniteSet(S), S # {}
    PROVE  SumFunctionOnSet(f, S) = f[First(S)] + SumFunctionOnSet(f, S \ {First(S)})
<1>0. PICK T : T = S \ {First(S)}
    OBVIOUS
<1>1. IsFiniteSet(T) /\ T \in SUBSET (S \cap T)
    BY <1>0, FS_RemoveElement
<1>2. Adds(Adding(f, S), f, S) /\ Adds(Adding(f, T), f, T)
    BY <1>1, AddsExists
<1>3. Adding(f, S)[S] = f[First(S)] + Adding(f, S)[T]
    BY <1>0, <1>2 DEF Adds
<1>4. Adding(f, S)[T] = Adding(f, T)[T]
    <2>1. PICK g, h : g = Adding(f, S) /\ h = Adding(f, T)
        OBVIOUS
    <2>2. Adds(g, f, S) /\ Adds(h, f, T)
        BY <1>2, <2>1
    <2>3. \A s \in SUBSET (S \cap T) : g[s] = h[s]
        BY <2>2, AddsAgree
    <2> QED
        BY <1>1, <2>1, <2>3
<1> QED
    BY <1>0, <1>3, <1>4, SumIsAdding

\* A sum of naturals is a natural.
THEOREM SumNat ==
    ASSUME NEW f, NEW S, IsFiniteSet(S), \A x \in S : f[x] \in Nat
    PROVE  SumFunctionOnSet(f, S) \in Nat
<1> DEFINE B == {s \in SUBSET S : SumFunctionOnSet(f, s) \notin Nat}
<1>1. SUFFICES ASSUME B # {}
               PROVE  FALSE
    OBVIOUS
<1>2. PICK s \in B : \A t \in B : t \subseteq s => t = s
    <2>1. B \in SUBSET SUBSET S
        OBVIOUS
    <2> HIDE DEF B
    <2> QED
        BY <1>1, <2>1, MinimalSubset
<1>3. s # {} /\ IsFiniteSet(s)
    <2>1. IsFiniteSet(s)
        BY <1>2, FS_Subset
    <2>2. SumFunctionOnSet(f, {}) \in Nat
        BY SumEmpty
    <2> QED
        BY <1>2, <2>1, <2>2
<1>4. SumFunctionOnSet(f, s) = f[First(s)] + SumFunctionOnSet(f, s \ {First(s)})
    BY <1>3, SumFirst
<1>5. First(s) \in s
    BY <1>3, FirstIn
<1>6. SumFunctionOnSet(f, s \ {First(s)}) \in Nat
    BY <1>2, <1>5
<1> QED
    BY <1>2, <1>4, <1>5, <1>6

\* Any element may be taken first.
THEOREM SumRemove ==
    ASSUME NEW f, NEW S, IsFiniteSet(S), \A x \in S : f[x] \in Nat, NEW e \in S
    PROVE  SumFunctionOnSet(f, S) = f[e] + SumFunctionOnSet(f, S \ {e})
<1> DEFINE Out(s, x) == SumFunctionOnSet(f, s) = f[x] + SumFunctionOnSet(f, s \ {x})
           B == {s \in SUBSET S : \E x \in s : ~Out(s, x)}
<1>1. SUFFICES ASSUME B # {}
               PROVE  FALSE
    OBVIOUS
<1>2. PICK s \in B : \A t \in B : t \subseteq s => t = s
    <2>1. B \in SUBSET SUBSET S
        OBVIOUS
    <2> HIDE DEF B
    <2> QED
        BY <1>1, <2>1, MinimalSubset
<1>3. PICK x \in s : ~Out(s, x)
    BY <1>2
<1> DEFINE y == First(s)
<1>4. s \in SUBSET S /\ y \in s /\ IsFiniteSet(s)
    BY <1>2, FirstIn, FS_Subset
<1>5. Out(s, y)
    BY <1>4, SumFirst
<1>6. Out(s \ {y}, x)
    BY <1>2, <1>3, <1>4, <1>5
<1>7. Out(s \ {x}, y)
    BY <1>2, <1>3, <1>4, <1>5
<1>8. (s \ {x}) \ {y} = (s \ {y}) \ {x}
    OBVIOUS
<1>9. SumFunctionOnSet(f, (s \ {y}) \ {x}) \in Nat
    <2>1. IsFiniteSet((s \ {y}) \ {x})
        BY <1>4, FS_RemoveElement
    <2> QED
        BY <1>4, <2>1, SumNat
<1>10. f[x] \in Nat /\ f[y] \in Nat
    BY <1>3, <1>4
<1> DEFINE z == SumFunctionOnSet(f, (s \ {y}) \ {x})
<1>11. SumFunctionOnSet(f, s) = f[y] + (f[x] + z)
    BY <1>5, <1>6
<1>12. SumFunctionOnSet(f, s \ {x}) = f[y] + z
    BY <1>7, <1>8
<1>13. SumFunctionOnSet(f, s) = f[x] + SumFunctionOnSet(f, s \ {x})
    <2> HIDE DEF z, y
    <2> QED
        BY <1>9, <1>10, <1>11, <1>12 DEF z
<1> QED
    BY <1>3, <1>13

\* The sum over two sets that share nothing is that of their sums.
THEOREM SumUnion ==
    ASSUME NEW f, NEW S, NEW T, IsFiniteSet(S), IsFiniteSet(T), S \cap T = {},
           \A x \in S \cup T : f[x] \in Nat
    PROVE  SumFunctionOnSet(f, S \cup T) = SumFunctionOnSet(f, S) + SumFunctionOnSet(f, T)
<1> DEFINE Splits(s) == SumFunctionOnSet(f, s \cup T) =
                            SumFunctionOnSet(f, s) + SumFunctionOnSet(f, T)
           B == {s \in SUBSET S : ~Splits(s)}
<1>1. SUFFICES ASSUME B # {}
               PROVE  FALSE
    OBVIOUS
<1>2. PICK s \in B : \A t \in B : t \subseteq s => t = s
    <2>1. B \in SUBSET SUBSET S
        OBVIOUS
    <2> HIDE DEF B
    <2> QED
        BY <1>1, <2>1, MinimalSubset
<1>3. IsFiniteSet(s) /\ IsFiniteSet(s \cup T)
    BY FS_Subset, FS_Union
<1>4. SumFunctionOnSet(f, T) \in Nat
    BY SumNat
<1>5. s # {}
    <2>1. {} \cup T = T /\ SumFunctionOnSet(f, {}) = 0
        BY SumEmpty
    <2>2. Splits({})
        BY <1>4, <2>1
    <2> QED
        BY <1>2, <2>2
<1>6. PICK e \in s : TRUE
    BY <1>5
<1> DEFINE r == s \ {e}
<1>7. SumFunctionOnSet(f, s) = f[e] + SumFunctionOnSet(f, r)
    BY <1>3, SumRemove
<1>8. SumFunctionOnSet(f, s \cup T) = f[e] + SumFunctionOnSet(f, (s \cup T) \ {e})
    BY <1>3, SumRemove
<1>9. (s \cup T) \ {e} = r \cup T
    BY <1>2
<1>10. Splits(r)
    BY <1>2, <1>6
<1>11. SumFunctionOnSet(f, r) \in Nat /\ f[e] \in Nat
    BY <1>3, SumNat, FS_RemoveElement
<1> QED
    BY <1>2, <1>4, <1>7, <1>8, <1>9, <1>10, <1>11

\* Only the values at the elements of the set count.
THEOREM SumSame ==
    ASSUME NEW f, NEW g, NEW S, IsFiniteSet(S), \A x \in S : f[x] = g[x]
    PROVE  SumFunctionOnSet(f, S) = SumFunctionOnSet(g, S)
<1> DEFINE B == {s \in SUBSET S : SumFunctionOnSet(f, s) # SumFunctionOnSet(g, s)}
<1>1. SUFFICES ASSUME B # {}
               PROVE  FALSE
    OBVIOUS
<1>2. PICK s \in B : \A t \in B : t \subseteq s => t = s
    <2>1. B \in SUBSET SUBSET S
        OBVIOUS
    <2> HIDE DEF B
    <2> QED
        BY <1>1, <2>1, MinimalSubset
<1>3. s # {} /\ IsFiniteSet(s)
    <2>1. IsFiniteSet(s)
        BY <1>2, FS_Subset
    <2>2. SumFunctionOnSet(f, {}) = 0 /\ SumFunctionOnSet(g, {}) = 0
        BY SumEmpty
    <2> QED
        BY <1>2, <2>1, <2>2
<1>4. /\ SumFunctionOnSet(f, s) = f[First(s)] + SumFunctionOnSet(f, s \ {First(s)})
      /\ SumFunctionOnSet(g, s) = g[First(s)] + SumFunctionOnSet(g, s \ {First(s)})
    BY <1>3, SumFirst
<1>5. First(s) \in s
    BY <1>3, FirstIn
<1>6. SumFunctionOnSet(f, s \ {First(s)}) = SumFunctionOnSet(g, s \ {First(s)})
    BY <1>2, <1>5
<1> QED
    BY <1>2, <1>4, <1>5, <1>6

\* Greater values have a greater sum.
THEOREM SumMonotone ==
    ASSUME NEW f, NEW g, NEW S, IsFiniteSet(S),
           \A x \in S : f[x] \in Nat /\ g[x] \in Nat /\ f[x] <= g[x]
    PROVE  SumFunctionOnSet(f, S) <= SumFunctionOnSet(g, S)
<1> DEFINE B == {s \in SUBSET S : ~(SumFunctionOnSet(f, s) <= SumFunctionOnSet(g, s))}
<1>1. SUFFICES ASSUME B # {}
               PROVE  FALSE
    OBVIOUS
<1>2. PICK s \in B : \A t \in B : t \subseteq s => t = s
    <2>1. B \in SUBSET SUBSET S
        OBVIOUS
    <2> HIDE DEF B
    <2> QED
        BY <1>1, <2>1, MinimalSubset
<1>3. s # {} /\ IsFiniteSet(s)
    <2>1. IsFiniteSet(s)
        BY <1>2, FS_Subset
    <2>2. SumFunctionOnSet(f, {}) <= SumFunctionOnSet(g, {})
        BY SumEmpty
    <2> QED
        BY <1>2, <2>1, <2>2
<1> DEFINE e == First(s)
           r == s \ {e}
<1>4. /\ SumFunctionOnSet(f, s) = f[e] + SumFunctionOnSet(f, r)
      /\ SumFunctionOnSet(g, s) = g[e] + SumFunctionOnSet(g, r)
    BY <1>3, SumFirst
<1>5. e \in s /\ IsFiniteSet(r)
    BY <1>3, FirstIn, FS_RemoveElement
<1>6. SumFunctionOnSet(f, r) <= SumFunctionOnSet(g, r)
    BY <1>2, <1>5
<1>7. SumFunctionOnSet(f, r) \in Nat /\ SumFunctionOnSet(g, r) \in Nat
    BY <1>5, SumNat
<1>8. f[e] \in Nat /\ g[e] \in Nat /\ f[e] <= g[e]
    BY <1>5
<1> QED
    BY <1>2, <1>4, <1>6, <1>7, <1>8

=============================================================================

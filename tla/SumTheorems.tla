---------------------------- MODULE SumTheorems ----------------------------
(***************************************************************************)
(* Sums of a function over a finite set: the facts that the bounds of      *)
(* HostResources (CPU threads of owners) and ObserverJobs (turns of a tree *)
(* of jobs) need.  SumFunctionOnSet is a fold, that is a function          *)
(* defined by recursion over the subsets of a set.  Induction is           *)
(* replaced by the argument from a smallest counterexample, which is a set *)
(* and not a predicate.                                                    *)
(***************************************************************************)
EXTENDS Functions, Integers, FiniteSetTheorems, WellFoundedInduction, TLAPS

\* The element a fold takes next, and the equation of its recursion.
Pick(s) == CHOOSE x \in s : TRUE
Unfolded(f, S, g) ==
    g = [s \in SUBSET S |-> IF s = {} THEN 0 ELSE f[Pick(s)] + g[s \ {Pick(s)}]]

\* The sum is the value of that recursion at the whole set.
LEMMA SumIsUnfolded ==
    ASSUME NEW f, NEW S
    PROVE  SumFunctionOnSet(f, S) = (CHOOSE g : Unfolded(f, S, g))[S]
  BY DEF SumFunctionOnSet, FoldFunctionOnSet, MapThenFoldSet, Unfolded, Pick

\* What is taken next is an element.
LEMMA Picked == \A s : s # {} => Pick(s) \in s
  BY DEF Pick

\* A set of subsets of a finite set has a smallest element.
LEMMA SmallestSubset ==
    ASSUME NEW S, IsFiniteSet(S), NEW B \in SUBSET (SUBSET S), B # {}
    PROVE  \E T \in B : \A U \in B : U \subseteq T => U = T
<1>1. IsWellFoundedOn(StrictSubsetOrdering(S), SUBSET S)
  BY FS_StrictSubsetOrderingWellFounded, FS_FiniteSubsetsOfFinite
<1>2. PICK T \in B : \A U \in B : <<U, T>> \notin StrictSubsetOrdering(S)
  BY <1>1, WFMin
<1> QED
  BY <1>2 DEF StrictSubsetOrdering

\* Two unfoldings agree where both are defined.
LEMMA UnfoldedUnique ==
    ASSUME NEW f, NEW S, NEW T, NEW g, NEW h, IsFiniteSet(S), T \subseteq S,
           Unfolded(f, S, g), Unfolded(f, T, h)
    PROVE  \A s \in SUBSET T : g[s] = h[s]
<1> DEFINE B == {s \in SUBSET T : g[s] # h[s]}
<1>1. SUFFICES ASSUME B # {} PROVE FALSE
  OBVIOUS
<1>2. B \in SUBSET (SUBSET S)
  OBVIOUS
<1>3. PICK s \in B : \A u \in B : u \subseteq s => u = s
  <2> HIDE DEF B
  <2> QED
    BY <1>1, <1>2, SmallestSubset
<1>4. g[s] = IF s = {} THEN 0 ELSE f[Pick(s)] + g[s \ {Pick(s)}]
  BY DEF Unfolded
<1>5. h[s] = IF s = {} THEN 0 ELSE f[Pick(s)] + h[s \ {Pick(s)}]
  BY DEF Unfolded
<1>6. s # {} => g[s \ {Pick(s)}] = h[s \ {Pick(s)}]
  BY <1>3, Picked
<1> QED
  BY <1>4, <1>5, <1>6

\* A finite set can be summed.
LEMMA UnfoldedExists ==
    ASSUME NEW f, NEW S, IsFiniteSet(S)
    PROVE  \E g : Unfolded(f, S, g)
<1> DEFINE B == {T \in SUBSET S : ~ \E g : Unfolded(f, T, g)}
           G(u) == CHOOSE g : Unfolded(f, u, g)
<1>1. SUFFICES ASSUME B # {} PROVE FALSE
  OBVIOUS
<1>2. PICK T \in B : \A u \in B : u \subseteq T => u = T
  <2>1. B \in SUBSET (SUBSET S)
    OBVIOUS
  <2> HIDE DEF B
  <2> QED
    BY <1>1, <2>1, SmallestSubset
<1>3. \A u \in SUBSET T : u # T => Unfolded(f, u, G(u))
  BY <1>2
<1>4. \A u \in SUBSET S : IsFiniteSet(u)
  BY FS_Subset
<1> DEFINE h == [s \in SUBSET T |-> IF s = {} THEN 0
                                    ELSE f[Pick(s)] + G(s \ {Pick(s)})[s \ {Pick(s)}]]
<1> HIDE DEF G
<1>5. ASSUME NEW u \in SUBSET T, u # T PROVE h[u] = G(u)[u]
  <2>1. CASE u = {}
    BY <1>3, <1>5, <2>1 DEF Unfolded
  <2>2. CASE u # {}
    <3> DEFINE v == u \ {Pick(u)}
    <3>1. v \in SUBSET u /\ v # u /\ v # T
      BY <1>5, <2>2, Picked
    <3>2. Unfolded(f, u, G(u)) /\ Unfolded(f, v, G(v))
      BY <1>3, <1>5, <3>1
    <3>3. G(u)[v] = G(v)[v]
      BY <1>4, <3>1, <3>2, UnfoldedUnique
    <3>4. G(u)[u] = f[Pick(u)] + G(u)[v]
      BY <2>2, <3>2 DEF Unfolded
    <3> QED
      BY <2>2, <3>3, <3>4
  <2> QED
    BY <2>1, <2>2
<1>6. ASSUME NEW s \in SUBSET T
      PROVE  h[s] = IF s = {} THEN 0 ELSE f[Pick(s)] + h[s \ {Pick(s)}]
  <2>1. s # {} => h[s \ {Pick(s)}] = G(s \ {Pick(s)})[s \ {Pick(s)}]
    BY <1>5, Picked
  <2> QED
    BY <2>1
<1>7. Unfolded(f, T, h)
  <2> DEFINE k == [s \in SUBSET T |-> IF s = {} THEN 0 ELSE f[Pick(s)] + h[s \ {Pick(s)}]]
  <2>1. \A s \in SUBSET T : h[s] = k[s]
    BY <1>6
  <2>2. h = k
    <3> HIDE DEF G
    <3> QED BY <2>1
  <2> QED
    BY <2>2 DEF Unfolded
<1> QED
  BY <1>2, <1>7

\* The sum of a finite set, by its recursion.
LEMMA SumStep ==
    ASSUME NEW f, NEW S, IsFiniteSet(S)
    PROVE  SumFunctionOnSet(f, S) =
               IF S = {} THEN 0 ELSE f[Pick(S)] + SumFunctionOnSet(f, S \ {Pick(S)})
<1> DEFINE T == S \ {Pick(S)}
           g == CHOOSE x : Unfolded(f, S, x)
           h == CHOOSE x : Unfolded(f, T, x)
<1>1. IsFiniteSet(T)
  BY FS_Subset
<1>2. Unfolded(f, S, g) /\ Unfolded(f, T, h)
  BY <1>1, UnfoldedExists
<1>3. SumFunctionOnSet(f, S) = g[S] /\ SumFunctionOnSet(f, T) = h[T]
  BY SumIsUnfolded
<1> HIDE DEF g, h
<1>4. g[T] = h[T]
  BY <1>2, UnfoldedUnique
<1>5. g[S] = IF S = {} THEN 0 ELSE f[Pick(S)] + g[T]
  BY <1>2 DEF Unfolded
<1> QED
  BY <1>3, <1>4, <1>5

\* Nothing sums to zero.
LEMMA SumEmpty == \A f : SumFunctionOnSet(f, {}) = 0
  BY SumStep, FS_EmptySet

\* A sum of integers is an integer, a sum of naturals a natural.
LEMMA SumType ==
    ASSUME NEW f, NEW S, IsFiniteSet(S), NEW N \in {Nat, Int}, \A x \in S : f[x] \in N
    PROVE  SumFunctionOnSet(f, S) \in N
<1> DEFINE B == {T \in SUBSET S : SumFunctionOnSet(f, T) \notin N}
<1>1. SUFFICES ASSUME B # {} PROVE FALSE
  OBVIOUS
<1>2. PICK T \in B : \A u \in B : u \subseteq T => u = T
  <2>1. B \in SUBSET (SUBSET S)
    OBVIOUS
  <2> HIDE DEF B
  <2> QED
    BY <1>1, <2>1, SmallestSubset
<1>3. IsFiniteSet(T)
  BY FS_Subset
<1>4. CASE T = {}
  BY <1>2, <1>4, SumEmpty
<1>5. CASE T # {}
  <2>1. SumFunctionOnSet(f, T \ {Pick(T)}) \in N /\ Pick(T) \in T
    BY <1>2, <1>5, Picked
  <2>2. f[Pick(T)] + SumFunctionOnSet(f, T \ {Pick(T)}) \in N
    BY <2>1
  <2> QED
    BY <1>2, <1>3, <1>5, <2>2, SumStep
<1> QED
  BY <1>4, <1>5

\* Any element may be taken out first.
LEMMA SumRemove ==
    ASSUME NEW f, NEW S, IsFiniteSet(S), \A x \in S : f[x] \in Int, NEW x \in S
    PROVE  SumFunctionOnSet(f, S) = f[x] + SumFunctionOnSet(f, S \ {x})
<1> DEFINE Total(T) == SumFunctionOnSet(f, T)
           B == {T \in SUBSET S : \E y \in T : Total(T) # f[y] + Total(T \ {y})}
<1>0. \A T \in SUBSET S : IsFiniteSet(T) /\ Total(T) \in Int
  BY FS_Subset, SumType
<1>1. SUFFICES ASSUME B # {} PROVE FALSE
  OBVIOUS
<1>2. PICK T \in B : \A u \in B : u \subseteq T => u = T
  <2>1. B \in SUBSET (SUBSET S)
    OBVIOUS
  <2> HIDE DEF B
  <2> QED
    BY <1>1, <2>1, SmallestSubset
<1>3. PICK y \in T : Total(T) # f[y] + Total(T \ {y})
  OBVIOUS
<1> DEFINE p == Pick(T)
<1>4. p \in T /\ Total(T) = f[p] + Total(T \ {p})
  BY <1>0, <1>2, Picked, SumStep
<1>5. p # y
  BY <1>3, <1>4
<1>6. Total(T \ {p}) = f[y] + Total((T \ {p}) \ {y})
  BY <1>2, <1>4, <1>5
<1>7. Total(T \ {y}) = f[p] + Total((T \ {y}) \ {p})
  BY <1>2, <1>4, <1>5
<1>8. (T \ {p}) \ {y} = (T \ {y}) \ {p}
  OBVIOUS
<1>9. f[p] \in Int /\ f[y] \in Int /\ Total((T \ {p}) \ {y}) \in Int
  BY <1>0, <1>4
<1>10. f[p] + (f[y] + Total((T \ {p}) \ {y})) = f[y] + (f[p] + Total((T \ {p}) \ {y}))
  <2> HIDE DEF Total, p, B
  <2> QED
    BY <1>9
<1> QED
  <2> HIDE DEF Total, p, B
  <2> QED
    BY <1>3, <1>4, <1>6, <1>7, <1>8, <1>10

\* Functions that agree on a set have the same sum over it.
LEMMA SumAgrees ==
    ASSUME NEW f, NEW g, NEW S, IsFiniteSet(S), \A x \in S : f[x] = g[x]
    PROVE  SumFunctionOnSet(f, S) = SumFunctionOnSet(g, S)
<1> DEFINE B == {T \in SUBSET S : SumFunctionOnSet(f, T) # SumFunctionOnSet(g, T)}
<1>1. SUFFICES ASSUME B # {} PROVE FALSE
  OBVIOUS
<1>2. PICK T \in B : \A u \in B : u \subseteq T => u = T
  <2>1. B \in SUBSET (SUBSET S)
    OBVIOUS
  <2> HIDE DEF B
  <2> QED
    BY <1>1, <2>1, SmallestSubset
<1>3. IsFiniteSet(T)
  BY FS_Subset
<1>4. T # {}
  BY <1>2, SumEmpty
<1>5. /\ SumFunctionOnSet(f, T \ {Pick(T)}) = SumFunctionOnSet(g, T \ {Pick(T)})
      /\ f[Pick(T)] = g[Pick(T)]
  BY <1>2, <1>4, Picked
<1> QED
  BY <1>2, <1>3, <1>4, <1>5, SumStep

\* Sums of naturals grow with the set.
LEMMA SumMonotone ==
    ASSUME NEW f, NEW S, IsFiniteSet(S), \A x \in S : f[x] \in Nat, NEW T \in SUBSET S
    PROVE  SumFunctionOnSet(f, T) <= SumFunctionOnSet(f, S)
<1> DEFINE Total(u) == SumFunctionOnSet(f, u)
           B == {u \in SUBSET S : T \subseteq u /\ ~(Total(T) <= Total(u))}
<1>0. \A u \in SUBSET S : IsFiniteSet(u) /\ Total(u) \in Nat
  BY FS_Subset, SumType
<1>1. SUFFICES ASSUME B # {} PROVE FALSE
  OBVIOUS
<1>2. PICK u \in B : \A v \in B : v \subseteq u => v = u
  <2>1. B \in SUBSET (SUBSET S)
    OBVIOUS
  <2> HIDE DEF B
  <2> QED
    BY <1>1, <2>1, SmallestSubset
<1>3. PICK y \in u : y \notin T
  <2>1. u # T
    BY <1>0, <1>2
  <2> QED
    BY <1>2, <2>1
<1>4. Total(T) <= Total(u \ {y})
  BY <1>2, <1>3
<1>5. Total(u) = f[y] + Total(u \ {y})
  BY <1>0, <1>2, <1>3, SumRemove
<1>6. f[y] \in Nat /\ Total(u \ {y}) \in Nat /\ Total(T) \in Nat
  BY <1>0
<1>7. ~(Total(T) <= Total(u))
  BY <1>2
<1> QED
  <2> HIDE DEF Total
  <2> QED
    BY <1>4, <1>5, <1>6, <1>7

\* No summand exceeds the sum.
LEMMA SumBounds ==
    ASSUME NEW f, NEW S, IsFiniteSet(S), \A x \in S : f[x] \in Nat, NEW x \in S
    PROVE  f[x] <= SumFunctionOnSet(f, S)
<1> DEFINE all == SumFunctionOnSet(f, S)
           rest == SumFunctionOnSet(f, S \ {x})
<1>1. all = f[x] + rest
  BY SumRemove
<1>2. rest \in Nat /\ f[x] \in Nat
  BY FS_Subset, SumType
<1> HIDE DEF all, rest
<1> QED
  BY <1>1, <1>2 DEF all

\* One summand changes.
LEMMA SumUpdate ==
    ASSUME NEW f, NEW g, NEW S, IsFiniteSet(S), NEW x \in S,
           \A y \in S : f[y] \in Int /\ g[y] \in Int,
           \A y \in S \ {x} : g[y] = f[y]
    PROVE  SumFunctionOnSet(g, S) = SumFunctionOnSet(f, S) + g[x] - f[x]
<1> DEFINE before == SumFunctionOnSet(f, S)
           after == SumFunctionOnSet(g, S)
           rest == SumFunctionOnSet(f, S \ {x})
<1>1. IsFiniteSet(S \ {x})
  BY FS_Subset
<1>2. before = f[x] + rest
  BY SumRemove
<1>3. after = g[x] + SumFunctionOnSet(g, S \ {x})
  BY SumRemove
<1>4. SumFunctionOnSet(g, S \ {x}) = rest
  BY <1>1, SumAgrees
<1>5. rest \in Int /\ f[x] \in Int /\ g[x] \in Int
  BY <1>1, SumType
<1> HIDE DEF before, after, rest
<1>6. after = before + g[x] - f[x]
  BY <1>2, <1>3, <1>4, <1>5
<1> QED
  BY <1>6 DEF before, after

\* The summands of A are struck out.
LEMMA SumStruck ==
    ASSUME NEW f, NEW g, NEW S, IsFiniteSet(S), NEW A \in SUBSET S,
           \A y \in S : f[y] \in Int /\ g[y] = IF y \in A THEN 0 ELSE f[y]
    PROVE  SumFunctionOnSet(g, S) = SumFunctionOnSet(f, S) - SumFunctionOnSet(f, A)
<1> DEFINE F(u) == SumFunctionOnSet(f, u)
           G(u) == SumFunctionOnSet(g, u)
           B == {u \in SUBSET S : G(u) # F(u) - F(u \cap A)}
<1>0. \A u \in SUBSET S : IsFiniteSet(u) /\ F(u) \in Int /\ G(u) \in Int
  BY FS_Subset, SumType
<1>1. S \cap A = A
  OBVIOUS
<1>2. SUFFICES ASSUME B # {} PROVE FALSE
  BY <1>1
<1>3. PICK u \in B : \A v \in B : v \subseteq u => v = u
  <2>1. B \in SUBSET (SUBSET S)
    OBVIOUS
  <2> HIDE DEF B
  <2> QED
    BY <1>2, <2>1, SmallestSubset
<1>4. G(u) # F(u) - F(u \cap A)
  BY <1>3
<1>5. u # {}
  <2> SUFFICES ASSUME u = {} PROVE FALSE
    OBVIOUS
  <2>1. u \cap A = {}
    OBVIOUS
  <2>2. F(u) = 0 /\ G(u) = 0 /\ F(u \cap A) = 0
    BY <2>1, SumEmpty
  <2>3. G(u) = F(u) - F(u \cap A)
    <3> HIDE DEF F, G
    <3> QED
      BY <2>2
  <2> QED
    BY <1>4, <2>3
<1>6. PICK x : x \in u
  BY <1>5
<1> DEFINE v == u \ {x}
<1>7. G(v) = F(v) - F(v \cap A)
  BY <1>3, <1>6
<1>8. F(u) = f[x] + F(v) /\ G(u) = g[x] + G(v)
  <2>1. IsFiniteSet(u) /\ \A y \in u : f[y] \in Int /\ g[y] \in Int
    BY <1>0
  <2> QED
    BY <1>6, <2>1, SumRemove
<1>9. f[x] \in Int /\ F(v) \in Int /\ G(v) \in Int /\ F(v \cap A) \in Int
  BY <1>0, <1>3, <1>6
<1>10. CASE x \in A
  <2>1. (u \cap A) \ {x} = v \cap A /\ x \in u \cap A /\ u \cap A \in SUBSET S
    BY <1>6, <1>10
  <2>2. F(u \cap A) = f[x] + F(v \cap A)
    <3>1. IsFiniteSet(u \cap A) /\ \A y \in u \cap A : f[y] \in Int
      BY <1>0, <2>1
    <3>2. SumFunctionOnSet(f, u \cap A) = f[x] + SumFunctionOnSet(f, (u \cap A) \ {x})
      BY <2>1, <3>1, SumRemove
    <3> QED
      BY <2>1, <3>2
  <2>3. g[x] = 0
    BY <1>3, <1>6, <1>10
  <2>4. G(u) = F(u) - F(u \cap A)
    <3> HIDE DEF F, G, v
    <3> QED
      BY <1>7, <1>8, <1>9, <2>2, <2>3
  <2> QED
    BY <1>4, <2>4
<1>11. CASE x \notin A
  <2>1. u \cap A = v \cap A /\ g[x] = f[x]
    BY <1>3, <1>6, <1>11
  <2>2. F(u \cap A) = F(v \cap A)
    BY <2>1
  <2>3. G(u) = F(u) - F(u \cap A)
    <3> HIDE DEF F, G, v
    <3> QED
      BY <1>7, <1>8, <1>9, <2>1, <2>2
  <2> QED
    BY <1>4, <2>3
<1> QED
  BY <1>10, <1>11
=============================================================================

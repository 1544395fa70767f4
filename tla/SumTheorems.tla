---------------------------- MODULE SumTheorems ----------------------------
(***************************************************************************)
(* Facts about SumFunctionOnSet(f, S), the sum of f[x] over the elements   *)
(* of a finite set S: the amounts of the models are added up with it.  Its *)
(* definition takes the elements out of S one by one, as CHOOSE names      *)
(* them.  Each fact is proved from a least set it would fail for.          *)
(***************************************************************************)
EXTENDS Integers, FiniteSets, Functions, FiniteSetTheorems, WellFoundedInduction, TLAPS

\* A nonempty set of subsets of a finite set has a member none of whose proper subsets
\* is in it: what stands for an induction over the subsets.
LEMMA LeastSubset ==
  ASSUME NEW S, IsFiniteSet(S), NEW B, B \subseteq SUBSET S, B # {}
  PROVE  \E s \in B : \A t \in B : t \subseteq s => t = s
<1>1. PICK s \in B : \A t \in B : ~(<<t, s>> \in StrictSubsetOrdering(S))
  BY FS_StrictSubsetOrderingWellFounded, FS_FiniteSubsetsOfFinite, WFMin
<1> QED BY <1>1 DEF StrictSubsetOrdering

-----------------------------------------------------------------------------
(* The definition is a recursive function: there is one, and only one. *)

First(t) == CHOOSE x \in t : TRUE
Rest(t) == t \ {First(t)}

\* g gives the sums over the subsets of S.
SumsOf(S, f, g) ==
  g = [t \in SUBSET S |-> IF t = {} THEN 0 ELSE f[First(t)] + g[Rest(t)]]

LEMMA FirstRest ==
  ASSUME NEW t, t # {}
  PROVE  First(t) \in t /\ Rest(t) \subseteq t /\ Rest(t) # t
BY DEF First, Rest

LEMMA SumUnfolds ==
  ASSUME NEW f, NEW S
  PROVE  SumFunctionOnSet(f, S) = (CHOOSE g : SumsOf(S, f, g))[S]
BY DEF SumFunctionOnSet, FoldFunctionOnSet, MapThenFoldSet, SumsOf, First, Rest

LEMMA SumsOfAt ==
  ASSUME NEW S, NEW f, NEW g, SumsOf(S, f, g), NEW t \in SUBSET S
  PROVE  g[t] = IF t = {} THEN 0 ELSE f[First(t)] + g[Rest(t)]
BY DEF SumsOf

\* Two such functions agree where both are defined.
LEMMA SumsAgree ==
  ASSUME NEW S, IsFiniteSet(S), NEW f,
         NEW A \in SUBSET S, NEW g, SumsOf(A, f, g),
         NEW B \in SUBSET S, NEW h, SumsOf(B, f, h),
         NEW t, t \subseteq A, t \subseteq B
  PROVE  g[t] = h[t]
<1> DEFINE Bad == {u \in SUBSET S : u \subseteq A /\ u \subseteq B /\ g[u] # h[u]}
<1> SUFFICES ASSUME Bad # {} PROVE FALSE
  OBVIOUS
<1>1. PICK u \in Bad : \A v \in Bad : v \subseteq u => v = u
  <2>1. Bad \subseteq SUBSET S /\ Bad # {}
    OBVIOUS
  <2> HIDE DEF Bad
  <2> QED BY <2>1, LeastSubset
<1>2. u \in SUBSET A /\ u \in SUBSET B /\ g[u] # h[u]
  OBVIOUS
<1>3. g[u] = (IF u = {} THEN 0 ELSE f[First(u)] + g[Rest(u)])
  BY <1>2, SumsOfAt
<1>4. h[u] = (IF u = {} THEN 0 ELSE f[First(u)] + h[Rest(u)])
  BY <1>2, SumsOfAt
<1>5. u # {}
  BY <1>2, <1>3, <1>4
<1>6. Rest(u) \in SUBSET S /\ Rest(u) \subseteq u /\ Rest(u) # u
  BY <1>5, FirstRest
<1>7. g[Rest(u)] = h[Rest(u)]
  BY <1>1, <1>2, <1>6
<1> QED BY <1>2, <1>3, <1>4, <1>5, <1>7

\* There is one for every finite set.
LEMMA SumsExist ==
  ASSUME NEW S, IsFiniteSet(S), NEW f
  PROVE  \E g : SumsOf(S, f, g)
<1> DEFINE Bad == {u \in SUBSET S : ~ \E g : SumsOf(u, f, g)}
<1> SUFFICES ASSUME Bad # {} PROVE FALSE
  OBVIOUS
<1>1. PICK u \in Bad : \A v \in Bad : v \subseteq u => v = u
  <2>1. Bad \subseteq SUBSET S /\ Bad # {}
    OBVIOUS
  <2> HIDE DEF Bad
  <2> QED BY <2>1, LeastSubset
<1> DEFINE G(v) == CHOOSE g : SumsOf(v, f, g)
           h == [t \in SUBSET u |-> IF t = {} THEN 0 ELSE f[First(t)] + G(Rest(t))[Rest(t)]]
<1>2. ASSUME NEW v, v \subseteq u, v # u
      PROVE  SumsOf(v, f, G(v))
  <2>1. \E g : SumsOf(v, f, g)
    BY <1>1, <1>2
  <2> QED BY <2>1
<1>3. ASSUME NEW t \in SUBSET u, t # {}
      PROVE  G(Rest(t))[Rest(t)] = h[Rest(t)]
  <2> DEFINE r == Rest(t)
  <2>1. r \subseteq u /\ r # u /\ r \in SUBSET u
    BY <1>3, FirstRest
  <2>2. SumsOf(r, f, G(r))
    BY <1>2, <2>1
  <2>3. G(r)[r] = (IF r = {} THEN 0 ELSE f[First(r)] + G(r)[Rest(r)])
    BY <2>2, SumsOfAt
  <2>4. h[r] = (IF r = {} THEN 0 ELSE f[First(r)] + G(Rest(r))[Rest(r)])
    BY <2>1
  <2>5. CASE r = {}
    BY <2>3, <2>4, <2>5
  <2>6. CASE r # {}
    <3>1. Rest(r) \subseteq r /\ Rest(r) # r
      BY <2>6, FirstRest
    <3>2. SumsOf(Rest(r), f, G(Rest(r)))
      BY <1>2, <2>1, <3>1
    <3>3. G(r)[Rest(r)] = G(Rest(r))[Rest(r)]
      <4>1. r \in SUBSET S /\ Rest(r) \in SUBSET S
        BY <2>1, <3>1
      <4> HIDE DEF r, G
      <4> QED BY <2>2, <3>1, <3>2, <4>1, SumsAgree
    <3> QED BY <2>3, <2>4, <2>6, <3>3
  <2> QED BY <2>5, <2>6
<1>4. h = [t \in SUBSET u |-> IF t = {} THEN 0 ELSE f[First(t)] + h[Rest(t)]]
  <2> DEFINE k == [t \in SUBSET u |-> IF t = {} THEN 0 ELSE f[First(t)] + h[Rest(t)]]
  <2>1. ASSUME NEW t \in SUBSET u
        PROVE  h[t] = k[t]
    <3>1. h[t] = (IF t = {} THEN 0 ELSE f[First(t)] + G(Rest(t))[Rest(t)])
      OBVIOUS
    <3>2. k[t] = (IF t = {} THEN 0 ELSE f[First(t)] + h[Rest(t)])
      OBVIOUS
    <3> HIDE DEF h, k, G
    <3> QED BY <1>3, <3>1, <3>2
  <2> QED BY <2>1
<1>5. SumsOf(u, f, h)
  BY <1>4 DEF SumsOf
<1> QED BY <1>1, <1>5

-----------------------------------------------------------------------------
(* What the models' proofs use *)

\* The sum over no element.
LEMMA SumEmpty ==
  ASSUME NEW f
  PROVE  SumFunctionOnSet(f, {}) = 0
<1>1. SumsOf({}, f, CHOOSE g : SumsOf({}, f, g))
  BY SumsExist, FS_EmptySet
<1> QED BY <1>1, SumsOfAt, SumUnfolds

LEMMA SumFirst ==
  ASSUME NEW f, NEW S, IsFiniteSet(S), S # {}
  PROVE  SumFunctionOnSet(f, S) = f[First(S)] + SumFunctionOnSet(f, Rest(S))
<1> DEFINE G(v) == CHOOSE g : SumsOf(v, f, g)
<1>1. Rest(S) \in SUBSET S /\ S \in SUBSET S /\ IsFiniteSet(Rest(S))
  BY FirstRest, FS_Subset
<1>2. SumsOf(S, f, G(S)) /\ SumsOf(Rest(S), f, G(Rest(S)))
  BY <1>1, SumsExist
<1>3. SumFunctionOnSet(f, S) = G(S)[S] /\ SumFunctionOnSet(f, Rest(S)) = G(Rest(S))[Rest(S)]
  BY SumUnfolds
<1> HIDE DEF G
<1>4. G(S)[Rest(S)] = G(Rest(S))[Rest(S)]
  BY <1>1, <1>2, SumsAgree
<1>5. G(S)[S] = f[First(S)] + G(S)[Rest(S)]
  BY <1>1, <1>2, SumsOfAt
<1> QED BY <1>3, <1>4, <1>5

\* Functions that agree on a set have the same sum over it.
LEMMA SumSame ==
  ASSUME NEW S, IsFiniteSet(S), NEW f, NEW g, \A x \in S : f[x] = g[x]
  PROVE  SumFunctionOnSet(f, S) = SumFunctionOnSet(g, S)
<1> DEFINE Bad == {T \in SUBSET S : SumFunctionOnSet(f, T) # SumFunctionOnSet(g, T)}
<1> SUFFICES ASSUME Bad # {} PROVE FALSE
  OBVIOUS
<1>1. PICK T \in Bad : \A U \in Bad : U \subseteq T => U = T
  <2>1. Bad \subseteq SUBSET S /\ Bad # {}
    OBVIOUS
  <2> HIDE DEF Bad
  <2> QED BY <2>1, LeastSubset
<1>2. T # {}
  BY SumEmpty
<1>3. First(T) \in S /\ Rest(T) \in SUBSET S /\ Rest(T) \subseteq T /\ Rest(T) # T
  BY <1>2, FirstRest
<1>4. SumFunctionOnSet(f, Rest(T)) = SumFunctionOnSet(g, Rest(T))
  BY <1>1, <1>3
<1>5. f[First(T)] = g[First(T)]
  BY <1>3
<1>6. IsFiniteSet(T)
  BY FS_Subset
<1> HIDE DEF Bad
<1>7. SumFunctionOnSet(f, T) = SumFunctionOnSet(g, T)
  BY <1>2, <1>4, <1>5, <1>6, SumFirst
<1> QED BY <1>7 DEF Bad

\* Nothing adds up to nothing.
LEMMA SumZero ==
  ASSUME NEW S, IsFiniteSet(S), NEW f, \A x \in S : f[x] = 0
  PROVE  SumFunctionOnSet(f, S) = 0
<1> DEFINE Bad == {T \in SUBSET S : SumFunctionOnSet(f, T) # 0}
<1> SUFFICES ASSUME Bad # {} PROVE FALSE
  OBVIOUS
<1>1. PICK T \in Bad : \A U \in Bad : U \subseteq T => U = T
  <2>1. Bad \subseteq SUBSET S /\ Bad # {}
    OBVIOUS
  <2> HIDE DEF Bad
  <2> QED BY <2>1, LeastSubset
<1>2. T # {} /\ IsFiniteSet(T)
  BY SumEmpty, FS_Subset
<1>3. First(T) \in S /\ Rest(T) \in SUBSET S /\ Rest(T) \subseteq T /\ Rest(T) # T
  BY <1>2, FirstRest
<1>4. SumFunctionOnSet(f, Rest(T)) = 0 /\ f[First(T)] = 0
  BY <1>1, <1>3
<1>5. SumFunctionOnSet(f, T) = f[First(T)] + SumFunctionOnSet(f, Rest(T))
  BY <1>2, SumFirst
<1> QED BY <1>4, <1>5

\* A sum of integers is one, and of naturals is one.
LEMMA SumType ==
  ASSUME NEW S, IsFiniteSet(S), NEW f
  PROVE  /\ (\A x \in S : f[x] \in Int) => SumFunctionOnSet(f, S) \in Int
         /\ (\A x \in S : f[x] \in Nat) => SumFunctionOnSet(f, S) \in Nat
<1>1. ASSUME NEW D, D = Int \/ D = Nat, \A x \in S : f[x] \in D
      PROVE  SumFunctionOnSet(f, S) \in D
  <2> DEFINE Bad == {T \in SUBSET S : SumFunctionOnSet(f, T) \notin D}
  <2> SUFFICES ASSUME Bad # {} PROVE FALSE
    OBVIOUS
  <2>1. PICK T \in Bad : \A U \in Bad : U \subseteq T => U = T
    <3>1. Bad \subseteq SUBSET S /\ Bad # {}
      OBVIOUS
    <3> HIDE DEF Bad
    <3> QED BY <3>1, LeastSubset
  <2>2. T # {}
    BY <1>1, SumEmpty
  <2>3. First(T) \in S /\ Rest(T) \in SUBSET S /\ Rest(T) \subseteq T /\ Rest(T) # T
    BY <2>2, FirstRest
  <2>4. SumFunctionOnSet(f, Rest(T)) \in D /\ f[First(T)] \in D
    BY <1>1, <2>1, <2>3
  <2>5. IsFiniteSet(T)
    BY FS_Subset
  <2>6. SumFunctionOnSet(f, T) = f[First(T)] + SumFunctionOnSet(f, Rest(T))
    BY <2>2, <2>5, SumFirst
  <2>7. SumFunctionOnSet(f, T) \in D
    BY <1>1, <2>4, <2>6
  <2> QED BY <2>7
<1> QED BY <1>1

\* Any element may be the one taken out.
LEMMA SumRemove ==
  ASSUME NEW S, IsFiniteSet(S), NEW f, \A x \in S : f[x] \in Int, NEW a \in S
  PROVE  SumFunctionOnSet(f, S) = f[a] + SumFunctionOnSet(f, S \ {a})
<1> DEFINE Sum(T) == SumFunctionOnSet(f, T)
           Bad == {T \in SUBSET S : \E x \in T : Sum(T) # f[x] + Sum(T \ {x})}
<1> SUFFICES ASSUME Bad # {} PROVE FALSE
  OBVIOUS
<1>1. PICK T \in Bad : \A U \in Bad : U \subseteq T => U = T
  <2>1. Bad \subseteq SUBSET S /\ Bad # {}
    OBVIOUS
  <2> HIDE DEF Bad
  <2> QED BY <2>1, LeastSubset
<1>2. PICK x \in T : Sum(T) # f[x] + Sum(T \ {x})
  OBVIOUS
<1> DEFINE c == First(T)
<1>3. c \in T /\ c \in S /\ x \in S /\ IsFiniteSet(T)
  BY <1>2, FirstRest, FS_Subset
<1>4. Sum(T) = f[c] + Sum(T \ {c})
  BY <1>2, <1>3, SumFirst DEF Rest
<1> HIDE DEF c
<1>5. c # x
  BY <1>2, <1>4
<1>6. T \ {c} \notin Bad /\ T \ {x} \notin Bad
  BY <1>1, <1>2, <1>3
<1>7. x \in T \ {c} /\ c \in T \ {x} /\ T \ {c} \in SUBSET S /\ T \ {x} \in SUBSET S
  BY <1>2, <1>3, <1>5
<1>8. Sum(T \ {c}) = f[x] + Sum((T \ {c}) \ {x}) /\ Sum(T \ {x}) = f[c] + Sum((T \ {x}) \ {c})
  BY <1>6, <1>7
<1>9. (T \ {c}) \ {x} = (T \ {x}) \ {c} /\ (T \ {c}) \ {x} \in SUBSET S
  OBVIOUS
<1>10. IsFiniteSet((T \ {c}) \ {x}) /\ \A y \in (T \ {c}) \ {x} : f[y] \in Int
  BY <1>9, FS_Subset
<1>11. Sum((T \ {c}) \ {x}) \in Int /\ f[c] \in Int /\ f[x] \in Int
  BY <1>3, <1>10, SumType
<1>12. Sum(T) = f[c] + (f[x] + Sum((T \ {c}) \ {x}))
  BY <1>4, <1>8
<1>13. Sum(T \ {x}) = f[c] + Sum((T \ {c}) \ {x})
  BY <1>8, <1>9
<1> HIDE DEF Sum, Bad
<1> QED BY <1>2, <1>11, <1>12, <1>13

\* The sum over a set and one more element.
LEMMA SumAdd ==
  ASSUME NEW S, IsFiniteSet(S), NEW f, NEW a, a \notin S, \A x \in S \cup {a} : f[x] \in Int
  PROVE  SumFunctionOnSet(f, S \cup {a}) = SumFunctionOnSet(f, S) + f[a]
<1>1. IsFiniteSet(S \cup {a}) /\ (S \cup {a}) \ {a} = S
  BY FS_AddElement
<1>2. SumFunctionOnSet(f, S \cup {a}) = f[a] + SumFunctionOnSet(f, S)
  BY <1>1, SumRemove
<1>3. SumFunctionOnSet(f, S) \in Int /\ f[a] \in Int
  BY SumType
<1> QED BY <1>2, <1>3

\* The sum over one element.
LEMMA SumSingle ==
  ASSUME NEW f, NEW a, f[a] \in Int
  PROVE  SumFunctionOnSet(f, {a}) = f[a]
<1>1. {a} = {} \cup {a} /\ a \notin {} /\ IsFiniteSet({})
  BY FS_EmptySet
<1>2. SumFunctionOnSet(f, {} \cup {a}) = SumFunctionOnSet(f, {}) + f[a]
  BY <1>1, SumAdd
<1> QED BY <1>1, <1>2, SumEmpty

\* A sum that changes at one element changes by as much.
LEMMA SumChange ==
  ASSUME NEW S, IsFiniteSet(S), NEW f, NEW g, NEW a \in S,
         \A x \in S : f[x] \in Int /\ g[x] \in Int,
         \A x \in S \ {a} : f[x] = g[x]
  PROVE  SumFunctionOnSet(g, S) = SumFunctionOnSet(f, S) - f[a] + g[a]
<1>1. IsFiniteSet(S \ {a}) /\ \A x \in S \ {a} : f[x] \in Int
  BY FS_Subset
<1>2. SumFunctionOnSet(f, S \ {a}) = SumFunctionOnSet(g, S \ {a})
  BY <1>1, SumSame
<1>3. SumFunctionOnSet(f, S) = f[a] + SumFunctionOnSet(f, S \ {a})
  BY SumRemove
<1>4. SumFunctionOnSet(g, S) = g[a] + SumFunctionOnSet(g, S \ {a})
  BY SumRemove
<1>5. SumFunctionOnSet(f, S \ {a}) \in Int /\ f[a] \in Int /\ g[a] \in Int
  BY <1>1, SumType
<1> QED BY <1>2, <1>3, <1>4, <1>5

\* Of naturals, a part adds up to no more than the whole.
LEMMA SumMonotonic ==
  ASSUME NEW S, IsFiniteSet(S), NEW f, \A x \in S : f[x] \in Nat, NEW T \in SUBSET S
  PROVE  SumFunctionOnSet(f, T) =< SumFunctionOnSet(f, S)
<1> DEFINE Sum(U) == SumFunctionOnSet(f, U)
           Bad == {U \in SUBSET S : T \subseteq U /\ ~(Sum(T) =< Sum(U))}
<1> SUFFICES ASSUME Bad # {} PROVE FALSE
  OBVIOUS
<1>1. PICK U \in Bad : \A V \in Bad : V \subseteq U => V = U
  <2>1. Bad \subseteq SUBSET S /\ Bad # {}
    OBVIOUS
  <2> HIDE DEF Bad
  <2> QED BY <2>1, LeastSubset
<1>2. ASSUME NEW V \in SUBSET S PROVE Sum(V) \in Nat
  <2>1. IsFiniteSet(V)
    BY FS_Subset
  <2> QED BY <2>1, SumType
<1>3. PICK a : a \in U \ T
  BY <1>2
<1>4. U \ {a} \notin Bad /\ U \ {a} \in SUBSET S
  BY <1>1, <1>3
<1>5. Sum(T) =< Sum(U \ {a})
  BY <1>3, <1>4
<1>6. Sum(U) = f[a] + Sum(U \ {a})
  <2>1. IsFiniteSet(U) /\ \A x \in U : f[x] \in Int
    BY FS_Subset
  <2> QED BY <1>3, <2>1, SumRemove
<1>7. f[a] \in Nat /\ Sum(T) \in Nat /\ Sum(U \ {a}) \in Nat
  BY <1>2, <1>3, <1>4
<1>8. ~(Sum(T) =< Sum(U))
  OBVIOUS
<1> HIDE DEF Sum, Bad
<1> QED BY <1>5, <1>6, <1>7, <1>8

\* The sum over two sets that have nothing in common.
LEMMA SumUnion ==
  ASSUME NEW A, NEW B, IsFiniteSet(A), IsFiniteSet(B), A \cap B = {},
         NEW f, \A x \in A \cup B : f[x] \in Int
  PROVE  SumFunctionOnSet(f, A \cup B) = SumFunctionOnSet(f, A) + SumFunctionOnSet(f, B)
<1> DEFINE Sum(T) == SumFunctionOnSet(f, T)
           Bad == {C \in SUBSET B : Sum(A \cup C) # Sum(A) + Sum(C)}
<1> SUFFICES ASSUME Bad # {} PROVE FALSE
  OBVIOUS
<1>1. PICK C \in Bad : \A D \in Bad : D \subseteq C => D = C
  <2>1. Bad \subseteq SUBSET B /\ Bad # {}
    OBVIOUS
  <2> HIDE DEF Bad
  <2> QED BY <2>1, LeastSubset
<1>2. ASSUME NEW T, T \subseteq A \cup B PROVE IsFiniteSet(T) /\ Sum(T) \in Int
  <2>1. IsFiniteSet(A \cup B)
    BY FS_Union
  <2>2. IsFiniteSet(T) /\ \A x \in T : f[x] \in Int
    BY <1>2, <2>1, FS_Subset
  <2> QED BY <2>2, SumType
<1>3. C # {}
  <2>1. A \cup {} = A /\ Sum({}) = 0 /\ Sum(A) \in Int
    BY <1>2, SumEmpty
  <2>2. Sum(A \cup {}) = Sum(A) + Sum({})
    BY <2>1
  <2> QED BY <2>2
<1>4. PICK a : a \in C
  BY <1>3
<1>5. a \in A \cup C /\ (A \cup C) \ {a} = A \cup (C \ {a}) /\ f[a] \in Int
  BY <1>4
<1>6. A \cup C \subseteq A \cup B /\ C \subseteq A \cup B /\ C \ {a} \subseteq A \cup B
  OBVIOUS
<1>7. Sum(A \cup C) = f[a] + Sum(A \cup (C \ {a}))
  BY <1>2, <1>5, <1>6, SumRemove
<1>8. Sum(C) = f[a] + Sum(C \ {a})
  BY <1>2, <1>4, <1>6, SumRemove
<1>9. C \ {a} \notin Bad /\ C \ {a} \in SUBSET B
  BY <1>1, <1>4
<1>10. Sum(A \cup (C \ {a})) = Sum(A) + Sum(C \ {a})
  BY <1>9
<1>11. Sum(A) \in Int /\ Sum(C \ {a}) \in Int
  BY <1>2, <1>6
<1>12. Sum(A \cup C) # Sum(A) + Sum(C)
  OBVIOUS
<1> HIDE DEF Sum, Bad
<1> QED BY <1>5, <1>7, <1>8, <1>10, <1>11, <1>12

\* The sum of what two functions add up to.
LEMMA SumPlus ==
  ASSUME NEW S, IsFiniteSet(S), NEW f, NEW g, NEW h,
         \A x \in S : f[x] \in Int /\ g[x] \in Int /\ h[x] = f[x] + g[x]
  PROVE  SumFunctionOnSet(h, S) = SumFunctionOnSet(f, S) + SumFunctionOnSet(g, S)
<1> DEFINE F(T) == SumFunctionOnSet(f, T)
           G(T) == SumFunctionOnSet(g, T)
           H(T) == SumFunctionOnSet(h, T)
           Bad == {T \in SUBSET S : H(T) # F(T) + G(T)}
<1> SUFFICES ASSUME Bad # {} PROVE FALSE
  OBVIOUS
<1>1. PICK T \in Bad : \A U \in Bad : U \subseteq T => U = T
  <2>1. Bad \subseteq SUBSET S /\ Bad # {}
    OBVIOUS
  <2> HIDE DEF Bad
  <2> QED BY <2>1, LeastSubset
<1>2. T # {} /\ IsFiniteSet(T)
  <2>1. F({}) = 0 /\ G({}) = 0 /\ H({}) = 0
    BY SumEmpty
  <2>2. {} \notin Bad
    BY <2>1
  <2> QED BY <2>2, FS_Subset
<1>3. First(T) \in S /\ Rest(T) \in SUBSET S /\ Rest(T) \subseteq T /\ Rest(T) # T
  BY <1>2, FirstRest
<1>4. H(Rest(T)) = F(Rest(T)) + G(Rest(T))
  BY <1>1, <1>3
<1>5. F(Rest(T)) \in Int /\ G(Rest(T)) \in Int
  BY <1>3, FS_Subset, SumType
<1>6. /\ F(T) = f[First(T)] + F(Rest(T))
      /\ G(T) = g[First(T)] + G(Rest(T))
      /\ H(T) = h[First(T)] + H(Rest(T))
  BY <1>2, SumFirst
<1>7. /\ f[First(T)] \in Int /\ g[First(T)] \in Int
      /\ h[First(T)] = f[First(T)] + g[First(T)]
  BY <1>3
<1>8. H(T) # F(T) + G(T)
  OBVIOUS
<1> HIDE DEF F, G, H, Bad
<1> QED BY <1>4, <1>5, <1>6, <1>7, <1>8

\* A factor may be taken out of a sum.
LEMMA SumTimes ==
  ASSUME NEW S, IsFiniteSet(S), NEW c \in Int, NEW f, NEW h,
         \A x \in S : f[x] \in Int /\ h[x] = c * f[x]
  PROVE  SumFunctionOnSet(h, S) = c * SumFunctionOnSet(f, S)
<1> DEFINE F(T) == SumFunctionOnSet(f, T)
           H(T) == SumFunctionOnSet(h, T)
           Bad == {T \in SUBSET S : H(T) # c * F(T)}
<1> SUFFICES ASSUME Bad # {} PROVE FALSE
  OBVIOUS
<1>1. PICK T \in Bad : \A U \in Bad : U \subseteq T => U = T
  <2>1. Bad \subseteq SUBSET S /\ Bad # {}
    OBVIOUS
  <2> HIDE DEF Bad
  <2> QED BY <2>1, LeastSubset
<1>2. T # {} /\ IsFiniteSet(T)
  <2>1. F({}) = 0 /\ H({}) = 0 /\ c * 0 = 0
    BY SumEmpty
  <2>2. {} \notin Bad
    BY <2>1
  <2> QED BY <2>2, FS_Subset
<1>3. First(T) \in S /\ Rest(T) \in SUBSET S /\ Rest(T) \subseteq T /\ Rest(T) # T
  BY <1>2, FirstRest
<1>4. H(Rest(T)) = c * F(Rest(T))
  BY <1>1, <1>3
<1>5. F(Rest(T)) \in Int
  BY <1>3, FS_Subset, SumType
<1>6. F(T) = f[First(T)] + F(Rest(T)) /\ H(T) = h[First(T)] + H(Rest(T))
  BY <1>2, SumFirst
<1>7. f[First(T)] \in Int /\ h[First(T)] = c * f[First(T)]
  BY <1>3
<1>8. H(T) # c * F(T)
  OBVIOUS
<1> HIDE DEF F, H, Bad
<1>9. \A x, y \in Int : c * (x + y) = c * x + c * y
  OBVIOUS
<1> QED BY <1>4, <1>5, <1>6, <1>7, <1>8, <1>9

\* A larger function has a larger sum.
LEMMA SumBound ==
  ASSUME NEW S, IsFiniteSet(S), NEW f, NEW g,
         \A x \in S : f[x] \in Int /\ g[x] \in Int /\ f[x] =< g[x]
  PROVE  SumFunctionOnSet(f, S) =< SumFunctionOnSet(g, S)
<1> DEFINE d == [x \in S |-> g[x] - f[x]]
<1>1. \A x \in S : f[x] \in Int /\ d[x] \in Nat /\ g[x] = f[x] + d[x]
  OBVIOUS
<1> HIDE DEF d
<1>2. SumFunctionOnSet(g, S) = SumFunctionOnSet(f, S) + SumFunctionOnSet(d, S)
  <2>1. \A x \in S : d[x] \in Int
    BY <1>1
  <2> QED BY <1>1, <2>1, SumPlus
<1>3. SumFunctionOnSet(f, S) \in Int /\ SumFunctionOnSet(d, S) \in Nat
  BY <1>1, SumType
<1> QED BY <1>2, <1>3

\* The sum of a constant.
LEMMA SumConstant ==
  ASSUME NEW S, IsFiniteSet(S), NEW c \in Int, NEW f, \A x \in S : f[x] = c
  PROVE  SumFunctionOnSet(f, S) = c * Cardinality(S)
<1> DEFINE F(T) == SumFunctionOnSet(f, T)
           Bad == {T \in SUBSET S : F(T) # c * Cardinality(T)}
<1> SUFFICES ASSUME Bad # {} PROVE FALSE
  OBVIOUS
<1>1. PICK T \in Bad : \A U \in Bad : U \subseteq T => U = T
  <2>1. Bad \subseteq SUBSET S /\ Bad # {}
    OBVIOUS
  <2> HIDE DEF Bad
  <2> QED BY <2>1, LeastSubset
<1>2. T # {} /\ IsFiniteSet(T)
  BY SumEmpty, FS_Subset, FS_EmptySet
<1>3. PICK a : a \in T
  BY <1>2
<1>4. T \ {a} \notin Bad /\ T \ {a} \in SUBSET S
  BY <1>1, <1>3
<1>5. F(T \ {a}) = c * Cardinality(T \ {a})
  BY <1>4
<1>6. F(T) = c + F(T \ {a})
  <2>1. \A x \in T : f[x] \in Int
    OBVIOUS
  <2> QED BY <1>2, <1>3, <2>1, SumRemove
<1>7. Cardinality(T) = Cardinality(T \ {a}) + 1 /\ Cardinality(T \ {a}) \in Nat
  <2>1. IsFiniteSet(T \ {a}) /\ Cardinality(T \ {a}) = Cardinality(T) - 1
    BY <1>2, <1>3, FS_RemoveElement
  <2>2. Cardinality(T) \in Nat /\ Cardinality(T \ {a}) \in Nat
    BY <1>2, <2>1, FS_CardinalityType
  <2> QED BY <2>1, <2>2
<1>8. \A n \in Nat : c * (n + 1) = c + c * n
  OBVIOUS
<1>9. F(T) # c * Cardinality(T)
  OBVIOUS
<1> HIDE DEF F, Bad
<1> QED BY <1>5, <1>6, <1>7, <1>8, <1>9

\* The sum over the elements that a function names once each.
LEMMA SumReindexed ==
  ASSUME NEW D, IsFiniteSet(D), NEW S, IsFiniteSet(S), NEW r \in [D -> S],
         \A i, j \in D : i # j => r[i] # r[j],
         NEW f, NEW g, \A i \in D : g[i] \in Int /\ g[i] = f[r[i]]
  PROVE  SumFunctionOnSet(g, D) = SumFunctionOnSet(f, {r[i] : i \in D})
<1> DEFINE Image(T) == {r[i] : i \in T}
           Bad == {T \in SUBSET D : SumFunctionOnSet(g, T) # SumFunctionOnSet(f, Image(T))}
<1> SUFFICES ASSUME Bad # {} PROVE FALSE
  OBVIOUS
<1>1. PICK T \in Bad : \A U \in Bad : U \subseteq T => U = T
  <2>1. Bad \subseteq SUBSET D /\ Bad # {}
    OBVIOUS
  <2> HIDE DEF Bad
  <2> QED BY <2>1, LeastSubset
<1>2. T \in SUBSET D /\ T # {} /\ IsFiniteSet(T)
  <2>1. Image({}) = {}
    OBVIOUS
  <2>2. {} \notin Bad
    BY <2>1, SumEmpty
  <2> QED BY <2>2, FS_Subset
<1>3. PICK a : a \in T
  BY <1>2
<1>4. T \ {a} \notin Bad /\ T \ {a} \in SUBSET D
  BY <1>1, <1>2, <1>3
<1>5. SumFunctionOnSet(g, T \ {a}) = SumFunctionOnSet(f, Image(T \ {a}))
  BY <1>4
<1>6. SumFunctionOnSet(g, T) = g[a] + SumFunctionOnSet(g, T \ {a})
  BY <1>2, <1>3, SumRemove
<1>7. Image(T \ {a}) = Image(T) \ {r[a]} /\ r[a] \in Image(T)
  BY <1>2, <1>3
<1>8. SumFunctionOnSet(f, Image(T)) = f[r[a]] + SumFunctionOnSet(f, Image(T) \ {r[a]})
  <2>1. Image(T) \in SUBSET S /\ \A x \in Image(T) : f[x] \in Int
    BY <1>2
  <2>2. IsFiniteSet(Image(T))
    BY <2>1, FS_Subset
  <2> HIDE DEF Image
  <2> QED BY <1>7, <2>1, <2>2, SumRemove
<1>9. g[a] = f[r[a]] /\ SumFunctionOnSet(g, T) # SumFunctionOnSet(f, Image(T))
  BY <1>2, <1>3
<1> HIDE DEF Image, Bad
<1> QED BY <1>5, <1>6, <1>7, <1>8, <1>9
=============================================================================

---------------------------- MODULE StatsProofs ----------------------------
(***************************************************************************)
(* Lemmas about the arithmetic of Stats: sums over finite sets, maxima and *)
(* order statistics.  The sums of the community modules are recursive      *)
(* functions; what is proved of them is by least counterexample, because a *)
(* set of natural numbers has a least element whatever defines it.         *)
(***************************************************************************)
EXTENDS Stats, FiniteSetTheorems, TLAPS

-----------------------------------------------------------------------------
(* Least and greatest numbers *)

LEMMA LeastExists ==
  ASSUME NEW T, T \subseteq Nat, T # {}
  PROVE  \E n \in T : \A m \in T : n <= m
<1> DEFINE less == {ss \in Nat \X Nat : ss[1] < ss[2]}
<1>1. IsWellFoundedOn(less, Nat)
  BY NatLessThanWellFounded DEF OpToRel
<1>2. \E n \in T : \A m \in T : ~(<<m, n>> \in less)
  <2> HIDE DEF less
  <2> QED
    BY <1>1, WFMin
<1>3. \A m, n \in Nat : <<m, n>> \in less <=> m < n
  OBVIOUS
<1> HIDE DEF less
<1>4. PICK n \in T : \A m \in T : ~(<<m, n>> \in less)
  BY <1>2
<1>5. ASSUME NEW m \in T PROVE n <= m
  <2>1. m \in Nat /\ n \in Nat
    BY <1>4
  <2>2. ~(m < n)
    BY <1>3, <1>4, <2>1
  <2> QED
    BY <2>1, <2>2
<1> QED
  BY <1>4, <1>5

\* A finite set of numbers has a largest one, and Max is it: the one that the
\* fewest are larger than.
LEMMA MaxIsLargest ==
  ASSUME NEW S, S \subseteq Int, IsFiniteSet(S), S # {}
  PROVE  Max(S) \in S /\ \A x \in S : x <= Max(S)
<1> DEFINE Above(x) == {y \in S : y > x}
           Counts   == {Cardinality(Above(x)) : x \in S}
<1>1. \A x \in S : IsFiniteSet(Above(x)) /\ Cardinality(Above(x)) \in Nat
  BY FS_Subset, FS_CardinalityType
<1>2. Counts \subseteq Nat /\ Counts # {}
  BY <1>1
<1>3. \E n \in Counts : \A m \in Counts : n <= m
  <2> HIDE DEF Counts
  <2> QED
    BY <1>2, LeastExists
<1>4. PICK x \in S : \A y \in S : Cardinality(Above(x)) <= Cardinality(Above(y))
  BY <1>3
<1>5. ASSUME NEW y \in S, ~(y <= x) PROVE FALSE
  <2>3. x \in Int /\ \A z \in S : z \in Int
    BY <1>4
  <2>4. y > x
    BY <1>5, <2>3
  <2>5. \A z \in S : z > y => z > x
    BY <2>3, <2>4
  <2>1. Above(y) \subseteq Above(x) /\ y \in Above(x) /\ y \notin Above(y)
    <3>1. y \in Above(x)
      BY <1>5, <2>4
    <3>2. y \notin Above(y)
      BY <1>5, <2>3
    <3>3. ASSUME NEW z \in Above(y) PROVE z \in Above(x)
      BY <2>5, <3>3
    <3> QED
      BY <3>1, <3>2, <3>3
  <2>2. Cardinality(Above(y)) < Cardinality(Above(x))
    BY <1>1, <1>4, <2>1, FS_Subset
  <2> QED
    BY <1>1, <1>4, <2>2
<1> QED
  BY <1>4, <1>5 DEF Max

-----------------------------------------------------------------------------
(* Sums *)

Pick(s) == CHOOSE x \in s : TRUE

\* What the recursive function behind a sum over S is.
IsSum(f, S, g) ==
  g = [s \in SUBSET S |->
         IF s = {} THEN 0 ELSE f[Pick(s)] + g[s \ {Pick(s)}]]

SumOf(f, S) == (CHOOSE g : IsSum(f, S, g))[S]

\* The sums of the models are these.
LEMMA SumFunctionOnSetIsSum ==
  ASSUME NEW f, NEW S
  PROVE  SumFunctionOnSet(f, S) = SumOf(f, S)
BY DEF SumFunctionOnSet, FoldFunctionOnSet, MapThenFoldSet, SumOf, IsSum, Pick

LEMMA PickIsMember ==
  ASSUME NEW s, IsFiniteSet(s), s # {}
  PROVE  /\ Pick(s) \in s
         /\ IsFiniteSet(s \ {Pick(s)})
         /\ Cardinality(s) \in Nat \ {0}
         /\ Cardinality(s \ {Pick(s)}) = Cardinality(s) - 1
<1>1. Pick(s) \in s
  BY DEF Pick
<1>2. Cardinality(s) \in Nat /\ Cardinality(s) # 0
  BY FS_EmptySet, FS_CardinalityType
<1> QED
  BY <1>1, <1>2, FS_RemoveElement

\* A counterexample among the subsets of a finite set has a smallest one.
LEMMA SmallestSubset ==
  ASSUME NEW S, IsFiniteSet(S), NEW B, B \subseteq SUBSET S, B # {}
  PROVE  \E s \in B : \A t \in SUBSET S :
           Cardinality(t) < Cardinality(s) => t \notin B
<1> DEFINE sizes == {Cardinality(s) : s \in B}
<1>1. \A s \in SUBSET S : Cardinality(s) \in Nat
  BY FS_Subset, FS_CardinalityType
<1>2. sizes \subseteq Nat /\ sizes # {}
  BY <1>1
<1>3. PICK n \in sizes : \A m \in sizes : n <= m
  <2> HIDE DEF sizes
  <2> QED
    BY <1>2, LeastExists
<1>4. PICK s \in B : n = Cardinality(s)
  BY <1>3
<1>5. ASSUME NEW t \in B PROVE ~(Cardinality(t) < Cardinality(s))
  <2>1. n <= Cardinality(t)
    BY <1>3
  <2> QED
    BY <1>1, <1>4, <2>1
<1> QED
  BY <1>5

LEMMA SumUnique ==
  ASSUME NEW f, NEW S, IsFiniteSet(S),
         NEW g, IsSum(f, S, g), NEW h, IsSum(f, S, h)
  PROVE  g = h
<1> DEFINE B == {s \in SUBSET S : g[s] # h[s]}
<1>1. \A s \in SUBSET S :
        /\ g[s] = IF s = {} THEN 0 ELSE f[Pick(s)] + g[s \ {Pick(s)}]
        /\ h[s] = IF s = {} THEN 0 ELSE f[Pick(s)] + h[s \ {Pick(s)}]
  BY DEF IsSum
<1>2. ASSUME B # {} PROVE FALSE
  <2>1. PICK s \in B : \A t \in SUBSET S :
                         Cardinality(t) < Cardinality(s) => t \notin B
    <3>1. B \subseteq SUBSET S
      OBVIOUS
    <3> HIDE DEF B
    <3> QED
      BY <1>2, <3>1, SmallestSubset
  <2>2. s \in SUBSET S /\ IsFiniteSet(s) /\ s # {}
    BY <1>1, <2>1, FS_Subset
  <2>3. s \ {Pick(s)} \notin B
    <3>1. Cardinality(s \ {Pick(s)}) < Cardinality(s)
      BY <2>2, PickIsMember
    <3>2. s \ {Pick(s)} \in SUBSET S
      BY <2>2
    <3> HIDE DEF B
    <3> QED
      BY <2>1, <3>1, <3>2
  <2>4. g[s \ {Pick(s)}] = h[s \ {Pick(s)}]
    BY <2>2, <2>3
  <2>5. g[s] = h[s]
    BY <1>1, <2>2, <2>4
  <2> QED
    BY <2>1, <2>5
<1>3. /\ g = [s \in SUBSET S |-> g[s]]
      /\ h = [s \in SUBSET S |-> h[s]]
  BY DEF IsSum
<1> QED
  BY <1>2, <1>3

LEMMA SumRestricts ==
  ASSUME NEW f, NEW S, NEW g, IsSum(f, S, g), NEW T \in SUBSET S
  PROVE  IsSum(f, T, [s \in SUBSET T |-> g[s]])
<1> DEFINE h == [s \in SUBSET T |-> g[s]]
<1>1. \A s \in SUBSET T :
        g[s] = IF s = {} THEN 0 ELSE f[Pick(s)] + g[s \ {Pick(s)}]
  BY DEF IsSum
<1>2. \A s \in SUBSET T :
        h[s] = IF s = {} THEN 0 ELSE f[Pick(s)] + h[s \ {Pick(s)}]
  BY <1>1
<1> QED
  BY <1>2 DEF IsSum

LEMMA SumExists ==
  ASSUME NEW f, NEW S, IsFiniteSet(S)
  PROVE  \E g : IsSum(f, S, g)
<1> DEFINE B == {s \in SUBSET S : ~\E g : IsSum(f, s, g)}
<1>1. ASSUME B # {} PROVE FALSE
  <2>1. PICK s \in B : \A t \in SUBSET S :
                         Cardinality(t) < Cardinality(s) => t \notin B
    <3>1. B \subseteq SUBSET S
      OBVIOUS
    <3> HIDE DEF B
    <3> QED
      BY <1>1, <3>1, SmallestSubset
  <2>2. s \in SUBSET S /\ IsFiniteSet(s)
    BY <2>1, FS_Subset
  <2>3. ASSUME NEW t \in SUBSET s, t # s
        PROVE  IsSum(f, t, CHOOSE g : IsSum(f, t, g))
    <3>1. Cardinality(t) < Cardinality(s) /\ t \in SUBSET S
      BY <2>2, <2>3, FS_Subset, FS_CardinalityType
    <3>2. \E g : IsSum(f, t, g)
      BY <2>1, <3>1
    <3> QED
      BY <3>2
  <2> DEFINE G == [t \in SUBSET s |->
                     IF t = {} THEN 0 ELSE f[Pick(t)] + SumOf(f, t \ {Pick(t)})]
  <2>4. ASSUME NEW t \in SUBSET s, t # s PROVE G[t] = SumOf(f, t)
    <3> DEFINE g == CHOOSE e : IsSum(f, t, e)
    <3>1. IsSum(f, t, g)
      BY <2>3, <2>4
    <3>2. SumOf(f, t) = g[t]
      BY DEF SumOf
    <3>3. IsFiniteSet(t)
      BY <2>2, FS_Subset
    <3> HIDE DEF g
    <3>4. g[t] = IF t = {} THEN 0 ELSE f[Pick(t)] + g[t \ {Pick(t)}]
      BY <3>1 DEF IsSum
    <3>5. CASE t = {}
      BY <3>2, <3>4, <3>5
    <3>6. CASE t # {}
      <4> DEFINE u == t \ {Pick(t)}
                 h == CHOOSE e : IsSum(f, u, e)
                 r == [v \in SUBSET u |-> g[v]]
      <4>1. Pick(t) \in t /\ IsFiniteSet(u)
        BY <3>3, <3>6, PickIsMember
      <4>2. u \in SUBSET s /\ u # s /\ u \in SUBSET t
        BY <4>1
      <4>3. IsSum(f, u, h)
        BY <2>3, <4>2
      <4>4. IsSum(f, u, r)
        BY <3>1, <4>2, SumRestricts
      <4>5. SumOf(f, u) = h[u] /\ r[u] = g[u]
        BY DEF SumOf
      <4> HIDE DEF h, r
      <4>6. h = r
        BY <4>1, <4>3, <4>4, SumUnique
      <4>7. SumOf(f, u) = g[u]
        BY <4>5, <4>6
      <4> QED
        BY <3>2, <3>4, <3>6, <4>7
    <3> QED
      BY <3>5, <3>6
  <2>5. \A t \in SUBSET s : t # {} => Pick(t) \in t
    BY DEF Pick
  <2>6. \A t \in SUBSET s :
          t # {} => G[t \ {Pick(t)}] = SumOf(f, t \ {Pick(t)})
    BY <2>4, <2>5
  <2>7. G = [t \in SUBSET s |->
               IF t = {} THEN 0 ELSE f[Pick(t)] + G[t \ {Pick(t)}]]
    BY <2>6
  <2>8. IsSum(f, s, G)
    BY <2>7 DEF IsSum
  <2> QED
    BY <2>1, <2>8
<1>2. S \in SUBSET S
  OBVIOUS
<1> QED
  BY <1>1, <1>2

\* A sum is the picked value and the sum of the others.
LEMMA SumStep ==
  ASSUME NEW f, NEW S, IsFiniteSet(S)
  PROVE  SumOf(f, S) =
           IF S = {} THEN 0 ELSE f[Pick(S)] + SumOf(f, S \ {Pick(S)})
<1> DEFINE u == S \ {Pick(S)}
           g == CHOOSE e : IsSum(f, S, e)
           h == CHOOSE e : IsSum(f, u, e)
           r == [v \in SUBSET u |-> g[v]]
<1>1. IsFiniteSet(u) /\ u \in SUBSET S
  BY FS_Subset
<1>2. IsSum(f, S, g)
  BY SumExists
<1>3. IsSum(f, u, h)
  BY <1>1, SumExists
<1>4. IsSum(f, u, r)
  <2> HIDE DEF g, u
  <2> QED
    BY <1>1, <1>2, SumRestricts
<1>5. SumOf(f, S) = g[S] /\ SumOf(f, u) = h[u] /\ r[u] = g[u]
  BY DEF SumOf
<1>6. g[S] = IF S = {} THEN 0 ELSE f[Pick(S)] + g[u]
  <2> HIDE DEF g
  <2> QED
    BY <1>2 DEF IsSum
<1>7. h = r
  <2> HIDE DEF h, r, u
  <2> QED
    BY <1>1, <1>3, <1>4, SumUnique
<1> HIDE DEF g, h, r
<1> QED
  BY <1>5, <1>6, <1>7

\* To prove something of all subsets of a finite set it is enough to prove it of
\* each that is larger than the empty set when it holds of what is left without
\* any one member.
LEMMA SubsetInduction ==
  ASSUME NEW S, IsFiniteSet(S), NEW G, G \subseteq SUBSET S, {} \in G,
         \A s \in SUBSET S :
           s # {} /\ (\A x \in s : s \ {x} \in G) => s \in G
  PROVE  G = SUBSET S
<1> DEFINE B == (SUBSET S) \ G
<1>1. ASSUME B # {} PROVE FALSE
  <2>1. PICK s \in B : \A t \in SUBSET S :
                         Cardinality(t) < Cardinality(s) => t \notin B
    <3>1. B \subseteq SUBSET S
      OBVIOUS
    <3> HIDE DEF B
    <3> QED
      BY <1>1, <3>1, SmallestSubset
  <2>2. s \in SUBSET S /\ IsFiniteSet(s) /\ s # {} /\ s \notin G
    BY <2>1, FS_Subset
  <2>3. ASSUME NEW x \in s PROVE s \ {x} \in G
    <3>1. Cardinality(s \ {x}) < Cardinality(s)
      <4>1. Cardinality(s) \in Nat
        BY <2>2, FS_CardinalityType
      <4>2. Cardinality(s \ {x}) = Cardinality(s) - 1
        BY <2>2, <2>3, FS_RemoveElement
      <4> QED
        BY <4>1, <4>2
    <3>2. s \ {x} \in SUBSET S
      BY <2>2
    <3> QED
      BY <2>1, <3>1, <3>2
  <2> QED
    BY <2>2, <2>3
<1> QED
  BY <1>1

LEMMA SumNat ==
  ASSUME NEW f, NEW S, IsFiniteSet(S), \A x \in S : f[x] \in Nat
  PROVE  SumOf(f, S) \in Nat
<1> DEFINE G == {s \in SUBSET S : SumOf(f, s) \in Nat}
<1>1. \A s \in SUBSET S : IsFiniteSet(s)
  BY FS_Subset
<1>2. {} \in G
  <2>1. SumOf(f, {}) = 0
    BY <1>1, SumStep
  <2> QED
    BY <2>1
<1>3. ASSUME NEW s \in SUBSET S, s # {}, \A x \in s : s \ {x} \in G
      PROVE  s \in G
  <2>1. Pick(s) \in s
    BY <1>1, <1>3, PickIsMember
  <2>2. SumOf(f, s \ {Pick(s)}) \in Nat
    BY <1>3, <2>1
  <2>3. SumOf(f, s) = f[Pick(s)] + SumOf(f, s \ {Pick(s)})
    BY <1>1, <1>3, SumStep
  <2> QED
    BY <2>1, <2>2, <2>3
<1>4. G = SUBSET S
  <2>1. G \subseteq SUBSET S
    OBVIOUS
  <2> HIDE DEF G
  <2> QED
    BY <1>2, <1>3, <2>1, SubsetInduction
<1> QED
  BY <1>4

\* The order does not matter: any member can be taken out first.
LEMMA SumTakeOut ==
  ASSUME NEW f, NEW S, IsFiniteSet(S), \A x \in S : f[x] \in Nat,
         NEW y \in S
  PROVE  SumOf(f, S) = f[y] + SumOf(f, S \ {y})
<1> DEFINE G == {s \in SUBSET S :
                   \A x \in s : SumOf(f, s) = f[x] + SumOf(f, s \ {x})}
<1>1. \A s \in SUBSET S : IsFiniteSet(s) /\ SumOf(f, s) \in Nat
  BY FS_Subset, SumNat
<1>2. {} \in G
  OBVIOUS
<1>3. ASSUME NEW s \in SUBSET S, s # {}, \A x \in s : s \ {x} \in G
      PROVE  s \in G
  <2> DEFINE p == Pick(s)
  <2>1. p \in s
    BY <1>1, <1>3, PickIsMember
  <2>2. SumOf(f, s) = f[p] + SumOf(f, s \ {p})
    BY <1>1, <1>3, SumStep
  <2>3. ASSUME NEW x \in s, x # p
        PROVE  SumOf(f, s) = f[x] + SumOf(f, s \ {x})
    <3>1. SumOf(f, s \ {p}) = f[x] + SumOf(f, (s \ {p}) \ {x})
      BY <1>3, <2>1, <2>3
    <3>2. SumOf(f, s \ {x}) = f[p] + SumOf(f, (s \ {x}) \ {p})
      BY <1>3, <2>1, <2>3
    <3>3. (s \ {p}) \ {x} = (s \ {x}) \ {p}
      OBVIOUS
    <3>4. f[p] \in Nat /\ f[x] \in Nat
      BY <2>1, <2>3
    <3>5. SumOf(f, (s \ {x}) \ {p}) \in Nat
      <4>1. (s \ {x}) \ {p} \in SUBSET S
        OBVIOUS
      <4> QED
        BY <1>1, <4>1
    <3> HIDE DEF p
    <3> QED
      BY <2>2, <3>1, <3>2, <3>3, <3>4, <3>5
  <2> QED
    BY <2>2, <2>3
<1>4. G = SUBSET S
  <2>1. G \subseteq SUBSET S
    OBVIOUS
  <2> HIDE DEF G
  <2> QED
    BY <1>2, <1>3, <2>1, SubsetInduction
<1>5. S \in G
  BY <1>4
<1> QED
  BY <1>5

\* Only the values on the set matter.
LEMMA SumAgree ==
  ASSUME NEW f, NEW h, NEW S, IsFiniteSet(S), \A x \in S : f[x] = h[x]
  PROVE  SumOf(f, S) = SumOf(h, S)
<1> DEFINE G == {s \in SUBSET S : SumOf(f, s) = SumOf(h, s)}
<1>1. \A s \in SUBSET S : IsFiniteSet(s)
  BY FS_Subset
<1>2. {} \in G
  BY <1>1, SumStep
<1>3. ASSUME NEW s \in SUBSET S, s # {}, \A x \in s : s \ {x} \in G
      PROVE  s \in G
  <2>1. Pick(s) \in s
    BY <1>1, <1>3, PickIsMember
  <2>2. SumOf(f, s \ {Pick(s)}) = SumOf(h, s \ {Pick(s)})
    BY <1>3, <2>1
  <2>3. /\ SumOf(f, s) = f[Pick(s)] + SumOf(f, s \ {Pick(s)})
        /\ SumOf(h, s) = h[Pick(s)] + SumOf(h, s \ {Pick(s)})
    BY <1>1, <1>3, SumStep
  <2>4. f[Pick(s)] = h[Pick(s)]
    BY <2>1
  <2>5. SumOf(f, s) = SumOf(h, s)
    BY <2>2, <2>3, <2>4
  <2> QED
    BY <2>5
<1>4. G = SUBSET S
  <2>1. G \subseteq SUBSET S
    OBVIOUS
  <2> HIDE DEF G
  <2> QED
    BY <1>2, <1>3, <2>1, SubsetInduction
<1>5. S \in G
  BY <1>4
<1> QED
  BY <1>5

\* One value changes, and the sum by as much.
LEMMA SumChange ==
  ASSUME NEW f, NEW h, NEW S, IsFiniteSet(S), NEW y \in S,
         \A x \in S : f[x] \in Nat /\ h[x] \in Nat,
         \A x \in S \ {y} : f[x] = h[x]
  PROVE  SumOf(h, S) + f[y] = SumOf(f, S) + h[y]
<1>1. IsFiniteSet(S \ {y})
  BY FS_Subset
<1>2. SumOf(f, S \ {y}) = SumOf(h, S \ {y}) /\ SumOf(f, S \ {y}) \in Nat
  BY <1>1, SumAgree, SumNat
<1>3. /\ SumOf(f, S) = f[y] + SumOf(f, S \ {y})
      /\ SumOf(h, S) = h[y] + SumOf(h, S \ {y})
  BY SumTakeOut
<1> QED
  BY <1>2, <1>3

\* Members without a value add nothing.
LEMMA SumWithoutZeros ==
  ASSUME NEW f, NEW S, IsFiniteSet(S), NEW T \in SUBSET S,
         \A x \in S : f[x] \in Nat, \A x \in S \ T : f[x] = 0
  PROVE  SumOf(f, S) = SumOf(f, T)
<1> DEFINE G == {s \in SUBSET S : SumOf(f, s) = SumOf(f, s \cap T)}
<1>1. \A s \in SUBSET S : IsFiniteSet(s) /\ SumOf(f, s) \in Nat
  BY FS_Subset, SumNat
<1>2. {} \in G
  <2>1. {} \cap T = {}
    OBVIOUS
  <2> QED
    BY <2>1
<1>3. ASSUME NEW s \in SUBSET S, s # {}, \A x \in s : s \ {x} \in G
      PROVE  s \in G
  <2>1. PICK x \in s : TRUE
    BY <1>3
  <2>2. SumOf(f, s \ {x}) = SumOf(f, (s \ {x}) \cap T)
    BY <1>3, <2>1
  <2>3. SumOf(f, s) = f[x] + SumOf(f, s \ {x})
    BY <1>1, <2>1, SumTakeOut
  <2>4. CASE x \in T
    <3>1. SumOf(f, s \cap T) = f[x] + SumOf(f, (s \cap T) \ {x})
      <4>1. s \cap T \in SUBSET S /\ x \in s \cap T
        BY <2>1, <2>4
      <4> QED
        BY <1>1, <4>1, SumTakeOut
    <3>2. (s \ {x}) \cap T = (s \cap T) \ {x}
      OBVIOUS
    <3> QED
      BY <2>2, <2>3, <3>1, <3>2
  <2>5. CASE x \notin T
    <3>1. (s \ {x}) \cap T = s \cap T /\ f[x] = 0
      BY <2>1, <2>5
    <3>2. SumOf(f, s \cap T) \in Nat
      BY <1>1
    <3> QED
      BY <2>2, <2>3, <3>1, <3>2
  <2> QED
    BY <2>4, <2>5
<1>4. G = SUBSET S
  <2>1. G \subseteq SUBSET S
    OBVIOUS
  <2> HIDE DEF G
  <2> QED
    BY <1>2, <1>3, <2>1, SubsetInduction
<1>5. S \in G /\ S \cap T = T
  BY <1>4
<1> QED
  BY <1>5

\* A sum over what b makes of T is one over T.
LEMMA SumOverImage ==
  ASSUME NEW T, IsFiniteSet(T), NEW b, NEW f, NEW h,
         \A x, y \in T : b[x] = b[y] => x = y,
         \A x \in T : h[x] \in Nat /\ f[b[x]] = h[x]
  PROVE  LET S == {b[x] : x \in T}
         IN  IsFiniteSet(S) /\ SumOf(f, S) = SumOf(h, T)
<1> DEFINE image(t) == {b[x] : x \in t}
           G == {t \in SUBSET T : /\ IsFiniteSet(image(t))
                                 /\ SumOf(f, image(t)) = SumOf(h, t)}
<1>1. \A t \in SUBSET T : IsFiniteSet(t)
  BY FS_Subset
<1>2. {} \in G
  <2>1. image({}) = {}
    OBVIOUS
  <2> HIDE DEF image
  <2> QED
    BY <2>1, FS_EmptySet, SumStep
<1>3. ASSUME NEW t \in SUBSET T, t # {}, \A x \in t : t \ {x} \in G
      PROVE  t \in G
  <2>1. PICK x \in t : TRUE
    BY <1>3
  <2>2. /\ IsFiniteSet(image(t \ {x}))
        /\ SumOf(f, image(t \ {x})) = SumOf(h, t \ {x})
    BY <1>3, <2>1
  <2>3. /\ image(t) = image(t \ {x}) \cup {b[x]}
        /\ b[x] \notin image(t \ {x})
        /\ image(t) \ {b[x]} = image(t \ {x})
    BY <1>3, <2>1
  <2>4. \A y \in image(t) : f[y] \in Nat
    BY <1>3
  <2>5. b[x] \in image(t)
    BY <2>1
  <2>6. f[b[x]] = h[x] /\ \A y \in t : h[y] \in Nat
    BY <1>3, <2>1
  <2> HIDE DEF image
  <2>7. IsFiniteSet(image(t))
    <3>1. IsFiniteSet(image(t \ {x}) \cup {b[x]})
      BY <2>2, FS_AddElement
    <3> QED
      BY <2>3, <3>1
  <2>8. SumOf(f, image(t)) = f[b[x]] + SumOf(f, image(t) \ {b[x]})
    BY <2>4, <2>5, <2>7, SumTakeOut
  <2>9. SumOf(h, t) = h[x] + SumOf(h, t \ {x})
    BY <1>1, <2>1, <2>6, SumTakeOut
  <2> QED
    BY <2>2, <2>3, <2>6, <2>7, <2>8, <2>9
<1>4. G = SUBSET T
  <2>1. G \subseteq SUBSET T
    OBVIOUS
  <2> HIDE DEF G
  <2> QED
    BY <1>2, <1>3, <2>1, SubsetInduction
<1>5. T \in G
  BY <1>4
<1> QED
  BY <1>5

LEMMA SumReindexed ==
  ASSUME NEW T, IsFiniteSet(T), NEW S, NEW b \in [T -> S], NEW f, NEW h,
         \A p \in S : \E x \in T : p = b[x],
         \A x, y \in T : b[x] = b[y] => x = y,
         \A x \in T : h[x] \in Nat /\ f[b[x]] = h[x]
  PROVE  IsFiniteSet(S) /\ SumOf(f, S) = SumOf(h, T)
<1> DEFINE image == {b[x] : x \in T}
<1>1. IsFiniteSet(image) /\ SumOf(f, image) = SumOf(h, T)
  BY SumOverImage
<1>2. S = image
  OBVIOUS
<1> HIDE DEF image
<1> QED
  BY <1>1, <1>2

\* The sums of AggregateSamples.
LEMMA SumOfFrames ==
  ASSUME NEW perStream, NEW S, IsFiniteSet(S)
  PROVE  MapThenSumSet(LAMBDA p : perStream[p[1]][p[2]].frames, S)
           = SumOf([p \in S |-> perStream[p[1]][p[2]].frames], S)
<1> DEFINE f == [p \in S |-> perStream[p[1]][p[2]].frames]
           F(g) == g = [s \in SUBSET S |->
                         IF s = {} THEN 0
                         ELSE perStream[Pick(s)[1]][Pick(s)[2]].frames
                                + g[s \ {Pick(s)}]]
           m == CHOOSE g : F(g)
           n == CHOOSE g : IsSum(f, S, g)
<1>1. MapThenSumSet(LAMBDA p : perStream[p[1]][p[2]].frames, S) = m[S]
  BY DEF MapThenSumSet, MapThenFoldSet, Pick
<1>2. \A s \in SUBSET S :
        s # {} => f[Pick(s)] = perStream[Pick(s)[1]][Pick(s)[2]].frames
  <2>1. \A s \in SUBSET S : s # {} => Pick(s) \in S
    BY DEF Pick
  <2> QED
    BY <2>1
<1> HIDE DEF f
<1>3. ASSUME NEW g PROVE F(g) <=> IsSum(f, S, g)
  <2>1. [s \in SUBSET S |-> IF s = {} THEN 0
                            ELSE perStream[Pick(s)[1]][Pick(s)[2]].frames
                                   + g[s \ {Pick(s)}]]
          = [s \in SUBSET S |-> IF s = {} THEN 0
                                ELSE f[Pick(s)] + g[s \ {Pick(s)}]]
    BY <1>2
  <2> QED
    BY <2>1 DEF IsSum
<1> HIDE DEF F
<1>4. IsSum(f, S, n) /\ F(n)
  BY <1>3, SumExists
<1>5. F(m)
  BY <1>4
<1>6. m = n
  <2>1. IsSum(f, S, m)
    BY <1>3, <1>5
  <2> HIDE DEF m, n
  <2> QED
    BY <1>4, <2>1, SumUnique
<1> QED
  BY <1>1, <1>6 DEF SumOf, f

\* Each stream's list has its windows in order, from the first to the last it
\* closed.
Contiguous(perStream, cur, frames) ==
  /\ DOMAIN perStream = DOMAIN cur
  /\ \A s \in DOMAIN cur :
       /\ cur[s] \in Nat
       /\ DOMAIN perStream[s] = 1 .. cur[s]
       /\ \A k \in 1 .. cur[s] :
            /\ perStream[s][k] = [window |-> k - 1,
                                  frames |-> frames[s][k - 1]]
            /\ frames[s][k - 1] \in Nat

\* What the streams of E delivered in a window, and the streams that closed it.
InWindow(frames, E, w) == [s \in E |-> frames[s][w]]
ClosedBy(cur, w) == {s \in DOMAIN cur : cur[s] > w}

\* What AggregateSamples makes of contiguous series: the windows that any stream
\* closed, and in each the sum over the streams that closed it.
LEMMA AggregateSums ==
  ASSUME NEW E, IsFiniteSet(E), NEW perStream, NEW cur, DOMAIN cur = E,
         NEW frames, Contiguous(perStream, cur, frames)
  PROVE  /\ \A w : w \in DOMAIN AggregateSamples(perStream) <=>
                     w \in Nat /\ \E s \in E : w < cur[s]
         /\ \A w \in DOMAIN AggregateSamples(perStream) :
              AggregateSamples(perStream)[w] =
                SumOf(InWindow(frames, E, w), ClosedBy(cur, w))
<1> DEFINE windowOf(p) == perStream[p[1]][p[2]].window
           at(w) == {p \in SamplesIn(perStream) : windowOf(p) = w}
           windows == {windowOf(p) : p \in SamplesIn(perStream)}
<1>1. \A s \in E : cur[s] \in Nat
  BY DEF Contiguous
<1>2. \A p : p \in SamplesIn(perStream) <=>
               \E s \in E : \E k \in 1 .. cur[s] : p = <<s, k>>
  BY DEF SamplesIn, Contiguous
<1>3. ASSUME NEW s \in E, NEW k \in 1 .. cur[s]
      PROVE  windowOf(<<s, k>>) = k - 1
  <2>1. perStream[s][k] = [window |-> k - 1, frames |-> frames[s][k - 1]]
    BY DEF Contiguous
  <2> QED
    BY <2>1
<1>4. AggregateSamples(perStream) =
        [w \in windows |->
           MapThenSumSet(LAMBDA p : perStream[p[1]][p[2]].frames, at(w))]
  BY DEF AggregateSamples
<1> HIDE DEF windowOf
<1>5. windows = {w \in Nat : \E s \in E : w < cur[s]}
  <2>1. ASSUME NEW p \in SamplesIn(perStream)
        PROVE  windowOf(p) \in Nat /\ \E s \in E : windowOf(p) < cur[s]
    <3>1. PICK s \in E : \E k \in 1 .. cur[s] : p = <<s, k>>
      BY <1>2
    <3>2. PICK k \in 1 .. cur[s] : p = <<s, k>>
      BY <3>1
    <3>3. windowOf(p) = k - 1 /\ cur[s] \in Nat
      BY <1>1, <1>3, <3>2
    <3> QED
      BY <3>2, <3>3
  <2>2. ASSUME NEW w \in Nat, NEW s \in E, w < cur[s]
        PROVE  \E p \in SamplesIn(perStream) : windowOf(p) = w
    <3>1. w + 1 \in 1 .. cur[s] /\ (w + 1) - 1 = w
      BY <1>1, <2>2
    <3>2. <<s, w + 1>> \in SamplesIn(perStream)
      BY <1>2, <3>1
    <3>3. windowOf(<<s, w + 1>>) = w
      BY <1>3, <3>1
    <3> QED
      BY <3>2, <3>3
  <2> QED
    BY <2>1, <2>2
<1>6. ASSUME NEW w \in Nat
      PROVE  MapThenSumSet(LAMBDA p : perStream[p[1]][p[2]].frames, at(w)) =
               SumOf(InWindow(frames, E, w), ClosedBy(cur, w))
  <2> DEFINE T == {s \in E : cur[s] > w}
             b == [s \in T |-> <<s, w + 1>>]
             f == [p \in at(w) |-> perStream[p[1]][p[2]].frames]
             h == [s \in E |-> frames[s][w]]
  <2>1. IsFiniteSet(T)
    BY FS_Subset
  <2>2. \A s \in T : w + 1 \in 1 .. cur[s] /\ (w + 1) - 1 = w
    BY <1>1
  <2>3. ASSUME NEW s \in T PROVE b[s] \in at(w)
    <3>1. b[s] = <<s, w + 1>> /\ s \in E
      BY <2>3
    <3>2. b[s] \in SamplesIn(perStream)
      BY <1>2, <2>2, <2>3, <3>1
    <3>3. windowOf(b[s]) = w
      BY <1>3, <2>2, <2>3, <3>1
    <3> QED
      BY <3>2, <3>3
  <2>6. ASSUME NEW p \in at(w) PROVE \E s \in T : p = b[s]
    <3>1. PICK s \in E : \E k \in 1 .. cur[s] : p = <<s, k>>
      BY <1>2, <2>6
    <3>2. PICK k \in 1 .. cur[s] : p = <<s, k>>
      BY <3>1
    <3>3. k - 1 = w
      BY <1>3, <2>6, <3>2
    <3>4. k = w + 1 /\ cur[s] > w
      BY <1>1, <3>2, <3>3
    <3> QED
      BY <3>1, <3>2, <3>4
  <2>4. \A s, t \in T : b[s] = b[t] => s = t
    OBVIOUS
  <2>5. ASSUME NEW s \in T PROVE h[s] \in Nat /\ f[b[s]] = h[s]
    <3>1. s \in E /\ b[s] = <<s, w + 1>> /\ h[s] = frames[s][w]
      BY <2>5
    <3>2. /\ perStream[s][w + 1] = [window |-> w, frames |-> frames[s][w]]
          /\ frames[s][w] \in Nat
      BY <2>2, <2>5, <3>1 DEF Contiguous
    <3>3. b[s] \in at(w)
      BY <2>3, <2>5
    <3>4. f[b[s]] = perStream[s][w + 1].frames
      BY <3>1, <3>3
    <3>5. perStream[s][w + 1].frames = frames[s][w]
      BY <3>2
    <3> HIDE DEF f, b, h
    <3> QED
      BY <3>1, <3>2, <3>4, <3>5
  <2>7. IsFiniteSet(at(w)) /\ SumOf(f, at(w)) = SumOf(h, T)
    <3> DEFINE S == at(w)
    <3>1. /\ b \in [T -> S]
          /\ \A p \in S : \E s \in T : p = b[s]
          /\ \A s \in T : h[s] \in Nat /\ f[b[s]] = h[s]
      BY <2>3, <2>5, <2>6
    <3> HIDE DEF S, T, b, f, h
    <3>2. IsFiniteSet(S) /\ SumOf(f, S) = SumOf(h, T)
      BY <2>1, <2>4, <3>1, SumReindexed
    <3> QED
      BY <3>2 DEF S
  <2>8. MapThenSumSet(LAMBDA p : perStream[p[1]][p[2]].frames, at(w)) =
          SumOf(f, at(w))
    <3> HIDE DEF at
    <3> QED
      BY <2>7, SumOfFrames
  <2>9. T = ClosedBy(cur, w) /\ h = InWindow(frames, E, w)
    BY DEF ClosedBy, InWindow
  <2> HIDE DEF at, f, h, T
  <2> QED
    BY <2>7, <2>8, <2>9
<1> HIDE DEF at, windows
<1>7. DOMAIN AggregateSamples(perStream) = windows
  BY <1>4
<1>8. \A w \in windows :
        AggregateSamples(perStream)[w] =
          MapThenSumSet(LAMBDA p : perStream[p[1]][p[2]].frames, at(w))
  BY <1>4
<1>9. windows \subseteq Nat
  BY <1>5
<1> QED
  BY <1>5, <1>6, <1>7, <1>8, <1>9

-----------------------------------------------------------------------------
(* Percentiles *)

UpTo(values, x) == {i \in DOMAIN values : values[i] <= x}
Under(values, x) == {i \in DOMAIN values : values[i] < x}

\* Every position of a sorted list has its value: the least that more than k
\* values do not exceed.
LEMMA SortedExists ==
  ASSUME NEW D, IsFiniteSet(D), NEW values \in [D -> Nat],
         NEW k \in Nat, k < Cardinality(D)
  PROVE  Sorted(values, k) \in Range(values)
<1> DEFINE many == {x \in Range(values) : Cardinality(UpTo(values, x)) > k}
<1>1. \A x : /\ IsFiniteSet(UpTo(values, x)) /\ IsFiniteSet(Under(values, x))
             /\ Cardinality(UpTo(values, x)) \in Nat
             /\ Cardinality(Under(values, x)) \in Nat
  <2>1. \A x : UpTo(values, x) \subseteq D /\ Under(values, x) \subseteq D
    BY DEF UpTo, Under
  <2> QED
    BY <2>1, FS_Subset, FS_CardinalityType
<1>2. /\ \A i \in D : values[i] \in Nat /\ values[i] \in Range(values)
      /\ \A x \in Range(values) : x \in Nat /\ \E i \in D : values[i] = x
  BY DEF Range
<1>3. IsFiniteSet(Range(values))
  <2>1. values \in Surjection(D, Range(values))
    BY <1>2 DEF Surjection
  <2> QED
    BY <2>1, FS_Surjection
<1>4. ASSUME NEW E \in SUBSET D, E # {}
      PROVE  \E i \in E : \A j \in E : values[j] <= values[i]
  <2> DEFINE R == {x \in Range(values) : \E i \in E : values[i] = x}
  <2>1. IsFiniteSet(R)
    BY <1>3, FS_Subset
  <2>2. R \subseteq Int
    BY <1>2
  <2>3. \A i \in E : values[i] \in R
    BY <1>2
  <2>4. R # {}
    BY <1>4, <2>3
  <2>5. Max(R) \in R /\ \A x \in R : x <= Max(R)
    <3> HIDE DEF R
    <3> QED
      BY <2>1, <2>2, <2>4, MaxIsLargest
  <2>6. PICK i \in E : values[i] = Max(R)
    BY <2>5
  <2> HIDE DEF R
  <2> QED
    BY <2>3, <2>5, <2>6
<1>5. many # {}
  <2>1. D # {}
    BY FS_EmptySet
  <2>2. PICK i \in D : \A j \in D : values[j] <= values[i]
    BY <1>4, <2>1
  <2>3. UpTo(values, values[i]) = D
    BY <2>2 DEF UpTo
  <2>4. values[i] \in Range(values)
    BY <1>2
  <2> QED
    BY <2>3, <2>4
<1>6. PICK x \in many : \A y \in many : x <= y
  <2>1. many \subseteq Nat
    BY <1>2
  <2> HIDE DEF many
  <2> QED
    BY <1>5, <2>1, LeastExists
<1>7. ASSUME Cardinality(Under(values, x)) > k
      PROVE  FALSE
  <2>1. Under(values, x) # {}
    BY <1>7, FS_EmptySet
  <2>2. Under(values, x) \in SUBSET D
    BY DEF Under
  <2>3. PICK i \in Under(values, x) :
          \A j \in Under(values, x) : values[j] <= values[i]
    BY <1>4, <2>1, <2>2
  <2>4. i \in D /\ values[i] < x /\ x \in Nat
    BY <1>2, <1>6, <2>3 DEF Under
  <2>5. UpTo(values, values[i]) = Under(values, x)
    BY <1>2, <2>3, <2>4 DEF UpTo, Under
  <2>6. values[i] \in many
    BY <1>2, <1>7, <2>4, <2>5
  <2> HIDE DEF many
  <2> QED
    BY <1>2, <1>6, <2>4, <2>6
<1>8. /\ x \in Range(values)
      /\ Cardinality({i \in DOMAIN values : values[i] < x}) <= k
      /\ Cardinality({i \in DOMAIN values : values[i] <= x}) > k
  <2>1. Cardinality(Under(values, x)) <= k /\ Cardinality(UpTo(values, x)) > k
    BY <1>1, <1>6, <1>7
  <2> QED
    BY <1>6, <2>1 DEF Under, UpTo
<1> QED
  BY <1>8 DEF Sorted

LEMMA PercentileIsNumber ==
  ASSUME NEW D, IsFiniteSet(D), NEW values \in [D -> Nat], NEW p \in 0 .. 100
  PROVE  Percentile(values, p) \in Int
<1> DEFINE n == Cardinality(D)
           k == p * (n - 1)
           lo == k \div 100
           hi == IF k % 100 = 0 THEN lo ELSE lo + 1
<1>1. DOMAIN values = D
  OBVIOUS
<1>2. CASE D = {}
  BY <1>1, <1>2 DEF Percentile
<1>3. CASE D # {}
  <2>1. n \in Nat /\ n # 0
    BY <1>3, FS_EmptySet, FS_CardinalityType
  <2>2. k \in Nat /\ k <= 100 * (n - 1)
    <3> HIDE DEF n
    <3>1. n - 1 \in Nat
      BY <2>1
    <3> DEFINE m == n - 1
    <3>2. \A m1 \in Nat : p * m1 \in Nat /\ p * m1 <= 100 * m1
      <4>1. \A m1 \in Nat : (100 - p) * m1 \in Nat
        OBVIOUS
      <4> QED
        BY <4>1
    <3> QED
      BY <3>1, <3>2
  <2> HIDE DEF k, n
  <2>3. lo \in Nat /\ hi \in Nat /\ lo < n /\ hi < n
    BY <2>1, <2>2
  <2>4. k % 100 \in Nat
    BY <2>2
  <2> HIDE DEF lo, hi
  <2>5. /\ Sorted(values, lo) \in Range(values)
        /\ Sorted(values, hi) \in Range(values)
    BY <2>1, <2>3, SortedExists DEF n
  <2>6. Range(values) \subseteq Nat
    BY DEF Range
  <2> DEFINE a == Sorted(values, lo)
             b == Sorted(values, hi)
  <2>7. a \in Nat /\ b \in Nat
    BY <2>5, <2>6
  <2> HIDE DEF a, b
  <2>8. \A x, y \in Int : (x * y) \div 100 \in Int
    OBVIOUS
  <2>9. b - a \in Int
    BY <2>7
  <2>10. a + ((b - a) * (k % 100)) \div 100 \in Int
    BY <2>4, <2>7, <2>8, <2>9
  <2> QED
    BY <1>1, <1>3, <2>10 DEF Percentile, a, b, lo, hi, k, n
<1> QED
  BY <1>2, <1>3

-----------------------------------------------------------------------------
(* Of two numbers *)

LEMMA LargerOfTwo ==
  ASSUME NEW a \in Int, NEW b \in Int
  PROVE  /\ Max({a, b}) \in {a, b}
         /\ Max({a, b}) >= a /\ Max({a, b}) >= b
<1>1. \E x \in {a, b} : \A y \in {a, b} : x >= y
  <2>1. CASE a >= b
    BY <2>1
  <2>2. CASE ~(a >= b)
    BY <2>2
  <2> QED
    BY <2>1, <2>2
<1> QED
  BY <1>1 DEF Max

LEMMA SmallerOfTwo ==
  ASSUME NEW a \in Int, NEW b \in Int
  PROVE  /\ Min({a, b}) \in {a, b}
         /\ Min({a, b}) <= a /\ Min({a, b}) <= b
<1>1. \E x \in {a, b} : \A y \in {a, b} : x =< y
  <2>1. CASE a <= b
    BY <2>1
  <2>2. CASE ~(a <= b)
    BY <2>2
  <2> QED
    BY <2>1, <2>2
<1> QED
  BY <1>1 DEF Min

\* Half of the pings are answered or they are not, in percent as in numbers.
LEMMA HalfAnswered ==
  ASSUME NEW latency, latency.count \in Nat, latency.sent \in Nat
  PROVE  /\ AnsweredRatio(latency) \in Int
         /\ AnsweredRatio(latency) < 50 <=> 2 * latency.count < latency.sent
<1> DEFINE c == latency.count
           s == latency.sent
           q == (100 * c) \div s
<1>1. CASE s = 0
  BY <1>1 DEF AnsweredRatio
<1>2. CASE s # 0
  <2> HIDE DEF c, s
  <2>1. c \in Nat /\ s \in Nat /\ s > 0
    BY <1>2 DEF c, s
  <2>2. q \in Int /\ s * q <= 100 * c /\ 100 * c < s * (q + 1)
    BY <2>1
  <2> HIDE DEF q
  <2>3. q < 50 => 2 * c < s
    <3> SUFFICES ASSUME q < 50 PROVE 2 * c < s
      OBVIOUS
    <3>1. q + 1 <= 50
      BY <2>2
    <3>2. s * (50 - (q + 1)) >= 0
      <4>1. 50 - (q + 1) \in Nat
        BY <2>2, <3>1
      <4>2. \A m \in Nat : s * m >= 0
        BY <2>1
      <4> QED
        BY <4>1, <4>2
    <3>3. s * (q + 1) <= s * 50
      BY <2>1, <2>2, <3>2
    <3> QED
      BY <2>1, <2>2, <3>3
  <2>4. q >= 50 => 2 * c >= s
    <3> SUFFICES ASSUME q >= 50 PROVE 2 * c >= s
      OBVIOUS
    <3>1. s * (q - 50) >= 0
      <4>1. q - 50 \in Nat
        BY <2>2
      <4>2. \A m \in Nat : s * m >= 0
        BY <2>1
      <4> QED
        BY <4>1, <4>2
    <3>2. s * q >= s * 50
      BY <2>1, <2>2, <3>1
    <3> QED
      BY <2>1, <2>2, <3>2
  <2>5. Min({100, q}) \in {100, q} /\ Min({100, q}) <= q
    <3>1. \A a, b \in Int : Min({a, b}) \in {a, b} /\ Min({a, b}) <= b
      BY SmallerOfTwo
    <3>2. 100 \in Int
      OBVIOUS
    <3> QED
      BY <2>2, <3>1, <3>2
  <2>6. AnsweredRatio(latency) = Min({100, q})
    BY <2>1 DEF AnsweredRatio, c, s, q
  <2>7. AnsweredRatio(latency) < 50 <=> q < 50
    BY <2>2, <2>5, <2>6
  <2>8. AnsweredRatio(latency) \in Int
    BY <2>2, <2>5, <2>6
  <2>9. q < 50 <=> 2 * c < s
    BY <2>1, <2>2, <2>3, <2>4
  <2> QED
    BY <2>7, <2>8, <2>9 DEF c, s
<1> QED
  BY <1>1, <1>2

-----------------------------------------------------------------------------
(* Bufferbloat *)

\* The latency of a run in numbers.
LatencyOK(latency) ==
  /\ latency.lag \in Nat
  /\ latency.idle.p50 \in Int
  /\ \A d \in {"download", "upload"} :
       /\ latency[d].count \in Nat /\ latency[d].sent \in Nat
       /\ latency[d].p95 \in Int

\* What Increase says of it.
LEMMA IncreaseFacts ==
  ASSUME NEW latency, LatencyOK(latency), NEW peak \in Int,
         NEW bb, bb = Increase(latency, peak)
  PROVE  /\ bb.delta \in Nat
         /\ bb.lag = latency.lag
         /\ bb.buffer = bb.delta * peak * 125
         /\ bb.grade \in {"C", "D", "F"} => bb.delta >= 30
         /\ bb.answered \in Int
         /\ bb.answered < 50 <=>
              \E d \in {"download", "upload"} :
                 2 * latency[d].count < latency[d].sent
<1> DEFINE loaded == Max({latency.download.p95, latency.upload.p95})
           above == loaded - latency.idle.p50
           delta == Max({0, above})
           dl == AnsweredRatio(latency.download)
           ul == AnsweredRatio(latency.upload)
<1>1. /\ latency.lag \in Nat /\ latency.idle.p50 \in Int
      /\ latency.download.p95 \in Int /\ latency.upload.p95 \in Int
      /\ latency.download.count \in Nat /\ latency.download.sent \in Nat
      /\ latency.upload.count \in Nat /\ latency.upload.sent \in Nat
  BY DEF LatencyOK
<1>2. loaded \in Int
  <2>1. loaded \in {latency.download.p95, latency.upload.p95}
    BY <1>1, LargerOfTwo
  <2> HIDE DEF loaded
  <2> QED
    BY <1>1, <2>1
<1>3. delta \in Nat
  <2>1. above \in Int /\ 0 \in Int
    BY <1>1, <1>2
  <2> HIDE DEF above
  <2>2. delta \in {0, above} /\ delta >= 0
    BY <2>1, LargerOfTwo
  <2> HIDE DEF delta
  <2> QED
    BY <2>1, <2>2
<1>4. /\ dl \in Int
      /\ dl < 50 <=> 2 * latency.download.count < latency.download.sent
      /\ ul \in Int
      /\ ul < 50 <=> 2 * latency.upload.count < latency.upload.sent
  BY <1>1, HalfAnswered
<1>5. /\ bb.delta = delta /\ bb.lag = latency.lag
      /\ bb.buffer = delta * peak * 125
      /\ bb.grade = GradeBufferbloat(delta)
      /\ bb.answered = Min({dl, ul})
  BY DEF Increase, ImpliedBuffer
<1> HIDE DEF delta, dl, ul
<1>6. /\ Min({dl, ul}) \in {dl, ul} /\ Min({dl, ul}) <= dl
      /\ Min({dl, ul}) <= ul
  BY <1>4, SmallerOfTwo
<1>7. bb.grade \in {"C", "D", "F"} => delta >= 30
  <2>1. delta < 5 => bb.grade = "A"
    BY <1>3, <1>5 DEF GradeBufferbloat
  <2>2. 5 <= delta /\ delta < 30 => bb.grade = "B"
    BY <1>3, <1>5 DEF GradeBufferbloat
  <2> QED
    BY <1>3, <2>1, <2>2
<1>8. bb.answered \in Int /\ (bb.answered < 50 <=> dl < 50 \/ ul < 50)
  BY <1>4, <1>5, <1>6
<1> QED
  BY <1>3, <1>4, <1>5, <1>7, <1>8

\* What speaks against an increase.
HalfLost(latency) ==
  \E d \in {"download", "upload"} : 2 * latency[d].count < latency[d].sent
TooFull(rate, delta) == rate * delta * 125 > 256 * 1024 * 1024
TimerLate(lag, delta) == lag >= 15 /\ 2 * lag >= delta

\* What a grade of C or worse stands on, and what each doubt comes from.
LEMMA BlameOf ==
  ASSUME NEW latency, LatencyOK(latency), NEW down \in Int, NEW up \in Int,
         NEW bb, bb = ComputeBufferbloat(latency, Max({down, up})),
         bb.grade \in {"C", "D", "F"}
  PROVE  /\ bb.trustworthy <=> LagOK(bb) /\ AnsweredOK(bb) /\ PlausibleOK(bb)
         /\ ~AnsweredOK(bb) <=> HalfLost(latency)
         /\ ~PlausibleOK(bb) <=>
              TooFull(down, bb.delta) \/ TooFull(up, bb.delta)
         /\ ~LagOK(bb) <=> TimerLate(latency.lag, bb.delta)
<1> DEFINE peak == Max({down, up})
           inc == Increase(latency, peak)
<1>1. peak \in {down, up} /\ peak >= down /\ peak >= up
  BY LargerOfTwo
<1>2. peak \in Int
  BY <1>1
<1> HIDE DEF peak
<1>3. bb = IF ~Measured(latency) THEN NotMeasured
           ELSE [inc EXCEPT !.trustworthy =
                   \/ inc.delta < bufferbloatConcernMs
                   \/ LagOK(inc) /\ AnsweredOK(inc) /\ PlausibleOK(inc)]
  BY DEF ComputeBufferbloat, peak
<1>4. NotMeasured.grade = "?"
  BY DEF NotMeasured
<1>5. Measured(latency)
  BY <1>3, <1>4
<1>6. inc = [grade |-> inc.grade, delta |-> inc.delta, lag |-> inc.lag,
             answered |-> inc.answered, buffer |-> inc.buffer,
             trustworthy |-> inc.trustworthy]
  BY DEF Increase
<1> HIDE DEF inc
<1>7. /\ bb.grade = inc.grade /\ bb.delta = inc.delta /\ bb.lag = inc.lag
      /\ bb.answered = inc.answered /\ bb.buffer = inc.buffer
      /\ bb.trustworthy = \/ inc.delta < bufferbloatConcernMs
                          \/ LagOK(inc) /\ AnsweredOK(inc) /\ PlausibleOK(inc)
  BY <1>3, <1>5, <1>6
<1>8. /\ inc.delta \in Nat
      /\ inc.lag = latency.lag
      /\ inc.buffer = inc.delta * peak * 125
      /\ inc.grade \in {"C", "D", "F"} => inc.delta >= 30
      /\ inc.answered \in Int
      /\ inc.answered < 50 <=>
           \E d \in {"download", "upload"} :
              2 * latency[d].count < latency[d].sent
  BY <1>2, IncreaseFacts DEF inc
<1>9. ~(inc.delta < bufferbloatConcernMs)
  BY <1>7, <1>8 DEF bufferbloatConcernMs
<1>10. /\ LagOK(bb) <=> LagOK(inc)
       /\ AnsweredOK(bb) <=> AnsweredOK(inc)
       /\ PlausibleOK(bb) <=> PlausibleOK(inc)
  BY <1>7 DEF LagOK, AnsweredOK, PlausibleOK
<1>11. bb.trustworthy <=> LagOK(bb) /\ AnsweredOK(bb) /\ PlausibleOK(bb)
  BY <1>7, <1>9, <1>10
<1>12. ~AnsweredOK(bb) <=> \E d \in {"download", "upload"} :
                              2 * latency[d].count < latency[d].sent
  BY <1>7, <1>8 DEF AnsweredOK, minAnsweredRatio
<1>13. ~PlausibleOK(bb) <=> \/ down * bb.delta * 125 > 256 * 1024 * 1024
                            \/ up * bb.delta * 125 > 256 * 1024 * 1024
  <2> DEFINE late == bb.delta
  <2>1. late \in Nat /\ bb.buffer = late * peak * 125
    BY <1>7, <1>8
  <2> HIDE DEF late
  <2>2. \A x \in Int : x <= peak => x * late <= late * peak
    <3>1. ASSUME NEW x \in Int, x <= peak
          PROVE  x * late <= late * peak
      <4>1. peak - x \in Nat
        BY <1>2, <3>1
      <4>2. \A m \in Nat : m * late >= 0
        BY <2>1
      <4>3. (peak - x) * late >= 0
        BY <4>1, <4>2
      <4> QED
        BY <1>2, <2>1, <4>3
    <3> QED
      BY <3>1
  <2>3. down * late <= late * peak /\ up * late <= late * peak
    BY <1>1, <2>2
  <2>4. late * peak = down * late \/ late * peak = up * late
    BY <1>1, <1>2, <2>1
  <2>5. /\ late * peak \in Int /\ down * late \in Int /\ up * late \in Int
    BY <1>2, <2>1
  <2>6. ~PlausibleOK(bb) <=> late * peak * 125 > 256 * 1024 * 1024
    BY <2>1, <2>5 DEF PlausibleOK, maxPlausibleBufferBytes
  <2> DEFINE a == late * peak
             b == down * late
             c == up * late
  <2> HIDE DEF a, b, c
  <2>7. a * 125 > 256 * 1024 * 1024 <=> \/ b * 125 > 256 * 1024 * 1024
                                       \/ c * 125 > 256 * 1024 * 1024
    BY <2>3, <2>4, <2>5 DEF a, b, c
  <2> QED
    BY <2>6, <2>7 DEF a, b, c, late
<1>14. ~LagOK(bb) <=> latency.lag >= 15 /\ 2 * latency.lag >= bb.delta
  <2>1. latency.lag \in Nat
    BY DEF LatencyOK
  <2> QED
    BY <1>7, <1>8, <2>1 DEF LagOK, schedulingLagNoiseMs
<1> QED
  BY <1>11, <1>12, <1>13, <1>14 DEF HalfLost, TooFull, TimerLate
=============================================================================

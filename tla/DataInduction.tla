---------------------------- MODULE DataInduction ----------------------------
(***************************************************************************)
(* Induction over the data of the models.  The provers cannot instantiate an *)
(* induction theorem that takes a predicate, but they can use a set: the      *)
(* numbers for which a fact holds.  From that follow the facts about sums    *)
(* that the proofs of the totals and of the output need.                     *)
(***************************************************************************)
EXTENDS Integers, FiniteSets, FiniteSetTheorems, WellFoundedInduction, TLAPS

(* A set with 0 and with the number after each of its numbers has all of them:  *)
(* otherwise the least number that is missing has one before it.                *)
LEMMA SetInduction ==
    ASSUME NEW S, 0 \in S, \A n \in Nat : n \in S => n + 1 \in S
    PROVE  Nat \subseteq S
  <1> DEFINE missing == Nat \ S
             less == {pair \in Nat \X Nat : pair[1] < pair[2]}
  <1> SUFFICES ASSUME missing # {} PROVE FALSE
    OBVIOUS
  <1>1. IsWellFoundedOn(less, Nat)
    BY NatLessThanWellFounded DEF OpToRel
  <1>2. \A m, n \in Nat : m < n => <<m, n>> \in less
    OBVIOUS
  <1> HIDE DEF less
  <1>3. PICK n \in missing : \A m \in missing : <<m, n>> \notin less
    <2>1. missing \subseteq Nat
      OBVIOUS
    <2> QED BY <1>1, <2>1, WFMin
  <1>4. n \in Nat /\ n # 0
    OBVIOUS
  <1>5. n - 1 \in Nat /\ n - 1 < n /\ (n - 1) + 1 = n
    BY <1>4
  <1>6. n - 1 \in S
    BY <1>2, <1>3, <1>4, <1>5
  <1> QED BY <1>3, <1>5, <1>6

(* The same for the numbers up to a bound. *)
LEMMA UpToInduction ==
    ASSUME NEW bound \in Nat, NEW S, 0 \in S,
           \A n \in 0 .. bound - 1 : n \in S => n + 1 \in S
    PROVE  0 .. bound \subseteq S
  <1> DEFINE T == {n \in Nat : n <= bound => n \in S}
  <1>1. 0 \in T
    OBVIOUS
  <1>2. \A n \in Nat : n \in T => n + 1 \in T
    OBVIOUS
  <1>3. Nat \subseteq T
    <2> HIDE DEF T
    <2> QED BY <1>1, <1>2, SetInduction
  <1> QED BY <1>3

------------------------------------------------------------------------------
(* Running sums: the function that is defined by adding one weight at a time     *)
(* exists, so that the definition may be unfolded.                               *)
LEMMA RunningSum ==
    ASSUME NEW bound \in Nat, NEW w, \A n \in 1 .. bound : w[n] \in Nat
    PROVE  \E g \in [0 .. bound -> Nat] :
               g = [n \in 0 .. bound |-> IF n = 0 THEN 0 ELSE g[n - 1] + w[n]]
  <1> DEFINE Sums(g, m) ==
                 /\ g \in [0 .. m -> Nat]
                 /\ \A n \in 0 .. m : g[n] = IF n = 0 THEN 0 ELSE g[n - 1] + w[n]
             S == {m \in 0 .. bound : \E g : Sums(g, m)}
  <1>1. 0 \in S
    <2> DEFINE g == [n \in 0 .. 0 |-> 0]
    <2>1. Sums(g, 0)
      OBVIOUS
    <2> HIDE DEF Sums, g
    <2> QED BY <2>1
  <1>2. ASSUME NEW m \in 0 .. bound - 1, m \in S
        PROVE  m + 1 \in S
    <2>1. PICK g : Sums(g, m)
      BY <1>2
    <2> DEFINE h == [n \in 0 .. m + 1 |-> IF n = m + 1 THEN g[m] + w[m + 1] ELSE g[n]]
    <2>2. g[m] \in Nat /\ w[m + 1] \in Nat
      BY <2>1
    <2>3. h \in [0 .. m + 1 -> Nat]
      BY <2>1, <2>2
    <2>4. ASSUME NEW n \in 0 .. m + 1
          PROVE  h[n] = IF n = 0 THEN 0 ELSE h[n - 1] + w[n]
      <3>1. CASE n = m + 1
        BY <3>1
      <3>2. CASE n # m + 1
        BY <2>1, <3>2
      <3> QED BY <3>1, <3>2
    <2>5. Sums(h, m + 1)
      <3> HIDE DEF h
      <3> QED BY <2>3, <2>4
    <2> HIDE DEF Sums, h
    <2> QED BY <2>5
  <1>3. bound \in S
    <2> HIDE DEF S
    <2>1. 0 .. bound \subseteq S
      BY <1>1, <1>2, UpToInduction
    <2> QED BY <2>1
  <1>4. PICK g : Sums(g, bound)
    BY <1>3
  <1>5. g = [n \in 0 .. bound |-> IF n = 0 THEN 0 ELSE g[n - 1] + w[n]]
    BY <1>4
  <1> QED BY <1>4, <1>5

------------------------------------------------------------------------------
(* Sums over finite sets, the way the folds of the community modules add: an     *)
(* element is taken out, its weight is added to the sum of the rest.             *)
Pick(s) == CHOOSE x \in s : TRUE

Adds(g, w, D) ==
    \A s \in SUBSET D : g[s] = IF s = {} THEN 0 ELSE w[Pick(s)] + g[s \ {Pick(s)}]

IsSum(g, w, D) == g \in [SUBSET D -> Nat] /\ Adds(g, w, D)

(* A subset of a finite set has a number of elements, one less without one.      *)
LEMMA SubsetSizes ==
    ASSUME NEW D, IsFiniteSet(D), NEW s \in SUBSET D
    PROVE  /\ Cardinality(s) \in 0 .. Cardinality(D)
           /\ Cardinality(s) = 0 <=> s = {}
           /\ s # {} => Pick(s) \in s
           /\ \A x \in s : s \ {x} \in SUBSET D /\ Cardinality(s \ {x}) = Cardinality(s) - 1
  <1>1. IsFiniteSet(s) /\ Cardinality(s) <= Cardinality(D) /\ Cardinality(D) \in Nat
    BY FS_Subset, FS_CardinalityType
  <1>2. Cardinality(s) \in Nat
    BY <1>1, FS_CardinalityType
  <1>3. Cardinality(s) = 0 <=> s = {}
    BY <1>1, FS_EmptySet
  <1>4. s # {} => Pick(s) \in s
    BY DEF Pick
  <1>5. \A x \in s : Cardinality(s \ {x}) = Cardinality(s) - 1
    BY <1>1, FS_RemoveElement
  <1> QED BY <1>1, <1>2, <1>3, <1>4, <1>5

(* What holds of the subsets of every size holds of all subsets. *)
LEMMA SubsetInduction ==
    ASSUME NEW D, IsFiniteSet(D), NEW F, {} \in F,
           \A s \in SUBSET D : s # {} /\ (\A x \in s : s \ {x} \in F) => s \in F
    PROVE  SUBSET D \subseteq F
  <1> DEFINE S == {m \in Nat : \A s \in SUBSET D : Cardinality(s) = m => s \in F}
  <1>1. 0 \in S
    BY SubsetSizes
  <1>2. ASSUME NEW m \in Nat, m \in S PROVE m + 1 \in S
    <2>1. ASSUME NEW s \in SUBSET D, Cardinality(s) = m + 1 PROVE s \in F
      <3>1. s # {}
        BY <2>1, SubsetSizes
      <3>2. ASSUME NEW x \in s PROVE s \ {x} \in F
        <4>1. s \ {x} \in SUBSET D /\ Cardinality(s \ {x}) = m
          BY <2>1, SubsetSizes
        <4> QED BY <1>2, <4>1
      <3> QED BY <3>1, <3>2
    <2> QED BY <2>1
  <1>3. Nat \subseteq S
    <2> HIDE DEF S
    <2> QED BY <1>1, <1>2, SetInduction
  <1>4. ASSUME NEW s \in SUBSET D PROVE s \in F
    <2>1. Cardinality(s) \in Nat
      BY SubsetSizes
    <2> QED BY <1>3, <2>1
  <1> QED BY <1>4

LEMMA SumExists ==
    ASSUME NEW D, IsFiniteSet(D), NEW w, \A x \in D : w[x] \in Nat
    PROVE  \E g : IsSum(g, w, D)
  <1> DEFINE Level(m) == {s \in SUBSET D : Cardinality(s) <= m}
             SumUpTo(g, m) ==
                 /\ g \in [Level(m) -> Nat]
                 /\ \A s \in Level(m) :
                        g[s] = IF s = {} THEN 0 ELSE w[Pick(s)] + g[s \ {Pick(s)}]
             S == {m \in Nat : \E g : SumUpTo(g, m)}
  <1>1. 0 \in S
    <2> DEFINE g == [s \in Level(0) |-> 0]
    <2>1. \A s \in Level(0) : s = {}
      BY SubsetSizes
    <2>2. g \in [Level(0) -> Nat] /\ \A s \in Level(0) : g[s] = 0
      <3> HIDE DEF Level
      <3> QED OBVIOUS
    <2>3. SumUpTo(g, 0)
      <3> HIDE DEF g, Level
      <3> QED BY <2>1, <2>2
    <2> HIDE DEF SumUpTo, g
    <2> QED BY <2>3
  <1>2. ASSUME NEW m \in Nat, m \in S PROVE m + 1 \in S
    <2>1. PICK g : SumUpTo(g, m)
      BY <1>2
    <2> DEFINE h == [s \in Level(m + 1) |->
                        IF s = {} THEN 0 ELSE w[Pick(s)] + g[s \ {Pick(s)}]]
    <2>2. ASSUME NEW s \in Level(m + 1), s # {}
          PROVE  Pick(s) \in D /\ s \ {Pick(s)} \in Level(m) /\ s \ {Pick(s)} \in Level(m + 1)
      <3>1. s \in SUBSET D /\ Cardinality(s) <= m + 1 /\ Cardinality(s) \in Nat
        BY SubsetSizes
      <3>2. Pick(s) \in s /\ Cardinality(s \ {Pick(s)}) = Cardinality(s) - 1
        BY <2>2, <3>1, SubsetSizes
      <3>3. s \ {Pick(s)} \in SUBSET D /\ Pick(s) \in D
        BY <3>1, <3>2
      <3> QED BY <3>1, <3>2, <3>3
    <2>3. ASSUME NEW s \in Level(m) PROVE s \in Level(m + 1) /\ h[s] = g[s]
      <3>1. s \in Level(m + 1)
        BY SubsetSizes
      <3>2. h[s] = IF s = {} THEN 0 ELSE w[Pick(s)] + g[s \ {Pick(s)}]
        <4> HIDE DEF Level
        <4> QED BY <3>1
      <3>3. g[s] = IF s = {} THEN 0 ELSE w[Pick(s)] + g[s \ {Pick(s)}]
        <4> HIDE DEF Level
        <4> QED BY <2>1
      <3> QED BY <3>1, <3>2, <3>3
    <2> HIDE DEF Level
    <2>4. \A s \in Level(m) : g[s] \in Nat
      BY <2>1
    <2>5. h \in [Level(m + 1) -> Nat]
      BY <2>2, <2>4
    <2>6. \A s \in Level(m + 1) :
             h[s] = IF s = {} THEN 0 ELSE w[Pick(s)] + h[s \ {Pick(s)}]
      BY <2>2, <2>3
    <2>7. SumUpTo(h, m + 1)
      <3> HIDE DEF h
      <3> QED BY <2>5, <2>6
    <2> HIDE DEF SumUpTo, h
    <2> QED BY <2>7
  <1>3. Nat \subseteq S
    <2> HIDE DEF S
    <2> QED BY <1>1, <1>2, SetInduction
  <1>4. Cardinality(D) \in Nat
    BY FS_CardinalityType
  <1>5. PICK g : SumUpTo(g, Cardinality(D))
    <2> HIDE DEF SumUpTo
    <2> QED BY <1>3, <1>4
  <1>6. Level(Cardinality(D)) = SUBSET D
    BY SubsetSizes
  <1>7. IsSum(g, w, D)
    <2> HIDE DEF Level
    <2> QED BY <1>5, <1>6 DEF IsSum, Adds
  <1> QED BY <1>7

(* Which element is taken out first makes no difference. *)
LEMMA SumAnyOrder ==
    ASSUME NEW D, IsFiniteSet(D), NEW w, \A x \in D : w[x] \in Nat, NEW g, IsSum(g, w, D)
    PROVE  \A s \in SUBSET D : \A x \in s : g[s] = w[x] + g[s \ {x}]
  <1> DEFINE F == {s \in SUBSET D : \A x \in s : g[s] = w[x] + g[s \ {x}]}
  <1>1. {} \in F
    OBVIOUS
  <1>2. ASSUME NEW s \in SUBSET D, s # {}, \A x \in s : s \ {x} \in F
        PROVE  s \in F
    <2>1. ASSUME NEW x \in s PROVE g[s] = w[x] + g[s \ {x}]
      <3> DEFINE c == Pick(s)
                 rest == s \ {c, x}
      <3>1. c \in s /\ g[s] = w[c] + g[s \ {c}]
        BY <1>2, SubsetSizes DEF IsSum, Adds
      <3> HIDE DEF c
      <3>2. CASE x = c
        BY <3>1, <3>2
      <3>3. CASE x # c
        <4>1. s \ {c} \in F /\ s \ {x} \in F /\ x \in s \ {c} /\ c \in s \ {x}
          BY <1>2, <3>1, <3>3
        <4>2. (s \ {c}) \ {x} = rest /\ (s \ {x}) \ {c} = rest /\ rest \in SUBSET D
          OBVIOUS
        <4>3. g[s \ {c}] = w[x] + g[rest] /\ g[s \ {x}] = w[c] + g[rest]
          BY <4>1, <4>2
        <4>4. w[x] \in Nat /\ w[c] \in Nat /\ g[rest] \in Nat
          BY <3>1, <4>2 DEF IsSum, Adds
        <4> QED BY <3>1, <4>3, <4>4
      <3> QED BY <3>2, <3>3
    <2> QED BY <2>1
  <1>3. SUBSET D \subseteq F
    <2> HIDE DEF F
    <2> QED BY <1>1, <1>2, SubsetInduction
  <1> QED BY <1>3

(* A sum depends on the weights of its elements only. *)
LEMMA SumOfWeights ==
    ASSUME NEW D, IsFiniteSet(D), NEW E, D \subseteq E,
           NEW w, NEW v, \A x \in D : w[x] = v[x],
           NEW g, IsSum(g, w, D), NEW h, IsSum(h, v, E)
    PROVE  \A s \in SUBSET D : g[s] = h[s]
  <1> DEFINE F == {s \in SUBSET D : g[s] = h[s]}
  <1>1. {} \in F
    <2>1. {} \in SUBSET D /\ {} \in SUBSET E
      OBVIOUS
    <2> QED BY <2>1 DEF IsSum, Adds
  <1>2. ASSUME NEW s \in SUBSET D, s # {}, \A x \in s : s \ {x} \in F
        PROVE  s \in F
    <2>1. s \in SUBSET E /\ Pick(s) \in s /\ s \ {Pick(s)} \in F
      BY <1>2, SubsetSizes
    <2>2. g[s] = w[Pick(s)] + g[s \ {Pick(s)}] /\ h[s] = v[Pick(s)] + h[s \ {Pick(s)}]
      BY <1>2, <2>1 DEF IsSum, Adds
    <2> QED BY <2>1, <2>2
  <1>3. SUBSET D \subseteq F
    <2> HIDE DEF F
    <2> QED BY <1>1, <1>2, SubsetInduction
  <1> QED BY <1>3

(* There is one sum only: what adds in the same way has the same values.         *)
LEMMA SumUnique ==
    ASSUME NEW D, IsFiniteSet(D), NEW w, NEW g, IsSum(g, w, D), NEW h, Adds(h, w, D)
    PROVE  h[D] = g[D]
  <1> DEFINE F == {s \in SUBSET D : h[s] = g[s]}
  <1>1. {} \in F
    <2>1. {} \in SUBSET D
      OBVIOUS
    <2> QED BY <2>1 DEF IsSum, Adds
  <1>2. ASSUME NEW s \in SUBSET D, s # {}, \A x \in s : s \ {x} \in F
        PROVE  s \in F
    <2>1. Pick(s) \in s /\ s \ {Pick(s)} \in F
      BY <1>2, SubsetSizes
    <2>2. g[s] = w[Pick(s)] + g[s \ {Pick(s)}] /\ h[s] = w[Pick(s)] + h[s \ {Pick(s)}]
      BY <1>2 DEF IsSum, Adds
    <2> QED BY <2>1, <2>2
  <1>3. SUBSET D \subseteq F
    <2> HIDE DEF F
    <2> QED BY <1>1, <1>2, SubsetInduction
  <1> QED BY <1>3

(* The sum of one more element. *)
LEMMA SumOfOneMore ==
    ASSUME NEW E, IsFiniteSet(E), NEW e \in E, NEW D, D = E \ {e},
           NEW w, NEW v, \A x \in E : v[x] \in Nat, \A x \in D : w[x] = v[x],
           NEW g, IsSum(g, w, D), NEW h, IsSum(h, v, E)
    PROVE  h[E] = g[D] + v[e]
  <1>1. IsFiniteSet(D) /\ D \subseteq E /\ D \in SUBSET D /\ E \in SUBSET E
    BY FS_Subset
  <1>2. g[D] = h[D]
    BY <1>1, SumOfWeights
  <1>3. h[E] = v[e] + h[E \ {e}]
    BY <1>1, SumAnyOrder
  <1>4. h[D] \in Nat /\ v[e] \in Nat
    BY <1>1 DEF IsSum, Adds
  <1> QED BY <1>2, <1>3, <1>4

==============================================================================

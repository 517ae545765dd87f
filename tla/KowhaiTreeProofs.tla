-------------------------- MODULE KowhaiTreeProofs ---------------------------
(***************************************************************************)
(* Proofs about the kowhai tree, for all descriptors, paths, offsets and   *)
(* sizes. A walk only looks ahead: what it computes at a position depends  *)
(* on the positions behind it. So the recursive functions of KowhaiTree    *)
(* exist, and what is said of them holds at every position if it holds at  *)
(* each one behind which it holds everywhere (Down).                       *)
(***************************************************************************)
EXTENDS KowhaiTree, FiniteSetTheorems, WellFoundedInduction, TLAPS

\* Every nonempty set of numbers has a least one.
LEMMA Least ==
    ASSUME NEW S \in SUBSET Nat, S # {}
    PROVE  \E n \in S : \A m \in S : n <= m
  <1> DEFINE R == {p \in Nat \X Nat : p[1] < p[2]}
  <1>1. IsWellFoundedOn(OpToRel(<, Nat), Nat)
    BY NatLessThanWellFounded
  <1>2. OpToRel(<, Nat) = R
    BY DEF OpToRel
  <1>3. \A m, n \in Nat : m < n => <<m, n>> \in R
    OBVIOUS
  <1> HIDE DEF R
  <1>4. \E x \in S : \A y \in S : ~ (<<y, x>> \in R)
    <2>1. IsWellFoundedOn(R, Nat)
      BY ONLY <1>1, <1>2
    <2>2. QED
      BY ONLY <2>1, S \subseteq Nat, S # {}, WFMin
  <1>5. PICK x \in S : \A y \in S : ~ (<<y, x>> \in R)
    BY <1>4
  <1>6. \A y \in S : ~(y < x)
    BY <1>3, <1>5
  <1>7. \A y \in S : x <= y
    BY <1>6
  <1>8. QED
    BY <1>7

\* A set with 0, and with n + 1 for every n of it, has every number.
LEMMA Induct ==
    ASSUME NEW S, 0 \in S, \A n \in S \cap Nat : n + 1 \in S
    PROVE  Nat \subseteq S
  <1> SUFFICES ASSUME Nat \ S # {} PROVE FALSE
    OBVIOUS
  <1>1. PICK n \in Nat \ S : \A m \in Nat \ S : n <= m
    BY Least
  <1>2. n # 0 /\ n - 1 \in Nat /\ (n - 1) + 1 = n
    BY <1>1
  <1>3. n - 1 \in S \cap Nat
    BY <1>1, <1>2
  <1>4. (n - 1) + 1 \in S
    BY <1>3
  <1>5. QED
    BY <1>1, <1>2, <1>4

\* A set with every position after which it has all the others has them all.
LEMMA Down ==
    ASSUME NEW n \in Nat, NEW S,
           \A i \in 1..n : (\A j \in (i + 1)..n : j \in S) => i \in S
    PROVE  1..n \subseteq S
  <1> DEFINE Left == {m \in 0..n : n - m \notin S /\ n - m >= 1}
  <1> SUFFICES ASSUME NEW i \in 1..n, i \notin S PROVE FALSE
    OBVIOUS
  <1>1. n - i \in Left /\ Left \in SUBSET Nat
    OBVIOUS
  <1>2. PICK m \in Left : \A l \in Left : m <= l
    BY <1>1, Least
  <1>3. m \in 0..n /\ n - m \notin S /\ n - m \in 1..n
    BY <1>2
  <1>4. ASSUME NEW j \in (n - m + 1)..n PROVE j \in S
    <2>1. n - j \in 0..n /\ n - j < m /\ n - (n - j) = j /\ j >= 1
      BY <1>3
    <2>2. n - j \notin Left
      BY <1>2, <2>1
    <2> QED
      BY <2>1, <2>2
  <1>5. n - m \in S
    BY <1>3, <1>4
  <1> QED
    BY <1>3, <1>5

-----------------------------------------------------------------------------
(***************************************************************************)
(* What SumFunctionOnSet computes. It is a recursion over subsets, in an   *)
(* order nobody knows; the sum does not depend on it.                      *)
(***************************************************************************)

\* the element the sum takes first, and its recursion on the subsets of T
Some(s) == CHOOSE x \in s : TRUE
Sums(f, T, F) ==
    F = [s \in SUBSET T |-> IF s = {} THEN 0 ELSE f[Some(s)] + F[s \ {Some(s)}]]

LEMMA SomeIn == \A s : s # {} => Some(s) \in s
  BY DEF Some

\* Taking one element leaves fewer.
LEMMA Fewer ==
    ASSUME NEW s, IsFiniteSet(s), NEW x \in s, NEW m \in Nat, Cardinality(s) <= m + 1
    PROVE  IsFiniteSet(s \ {x}) /\ Cardinality(s \ {x}) \in Nat /\ Cardinality(s \ {x}) <= m
  <1>1. Cardinality(s) \in Nat
    BY FS_CardinalityType
  <1>2. IsFiniteSet(s \ {x}) /\ Cardinality(s \ {x}) = Cardinality(s) - 1
    BY FS_RemoveElement
  <1>3. Cardinality(s \ {x}) \in Nat
    BY <1>2, FS_CardinalityType
  <1> QED
    BY <1>1, <1>2, <1>3

LEMMA NoneLeft ==
    ASSUME NEW s, IsFiniteSet(s), Cardinality(s) <= 0
    PROVE  s = {}
  <1>1. Cardinality(s) \in Nat
    BY FS_CardinalityType
  <1>2. Cardinality(s) = 0
    BY <1>1
  <1> QED
    BY <1>2, FS_EmptySet

\* There is such a function on the subsets of every finite set.
LEMMA SumsExist ==
    ASSUME NEW f, NEW T, IsFiniteSet(T)
    PROVE  \E F : Sums(f, T, F)
  <1> DEFINE Law(F, s) == F[s] = IF s = {} THEN 0 ELSE f[Some(s)] + F[s \ {Some(s)}]
             UpTo(F, m) == /\ F = [s \in SUBSET T |-> F[s]]
                           /\ \A s \in SUBSET T : Cardinality(s) <= m => Law(F, s)
             M == {m \in Nat : \E F : UpTo(F, m)}
  <1>0. ASSUME NEW s \in SUBSET T PROVE IsFiniteSet(s) /\ Cardinality(s) \in Nat
    BY FS_Subset, FS_CardinalityType
  <1>1. 0 \in M
    <2> DEFINE F == [s \in SUBSET T |-> 0]
    <2>1. ASSUME NEW s \in SUBSET T, Cardinality(s) <= 0 PROVE Law(F, s)
      <3>1. s = {}
        BY <1>0, <2>1, NoneLeft
      <3> QED
        BY <3>1
    <2>2. UpTo(F, 0)
      BY <2>1
    <2> HIDE DEF UpTo
    <2> QED
      BY <2>2
  <1>2. ASSUME NEW m \in M \cap Nat PROVE m + 1 \in M
    <2>1. PICK F : UpTo(F, m)
      BY <1>2
    <2> DEFINE G == [s \in SUBSET T |-> IF Cardinality(s) <= m THEN F[s]
                                        ELSE f[Some(s)] + F[s \ {Some(s)}]]
    <2>2. ASSUME NEW s \in SUBSET T, Cardinality(s) <= m + 1 PROVE Law(G, s)
      <3>1. CASE s = {}
        <4>1. Cardinality(s) <= m
          BY <3>1, FS_EmptySet
        <4>2. F[s] = 0
          BY <2>1, <3>1, <4>1
        <4> QED
          BY <3>1, <4>1, <4>2
      <3>2. CASE s # {}
        <4>1. Some(s) \in s
          BY <3>2, SomeIn
        <4>2. s \ {Some(s)} \in SUBSET T /\ Cardinality(s \ {Some(s)}) <= m
          BY <1>0, <2>2, <4>1, Fewer
        <4>3. G[s \ {Some(s)}] = F[s \ {Some(s)}]
          BY <4>2
        <4>4. Cardinality(s) <= m => F[s] = f[Some(s)] + F[s \ {Some(s)}]
          BY <2>1, <3>2
        <4>5. G[s] = f[Some(s)] + F[s \ {Some(s)}]
          BY <4>4
        <4> QED
          BY <3>2, <4>3, <4>5
      <3> QED
        BY <3>1, <3>2
    <2>3. G = [s \in SUBSET T |-> G[s]]
      OBVIOUS
    <2> HIDE DEF G
    <2>4. UpTo(G, m + 1)
      BY <2>2, <2>3
    <2> HIDE DEF UpTo
    <2> QED
      BY <2>4
  <1> HIDE DEF M
  <1>3. Nat \subseteq M
    BY <1>1, <1>2, Induct
  <1>4. Cardinality(T) \in Nat
    BY FS_CardinalityType
  <1>5. PICK F : UpTo(F, Cardinality(T))
    BY <1>3, <1>4 DEF M
  <1>6. ASSUME NEW s \in SUBSET T PROVE Cardinality(s) <= Cardinality(T)
    BY FS_Subset
  <1>7. F = [s \in SUBSET T |-> IF s = {} THEN 0 ELSE f[Some(s)] + F[s \ {Some(s)}]]
    BY <1>5, <1>6
  <1> QED
    BY <1>7 DEF Sums

\* The sum over a set is its value on the set, for any set that holds it.
LEMMA SumIs ==
    ASSUME NEW f, NEW T, IsFiniteSet(T), NEW F, Sums(f, T, F), NEW S \in SUBSET T
    PROVE  SumFunctionOnSet(f, S) = F[S]
  <1> DEFINE H == CHOOSE H : H = [s \in SUBSET S |-> IF s = {} THEN 0 ELSE f[CHOOSE x \in s : TRUE] + H[s \ {CHOOSE x \in s : TRUE}]]
  <1>1. SumFunctionOnSet(f, S) = H[S]
    BY DEF SumFunctionOnSet, FoldFunctionOnSet, MapThenFoldSet
  <1>2. IsFiniteSet(S)
    BY FS_Subset
  <1>3. Sums(f, S, H)
    <2>1. PICK G : Sums(f, S, G)
      BY <1>2, SumsExist
    <2>2. G = [s \in SUBSET S |-> IF s = {} THEN 0 ELSE f[CHOOSE x \in s : TRUE] + G[s \ {CHOOSE x \in s : TRUE}]]
      BY <2>1 DEF Sums, Some
    <2>3. H = [s \in SUBSET S |-> IF s = {} THEN 0 ELSE f[CHOOSE x \in s : TRUE] + H[s \ {CHOOSE x \in s : TRUE}]]
      BY <2>2
    <2> HIDE DEF H
    <2> QED
      BY <2>3 DEF Sums, Some
  <1> HIDE DEF H
  <1> DEFINE M == {m \in Nat : \A s \in SUBSET S : Cardinality(s) <= m => H[s] = F[s]}
  <1>0. ASSUME NEW s \in SUBSET S PROVE IsFiniteSet(s) /\ Cardinality(s) \in Nat
    BY <1>2, FS_Subset, FS_CardinalityType
  <1>4. ASSUME NEW s \in SUBSET S
        PROVE  /\ H[s] = IF s = {} THEN 0 ELSE f[Some(s)] + H[s \ {Some(s)}]
               /\ F[s] = IF s = {} THEN 0 ELSE f[Some(s)] + F[s \ {Some(s)}]
    <2>1. s \in SUBSET T
      OBVIOUS
    <2> QED
      BY <1>3, <2>1 DEF Sums
  <1>5. 0 \in M
    <2>1. ASSUME NEW s \in SUBSET S, Cardinality(s) <= 0 PROVE H[s] = F[s]
      <3>1. s = {}
        BY <1>0, <2>1, NoneLeft
      <3> QED
        BY <1>4, <3>1
    <2> QED
      BY <2>1
  <1>6. ASSUME NEW m \in M \cap Nat PROVE m + 1 \in M
    <2>1. ASSUME NEW s \in SUBSET S, Cardinality(s) <= m + 1, s # {} PROVE H[s] = F[s]
      <3>1. Some(s) \in s
        BY <2>1, SomeIn
      <3>2. s \ {Some(s)} \in SUBSET S /\ Cardinality(s \ {Some(s)}) <= m
        BY <1>0, <2>1, <3>1, Fewer
      <3>3. H[s \ {Some(s)}] = F[s \ {Some(s)}]
        BY <1>6, <3>2
      <3> QED
        BY <1>4, <2>1, <3>3
    <2>2. ASSUME NEW s \in SUBSET S, s = {} PROVE H[s] = F[s]
      BY <1>4, <2>2
    <2> QED
      BY <2>1, <2>2
  <1> HIDE DEF M
  <1>7. Nat \subseteq M
    BY <1>5, <1>6, Induct
  <1>8. Cardinality(S) \in M /\ Cardinality(S) \in Nat
    BY <1>0, <1>7
  <1>9. H[S] = F[S]
    BY <1>8 DEF M
  <1> QED
    BY <1>1, <1>9

\* Nothing sums up to 0.
LEMMA SumOfNone ==
    ASSUME NEW f
    PROVE  SumFunctionOnSet(f, {}) = 0
  <1>1. IsFiniteSet({}) /\ {} \in SUBSET {}
    BY FS_EmptySet
  <1>2. PICK F : Sums(f, {}, F)
    BY <1>1, SumsExist
  <1>3. F[{}] = 0
    BY <1>1, <1>2 DEF Sums
  <1> QED
    BY <1>1, <1>2, <1>3, SumIs

\* One number more adds it.
LEMMA SumAdds ==
    ASSUME NEW S, IsFiniteSet(S), NEW x, x \notin S, NEW f, \A y \in S \cup {x} : f[y] \in Nat
    PROVE  /\ SumFunctionOnSet(f, S) \in Nat
           /\ SumFunctionOnSet(f, S \cup {x}) = f[x] + SumFunctionOnSet(f, S)
  <1> DEFINE T == S \cup {x}
  <1>1. IsFiniteSet(T)
    BY FS_AddElement
  <1>2. PICK F : Sums(f, T, F)
    BY <1>1, SumsExist
  <1> HIDE DEF T
  <1>3. ASSUME NEW s \in SUBSET T
        PROVE  F[s] = IF s = {} THEN 0 ELSE f[Some(s)] + F[s \ {Some(s)}]
    BY <1>2 DEF Sums
  <1>0. ASSUME NEW s \in SUBSET T PROVE IsFiniteSet(s) /\ Cardinality(s) \in Nat
    BY <1>1, FS_Subset, FS_CardinalityType
  <1> DEFINE Any(s) == F[s] \in Nat /\ \A y \in s : F[s] = f[y] + F[s \ {y}]
             M == {m \in Nat : \A s \in SUBSET T : Cardinality(s) <= m => Any(s)}
  <1>4. ASSUME NEW s \in SUBSET T, s = {} PROVE Any(s)
    BY <1>3, <1>4
  <1>5. 0 \in M
    <2>1. ASSUME NEW s \in SUBSET T, Cardinality(s) <= 0 PROVE Any(s)
      <3>1. s = {}
        BY <1>0, <2>1, NoneLeft
      <3> HIDE DEF Any
      <3> QED
        BY <1>4, <3>1
    <2> HIDE DEF Any
    <2> QED
      BY <2>1
  <1>6. ASSUME NEW m \in M \cap Nat PROVE m + 1 \in M
    <2>1. ASSUME NEW s \in SUBSET T, Cardinality(s) <= m + 1, s # {} PROVE Any(s)
      <3> DEFINE c == Some(s)
      <3>1. c \in s
        BY <2>1, SomeIn
      <3>2. F[s] = f[c] + F[s \ {c}]
        BY <1>3, <2>1
      <3> HIDE DEF c
      <3>3. ASSUME NEW y \in s
            PROVE  /\ s \ {y} \in SUBSET T /\ f[y] \in Nat /\ F[s \ {y}] \in Nat
                   /\ \A z \in s \ {y} : F[s \ {y}] = f[z] + F[(s \ {y}) \ {z}]
        <4>1. s \ {y} \in SUBSET T /\ Cardinality(s \ {y}) <= m
          BY <1>0, <2>1, Fewer
        <4>2. Any(s \ {y})
          BY <1>6, <4>1
        <4>3. f[y] \in Nat
          BY DEF T
        <4> QED
          BY <4>1, <4>2, <4>3
      <3>4. ASSUME NEW y \in s PROVE F[s] = f[y] + F[s \ {y}]
        <4>1. CASE y = c
          BY <3>2, <4>1
        <4>2. CASE y # c
          <5>1. F[s \ {c}] = f[y] + F[(s \ {c}) \ {y}]
            BY <3>1, <3>3, <4>2
          <5>2. F[s \ {y}] = f[c] + F[(s \ {y}) \ {c}]
            BY <3>1, <3>3, <4>2
          <5>3. (s \ {c}) \ {y} = (s \ {y}) \ {c}
            OBVIOUS
          <5>4. F[(s \ {c}) \ {y}] \in Nat
            <6>1. (s \ {c}) \ {y} \in SUBSET T /\ Cardinality((s \ {c}) \ {y}) <= m
              <7>1. s \ {c} \in SUBSET T /\ Cardinality(s \ {c}) <= m /\ IsFiniteSet(s \ {c})
                BY <1>0, <2>1, <3>1, Fewer
              <7>2. (s \ {c}) \ {y} \in SUBSET (s \ {c})
                OBVIOUS
              <7>3. Cardinality((s \ {c}) \ {y}) <= Cardinality(s \ {c})
                BY <7>1, <7>2, FS_Subset
              <7>4. (s \ {c}) \ {y} \in SUBSET T
                BY <7>1
              <7>5. Cardinality((s \ {c}) \ {y}) \in Nat /\ Cardinality(s \ {c}) \in Nat
                BY <1>0, <7>1, <7>4
              <7> QED
                BY <7>1, <7>3, <7>4, <7>5
            <6> QED
              BY <1>6, <6>1
          <5>5. f[y] \in Nat /\ f[c] \in Nat
            BY <3>1, <3>3
          <5>6. F[s \ {y}] = f[c] + F[(s \ {c}) \ {y}]
            BY ONLY <5>2, <5>3
          <5>7. F[s] = f[c] + (f[y] + F[(s \ {c}) \ {y}])
            BY ONLY <3>2, <5>1
          <5> QED
            BY ONLY <5>4, <5>5, <5>6, <5>7
        <4> QED
          BY <4>1, <4>2
      <3>5. F[s] \in Nat
        BY <3>1, <3>2, <3>3
      <3> QED
        BY <3>4, <3>5
    <2> HIDE DEF Any
    <2> QED
      BY <1>4, <2>1
  <1> HIDE DEF M, Any
  <1>7. Nat \subseteq M
    BY <1>5, <1>6, Induct
  <1>8. ASSUME NEW s \in SUBSET T PROVE Any(s)
    <2>1. Cardinality(s) \in M /\ Cardinality(s) \in Nat
      BY <1>0, <1>7
    <2> QED
      BY <2>1 DEF M
  <1>9. S \in SUBSET T /\ T \in SUBSET T /\ x \in T /\ T \ {x} = S
    BY DEF T
  <1>10. F[S] \in Nat /\ F[T] = f[x] + F[S]
    BY <1>8, <1>9 DEF Any
  <1>11. SumFunctionOnSet(f, S) = F[S] /\ SumFunctionOnSet(f, T) = F[T]
    BY <1>1, <1>2, <1>9, SumIs
  <1> QED
    BY <1>10, <1>11 DEF T

-----------------------------------------------------------------------------
(***************************************************************************)
(* How the brackets of a descriptor nest.                                  *)
(***************************************************************************)

\* What a descriptor is made of.
LEMMA DescriptorFacts ==
    ASSUME NEW d \in Descriptors
    PROVE  /\ Len(d) \in Nat \ {0} /\ DOMAIN d = 1..Len(d)
           /\ \A i \in 1..Len(d) : /\ d[i].type \in Types
                                   /\ d[i].symbol \in Nat /\ d[i].count \in Nat
                                   /\ d[i].type # "end" => d[i].count > 0
           /\ \A i \in 1 .. Len(d) - 1 : Depth(d, i) > 0
           /\ Depth(d, Len(d)) = 0
  <1>1. WellFormed(d)
    BY DescriptorsAssumption DEF DescriptorsAssumption
  <1> DEFINE N == [type : Types, symbol : Nat, count : Nat]
  <1>2. d \in Seq(N) /\ d # <<>>
    BY <1>1 DEF WellFormed
  <1>3. Len(d) \in Nat \ {0} /\ DOMAIN d = 1..Len(d) /\ \A i \in 1..Len(d) : d[i] \in N
    <2> HIDE DEF N
    <2> QED
      BY <1>2
  <1>4. \A i \in 1..Len(d) : d[i].type \in Types /\ d[i].symbol \in Nat /\ d[i].count \in Nat
    BY <1>3
  <1>5. \A i \in 1..Len(d) : d[i].type # "end" => d[i].count > 0
    BY <1>1, <1>3 DEF WellFormed
  <1> QED
    BY <1>1, <1>3, <1>4, <1>5 DEF WellFormed

\* One more position counts one more element, if it is one of those counted.
LEMMA CountsOne ==
    ASSUME NEW i \in Nat \ {0}, NEW P
    PROVE  LET A == {j \in 1..i : j \in P}
               B == {j \in 1..(i - 1) : j \in P}
           IN  /\ Cardinality(A) \in Nat /\ Cardinality(B) \in Nat
               /\ Cardinality(A) = Cardinality(B) + IF i \in P THEN 1 ELSE 0
  <1> DEFINE A == {j \in 1..i : j \in P}
             B == {j \in 1..(i - 1) : j \in P}
  <1>1. IsFiniteSet(1..(i - 1)) /\ B \in SUBSET (1..(i - 1))
    BY FS_Interval
  <1>2. IsFiniteSet(B)
    BY <1>1, FS_Subset
  <1>3. i \notin B /\ A = IF i \in P THEN B \cup {i} ELSE B
    OBVIOUS
  <1> HIDE DEF A, B
  <1>4. Cardinality(B) \in Nat /\ IsFiniteSet(B \cup {i}) /\ Cardinality(B \cup {i}) = Cardinality(B) + 1
    BY <1>2, <1>3, FS_AddElement, FS_CardinalityType
  <1>5. /\ Cardinality(A) \in Nat /\ Cardinality(B) \in Nat
        /\ Cardinality(A) = Cardinality(B) + IF i \in P THEN 1 ELSE 0
    BY <1>3, <1>4
  <1> QED
    BY <1>5 DEF A, B

\* The depth changes by one bracket at a time.
LEMMA DepthSteps ==
    ASSUME NEW d
    PROVE  /\ Depth(d, 0) = 0
           /\ \A i \in Nat \ {0} :
                 /\ Depth(d, i) \in Int /\ Depth(d, i - 1) \in Int
                 /\ d[i].type \in Branches => Depth(d, i) = Depth(d, i - 1) + 1
                 /\ d[i].type = "end" => Depth(d, i) = Depth(d, i - 1) - 1
                 /\ d[i].type \notin Branches \cup {"end"} => Depth(d, i) = Depth(d, i - 1)
  <1>1. Depth(d, 0) = 0
    <2>1. {j \in 1..0 : d[j].type \in Branches} = {} /\ {j \in 1..0 : d[j].type = "end"} = {}
      OBVIOUS
    <2> QED
      BY <2>1, FS_EmptySet DEF Depth
  <1>2. ASSUME NEW i \in Nat \ {0}
        PROVE  /\ Depth(d, i) \in Int /\ Depth(d, i - 1) \in Int
               /\ d[i].type \in Branches => Depth(d, i) = Depth(d, i - 1) + 1
               /\ d[i].type = "end" => Depth(d, i) = Depth(d, i - 1) - 1
               /\ d[i].type \notin Branches \cup {"end"} => Depth(d, i) = Depth(d, i - 1)
    <2> DEFINE O == {j \in Nat : d[j].type \in Branches}
               C == {j \in Nat : d[j].type = "end"}
               Opened(n) == Cardinality({j \in 1..n : j \in O})
               Closed(n) == Cardinality({j \in 1..n : j \in C})
    <2>1. /\ i \in O <=> d[i].type \in Branches
          /\ i \in C <=> d[i].type = "end"
          /\ "end" \notin Branches
      BY DEF Branches
    <2>2. ASSUME NEW n \in Nat PROVE Depth(d, n) = Opened(n) - Closed(n)
      <3>1. /\ {j \in 1..n : d[j].type \in Branches} = {j \in 1..n : j \in O}
            /\ {j \in 1..n : d[j].type = "end"} = {j \in 1..n : j \in C}
        OBVIOUS
      <3> QED
        BY <3>1 DEF Depth
    <2> HIDE DEF O, C
    <2>3. /\ Opened(i) \in Nat /\ Opened(i - 1) \in Nat
          /\ Opened(i) = Opened(i - 1) + IF i \in O THEN 1 ELSE 0
      BY CountsOne
    <2>4. /\ Closed(i) \in Nat /\ Closed(i - 1) \in Nat
          /\ Closed(i) = Closed(i - 1) + IF i \in C THEN 1 ELSE 0
      BY CountsOne
    <2> HIDE DEF Opened, Closed
    <2>5. Depth(d, i) = Opened(i) - Closed(i) /\ Depth(d, i - 1) = Opened(i - 1) - Closed(i - 1)
      BY <2>2
    <2>6. d[i].type \in Branches => i \in O /\ i \notin C
      BY <2>1
    <2>7. d[i].type = "end" => i \notin O /\ i \in C
      BY <2>1
    <2>8. d[i].type \notin Branches \cup {"end"} => i \notin O /\ i \notin C
      BY <2>1
    <2> QED
      BY <2>3, <2>4, <2>5, <2>6, <2>7, <2>8
  <1> QED
    BY <1>1, <1>2

\* It is never below 0.
LEMMA DepthNat ==
    ASSUME NEW d \in Descriptors, NEW i \in 0..Len(d)
    PROVE  Depth(d, i) \in Nat
  <1>1. Len(d) \in Nat \ {0}
    BY DescriptorFacts
  <1>2. i = 0 \/ i = Len(d) \/ i \in 1 .. Len(d) - 1
    BY <1>1
  <1>3. i = 0 => Depth(d, i) = 0
    BY DepthSteps
  <1>4. i = Len(d) => Depth(d, i) = 0
    BY DescriptorFacts
  <1>5. i \in 1 .. Len(d) - 1 => Depth(d, i) > 0 /\ Depth(d, i) \in Int
    BY <1>1, DescriptorFacts, DepthSteps
  <1> QED
    BY <1>2, <1>3, <1>4, <1>5

LEMMA NodeFacts ==
    ASSUME NEW d \in Descriptors, NEW k \in Nodes(d)
    PROVE  /\ k \in 1..Len(d) /\ Len(d) \in Nat
           /\ Depth(d, k) \in Nat /\ Depth(d, k - 1) \in Nat
           /\ d[k].count \in Nat \ {0} /\ d[k].type \in Types /\ d[k].type # "end"
           /\ d[k].type \in Branches => Depth(d, k) = Depth(d, k - 1) + 1
           /\ d[k].type \notin Branches => Depth(d, k) = Depth(d, k - 1)
  <1>1. k \in 1..Len(d) /\ Len(d) \in Nat /\ d[k].type # "end"
    BY DescriptorFacts DEF Nodes
  <1>2. k \in 0..Len(d) /\ k - 1 \in 0..Len(d) /\ k \in Nat \ {0}
    BY <1>1
  <1>3. d[k].count \in Nat \ {0} /\ d[k].type \in Types
    BY <1>1, DescriptorFacts
  <1> QED
    BY <1>1, <1>2, <1>3, DepthNat, DepthSteps

\* The last position of a node: where the depth is first as before it again.
LEMMA LastFacts ==
    ASSUME NEW d \in Descriptors, NEW k \in Nodes(d)
    PROVE  /\ LastOf[d][k] \in k..Len(d)
           /\ Depth(d, LastOf[d][k]) = Depth(d, k - 1)
           /\ \A j \in k .. LastOf[d][k] - 1 : Depth(d, j) > Depth(d, k - 1)
           /\ d[k].type \notin Branches => LastOf[d][k] = k
           /\ d[k].type \in Branches => LastOf[d][k] > k /\ d[LastOf[d][k]].type = "end"
  <1> DEFINE S == {j \in k..Len(d) : Depth(d, j) <= Depth(d, k - 1)}
             L == LastOf[d][k]
  <1>1. L = Min(S)
    BY DEF LastOf
  <1>2. /\ k \in 1..Len(d) /\ Len(d) \in Nat /\ Depth(d, k - 1) \in Nat /\ Depth(d, k) \in Nat
        /\ Depth(d, Len(d)) = 0 /\ d[k].type # "end"
    BY NodeFacts, DescriptorFacts
  <1>3. Len(d) \in S /\ S \in SUBSET Nat
    BY <1>2
  <1>4. PICK m \in S : \A n \in S : m <= n
    BY <1>3, Least
  <1>5. L \in S /\ \A n \in S : L <= n
    <2> HIDE DEF S, L
    <2> QED
      BY <1>1, <1>4 DEF Min
  <1> HIDE DEF L
  <1>6. L \in k..Len(d) /\ Depth(d, L) <= Depth(d, k - 1) /\ L \in 1..Len(d)
    BY <1>2, <1>5
  <1>7. ASSUME NEW j \in k .. L - 1 PROVE Depth(d, j) > Depth(d, k - 1)
    <2>1. j \in k..Len(d) /\ j \in 0..Len(d) /\ ~(L <= j)
      BY <1>2, <1>6
    <2>2. j \notin S
      BY <1>5, <2>1
    <2>3. Depth(d, j) \in Nat
      BY <2>1, DepthNat
    <2> QED
      BY <1>2, <2>1, <2>2, <2>3
  <1> HIDE DEF S
  <1>8. Depth(d, L) \in Nat /\ Depth(d, L - 1) \in Nat
    BY <1>2, <1>6, DepthNat
  <1>9. /\ d[L].type \in Branches => Depth(d, L) = Depth(d, L - 1) + 1
        /\ d[L].type = "end" => Depth(d, L) = Depth(d, L - 1) - 1
        /\ d[L].type \notin Branches \cup {"end"} => Depth(d, L) = Depth(d, L - 1)
    BY <1>2, <1>6, DepthSteps
  <1>10. CASE L = k
    <2>1. d[k].type \notin Branches /\ Depth(d, k) = Depth(d, k - 1)
      BY <1>2, <1>6, <1>10, NodeFacts
    <2> QED
      BY <1>6, <1>7, <1>10, <2>1 DEF L
  <1>11. CASE L # k
    <2>1. Depth(d, L - 1) > Depth(d, k - 1)
      BY <1>2, <1>6, <1>7, <1>11
    <2>2. d[L].type = "end" /\ Depth(d, L) = Depth(d, k - 1)
      BY <1>2, <1>6, <1>8, <1>9, <2>1
    <2>3. d[k].type \in Branches
      <3>1. Depth(d, k) > Depth(d, k - 1)
        BY <1>2, <1>6, <1>7, <1>11
      <3> QED
        BY <1>2, <3>1, NodeFacts
    <2>4. L > k
      BY <1>2, <1>6, <1>11
    <2> QED
      BY <1>6, <1>7, <2>2, <2>3, <2>4 DEF L
  <1> QED
    BY <1>10, <1>11

\* What begins inside a node ends inside it.
LEMMA Nests ==
    ASSUME NEW d \in Descriptors, NEW a \in Nodes(d), NEW b \in Nodes(d),
           a < b, b <= LastOf[d][a]
    PROVE  LastOf[d][b] < LastOf[d][a] /\ Depth(d, b - 1) > Depth(d, a - 1)
                                       /\ d[a].type \in Branches
  <1> DEFINE A == LastOf[d][a]
             B == LastOf[d][b]
  <1>1. /\ A \in a..Len(d) /\ Depth(d, A) = Depth(d, a - 1) /\ (d[a].type \notin Branches => A = a)
        /\ \A j \in a .. A - 1 : Depth(d, j) > Depth(d, a - 1)
    BY LastFacts
  <1>2. /\ B \in b..Len(d) /\ Depth(d, B) = Depth(d, b - 1)
        /\ \A j \in b .. B - 1 : Depth(d, j) > Depth(d, b - 1)
    BY LastFacts
  <1> HIDE DEF A, B
  <1>3. a \in 1..Len(d) /\ b \in 1..Len(d) /\ Len(d) \in Nat /\ a < b /\ b <= A
    BY NodeFacts DEF A
  <1>4. Depth(d, a - 1) \in Nat /\ Depth(d, b - 1) \in Nat
    BY NodeFacts
  <1>5. Depth(d, b - 1) > Depth(d, a - 1)
    BY <1>1, <1>3
  <1>6. B < A
    <2>1. CASE B = A
      BY <1>1, <1>2, <1>4, <1>5, <2>1
    <2>2. CASE B > A
      <3>1. A \in b .. B - 1
        BY <1>1, <1>2, <1>3, <2>2
      <3>2. Depth(d, A) > Depth(d, b - 1)
        BY <1>2, <3>1
      <3> QED
        BY <1>1, <1>4, <1>5, <3>2
    <2> QED
      BY <1>1, <1>2, <1>3, <2>1, <2>2
  <1> QED
    BY <1>1, <1>3, <1>5, <1>6 DEF A, B

\* i is where a child of the branch b begins, or the end of b.
Holds(d, b, i) ==
    /\ b \in Nodes(d) /\ d[b].type \in Branches
    /\ i \in 1..Len(d) /\ b < i /\ i <= LastOf[d][b]
    /\ Depth(d, i - 1) = Depth(d, b)

\* the children of b from position i on
KidsFrom(d, b, i) == {j \in Kids[d][b] : j >= i}

LEMMA KidIs ==
    ASSUME NEW d \in Descriptors, NEW b \in Nodes(d), NEW i
    PROVE  i \in Kids[d][b] <=> /\ i \in Nodes(d) /\ b < i /\ i <= LastOf[d][b]
                                /\ Depth(d, i - 1) = Depth(d, b)
  BY DEF Kids

\* The first child, or the end of a branch without one, follows the branch.
LEMMA FirstChild ==
    ASSUME NEW d \in Descriptors, NEW b \in Nodes(d), d[b].type \in Branches
    PROVE  Holds(d, b, b + 1) /\ KidsFrom(d, b, b + 1) = Kids[d][b]
  <1>1. b \in 1..Len(d) /\ Len(d) \in Nat /\ LastOf[d][b] \in b..Len(d) /\ LastOf[d][b] > b
    BY NodeFacts, LastFacts
  <1>2. b + 1 \in 1..Len(d) /\ b < b + 1 /\ b + 1 <= LastOf[d][b] /\ (b + 1) - 1 = b
    BY <1>1
  <1>3. ASSUME NEW j \in Kids[d][b] PROVE j >= b + 1
    BY <1>1, KidIs, NodeFacts
  <1> QED
    BY <1>2, <1>3 DEF Holds, KidsFrom

\* Among the children of a branch only its own end is an end, and after a
\* child comes the next, or the end.
LEMMA ChildOrEnd ==
    ASSUME NEW d \in Descriptors, NEW b, NEW i, Holds(d, b, i)
    PROVE  /\ d[i].type = "end" => i = LastOf[d][b] /\ KidsFrom(d, b, i) = {}
           /\ d[i].type # "end" => /\ i \in Kids[d][b] /\ i \in Nodes(d)
                                   /\ LastOf[d][i] < LastOf[d][b]
                                   /\ Holds(d, b, LastOf[d][i] + 1)
                                   /\ KidsFrom(d, b, i) = KidsFrom(d, b, LastOf[d][i] + 1) \cup {i}
                                   /\ i \notin KidsFrom(d, b, LastOf[d][i] + 1)
  <1> DEFINE B == LastOf[d][b]
  <1>1. /\ b \in Nodes(d) /\ d[b].type \in Branches
        /\ i \in 1..Len(d) /\ b < i /\ i <= B /\ Depth(d, i - 1) = Depth(d, b)
    BY DEF Holds
  <1>2. /\ b \in 1..Len(d) /\ Len(d) \in Nat /\ Depth(d, b) = Depth(d, b - 1) + 1
        /\ Depth(d, b - 1) \in Nat
    BY <1>1, NodeFacts
  <1>3. B \in b..Len(d) /\ \A j \in b .. B - 1 : Depth(d, j) > Depth(d, b - 1)
    BY <1>1, LastFacts
  <1>4. d[B].type = "end"
    BY <1>1, LastFacts
  <1>5. ASSUME NEW j \in Kids[d][b]
        PROVE  j \in Nodes(d) /\ j \in 1..Len(d) /\ j <= B /\ j # B /\ Depth(d, j - 1) = Depth(d, b)
    BY <1>1, <1>4, KidIs, NodeFacts
  <1>6. ASSUME d[i].type = "end" PROVE i = LastOf[d][b] /\ KidsFrom(d, b, i) = {}
    <2>0. i \in Nat \ {0}
      BY <1>1
    <2>1. Depth(d, i) = Depth(d, i - 1) - 1
      BY <1>6, <2>0, DepthSteps
    <2>2. Depth(d, i) = Depth(d, b - 1)
      BY <1>1, <1>2, <2>1
    <2>3. i = B
      <3> HIDE DEF B
      <3>1. ~(i \in b .. B - 1)
        BY <1>2, <1>3, <2>2
      <3> QED
        BY <1>1, <1>2, <1>3, <3>1
    <2>4. ASSUME NEW j \in Kids[d][b] PROVE ~(j >= i)
      BY <1>1, <1>5, <2>3
    <2> QED
      BY <2>3, <2>4 DEF KidsFrom
  <1>7. ASSUME d[i].type # "end"
        PROVE  /\ i \in Kids[d][b] /\ i \in Nodes(d)
               /\ LastOf[d][i] < LastOf[d][b]
               /\ Holds(d, b, LastOf[d][i] + 1)
               /\ KidsFrom(d, b, i) = KidsFrom(d, b, LastOf[d][i] + 1) \cup {i}
               /\ i \notin KidsFrom(d, b, LastOf[d][i] + 1)
    <2> DEFINE I == LastOf[d][i]
    <2>1. i \in Nodes(d)
      BY <1>1, <1>7, DescriptorFacts DEF Nodes
    <2>2. i \in Kids[d][b]
      BY <1>1, <2>1, KidIs
    <2>3. I < B
      BY <1>1, <2>1, Nests
    <2>4. /\ I \in i..Len(d) /\ Depth(d, I) = Depth(d, i - 1)
          /\ \A j \in i .. I - 1 : Depth(d, j) > Depth(d, i - 1)
      BY <2>1, LastFacts
    <2> HIDE DEF I, B
    <2>5. /\ I + 1 \in 1..Len(d) /\ b < I + 1 /\ I + 1 <= B /\ (I + 1) - 1 = I
          /\ Depth(d, I) = Depth(d, b)
      BY <1>1, <1>2, <1>3, <2>3, <2>4
    <2>6. Holds(d, b, I + 1)
      BY <1>1, <2>5 DEF Holds, B
    <2>7. ASSUME NEW j \in Kids[d][b], j >= i, j # i PROVE j >= I + 1
      <3>1. j \in 1..Len(d) /\ Depth(d, j - 1) = Depth(d, i - 1) /\ Depth(d, i - 1) \in Nat
        BY <1>1, <1>5, <2>1, NodeFacts
      <3>2. ~(j - 1 \in i .. I - 1)
        BY <2>4, <3>1
      <3> QED
        BY <1>1, <1>2, <2>4, <2>7, <3>1, <3>2
    <2>8. ASSUME NEW j \in Kids[d][b], j >= I + 1 PROVE j >= i /\ j # i
      <3>1. j \in 1..Len(d)
        BY <1>5
      <3> QED
        BY <1>1, <2>4, <2>8, <3>1
    <2>9. i >= i
      BY <1>1
    <2>10. KidsFrom(d, b, i) = KidsFrom(d, b, I + 1) \cup {i} /\ i \notin KidsFrom(d, b, I + 1)
      BY <2>2, <2>7, <2>8, <2>9 DEF KidsFrom
    <2> QED
      BY <2>1, <2>2, <2>3, <2>6, <2>10 DEF I, B
  <1> QED
    BY <1>6, <1>7

\* The whole descriptor is its first node.
LEMMA RootIs ==
    ASSUME NEW d \in Descriptors
    PROVE  1 \in Nodes(d) /\ LastOf[d][1] = Len(d)
  <1>1. /\ Len(d) \in Nat \ {0} /\ DOMAIN d = 1..Len(d) /\ Depth(d, 0) = 0
        /\ \A i \in 1 .. Len(d) - 1 : Depth(d, i) > 0
    BY DescriptorFacts, DepthSteps
  <1>2. d[1].type # "end"
    <2>1. 1 \in 0..Len(d) /\ 1 - 1 = 0
      BY <1>1
    <2>2. Depth(d, 1) \in Nat
      BY <2>1, DepthNat
    <2>3. d[1].type = "end" => Depth(d, 1) = Depth(d, 0) - 1
      BY <2>1, DepthSteps
    <2> QED
      BY <1>1, <2>2, <2>3
  <1>3. 1 \in Nodes(d)
    BY <1>1, <1>2 DEF Nodes
  <1> DEFINE L == LastOf[d][1]
  <1>4. L \in 1..Len(d) /\ Depth(d, L) = Depth(d, 1 - 1)
    BY <1>3, LastFacts
  <1>5. Depth(d, L) = 0
    BY <1>1, <1>4
  <1> HIDE DEF L
  <1>6. L = Len(d)
    <2>1. ~(L \in 1 .. Len(d) - 1)
      BY <1>1, <1>5
    <2>2. L \in 1..Len(d) /\ Len(d) \in Nat
      BY <1>1, <1>4
    <2> QED
      BY ONLY <2>1, <2>2
  <1> QED
    BY <1>3, <1>6 DEF L

-----------------------------------------------------------------------------
(***************************************************************************)
(* The walk of get_node_size. It is a recursion on positions that only     *)
(* looks ahead: a function that satisfies it is built from the end of the  *)
(* descriptor backwards.                                                   *)
(***************************************************************************)

\* what the walk gives at position i if it gives w behind it
Walk(d, w, i) ==
    IF Closes(d, i) THEN [sum |-> 0, most |-> 0, last |-> i]
    ELSE LET node == NodeAt(d, w, i)
             rest == w[node.last + 1]
         IN [sum  |-> node.size + rest.sum,
             most |-> IF node.size > rest.most THEN node.size ELSE rest.most,
             last |-> rest.last]

\* the walk goes forward
Forward(w, i) == w[i].last \in Nat /\ w[i].last >= i

\* One step of the walk looks only ahead, and goes forward.
LEMMA WalkLooksAhead ==
    ASSUME NEW d, NEW v, NEW w, NEW i \in Positions,
           \A j \in Positions : j > i => v[j] = w[j] /\ Forward(w, j)
    PROVE  /\ NodeAt(d, v, i) = NodeAt(d, w, i)
           /\ NodeAt(d, w, i).last \in Nat /\ NodeAt(d, w, i).last >= i
           /\ Walk(d, v, i) = Walk(d, w, i)
           /\ Walk(d, w, i).last \in Nat /\ Walk(d, w, i).last >= i
  <1>1. i \in Nat /\ i + 1 \in Positions /\ i + 1 > i
    BY DEF Positions
  <1>2. v[i + 1] = w[i + 1] /\ w[i + 1].last \in Nat /\ w[i + 1].last >= i + 1
    BY <1>1 DEF Forward
  <1>3. NodeAt(d, v, i) = NodeAt(d, w, i)
    BY <1>2 DEF NodeAt
  <1>4. NodeAt(d, w, i).last = IF d[i].type \in Branches THEN w[i + 1].last ELSE i
    BY DEF NodeAt
  <1>5. NodeAt(d, w, i).last \in Nat /\ NodeAt(d, w, i).last >= i
    BY <1>1, <1>2, <1>4
  <1> DEFINE n == NodeAt(d, w, i)
             next == n.last + 1
  <1>6. next \in Positions /\ next > i
    BY <1>1, <1>5 DEF Positions
  <1>7. v[next] = w[next] /\ w[next].last \in Nat /\ w[next].last >= next
    BY <1>6 DEF Forward
  <1>8. Walk(d, v, i) = IF Closes(d, i) THEN [sum |-> 0, most |-> 0, last |-> i]
                        ELSE [sum  |-> n.size + v[next].sum,
                              most |-> IF n.size > v[next].most THEN n.size ELSE v[next].most,
                              last |-> v[next].last]
    BY <1>3 DEF Walk
  <1>9. Walk(d, w, i) = IF Closes(d, i) THEN [sum |-> 0, most |-> 0, last |-> i]
                        ELSE [sum  |-> n.size + w[next].sum,
                              most |-> IF n.size > w[next].most THEN n.size ELSE w[next].most,
                              last |-> w[next].last]
    BY DEF Walk
  <1> HIDE DEF n, next
  <1>10. Walk(d, v, i) = Walk(d, w, i)
    BY <1>7, <1>8, <1>9
  <1>11. Walk(d, w, i).last = IF Closes(d, i) THEN i ELSE w[next].last
    BY <1>9
  <1>12. Walk(d, w, i).last \in Nat /\ Walk(d, w, i).last >= i
    BY <1>1, <1>6, <1>7, <1>11 DEF Positions
  <1> QED
    BY <1>3, <1>5, <1>10, <1>12 DEF n

\* There is a walk on every descriptor.
LEMMA WalkExists ==
    ASSUME NEW d \in Descriptors
    PROVE  \E w : /\ w = [i \in Positions |-> Walk(d, w, i)]
                  /\ \A i \in Positions : Forward(w, i)
  <1> DEFINE N == Len(d)
             Good(w, i) == w[i] = Walk(d, w, i) /\ Forward(w, i)
             Behind(w, m) == /\ w = [i \in Positions |-> w[i]]
                            /\ \A i \in Positions : i > N - m => Good(w, i)
             M == {m \in Nat : \E w : Behind(w, m)}
  <1>0. N \in Nat
    BY DescriptorFacts
  <1>1. 0 \in M
    <2> DEFINE w == [i \in Positions |-> [sum |-> 0, most |-> 0, last |-> i]]
    <2>1. ASSUME NEW i \in Positions, i > N - 0 PROVE Good(w, i)
      <3>1. i > N /\ i \in Nat
        BY <1>0, <2>1 DEF Positions
      <3>2. Closes(d, i)
        BY <3>1 DEF Closes
      <3>3. w[i] = [sum |-> 0, most |-> 0, last |-> i]
        OBVIOUS
      <3> QED
        BY <3>1, <3>2, <3>3 DEF Walk, Forward
    <2>2. Behind(w, 0)
      BY <2>1
    <2> HIDE DEF Behind
    <2> QED
      BY <2>2
  <1>2. ASSUME NEW m \in M \cap Nat PROVE m + 1 \in M
    <2>1. PICK v : Behind(v, m)
      BY <1>2
    <2> DEFINE n == N - m
               w == [i \in Positions |-> IF i = n THEN Walk(d, v, n) ELSE v[i]]
    <2>2. ASSUME NEW i \in Positions, i > n
          PROVE  w[i] = v[i] /\ v[i] = Walk(d, v, i) /\ Forward(v, i)
      <3>1. i # n
        BY <1>0, <2>2 DEF Positions
      <3>2. w[i] = v[i]
        BY <3>1
      <3> QED
        BY <2>1, <2>2, <3>2
    <2>3. w = [i \in Positions |-> w[i]]
      OBVIOUS
    <2>4. n \in Positions => w[n] = Walk(d, v, n)
      OBVIOUS
    <2> HIDE DEF w
    <2>5. ASSUME NEW i \in Positions, i > n \/ i = n
          PROVE  Walk(d, w, i) = Walk(d, v, i) /\ Walk(d, v, i).last \in Nat /\ Walk(d, v, i).last >= i
      <3>1. i \in Nat /\ n \in Int
        BY <1>0 DEF Positions
      <3>2. ASSUME NEW j \in Positions, j > i PROVE w[j] = v[j] /\ Forward(v, j)
        <4>1. j > n
          BY <2>5, <3>1, <3>2 DEF Positions
        <4> QED
          BY <2>2, <4>1
      <3> QED
        BY <3>2, WalkLooksAhead
    <2>6. ASSUME NEW i \in Positions, i > N - (m + 1) PROVE Good(w, i)
      <3>1. i > n \/ i = n
        BY <1>0, <2>6 DEF Positions
      <3>2. w[i] = Walk(d, v, i)
        BY <2>2, <2>4, <3>1
      <3> QED
        BY <2>5, <3>1, <3>2 DEF Forward
    <2>7. Behind(w, m + 1)
      BY <2>3, <2>6
    <2> HIDE DEF Behind
    <2> QED
      BY <2>7
  <1> HIDE DEF M
  <1>3. Nat \subseteq M
    BY <1>1, <1>2, Induct
  <1>4. PICK w : Behind(w, N)
    BY <1>0, <1>3 DEF M
  <1>5. \A i \in Positions : i > N - N
    BY <1>0 DEF Positions
  <1>6. w = [i \in Positions |-> Walk(d, w, i)] /\ \A i \in Positions : Forward(w, i)
    BY <1>4, <1>5
  <1> QED
    BY <1>6

\* Siblings is such a function.
LEMMA SiblingsWalk ==
    ASSUME NEW d \in Descriptors, NEW i \in Positions
    PROVE  Siblings(d)[i] = Walk(d, Siblings(d), i) /\ Forward(Siblings(d), i)
  <1> DEFINE Law(w) == w = [j \in Positions |->
                 IF Closes(d, j) THEN [sum |-> 0, most |-> 0, last |-> j]
                 ELSE LET node == NodeAt(d, w, j)
                          rest == w[node.last + 1]
                      IN [sum  |-> node.size + rest.sum,
                          most |-> IF node.size > rest.most THEN node.size ELSE rest.most,
                          last |-> rest.last]]
             s == CHOOSE w : Law(w)
  <1>1. Siblings(d) = s
    BY DEF Siblings
  <1>2. \A w : Law(w) <=> w = [j \in Positions |-> Walk(d, w, j)]
    BY DEF Walk
  <1> HIDE DEF Law
  <1>3. \E w : Law(w)
    BY <1>2, WalkExists
  <1>4. Law(s)
    BY <1>3
  <1> HIDE DEF s
  <1>5. s = [j \in Positions |-> Walk(d, s, j)]
    BY <1>2, <1>4
  <1> HIDE DEF Law
  <1>6. \A j \in Positions : s[j] = Walk(d, s, j)
    BY <1>5
  <1> DEFINE S == {j \in 1..Len(d) : Forward(s, j)}
  <1>7. Len(d) \in Nat
    BY DescriptorFacts
  <1>8. ASSUME NEW j \in Positions, j > Len(d) PROVE Forward(s, j)
    <2>1. Closes(d, j)
      BY <1>8 DEF Closes
    <2>2. Walk(d, s, j) = [sum |-> 0, most |-> 0, last |-> j]
      BY <2>1 DEF Walk
    <2>3. s[j].last = j
      BY <1>6, <2>2
    <2> QED
      BY <1>7, <2>3 DEF Forward, Positions
  <1>9. ASSUME NEW j \in 1..Len(d), \A k \in (j + 1)..Len(d) : k \in S PROVE j \in S
    <2>1. j \in Positions /\ j \in Nat
      BY <1>7 DEF Positions
    <2>2. ASSUME NEW k \in Positions, k > j PROVE Forward(s, k)
      <3>1. k \in Nat
        BY DEF Positions
      <3>2. k \in (j + 1)..Len(d) \/ k > Len(d)
        BY <1>7, <2>1, <2>2, <3>1
      <3>3. k \in S => Forward(s, k)
        OBVIOUS
      <3> HIDE DEF S
      <3> QED
        BY <1>8, <1>9, <3>2, <3>3
    <2>3. Walk(d, s, j).last \in Nat /\ Walk(d, s, j).last >= j
      BY <2>1, <2>2, WalkLooksAhead
    <2>4. Forward(s, j)
      BY <1>6, <2>1, <2>3 DEF Forward
    <2> QED
      BY <2>4
  <1>10. 1..Len(d) \subseteq S
    <2> HIDE DEF S
    <2> QED
      BY <1>7, <1>9, Down
  <1>11. Forward(s, i)
    <2>1. i \in 1..Len(d) \/ i > Len(d)
      BY <1>7 DEF Positions
    <2> QED
      BY <1>8, <1>10, <2>1
  <1> QED
    BY <1>1, <1>6, <1>11

\* What is said of the node at i, and of the children of b from i on.
NodeRight(d, i) ==
    /\ NodeAt(d, Siblings(d), i).last = LastOf[d][i]
    /\ Bytes(d)[i] \in Nat
    /\ ElementBytes(d, i) \in Nat
    /\ Bytes(d)[i] = ElementBytes(d, i) * d[i].count
WalkRight(d, b, i) ==
    LET w == Siblings(d)[i]
        kids == KidsFrom(d, b, i)
    IN /\ w.last = LastOf[d][b]
       /\ \A j \in kids : Bytes(d)[j] \in Nat
       /\ w.sum \in Nat /\ w.sum = SumFunctionOnSet(Bytes(d), kids)
       /\ w.most \in {0} \cup {Bytes(d)[j] : j \in kids}
       /\ \A x \in {0} \cup {Bytes(d)[j] : j \in kids} : x \in Nat /\ x <= w.most

\* The largest of some numbers, and of one more.
LEMMA MaxIs ==
    ASSUME NEW S, NEW n \in S, \A x \in S : x \in Nat /\ x <= n
    PROVE  Max(S) = n
  <1>1. n \in Nat /\ \A x \in S : n >= x
    OBVIOUS
  <1>2. \A x \in S : (\A y \in S : x >= y) => x = n
    BY <1>1
  <1> QED
    BY <1>1, <1>2 DEF Max

LEMMA MaxAdds ==
    ASSUME NEW S, NEW n \in S, \A x \in S : x \in Nat /\ x <= n, NEW m \in Nat
    PROVE  LET top == IF m > n THEN m ELSE n
           IN /\ top \in S \cup {m}
              /\ \A x \in S \cup {m} : x \in Nat /\ x <= top
  OBVIOUS

\* Children are finitely many.
LEMMA KidsFinite ==
    ASSUME NEW d \in Descriptors, NEW b \in Nodes(d), NEW i
    PROVE  IsFiniteSet(KidsFrom(d, b, i)) /\ IsFiniteSet(Nodes(d)) /\ KidsFrom(d, b, i) \subseteq Nodes(d)
  <1>1. Len(d) \in Nat
    BY DescriptorFacts
  <1>2. IsFiniteSet(1..Len(d))
    BY <1>1, FS_Interval
  <1>3. Nodes(d) \in SUBSET (1..Len(d))
    BY DescriptorFacts DEF Nodes
  <1>4. KidsFrom(d, b, i) \in SUBSET (1..Len(d)) /\ KidsFrom(d, b, i) \subseteq Nodes(d)
    BY <1>3, KidIs DEF KidsFrom
  <1> QED
    BY <1>2, <1>3, <1>4, FS_Subset

LEMMA BytesIs ==
    ASSUME NEW d \in Descriptors, NEW i \in Nodes(d)
    PROVE  Bytes(d)[i] = NodeAt(d, Siblings(d), i).size
  BY DEF Bytes, NodeSize

LEMMA TypeSizeNat ==
    \A t \in Types : t \notin Branches => TypeSize[t] \in Nat
  <1> SUFFICES ASSUME NEW t \in Types, t \notin Branches PROVE TypeSize[t] \in Nat
    OBVIOUS
  <1>1. \/ t \in Branches \cup {"end"} \/ t \in {"int8", "uint8", "char"}
        \/ t \in {"int16", "uint16"} \/ t \in {"int32", "uint32", "float"}
    BY DEF Types
  <1>2. TypeSize[t] \in {0, 1, 2, 4}
    BY <1>1 DEF TypeSize, Branches
  <1> QED
    BY <1>2

\* A node's walk is right if the walk behind it is.
LEMMA NodeStep ==
    ASSUME NEW d \in Descriptors, NEW i \in Nodes(d),
           d[i].type \in Branches => WalkRight(d, i, i + 1)
    PROVE  NodeRight(d, i)
  <1> DEFINE w == Siblings(d)[i + 1]
             n == NodeAt(d, Siblings(d), i)
  <1>1. d[i].count \in Nat \ {0} /\ d[i].type \in Types /\ d[i].type # "end"
    BY NodeFacts
  <1>2. Bytes(d)[i] = n.size
    BY BytesIs
  <1>3. ASSUME d[i].type \in Branches
        PROVE  /\ w.last = LastOf[d][i]
               /\ w.sum \in Nat /\ w.sum = SumFunctionOnSet(Bytes(d), Kids[d][i])
               /\ w.most \in Nat /\ w.most = Max({0} \cup {Bytes(d)[j] : j \in Kids[d][i]})
    <2>1. KidsFrom(d, i, i + 1) = Kids[d][i]
      BY <1>3, FirstChild
    <2> DEFINE top == {0} \cup {Bytes(d)[j] : j \in Kids[d][i]}
    <2>2. w.most \in top /\ \A x \in top : x \in Nat /\ x <= w.most
      BY <1>3, <2>1 DEF WalkRight
    <2>3. w.most = Max(top) /\ w.most \in Nat
      <3> HIDE DEF top, w
      <3> QED
        BY <2>2, MaxIs
    <2> QED
      BY <1>3, <2>1, <2>3 DEF WalkRight
  <1>4. CASE d[i].type = "start"
    <2>1. d[i].type \in Branches
      BY <1>4 DEF Branches
    <2>2. n = [size |-> w.sum * d[i].count, last |-> w.last]
      BY <1>4, <2>1 DEF NodeAt
    <2>3. ElementBytes(d, i) = w.sum /\ w.sum \in Nat
      BY <1>3, <1>4, <2>1 DEF ElementBytes
    <2> HIDE DEF n, w
    <2>4. n.size = w.sum * d[i].count /\ n.last = w.last
      BY <2>2
    <2>5. w.sum * d[i].count \in Nat
      BY <1>1, <2>3
    <2> QED
      BY <1>2, <1>3, <2>1, <2>3, <2>4, <2>5 DEF NodeRight, n
  <1>5. CASE d[i].type = "ustart"
    <2>1. d[i].type \in Branches /\ d[i].type # "start"
      BY <1>5 DEF Branches
    <2>2. n = [size |-> w.most * d[i].count, last |-> w.last]
      BY <1>5, <2>1 DEF NodeAt
    <2>3. ElementBytes(d, i) = w.most /\ w.most \in Nat
      BY <1>3, <1>5, <2>1 DEF ElementBytes
    <2> HIDE DEF n, w
    <2>4. n.size = w.most * d[i].count /\ n.last = w.last
      BY <2>2
    <2>5. w.most * d[i].count \in Nat
      BY <1>1, <2>3
    <2> QED
      BY <1>2, <1>3, <2>1, <2>3, <2>4, <2>5 DEF NodeRight, n
  <1>6. CASE d[i].type \notin Branches
    <2>1. d[i].type # "start" /\ d[i].type # "ustart"
      BY <1>6 DEF Branches
    <2>2. n = [size |-> TypeSize[d[i].type] * d[i].count, last |-> i]
      BY <1>6 DEF NodeAt
    <2>3. ElementBytes(d, i) = TypeSize[d[i].type] /\ TypeSize[d[i].type] \in Nat
      BY <1>1, <1>6, <2>1, TypeSizeNat DEF ElementBytes
    <2> HIDE DEF n, w
    <2>4. n.size = TypeSize[d[i].type] * d[i].count /\ n.last = i
      BY <2>2
    <2>5. TypeSize[d[i].type] * d[i].count \in Nat
      BY <1>1, <2>3
    <2>6. LastOf[d][i] = i
      BY <1>6, LastFacts
    <2> QED
      BY <1>2, <2>3, <2>4, <2>5, <2>6 DEF NodeRight, n
  <1> QED
    BY <1>4, <1>5, <1>6 DEF Branches

\* So is the walk along the children of a branch.
LEMMA WalkStep ==
    ASSUME NEW d \in Descriptors, NEW b, NEW i, Holds(d, b, i),
           d[i].type # "end" => NodeRight(d, i) /\ WalkRight(d, b, LastOf[d][i] + 1)
    PROVE  WalkRight(d, b, i)
  <1> DEFINE w == Siblings(d)
  <1>1. i \in Positions /\ i \in 1..Len(d) /\ Len(d) \in Nat /\ b \in Nodes(d)
    BY DescriptorFacts DEF Holds, Positions
  <1>2. w[i] = Walk(d, w, i)
    BY <1>1, SiblingsWalk
  <1>3. Closes(d, i) <=> d[i].type = "end"
    BY <1>1 DEF Closes
  <1>4. CASE d[i].type = "end"
    <2>1. Walk(d, w, i) = [sum |-> 0, most |-> 0, last |-> i]
      BY <1>3, <1>4 DEF Walk
    <2>2. w[i].sum = 0 /\ w[i].most = 0 /\ w[i].last = i
      BY <1>2, <2>1
    <2>3. i = LastOf[d][b] /\ KidsFrom(d, b, i) = {}
      BY <1>4, ChildOrEnd
    <2>4. SumFunctionOnSet(Bytes(d), {}) = 0
      BY SumOfNone
    <2>5. {0} \cup {Bytes(d)[j] : j \in KidsFrom(d, b, i)} = {0}
      BY <2>3
    <2> QED
      BY <2>2, <2>3, <2>4, <2>5 DEF WalkRight
  <1>5. CASE d[i].type # "end"
    <2> DEFINE next == LastOf[d][i] + 1
               n == NodeAt(d, w, i)
               kids == KidsFrom(d, b, next)
               size == Bytes(d)
               top == {0} \cup {size[j] : j \in kids}
    <2>1. /\ KidsFrom(d, b, i) = kids \cup {i} /\ i \notin kids /\ i \in Nodes(d)
      BY <1>5, ChildOrEnd
    <2>2. n.last + 1 = next /\ n.size = size[i] /\ size[i] \in Nat
      BY <1>5, <2>1, BytesIs DEF NodeRight
    <2>3. Walk(d, w, i) = [sum  |-> n.size + w[n.last + 1].sum,
                           most |-> IF n.size > w[n.last + 1].most THEN n.size ELSE w[n.last + 1].most,
                           last |-> w[n.last + 1].last]
      BY <1>3, <1>5 DEF Walk
    <2>4. /\ w[next].last = LastOf[d][b]
          /\ \A j \in kids : size[j] \in Nat
          /\ w[next].sum \in Nat /\ w[next].sum = SumFunctionOnSet(size, kids)
          /\ w[next].most \in top /\ \A x \in top : x \in Nat /\ x <= w[next].most
      BY <1>5 DEF WalkRight
    <2>5. IsFiniteSet(kids)
      BY <1>1, KidsFinite
    <2> HIDE DEF n, next, w, kids, size
    <2>8. /\ w[i].sum = size[i] + w[next].sum
          /\ w[i].most = IF size[i] > w[next].most THEN size[i] ELSE w[next].most
          /\ w[i].last = LastOf[d][b]
      BY <1>2, <2>2, <2>3, <2>4
    <2> HIDE DEF top
    <2>7. w[next].most \in Nat
      BY <2>4
    <2>9. SumFunctionOnSet(size, kids \cup {i}) = size[i] + SumFunctionOnSet(size, kids)
      BY <2>1, <2>2, <2>4, <2>5, SumAdds
    <2>10. w[i].sum \in Nat /\ w[i].sum = SumFunctionOnSet(size, kids \cup {i})
      BY <2>2, <2>4, <2>8, <2>9
    <2>11. {0} \cup {size[j] : j \in kids \cup {i}} = top \cup {size[i]}
      BY DEF top
    <2>12. /\ w[i].most \in top \cup {size[i]}
           /\ \A x \in top \cup {size[i]} : x \in Nat /\ x <= w[i].most
      BY <2>2, <2>4, <2>8, MaxAdds
    <2>14. \A j \in kids \cup {i} : size[j] \in Nat
      BY <2>2, <2>4
    <2>15. KidsFrom(d, b, i) = kids \cup {i}
      BY <2>1
    <2> QED
      BY <2>8, <2>10, <2>11, <2>12, <2>14, <2>15 DEF WalkRight, w, size
  <1> QED
    BY <1>4, <1>5

\* Both hold everywhere.
LEMMA WalksRight ==
    ASSUME NEW d \in Descriptors
    PROVE  /\ \A i \in Nodes(d) : NodeRight(d, i)
           /\ \A b, i : Holds(d, b, i) => WalkRight(d, b, i)
  <1> DEFINE S == {i \in 1..Len(d) : /\ i \in Nodes(d) => NodeRight(d, i)
                                     /\ \A b : Holds(d, b, i) => WalkRight(d, b, i)}
  <1>1. Len(d) \in Nat
    BY DescriptorFacts
  <1>2. ASSUME NEW i \in 1..Len(d), \A j \in (i + 1)..Len(d) : j \in S PROVE i \in S
    <2>1. ASSUME i \in Nodes(d) PROVE NodeRight(d, i)
      <3>1. ASSUME d[i].type \in Branches PROVE WalkRight(d, i, i + 1)
        <4>1. Holds(d, i, i + 1)
          BY <2>1, <3>1, FirstChild
        <4>2. i + 1 \in (i + 1)..Len(d)
          BY <1>1, <4>1 DEF Holds
        <4> QED
          BY <1>2, <4>1, <4>2
      <3> HIDE DEF S
      <3> QED
        BY <2>1, <3>1, NodeStep
    <2>2. ASSUME NEW b, Holds(d, b, i) PROVE WalkRight(d, b, i)
      <3>1. ASSUME d[i].type # "end" PROVE NodeRight(d, i) /\ WalkRight(d, b, LastOf[d][i] + 1)
        <4>1. i \in Nodes(d) /\ Holds(d, b, LastOf[d][i] + 1)
          BY <2>2, <3>1, ChildOrEnd
        <4>2. LastOf[d][i] \in i..Len(d)
          BY <4>1, LastFacts
        <4>3. LastOf[d][i] + 1 \in (i + 1)..Len(d)
          BY <1>1, <4>1, <4>2 DEF Holds
        <4> QED
          BY <1>2, <2>1, <4>1, <4>3
      <3> HIDE DEF S
      <3> QED
        BY <2>2, <3>1, WalkStep
    <2> QED
      BY <2>1, <2>2
  <1> HIDE DEF S
  <1>3. 1..Len(d) \subseteq S
    BY <1>1, <1>2, Down
  <1>4. \A i \in Nodes(d) : i \in 1..Len(d)
    BY NodeFacts
  <1>5. \A b, i : Holds(d, b, i) => i \in 1..Len(d)
    BY DEF Holds
  <1> QED
    BY <1>3, <1>4, <1>5 DEF S

-----------------------------------------------------------------------------
(***************************************************************************)
(* The search of get_node. It too only looks ahead.                        *)
(***************************************************************************)

\* what the search answers to s if it answers get behind it
Search(d, path, get, s) ==
    IF Closes(d, s.at) THEN NotFound
    ELSE LET here == Under(d, path, get, s.at, s.part)
             skip == NodeSize(d, s.at)
             rest == get[From(s.at + skip.nodes + 1, s.part, s.union)]
         IN IF here.found THEN here
            ELSE IF rest.found
            THEN Hit(rest.node, rest.offset + IF s.union THEN 0 ELSE skip.size)
            ELSE NotFound

LEMMA FromFacts ==
    /\ \A i, p \in Positions, u \in BOOLEAN :
          /\ From(i, p, u) \in Searches
          /\ From(i, p, u).at = i /\ From(i, p, u).part = p /\ From(i, p, u).union = u
    /\ \A s \in Searches : s.at \in Positions /\ s.part \in Positions /\ s.union \in BOOLEAN
  BY DEF From, Searches

\* A position before the end of a walk is a node's, and the walk skips it.
LEMMA SkipsNode ==
    ASSUME NEW d \in Descriptors, NEW i \in Positions, ~Closes(d, i)
    PROVE  /\ i \in Nodes(d) /\ NodeSize(d, i).size = Bytes(d)[i]
           /\ i + NodeSize(d, i).nodes = LastOf[d][i]
           /\ LastOf[d][i] \in Nat /\ LastOf[d][i] >= i
  <1>1. i \in Nodes(d)
    BY DescriptorFacts DEF Closes, Nodes, Positions
  <1>2. NodeAt(d, Siblings(d), i).last = LastOf[d][i]
    BY <1>1, WalksRight DEF NodeRight
  <1>3. LastOf[d][i] \in i..Len(d) /\ i \in 1..Len(d) /\ Len(d) \in Nat
    BY <1>1, LastFacts, NodeFacts
  <1> DEFINE n == NodeAt(d, Siblings(d), i)
  <1>4. NodeSize(d, i) = [size |-> n.size, nodes |-> n.last - i]
    BY DEF NodeSize
  <1>5. NodeSize(d, i).nodes = LastOf[d][i] - i
    BY <1>2, <1>4
  <1>6. NodeSize(d, i).size = Bytes(d)[i]
    BY <1>1 DEF Bytes
  <1> QED
    BY <1>1, <1>3, <1>5, <1>6

LEMMA SearchLooksAhead ==
    ASSUME NEW d \in Descriptors, NEW path, NEW f, NEW g, NEW s \in Searches,
           \A t \in Searches : t.at > s.at => f[t] = g[t]
    PROVE  Search(d, path, f, s) = Search(d, path, g, s)
  <1> DEFINE i == s.at
             inside == From(i + 1, s.part + 1, d[i].type = "ustart")
             after == From(i + NodeSize(d, i).nodes + 1, s.part, s.union)
  <1>1. i \in Positions /\ s.part \in Positions /\ s.union \in BOOLEAN
    BY FromFacts
  <1>2. i \in Nat /\ i + 1 \in Positions /\ s.part + 1 \in Positions /\ i + 1 > i
    BY <1>1 DEF Positions
  <1>3. inside \in Searches /\ inside.at = i + 1
    BY <1>2, FromFacts
  <1>4. f[inside] = g[inside]
    BY <1>2, <1>3
  <1>5. CASE Closes(d, i)
    BY <1>5 DEF Search
  <1>6. CASE ~Closes(d, i)
    <2>1. LastOf[d][i] \in Nat /\ LastOf[d][i] >= i /\ i + NodeSize(d, i).nodes = LastOf[d][i]
      BY <1>1, <1>6, SkipsNode
    <2>2. after = From(LastOf[d][i] + 1, s.part, s.union)
      BY <2>1
    <2>3. LastOf[d][i] + 1 \in Positions /\ LastOf[d][i] + 1 > i
      BY <1>2, <2>1 DEF Positions
    <2> DEFINE t == From(LastOf[d][i] + 1, s.part, s.union)
    <2>4. t \in Searches /\ t.at = LastOf[d][i] + 1
      <3>1. \A n \in Positions : From(n, s.part, s.union) \in Searches /\ From(n, s.part, s.union).at = n
        BY <1>1 DEF From, Searches
      <3> HIDE DEF i
      <3> QED
        BY <2>3, <3>1
    <2>5. f[after] = g[after]
      <3> HIDE DEF t, after
      <3>1. f[t] = g[t]
        BY <2>3, <2>4
      <3> QED
        BY <2>2, <3>1 DEF t
    <2>6. Under(d, path, f, i, s.part) = Under(d, path, g, i, s.part)
      BY <1>4 DEF Under
    <2> QED
      BY <2>5, <2>6 DEF Search
  <1> QED
    BY <1>5, <1>6

LEMMA SearchExists ==
    ASSUME NEW d \in Descriptors, NEW path
    PROVE  \E get : get = [s \in Searches |-> Search(d, path, get, s)]
  <1> DEFINE N == Len(d)
             Behind(get, m) == /\ get = [s \in Searches |-> get[s]]
                               /\ \A s \in Searches : s.at > N - m => get[s] = Search(d, path, get, s)
             M == {m \in Nat : \E get : Behind(get, m)}
  <1>0. N \in Nat /\ \A s \in Searches : s.at \in Nat \ {0}
    BY DescriptorFacts, FromFacts DEF Positions
  <1>1. 0 \in M
    <2> DEFINE get == [s \in Searches |-> NotFound]
    <2>1. ASSUME NEW s \in Searches, s.at > N - 0 PROVE get[s] = Search(d, path, get, s)
      <3>1. Closes(d, s.at)
        BY <1>0, <2>1 DEF Closes
      <3>2. Search(d, path, get, s) = NotFound
        BY <3>1 DEF Search
      <3> QED
        BY <3>2
    <2>2. Behind(get, 0)
      BY <2>1
    <2> HIDE DEF Behind
    <2> QED
      BY <2>2
  <1>2. ASSUME NEW m \in M \cap Nat PROVE m + 1 \in M
    <2>1. PICK f : Behind(f, m)
      BY <1>2
    <2> DEFINE n == N - m
               g == [s \in Searches |-> IF s.at = n THEN Search(d, path, f, s) ELSE f[s]]
    <2>2. ASSUME NEW s \in Searches, s.at > n
          PROVE  g[s] = f[s] /\ f[s] = Search(d, path, f, s)
      <3>1. s.at # n
        BY <1>0, <2>2
      <3>2. g[s] = f[s]
        BY <3>1
      <3> QED
        BY <2>1, <2>2, <3>2
    <2>3. g = [s \in Searches |-> g[s]]
      OBVIOUS
    <2>4. ASSUME NEW s \in Searches, s.at = n PROVE g[s] = Search(d, path, f, s)
      BY <2>4
    <2> HIDE DEF g
    <2>5. ASSUME NEW s \in Searches, s.at > n \/ s.at = n
          PROVE  Search(d, path, f, s) = Search(d, path, g, s)
      <3>1. ASSUME NEW t \in Searches, t.at > s.at PROVE f[t] = g[t]
        <4>1. t.at > n
          BY <1>0, <2>5, <3>1
        <4> QED
          BY <2>2, <4>1
      <3> QED
        BY <3>1, SearchLooksAhead
    <2>6. ASSUME NEW s \in Searches, s.at > N - (m + 1) PROVE g[s] = Search(d, path, g, s)
      <3>1. s.at > n \/ s.at = n
        BY <1>0, <2>6
      <3> QED
        BY <2>2, <2>4, <2>5, <3>1
    <2>7. Behind(g, m + 1)
      BY <2>3, <2>6
    <2> HIDE DEF Behind
    <2> QED
      BY <2>7
  <1> HIDE DEF M
  <1>3. Nat \subseteq M
    BY <1>1, <1>2, Induct
  <1>4. PICK get : Behind(get, N)
    BY <1>0, <1>3 DEF M
  <1>5. \A s \in Searches : s.at > N - N
    BY <1>0
  <1>6. get = [s \in Searches |-> Search(d, path, get, s)]
    BY <1>4, <1>5
  <1> QED
    BY <1>6

\* GetNode is such a function.
LEMMA GetNodeSearches ==
    ASSUME NEW d \in Descriptors, NEW path, NEW s \in Searches
    PROVE  GetNode(d, path)[s] = Search(d, path, GetNode(d, path), s)
  <1> DEFINE Law(get) == get = [t \in Searches |->
                 IF Closes(d, t.at) THEN NotFound
                 ELSE LET here == Under(d, path, get, t.at, t.part)
                          skip == NodeSize(d, t.at)
                          rest == get[From(t.at + skip.nodes + 1, t.part, t.union)]
                      IN IF here.found THEN here
                         ELSE IF rest.found
                         THEN Hit(rest.node, rest.offset + IF t.union THEN 0 ELSE skip.size)
                         ELSE NotFound]
             g == CHOOSE get : Law(get)
  <1>1. GetNode(d, path) = g
    BY DEF GetNode
  <1>2. \A get : Law(get) <=> get = [t \in Searches |-> Search(d, path, get, t)]
    BY DEF Search
  <1> HIDE DEF Law
  <1>3. \E get : Law(get)
    BY <1>2, SearchExists
  <1>4. Law(g)
    BY <1>3
  <1> HIDE DEF g
  <1>5. g = [t \in Searches |-> Search(d, path, g, t)]
    BY <1>2, <1>4
  <1>6. g[s] = Search(d, path, g, s)
    BY <1>5
  <1> QED
    BY <1>1, <1>6

-----------------------------------------------------------------------------
(***************************************************************************)
(* Which nodes lie around a node or are skipped before it, seen from a     *)
(* position of the search.                                                 *)
(***************************************************************************)

AroundFrom(d, k, i) == {a \in Around[d][k] : a >= i}
SkippedFrom(d, k, i) == {j \in Skipped[d][k] : j >= i}

LEMMA AroundIs ==
    ASSUME NEW d \in Descriptors, NEW k \in Nodes(d), NEW a
    PROVE  a \in Around[d][k] <=> a \in Nodes(d) /\ a <= k /\ k <= LastOf[d][a]
  BY DEF Around

LEMMA SkippedIs ==
    ASSUME NEW d \in Descriptors, NEW k \in Nodes(d), NEW j
    PROVE  j \in Skipped[d][k] <=>
               /\ j \in Nodes(d) /\ LastOf[d][j] < k
               /\ \E b \in Around[d][k] : d[b].type = "start" /\ j \in Kids[d][b]
  BY DEF Skipped

LEMMA Finite ==
    ASSUME NEW d \in Descriptors, NEW k \in Nodes(d), NEW i
    PROVE  /\ IsFiniteSet(AroundFrom(d, k, i)) /\ AroundFrom(d, k, i) \subseteq Nodes(d)
           /\ IsFiniteSet(SkippedFrom(d, k, i)) /\ SkippedFrom(d, k, i) \subseteq Nodes(d)
  <1>1. IsFiniteSet(Nodes(d))
    BY KidsFinite
  <1>2. AroundFrom(d, k, i) \in SUBSET Nodes(d) /\ SkippedFrom(d, k, i) \in SUBSET Nodes(d)
    BY AroundIs, SkippedIs DEF AroundFrom, SkippedFrom
  <1> QED
    BY <1>1, <1>2, FS_Subset

\* Seen from the node itself there is the node and nothing skipped.
LEMMA SeenFromItself ==
    ASSUME NEW d \in Descriptors, NEW i \in Nodes(d)
    PROVE  AroundFrom(d, i, i) = {i} /\ SkippedFrom(d, i, i) = {}
  <1>1. i \in Nat /\ LastOf[d][i] >= i
    BY NodeFacts, LastFacts
  <1>2. i \in Around[d][i]
    BY <1>1, AroundIs
  <1>3. ASSUME NEW a \in Around[d][i], a >= i PROVE a = i
    BY <1>1, <1>3, AroundIs, NodeFacts
  <1>4. ASSUME NEW j \in Skipped[d][i], j >= i PROVE FALSE
    <2>1. j \in Nodes(d) /\ LastOf[d][j] < i
      BY SkippedIs
    <2>2. j \in Nat /\ LastOf[d][j] \in Nat /\ LastOf[d][j] >= j
      BY <2>1, NodeFacts, LastFacts
    <2> QED
      BY <1>1, <1>4, <2>1, <2>2
  <1>5. AroundFrom(d, i, i) = {i}
    BY <1>1, <1>2, <1>3 DEF AroundFrom
  <1>6. SkippedFrom(d, i, i) = {}
    BY <1>4 DEF SkippedFrom
  <1> QED
    BY <1>5, <1>6

\* A branch entered is around what is inside.
LEMMA SeenFromInside ==
    ASSUME NEW d \in Descriptors, NEW i \in Nodes(d), NEW k \in Nodes(d),
           i < k, k <= LastOf[d][i]
    PROVE  /\ AroundFrom(d, k, i) = AroundFrom(d, k, i + 1) \cup {i}
           /\ i \notin AroundFrom(d, k, i + 1)
           /\ SkippedFrom(d, k, i) = SkippedFrom(d, k, i + 1)
  <1>1. i \in Nat /\ k \in Nat /\ \A a \in Nodes(d) : a \in Nat
    BY NodeFacts
  <1>2. i \in Around[d][k]
    BY <1>1, AroundIs
  <1>3. i \notin Skipped[d][k]
    <2>1. LastOf[d][i] \in Nat
      BY <1>1, LastFacts, NodeFacts
    <2> QED
      BY <1>1, <2>1, SkippedIs
  <1>4. ASSUME NEW a \in Around[d][k] PROVE a >= i <=> a >= i + 1 \/ a = i
    <2>1. a \in Nat
      BY <1>1, AroundIs
    <2> QED
      BY <1>1, <2>1
  <1>5. ASSUME NEW j \in Skipped[d][k] PROVE j >= i <=> j >= i + 1
    <2>1. j \in Nat /\ j # i
      BY <1>1, <1>3, SkippedIs
    <2> QED
      BY <1>1, <2>1
  <1>6. ~(i >= i + 1)
    BY <1>1
  <1> QED
    BY <1>2, <1>4, <1>5, <1>6 DEF AroundFrom, SkippedFrom

\* No node is a child of two branches.
LEMMA OneParent ==
    ASSUME NEW d \in Descriptors, NEW a \in Nodes(d), NEW b \in Nodes(d), NEW i,
           i \in Kids[d][a], i \in Kids[d][b]
    PROVE  a = b
  <1>1. ASSUME NEW x \in Nodes(d), NEW y \in Nodes(d), i \in Kids[d][x], i \in Kids[d][y], x < y
        PROVE  FALSE
    <2>1. /\ i \in Nodes(d) /\ x < i /\ i <= LastOf[d][x] /\ Depth(d, i - 1) = Depth(d, x)
          /\ y < i /\ i <= LastOf[d][y] /\ Depth(d, i - 1) = Depth(d, y)
      BY <1>1, KidIs
    <2>2. /\ i \in Nat /\ x \in Nat /\ y \in Nat /\ LastOf[d][x] \in Nat /\ LastOf[d][y] \in Nat
          /\ Depth(d, x) \in Nat /\ Depth(d, x - 1) \in Nat
          /\ Depth(d, y) \in Nat /\ Depth(d, y - 1) \in Nat
      <3>1. ASSUME NEW z \in Nodes(d)
            PROVE  /\ z \in Nat /\ LastOf[d][z] \in Nat
                   /\ Depth(d, z) \in Nat /\ Depth(d, z - 1) \in Nat
        <4>1. LastOf[d][z] \in z..Len(d)
          BY LastFacts
        <4>2. /\ z \in 1..Len(d) /\ Len(d) \in Nat
              /\ Depth(d, z) \in Nat /\ Depth(d, z - 1) \in Nat
          BY NodeFacts
        <4> QED
          BY <4>1, <4>2
      <3> QED
        BY <2>1, <3>1
    <2>3. y <= LastOf[d][x]
      BY <2>1, <2>2
    <2>4. Depth(d, y - 1) > Depth(d, x - 1) /\ d[x].type \in Branches
      BY <1>1, <2>3, Nests
    <2>5. d[y].type \in Branches
      BY <2>1, <2>2, LastFacts
    <2>6. Depth(d, x) = Depth(d, x - 1) + 1 /\ Depth(d, y) = Depth(d, y - 1) + 1
      BY <2>4, <2>5, NodeFacts
    <2> QED
      BY <2>1, <2>2, <2>4, <2>6
  <1>2. a \in Nat /\ b \in Nat
    BY NodeFacts
  <1>3. ~(a < b) /\ ~(b < a)
    BY <1>1
  <1> QED
    BY <1>2, <1>3

\* Seen from a child that does not hold the node, only that child may be
\* skipped: nothing inside it is.
LEMMA SeenFromBefore ==
    ASSUME NEW d \in Descriptors, NEW b, NEW i, Holds(d, b, i), d[i].type # "end",
           NEW k \in Nodes(d), LastOf[d][i] < k, k <= LastOf[d][b]
    PROVE  LET next == LastOf[d][i] + 1
           IN /\ AroundFrom(d, k, i) = AroundFrom(d, k, next)
              /\ d[b].type = "ustart" => SkippedFrom(d, k, i) = SkippedFrom(d, k, next)
              /\ d[b].type = "start" =>
                    /\ SkippedFrom(d, k, i) = SkippedFrom(d, k, next) \cup {i}
                    /\ i \notin SkippedFrom(d, k, next)
  <1> DEFINE I == LastOf[d][i]
  <1>1. i \in Nodes(d) /\ i \in Kids[d][b] /\ b \in Nodes(d) /\ b < i
    BY ChildOrEnd DEF Holds
  <1>2. /\ i \in Nat /\ b \in Nat /\ k \in Nat /\ I \in Nat /\ i <= I
        /\ \A a \in Nodes(d) : a \in Nat /\ LastOf[d][a] \in Nat /\ a <= LastOf[d][a]
    <2>1. \A a \in Nodes(d) : a \in Nat /\ LastOf[d][a] \in Nat /\ a <= LastOf[d][a]
      BY NodeFacts, LastFacts
    <2> QED
      BY <1>1, <2>1
  <1>3. I < k
    OBVIOUS
  <1>4. ASSUME NEW a \in Nodes(d), i <= a, a <= I PROVE LastOf[d][a] <= I
    <2>1. a = i => LastOf[d][a] = I
      OBVIOUS
    <2>2. i < a => LastOf[d][a] < I
      BY <1>1, <1>4, Nests
    <2> HIDE DEF I
    <2> QED
      BY <1>1, <1>2, <1>4, <2>1, <2>2
  <1>5. b \in Around[d][k]
    <2>1. b <= k
      BY <1>1, <1>2, <1>3
    <2> QED
      BY <1>1, <2>1, AroundIs
  <1>6. ASSUME NEW j \in Nodes(d), i < j, j <= I PROVE j \notin Skipped[d][k]
    <2> SUFFICES ASSUME NEW c \in Around[d][k], j \in Kids[d][c] PROVE FALSE
      BY SkippedIs
    <2>1. c \in Nodes(d) /\ c <= k /\ k <= LastOf[d][c]
      BY AroundIs
    <2>2. c < j /\ Depth(d, j - 1) = Depth(d, c)
      BY <2>1, KidIs
    <2>3. ~(i <= c)
      <3> SUFFICES ASSUME i <= c PROVE FALSE
        OBVIOUS
      <3>1. c <= I
        BY <1>2, <1>6, <2>1, <2>2
      <3>2. LastOf[d][c] <= I
        BY <1>4, <2>1, <3>1
      <3> QED
        BY <1>2, <1>3, <2>1, <3>2
    <2>4. c < i /\ i <= LastOf[d][c]
      BY <1>2, <1>3, <2>1, <2>3
    <2>5. Depth(d, i - 1) > Depth(d, c - 1) /\ d[c].type \in Branches
      BY <1>1, <2>1, <2>4, Nests
    <2>6. Depth(d, j - 1) > Depth(d, i - 1)
      BY <1>1, <1>6, Nests
    <2>7. /\ Depth(d, c) = Depth(d, c - 1) + 1 /\ Depth(d, c - 1) \in Nat
          /\ Depth(d, i - 1) \in Nat /\ Depth(d, j - 1) \in Nat
      BY <1>1, <2>1, <2>5, NodeFacts
    <2> QED
      BY <2>2, <2>5, <2>6, <2>7
  <1>7. d[b].type = "start" => i \in Skipped[d][k]
    BY <1>1, <1>3, <1>5, SkippedIs
  <1>8. d[b].type = "ustart" => i \notin Skipped[d][k]
    <2> SUFFICES ASSUME d[b].type = "ustart", i \in Skipped[d][k] PROVE FALSE
      OBVIOUS
    <2>1. PICK c \in Around[d][k] : d[c].type = "start" /\ i \in Kids[d][c]
      BY SkippedIs
    <2>2. c = b
      BY <1>1, <2>1, AroundIs, OneParent
    <2> QED
      BY <2>1, <2>2
  <1>9. ASSUME NEW a \in Around[d][k], a >= i PROVE a >= I + 1
    <2>1. a \in Nodes(d) /\ k <= LastOf[d][a]
      BY AroundIs
    <2>2. a <= I => LastOf[d][a] <= I
      BY <1>4, <1>9, <2>1
    <2>3. a \in Nat /\ LastOf[d][a] \in Nat /\ I \in Nat /\ k \in Nat
      BY <1>2, <2>1
    <2> HIDE DEF I
    <2> QED
      BY ONLY <1>3, <2>1, <2>2, <2>3
  <1>10. ASSUME NEW j \in Skipped[d][k], j >= i, j # i PROVE j >= I + 1
    <2>1. j \in Nodes(d)
      BY SkippedIs
    <2>2. ~(i < j /\ j <= I)
      BY <1>6, <2>1
    <2>3. i \in Nat /\ j \in Nat /\ I \in Nat
      BY <1>2, <2>1
    <2> HIDE DEF I
    <2> QED
      BY ONLY <1>10, <2>2, <2>3
  <1>11. \A a \in Nodes(d) : a >= I + 1 => a >= i /\ a # i
    BY <1>2
  <1>12. /\ Around[d][k] \subseteq Nodes(d) /\ Skipped[d][k] \subseteq Nodes(d)
         /\ i >= i /\ ~(i >= I + 1)
    BY <1>2, AroundIs, SkippedIs
  <1> HIDE DEF I
  <1>13. AroundFrom(d, k, i) = AroundFrom(d, k, I + 1)
    BY <1>9, <1>11, <1>12 DEF AroundFrom
  <1>14. ASSUME d[b].type = "ustart" PROVE SkippedFrom(d, k, i) = SkippedFrom(d, k, I + 1)
    <2>1. \A j \in Skipped[d][k] : j >= i <=> j >= I + 1
      BY <1>8, <1>10, <1>11, <1>12, <1>14
    <2> QED
      BY <2>1 DEF SkippedFrom
  <1>15. ASSUME d[b].type = "start"
         PROVE  /\ SkippedFrom(d, k, i) = SkippedFrom(d, k, I + 1) \cup {i}
                /\ i \notin SkippedFrom(d, k, I + 1)
    <2>1. \A j \in Skipped[d][k] : j >= i <=> j >= I + 1 \/ j = i
      BY <1>10, <1>11, <1>12
    <2> QED
      BY <1>7, <1>12, <1>15, <2>1 DEF SkippedFrom
  <1> QED
    BY <1>13, <1>14, <1>15 DEF I

-----------------------------------------------------------------------------
(***************************************************************************)
(* What get_node finds.                                                    *)
(***************************************************************************)

\* the part of ItemStart that lies from position i on
StartFrom(d, path, k, i) ==
    SumFunctionOnSet(Bytes(d), SkippedFrom(d, k, i))
        + SumFunctionOnSet(IndexBytes(d, path), AroundFrom(d, k, i))

\* the nodes from i to m that the rest of the path names
NamedIn(d, path, i, m) ==
    {k \in Nodes(d) : /\ i <= k /\ k <= m /\ Depth(d, k - 1) = Len(path) - 1
                      /\ \A a \in AroundFrom(d, k, i) : Names(d, path, a)}

\* what get_node should answer from i on, if the nodes in question are C
Answer(d, path, C, i) ==
    IF C = {} THEN NotFound
    ELSE Hit(Min(C), StartFrom(d, path, Min(C), i))

UnderRight(d, path, i) ==
    Under(d, path, GetNode(d, path), i, Depth(d, i - 1) + 1)
        = Answer(d, path, NamedIn(d, path, i, LastOf[d][i]), i)
SearchRight(d, path, b, i) ==
    GetNode(d, path)[From(i, Depth(d, i - 1) + 1, d[b].type = "ustart")]
        = Answer(d, path, NamedIn(d, path, i, LastOf[d][b]), i)

LEMMA HitFacts ==
    ASSUME NEW node, NEW start
    PROVE  /\ Hit(node, start).found /\ Hit(node, start).node = node
           /\ Hit(node, start).offset = start
           /\ ~NotFound.found
  BY DEF Hit, NotFound

LEMMA PathFacts ==
    ASSUME NEW path \in Paths
    PROVE  Len(path) \in Nat \ {0} /\ \A n \in 1..Len(path) : path[n].index \in Nat
  <1> DEFINE P == [name : Nat, index : Nat]
  <1>1. path \in Seq(P) /\ path # <<>>
    BY CallsAssumption DEF CallsAssumption
  <1>2. Len(path) \in Nat \ {0} /\ \A n \in 1..Len(path) : path[n] \in P
    <2> HIDE DEF P
    <2> QED
      BY <1>1
  <1> QED
    BY <1>2

LEMMA MinIs ==
    ASSUME NEW S \in SUBSET Nat, NEW n \in S, \A x \in S : n <= x
    PROVE  Min(S) = n
  <1>1. n \in Nat /\ \A x \in S : x \in Nat
    OBVIOUS
  <1>2. \A x \in S : (\A y \in S : x <= y) => x = n
    BY <1>1
  <1> QED
    BY <1>1, <1>2 DEF Min

LEMMA MinExists ==
    ASSUME NEW S \in SUBSET Nat, S # {}
    PROVE  Min(S) \in S /\ \A x \in S : Min(S) <= x
  <1>1. PICK n \in S : \A x \in S : n <= x
    BY Least
  <1>2. Min(S) = n
    BY <1>1, MinIs
  <1> QED
    BY <1>1, <1>2

LEMMA Divides ==
    ASSUME NEW n \in Nat, NEW c \in Nat \ {0}
    PROVE  (n * c) \div c = n
  <1> DEFINE q == (n * c) \div c
             r == (n * c) % c
  <1>1. n * c \in Nat
    OBVIOUS
  <1>2. q \in Int /\ r \in 0..(c - 1) /\ n * c = c * q + r
    BY <1>1
  <1> HIDE DEF q, r
  <1>3. ~(n >= q + 1)
    <2> SUFFICES ASSUME n >= q + 1 PROVE FALSE
      OBVIOUS
    <2>1. PICK e \in Nat : n = (q + 1) + e
      <3>1. n - (q + 1) \in Nat /\ n = (q + 1) + (n - (q + 1))
        BY <1>2
      <3> QED
        BY <3>1
    <2>2. n * c = c * q + c + c * e /\ c * e \in Nat /\ c * q \in Int
      BY <1>2, <2>1
    <2> QED
      BY <1>2, <2>2
  <1>4. ~(q >= n + 1)
    <2> SUFFICES ASSUME q >= n + 1 PROVE FALSE
      OBVIOUS
    <2>1. PICK e \in Nat : q = (n + 1) + e
      <3>1. q - (n + 1) \in Nat /\ q = (n + 1) + (q - (n + 1))
        BY <1>2
      <3> QED
        BY <3>1
    <2>2. c * q = n * c + c + c * e /\ c * e \in Nat /\ c * q \in Int
      BY <1>2, <2>1
    <2> QED
      BY <1>1, <1>2, <2>2
  <1>5. q = n
    BY <1>2, <1>3, <1>4
  <1> QED
    BY <1>5 DEF q

\* Where an element begins is what the elements before it take.
LEMMA ElementOffsetIs ==
    ASSUME NEW d \in Descriptors, NEW i \in Nodes(d), NEW index \in Nat
    PROVE  /\ ElementOffset(d, i, index) = ElementBytes(d, i) * index
           /\ ElementBytes(d, i) * index \in Nat
  <1> DEFINE e == ElementBytes(d, i)
             c == d[i].count
  <1>1. NodeSize(d, i).size = e * c /\ e \in Nat
    BY WalksRight DEF NodeRight, Bytes
  <1>2. c \in Nat \ {0}
    BY NodeFacts
  <1> HIDE DEF e, c
  <1>3. (e * c) \div c = e
    BY <1>1, <1>2, Divides
  <1>4. ElementOffset(d, i, index) = e * index
    BY <1>1, <1>3 DEF ElementOffset, c
  <1>5. e * index \in Nat
    BY <1>1
  <1> QED
    BY <1>4, <1>5 DEF e

LEMMA SumNat ==
    ASSUME NEW S, IsFiniteSet(S), NEW f, \A y \in S : f[y] \in Nat
    PROVE  SumFunctionOnSet(f, S) \in Nat
  <1>1. CASE S = {}
    BY <1>1, SumOfNone
  <1>2. CASE S # {}
    <2>1. PICK x \in S : TRUE
      BY <1>2
    <2>2. IsFiniteSet(S \ {x}) /\ x \notin S \ {x} /\ (S \ {x}) \cup {x} = S
      BY FS_RemoveElement
    <2>3. SumFunctionOnSet(f, S \ {x}) \in Nat
      BY <2>2, SumAdds
    <2>4. SumFunctionOnSet(f, (S \ {x}) \cup {x}) = f[x] + SumFunctionOnSet(f, S \ {x})
      BY <2>2, SumAdds
    <2>5. SumFunctionOnSet(f, (S \ {x}) \cup {x}) = SumFunctionOnSet(f, S)
      BY <2>2
    <2>6. f[x] \in Nat
      BY <2>1
    <2> QED
      BY ONLY <2>3, <2>4, <2>5, <2>6
  <1> QED
    BY <1>1, <1>2

\* The branches around a node are less deep than it.
LEMMA AroundDepth ==
    ASSUME NEW d \in Descriptors, NEW k \in Nodes(d), NEW a \in Around[d][k]
    PROVE  /\ a \in Nodes(d) /\ Depth(d, a - 1) \in Nat /\ Depth(d, a - 1) <= Depth(d, k - 1)
           /\ a # k => Depth(d, a - 1) < Depth(d, k - 1)
  <1>1. a \in Nodes(d) /\ a <= k /\ k <= LastOf[d][a]
    BY AroundIs
  <1>2. a \in Nat /\ k \in Nat /\ Depth(d, a - 1) \in Nat /\ Depth(d, k - 1) \in Nat
    BY <1>1, NodeFacts
  <1>3. a < k => Depth(d, k - 1) > Depth(d, a - 1)
    BY <1>1, Nests
  <1> QED
    BY <1>1, <1>2, <1>3

\* All that is added up for an item is numbers.
LEMMA SummandsNat ==
    ASSUME NEW d \in Descriptors, NEW path \in Paths, NEW k \in Nodes(d),
           Depth(d, k - 1) = Len(path) - 1, NEW i
    PROVE  /\ \A a \in AroundFrom(d, k, i) : IndexBytes(d, path)[a] \in Nat
           /\ \A j \in SkippedFrom(d, k, i) : Bytes(d)[j] \in Nat
           /\ SumFunctionOnSet(IndexBytes(d, path), AroundFrom(d, k, i)) \in Nat
           /\ SumFunctionOnSet(Bytes(d), SkippedFrom(d, k, i)) \in Nat
           /\ StartFrom(d, path, k, i) \in Nat
  <1>1. ASSUME NEW a \in AroundFrom(d, k, i) PROVE IndexBytes(d, path)[a] \in Nat
    <2>1. a \in Nodes(d) /\ Depth(d, a - 1) \in Nat /\ Depth(d, a - 1) <= Depth(d, k - 1)
      BY AroundDepth DEF AroundFrom
    <2>2. Depth(d, a - 1) + 1 \in 1..Len(path)
      BY <2>1, PathFacts
    <2>3. Part(d, path, a).index \in Nat
      BY <2>2, PathFacts DEF Part
    <2>4. ElementBytes(d, a) * Part(d, path, a).index \in Nat
      BY <2>1, <2>3, ElementOffsetIs
    <2> QED
      BY <2>1, <2>4 DEF IndexBytes
  <1>2. ASSUME NEW j \in SkippedFrom(d, k, i) PROVE Bytes(d)[j] \in Nat
    <2>1. j \in Nodes(d)
      BY Finite
    <2> QED
      BY <2>1, WalksRight DEF NodeRight
  <1>3. IsFiniteSet(AroundFrom(d, k, i)) /\ IsFiniteSet(SkippedFrom(d, k, i))
    BY Finite
  <1>4. SumFunctionOnSet(IndexBytes(d, path), AroundFrom(d, k, i)) \in Nat
    BY <1>1, <1>3, SumNat
  <1>5. SumFunctionOnSet(Bytes(d), SkippedFrom(d, k, i)) \in Nat
    BY <1>2, <1>3, SumNat
  <1> QED
    BY <1>1, <1>2, <1>4, <1>5 DEF StartFrom

\* The item of the node at i itself.
LEMMA StartOfItself ==
    ASSUME NEW d \in Descriptors, NEW path \in Paths, NEW i \in Nodes(d),
           Depth(d, i - 1) = Len(path) - 1
    PROVE  StartFrom(d, path, i, i) = IndexBytes(d, path)[i]
  <1> DEFINE f == IndexBytes(d, path)
  <1>1. AroundFrom(d, i, i) = {i} /\ SkippedFrom(d, i, i) = {}
    BY SeenFromItself
  <1>2. f[i] \in Nat
    <2>1. \A a \in AroundFrom(d, i, i) : f[a] \in Nat
      BY SummandsNat
    <2> QED
      BY <1>1, <2>1
  <1> HIDE DEF f
  <1>3. SumFunctionOnSet(Bytes(d), {}) = 0 /\ SumFunctionOnSet(f, {}) = 0
    BY SumOfNone
  <1>4. {i} = {} \cup {i} /\ i \notin {} /\ IsFiniteSet({})
    BY FS_EmptySet
  <1>5. SumFunctionOnSet(f, {} \cup {i}) = f[i] + SumFunctionOnSet(f, {})
    BY <1>2, <1>4, SumAdds
  <1>6. SumFunctionOnSet(f, {i}) = f[i]
    BY <1>2, <1>3, <1>4, <1>5
  <1> QED
    BY <1>1, <1>2, <1>3, <1>6 DEF StartFrom, f

\* An item inside the node at i lies behind the elements of i before the index.
LEMMA StartInside ==
    ASSUME NEW d \in Descriptors, NEW path \in Paths, NEW i \in Nodes(d), NEW k \in Nodes(d),
           Depth(d, k - 1) = Len(path) - 1, i < k, k <= LastOf[d][i]
    PROVE  /\ IndexBytes(d, path)[i] \in Nat /\ StartFrom(d, path, k, i + 1) \in Nat
           /\ StartFrom(d, path, k, i) = StartFrom(d, path, k, i + 1) + IndexBytes(d, path)[i]
  <1> DEFINE f == IndexBytes(d, path)
             A == AroundFrom(d, k, i + 1)
             K == SkippedFrom(d, k, i + 1)
  <1>1. AroundFrom(d, k, i) = A \cup {i} /\ i \notin A /\ SkippedFrom(d, k, i) = K
    BY SeenFromInside
  <1>2. /\ \A a \in AroundFrom(d, k, i) : f[a] \in Nat
        /\ SumFunctionOnSet(f, A) \in Nat /\ SumFunctionOnSet(Bytes(d), K) \in Nat
        /\ StartFrom(d, path, k, i + 1) \in Nat
    BY SummandsNat
  <1>3. IsFiniteSet(A)
    BY Finite
  <1>4. StartFrom(d, path, k, i + 1) = SumFunctionOnSet(Bytes(d), K) + SumFunctionOnSet(f, A)
    BY DEF StartFrom
  <1>5. StartFrom(d, path, k, i) = SumFunctionOnSet(Bytes(d), K) + SumFunctionOnSet(f, A \cup {i})
    BY <1>1 DEF StartFrom
  <1> HIDE DEF f, A, K
  <1>6. f[i] \in Nat /\ \A y \in A \cup {i} : f[y] \in Nat
    BY <1>1, <1>2
  <1>7. SumFunctionOnSet(f, A \cup {i}) = f[i] + SumFunctionOnSet(f, A)
    BY <1>1, <1>3, <1>6, SumAdds
  <1> QED
    BY <1>2, <1>4, <1>5, <1>6, <1>7 DEF f

\* An item behind the child at i lies behind its bytes, unless it is in a union.
LEMMA StartBehind ==
    ASSUME NEW d \in Descriptors, NEW path \in Paths, NEW b, NEW i, Holds(d, b, i),
           d[i].type # "end", NEW k \in Nodes(d), Depth(d, k - 1) = Len(path) - 1,
           LastOf[d][i] < k, k <= LastOf[d][b]
    PROVE  /\ StartFrom(d, path, k, LastOf[d][i] + 1) \in Nat /\ Bytes(d)[i] \in Nat
           /\ StartFrom(d, path, k, i) = StartFrom(d, path, k, LastOf[d][i] + 1)
                                             + IF d[b].type = "ustart" THEN 0 ELSE Bytes(d)[i]
  <1> DEFINE n == LastOf[d][i] + 1
             f == IndexBytes(d, path)
             A == AroundFrom(d, k, n)
             K == SkippedFrom(d, k, n)
  <1>1. /\ AroundFrom(d, k, i) = A
        /\ d[b].type = "ustart" => SkippedFrom(d, k, i) = K
        /\ d[b].type = "start" => SkippedFrom(d, k, i) = K \cup {i} /\ i \notin K
    BY SeenFromBefore
  <1>2. /\ SumFunctionOnSet(f, A) \in Nat /\ SumFunctionOnSet(Bytes(d), K) \in Nat
        /\ \A j \in K : Bytes(d)[j] \in Nat
        /\ StartFrom(d, path, k, n) \in Nat
    BY SummandsNat
  <1>3. IsFiniteSet(K)
    BY Finite
  <1>4. StartFrom(d, path, k, n) = SumFunctionOnSet(Bytes(d), K) + SumFunctionOnSet(f, A)
    BY DEF StartFrom
  <1>5. StartFrom(d, path, k, i) = SumFunctionOnSet(Bytes(d), SkippedFrom(d, k, i)) + SumFunctionOnSet(f, A)
    BY <1>1 DEF StartFrom
  <1>6. i \in Nodes(d)
    BY ChildOrEnd
  <1>7. Bytes(d)[i] \in Nat
    BY <1>6, WalksRight DEF NodeRight
  <1>8. d[b].type = "start" \/ d[b].type = "ustart"
    BY DEF Holds, Branches
  <1> HIDE DEF f, A, K, n
  <1>9. CASE d[b].type = "ustart"
    BY <1>1, <1>2, <1>4, <1>5, <1>7, <1>9 DEF n
  <1>10. CASE d[b].type = "start"
    <2>1. \A y \in K \cup {i} : Bytes(d)[y] \in Nat
      BY <1>2, <1>7
    <2>2. SumFunctionOnSet(Bytes(d), K \cup {i}) = Bytes(d)[i] + SumFunctionOnSet(Bytes(d), K)
      BY <1>1, <1>3, <1>10, <2>1, SumAdds
    <2>3. StartFrom(d, path, k, i) = StartFrom(d, path, k, n) + Bytes(d)[i]
      <3>1. SumFunctionOnSet(Bytes(d), SkippedFrom(d, k, i)) = SumFunctionOnSet(Bytes(d), K \cup {i})
        BY <1>1, <1>10
      <3> QED
        BY ONLY <1>2, <1>4, <1>5, <1>7, <2>2, <3>1
    <2>4. d[b].type # "ustart"
      BY <1>10
    <2> QED
      BY <1>2, <1>7, <2>3, <2>4 DEF n
  <1> QED
    BY <1>8, <1>9, <1>10

\* What the path names in a node, seen from the node and from its children.
LEMMA NamedUnder ==
    ASSUME NEW d \in Descriptors, NEW path \in Paths, NEW i \in Nodes(d),
           Depth(d, i - 1) + 1 <= Len(path)
    PROVE  /\ ~Names(d, path, i) => NamedIn(d, path, i, LastOf[d][i]) = {}
           /\ Names(d, path, i) /\ Depth(d, i - 1) + 1 = Len(path) =>
                  NamedIn(d, path, i, LastOf[d][i]) = {i}
           /\ Names(d, path, i) /\ Depth(d, i - 1) + 1 # Len(path) =>
                  /\ d[i].type \notin Branches => NamedIn(d, path, i, LastOf[d][i]) = {}
                  /\ d[i].type \in Branches =>
                        NamedIn(d, path, i, LastOf[d][i]) = NamedIn(d, path, i + 1, LastOf[d][i])
  <1> DEFINE I == LastOf[d][i]
  <1>1. /\ i \in Nat /\ I \in Nat /\ i <= I /\ Depth(d, i - 1) \in Nat
        /\ \A k \in Nodes(d) : k \in Nat /\ Depth(d, k - 1) \in Nat
    <2>1. I \in i..Len(d)
      BY LastFacts
    <2>2. i \in 1..Len(d) /\ Len(d) \in Nat /\ \A k \in Nodes(d) : k \in Nat /\ Depth(d, k - 1) \in Nat
      BY NodeFacts
    <2> HIDE DEF I
    <2> QED
      BY <2>1, <2>2
  <1>2. Len(path) \in Nat \ {0}
    BY PathFacts
  <1>3. ASSUME NEW k \in Nodes(d), i < k, k <= I
        PROVE  /\ Depth(d, k - 1) > Depth(d, i - 1)
               /\ AroundFrom(d, k, i) = AroundFrom(d, k, i + 1) \cup {i}
    BY <1>3, Nests, SeenFromInside
  <1>4. AroundFrom(d, i, i) = {i}
    BY SeenFromItself
  <1>5. ASSUME NEW k \in Nodes(d), i <= k, k <= I PROVE i \in AroundFrom(d, k, i)
    <2>1. k = i \/ i < k
      BY <1>1, <1>5
    <2> HIDE DEF I
    <2> QED
      BY <1>3, <1>4, <1>5, <2>1
  <1> HIDE DEF I
  <1>6. ASSUME ~Names(d, path, i) PROVE NamedIn(d, path, i, I) = {}
    BY <1>5, <1>6 DEF NamedIn
  <1>7. ASSUME Names(d, path, i), Depth(d, i - 1) + 1 = Len(path)
        PROVE  NamedIn(d, path, i, I) = {i}
    <2>1. Depth(d, i - 1) = Len(path) - 1
      BY <1>1, <1>2, <1>7
    <2>2. i \in NamedIn(d, path, i, I)
      BY <1>1, <1>4, <1>7, <2>1 DEF NamedIn
    <2>3. ASSUME NEW k \in NamedIn(d, path, i, I) PROVE k = i
      <3>1. k \in Nodes(d) /\ i <= k /\ k <= I /\ Depth(d, k - 1) = Depth(d, i - 1)
        BY <2>1 DEF NamedIn
      <3>2. ~(i < k)
        BY <1>1, <1>3, <3>1
      <3>3. k \in Nat
        BY <1>1, <3>1
      <3> QED
        BY ONLY <1>1, <3>1, <3>2, <3>3
    <2> QED
      BY <2>2, <2>3
  <1>8. ASSUME Names(d, path, i), Depth(d, i - 1) + 1 # Len(path)
        PROVE  /\ d[i].type \notin Branches => NamedIn(d, path, i, I) = {}
               /\ d[i].type \in Branches => NamedIn(d, path, i, I) = NamedIn(d, path, i + 1, I)
    <2>1. ASSUME NEW k \in Nodes(d), i <= k, k <= I, Depth(d, k - 1) = Len(path) - 1
          PROVE  i < k /\ i + 1 <= k
      <3>1. k # i
        BY <1>1, <1>2, <1>8, <2>1
      <3> QED
        BY <1>1, <2>1, <3>1
    <2>2. ASSUME d[i].type \notin Branches PROVE NamedIn(d, path, i, I) = {}
      <3>1. I = i
        BY <2>2, LastFacts DEF I
      <3>2. \A k \in NamedIn(d, path, i, I) : k \in Nat /\ i < k /\ k <= i
        BY <1>1, <2>1, <3>1 DEF NamedIn
      <3> QED
        BY <1>1, <3>2
    <2>3. NamedIn(d, path, i, I) \subseteq NamedIn(d, path, i + 1, I)
      <3> SUFFICES ASSUME NEW k \in NamedIn(d, path, i, I)
                   PROVE  k \in NamedIn(d, path, i + 1, I)
        OBVIOUS
      <3>1. /\ k \in Nodes(d) /\ i <= k /\ k <= I /\ Depth(d, k - 1) = Len(path) - 1
            /\ \A a \in AroundFrom(d, k, i) : Names(d, path, a)
        BY DEF NamedIn
      <3>2. i < k /\ i + 1 <= k
        BY <2>1, <3>1
      <3>3. AroundFrom(d, k, i + 1) \subseteq AroundFrom(d, k, i)
        BY <1>3, <3>1, <3>2
      <3> QED
        BY <3>1, <3>2, <3>3 DEF NamedIn
    <2>4. NamedIn(d, path, i + 1, I) \subseteq NamedIn(d, path, i, I)
      <3> SUFFICES ASSUME NEW k \in NamedIn(d, path, i + 1, I)
                   PROVE  k \in NamedIn(d, path, i, I)
        OBVIOUS
      <3>1. /\ k \in Nodes(d) /\ i + 1 <= k /\ k <= I /\ Depth(d, k - 1) = Len(path) - 1
            /\ \A a \in AroundFrom(d, k, i + 1) : Names(d, path, a)
        BY DEF NamedIn
      <3>2. i < k /\ i <= k
        BY <1>1, <3>1
      <3>3. AroundFrom(d, k, i) = AroundFrom(d, k, i + 1) \cup {i}
        BY <1>3, <3>1, <3>2
      <3> QED
        BY <1>8, <3>1, <3>2, <3>3 DEF NamedIn
    <2> QED
      BY <2>2, <2>3, <2>4
  <1> QED
    BY <1>6, <1>7, <1>8 DEF I

\* The code's test of a node is whether the path's part names it.
LEMMA MatchesIs ==
    ASSUME NEW d \in Descriptors, NEW path \in Paths, NEW i \in Nodes(d),
           Depth(d, i - 1) + 1 <= Len(path)
    PROVE  /\ Depth(d, i - 1) + 1 \in 1..Len(path)
           /\ path[Depth(d, i - 1) + 1].index \in Nat
           /\ Matches(d, i, path[Depth(d, i - 1) + 1]) <=> Names(d, path, i)
           /\ ElementOffset(d, i, path[Depth(d, i - 1) + 1].index) = IndexBytes(d, path)[i]
           /\ IndexBytes(d, path)[i] \in Nat
  <1> DEFINE p == Depth(d, i - 1) + 1
             index == path[p].index
  <1>1. p \in 1..Len(path)
    <2>1. Depth(d, i - 1) \in Nat /\ Len(path) \in Nat
      BY NodeFacts, PathFacts
    <2> QED
      BY <2>1
  <1>2. index \in Nat
    BY <1>1, PathFacts
  <1>3. d[i].count \in Nat
    BY NodeFacts
  <1>4. Part(d, path, i) = path[p]
    BY DEF Part
  <1>5. IndexBytes(d, path)[i] = ElementBytes(d, i) * index
    BY <1>4 DEF IndexBytes
  <1> HIDE DEF p
  <1>6. (d[i].count > index) <=> (index < d[i].count)
    BY <1>2, <1>3
  <1>7. Matches(d, i, path[p]) <=> Names(d, path, i)
    BY <1>4, <1>6 DEF Matches, Names
  <1>8. ElementOffset(d, i, index) = ElementBytes(d, i) * index /\ ElementBytes(d, i) * index \in Nat
    BY <1>2, ElementOffsetIs
  <1> QED
    BY <1>1, <1>2, <1>5, <1>7, <1>8 DEF p

LEMMA NamedInFacts ==
    ASSUME NEW d \in Descriptors, NEW path, NEW i, NEW m
    PROVE  NamedIn(d, path, i, m) \in SUBSET Nat
  <1>1. \A k \in Nodes(d) : k \in Nat
    BY NodeFacts
  <1> QED
    BY <1>1 DEF NamedIn

\* The node at i is answered for if its children are.
LEMMA UnderStep ==
    ASSUME NEW d \in Descriptors, NEW path \in Paths, NEW i \in Nodes(d),
           Depth(d, i - 1) + 1 <= Len(path),
           d[i].type \in Branches /\ Depth(d, i) + 1 <= Len(path) => SearchRight(d, path, i, i + 1)
    PROVE  UnderRight(d, path, i)
  <1> DEFINE p == Depth(d, i - 1) + 1
             get == GetNode(d, path)
             C == NamedIn(d, path, i, LastOf[d][i])
             inner == get[From(i + 1, p + 1, d[i].type = "ustart")]
             offset == IndexBytes(d, path)[i]
             u == Under(d, path, get, i, p)
  <1>1. /\ p \in 1..Len(path) /\ Len(path) \in Nat
        /\ Matches(d, i, path[p]) <=> Names(d, path, i)
        /\ ElementOffset(d, i, path[p].index) = offset /\ offset \in Nat
    BY MatchesIs, PathFacts
  <1>2. /\ ~Names(d, path, i) => C = {}
        /\ Names(d, path, i) /\ p = Len(path) => C = {i}
        /\ Names(d, path, i) /\ p # Len(path) =>
              /\ d[i].type \notin Branches => C = {}
              /\ d[i].type \in Branches => C = NamedIn(d, path, i + 1, LastOf[d][i])
    BY NamedUnder
  <1>3. u = IF ~Names(d, path, i) THEN NotFound
            ELSE IF p = Len(path) THEN Hit(i, offset)
            ELSE IF d[i].type \in Branches /\ inner.found
            THEN Hit(inner.node, inner.offset + offset)
            ELSE NotFound
    <2> HIDE DEF p, get, offset
    <2> QED
      BY <1>1 DEF Under
  <1> SUFFICES u = Answer(d, path, C, i)
    BY DEF UnderRight
  <1>4. CASE C = {}
    <2>1. Answer(d, path, C, i) = NotFound
      BY <1>4 DEF Answer
    <2>2. CASE ~Names(d, path, i) \/ (p # Len(path) /\ d[i].type \notin Branches)
      <3> HIDE DEF u, C, inner, p, offset
      <3> QED
        BY <1>3, <2>1, <2>2
    <2>3. CASE Names(d, path, i) /\ p # Len(path) /\ d[i].type \in Branches
      <3>1. Depth(d, i) = Depth(d, i - 1) + 1 /\ (i + 1) - 1 = i
        BY <2>3, NodeFacts
      <3>2. Depth(d, i) + 1 <= Len(path)
        BY <1>1, <2>3, <3>1
      <3>3. inner = Answer(d, path, C, i + 1)
        BY <1>2, <2>3, <3>1, <3>2 DEF SearchRight
      <3>4. inner = NotFound
        BY <1>4, <3>3 DEF Answer
      <3>5. ~inner.found
        BY <3>4 DEF NotFound
      <3> HIDE DEF u, C, inner, p, offset
      <3> QED
        BY <1>3, <2>1, <2>3, <3>5
    <2>4. ~(Names(d, path, i) /\ p = Len(path))
      BY <1>2, <1>4
    <2> QED
      BY <2>2, <2>3, <2>4
  <1>5. CASE C # {}
    <2>1. Names(d, path, i)
      BY <1>2, <1>5
    <2>2. CASE p = Len(path)
      <3>1. C = {i} /\ i \in Nat
        BY <1>2, <2>1, <2>2, NodeFacts
      <3>2. Min({i}) = i
        BY <3>1, MinIs
      <3>3. Depth(d, i - 1) = Len(path) - 1
        <4>1. Depth(d, i - 1) \in Nat
          BY NodeFacts
        <4> QED
          BY <1>1, <2>2, <4>1
      <3>4. StartFrom(d, path, i, i) = offset
        BY <3>3, StartOfItself
      <3>5. Answer(d, path, C, i) = Hit(i, offset)
        <4> HIDE DEF C, offset
        <4> QED
          BY <3>1, <3>2, <3>4 DEF Answer
      <3> HIDE DEF u, C, inner, p, offset
      <3> QED
        BY <1>3, <2>1, <2>2, <3>5
    <2>3. CASE p # Len(path)
      <3> DEFINE k == Min(C)
      <3>1. d[i].type \in Branches /\ C = NamedIn(d, path, i + 1, LastOf[d][i])
        BY <1>2, <1>5, <2>1, <2>3
      <3>2. Depth(d, i) = Depth(d, i - 1) + 1 /\ (i + 1) - 1 = i /\ i \in Nat
        BY <3>1, NodeFacts
      <3>3. Depth(d, i) + 1 <= Len(path)
        BY <1>1, <2>3, <3>2
      <3>4. inner = Answer(d, path, C, i + 1)
        BY <3>1, <3>2, <3>3 DEF SearchRight
      <3>5. C \in SUBSET Nat
        BY NamedInFacts
      <3>6. k \in C
        <4> HIDE DEF C
        <4> QED
          BY <1>5, <3>5, MinExists
      <3>7. k \in Nodes(d) /\ i + 1 <= k /\ k <= LastOf[d][i] /\ Depth(d, k - 1) = Len(path) - 1
        <4> HIDE DEF k, C
        <4> QED
          BY <3>1, <3>6 DEF NamedIn
      <3>8. i < k
        <4>1. k \in Nat
          BY <3>7, NodeFacts
        <4> HIDE DEF k
        <4> QED
          BY <3>2, <3>7, <4>1
      <3>9. StartFrom(d, path, k, i) = StartFrom(d, path, k, i + 1) + offset
        <4> HIDE DEF k
        <4> QED
          BY <3>7, <3>8, StartInside
      <3> HIDE DEF C, inner, offset, u, p
      <3>10. inner = Hit(k, StartFrom(d, path, k, i + 1))
        BY <1>5, <3>4 DEF Answer
      <3>11. Answer(d, path, C, i) = Hit(k, StartFrom(d, path, k, i))
        BY <1>5 DEF Answer
      <3>12. u = Hit(inner.node, inner.offset + offset)
        BY <1>3, <2>1, <2>3, <3>1, <3>10, HitFacts
      <3> HIDE DEF k
      <3>13. Hit(inner.node, inner.offset + offset)
                 = Hit(k, StartFrom(d, path, k, i + 1) + offset)
        BY ONLY <3>10, HitFacts
      <3> QED
        BY ONLY <3>9, <3>11, <3>12, <3>13
    <2> QED
      BY <2>2, <2>3
  <1> QED
    BY <1>4, <1>5

\* What the path names among children: in the first of them, and behind it.
LEMMA NamedAmong ==
    ASSUME NEW d \in Descriptors, NEW path \in Paths, NEW b, NEW i, Holds(d, b, i),
           d[i].type # "end"
    PROVE  NamedIn(d, path, i, LastOf[d][b])
               = NamedIn(d, path, i, LastOf[d][i]) \cup NamedIn(d, path, LastOf[d][i] + 1, LastOf[d][b])
  <1> DEFINE I == LastOf[d][i]
             B == LastOf[d][b]
             C == NamedIn(d, path, i, B)
             D == NamedIn(d, path, i, I)
             E == NamedIn(d, path, I + 1, B)
  <1>1. i \in Nodes(d) /\ I < B
    BY ChildOrEnd
  <1>2. i \in Nat /\ I \in Nat /\ B \in Nat /\ i <= I /\ \A k \in Nodes(d) : k \in Nat
    <2>1. I \in i..Len(d) /\ b \in Nodes(d)
      BY <1>1, LastFacts DEF Holds
    <2>2. B \in b..Len(d)
      BY <2>1, LastFacts
    <2>3. i \in 1..Len(d) /\ b \in 1..Len(d) /\ Len(d) \in Nat /\ \A k \in Nodes(d) : k \in Nat
      BY <1>1, <2>1, NodeFacts
    <2> HIDE DEF I, B
    <2> QED
      BY <2>1, <2>2, <2>3
  <1>3. ASSUME NEW k \in Nodes(d), I < k, k <= B
        PROVE  AroundFrom(d, k, i) = AroundFrom(d, k, I + 1)
    BY <1>3, SeenFromBefore
  <1> HIDE DEF I, B
  <1>4. ASSUME NEW k \in C PROVE k \in D \cup E
    <2>1. k \in Nodes(d) /\ k \in Nat /\ i <= k /\ k <= B
      BY <1>2 DEF NamedIn
    <2>2. CASE k <= I
      BY <2>2 DEF NamedIn
    <2>3. CASE I < k
      <3>1. AroundFrom(d, k, i) = AroundFrom(d, k, I + 1)
        BY <1>3, <2>1, <2>3
      <3>2. I + 1 <= k
        BY <1>2, <2>1, <2>3
      <3>3. k \in E
        BY <3>1, <3>2 DEF NamedIn
      <3> QED
        BY <3>3
    <2> QED
      BY <1>2, <2>1, <2>2, <2>3
  <1>5. ASSUME NEW k \in D PROVE k \in C
    <2>1. k \in Nodes(d) /\ k \in Nat /\ k <= I
      BY <1>2 DEF NamedIn
    <2>2. k <= B
      BY <1>1, <1>2, <2>1 DEF I, B
    <2> QED
      BY <2>2 DEF NamedIn
  <1>6. ASSUME NEW k \in E PROVE k \in C
    <2>1. k \in Nodes(d) /\ k \in Nat /\ I + 1 <= k /\ k <= B
      BY <1>2 DEF NamedIn
    <2>2. I < k /\ i <= k
      BY <1>2, <2>1
    <2>3. AroundFrom(d, k, i) = AroundFrom(d, k, I + 1)
      BY <1>3, <2>1, <2>2
    <2> QED
      BY <2>2, <2>3 DEF NamedIn
  <1>7. C = D \cup E
    <2> HIDE DEF C, D, E
    <2> QED
      BY <1>4, <1>5, <1>6
  <1> QED
    BY <1>7 DEF I, B

\* The children from i on are answered for if the one at i and those behind
\* it are.
LEMMA SearchStep ==
    ASSUME NEW d \in Descriptors, NEW path \in Paths, NEW b, NEW i, Holds(d, b, i),
           Depth(d, i - 1) + 1 <= Len(path),
           d[i].type # "end" => UnderRight(d, path, i) /\ SearchRight(d, path, b, LastOf[d][i] + 1)
    PROVE  SearchRight(d, path, b, i)
  <1> DEFINE p == Depth(d, i - 1) + 1
             get == GetNode(d, path)
             union == d[b].type = "ustart"
             s == From(i, p, union)
             I == LastOf[d][i]
             B == LastOf[d][b]
             C == NamedIn(d, path, i, B)
             here == Under(d, path, get, i, p)
             rest == get[From(I + 1, p, union)]
             skip == NodeSize(d, i)
  <1>1. i \in Positions /\ i \in 1..Len(d) /\ Len(d) \in Nat /\ i \in Nat
    BY DescriptorFacts DEF Holds, Positions
  <1>2. p \in Positions
    <2>1. i - 1 \in 0..Len(d)
      BY <1>1
    <2>2. Depth(d, i - 1) \in Nat
      BY <2>1, DepthNat
    <2> QED
      BY <2>2 DEF Positions
  <1>3. s \in Searches /\ s.at = i /\ s.part = p /\ s.union = union
    <2> HIDE DEF p
    <2> QED
      BY <1>1, <1>2 DEF From, Searches
  <1>4. get[s] = Search(d, path, get, s)
    BY <1>3, GetNodeSearches
  <1>5. Closes(d, i) <=> d[i].type = "end"
    BY <1>1 DEF Closes
  <1> SUFFICES get[s] = Answer(d, path, C, i)
    BY DEF SearchRight
  <1>6. CASE d[i].type = "end"
    <2>1. get[s] = NotFound
      <3> HIDE DEF s, get
      <3> QED
        BY <1>3, <1>4, <1>5, <1>6 DEF Search
    <2>2. C = {}
      <3>1. i = B
        BY <1>6, ChildOrEnd
      <3>2. i \notin Nodes(d) /\ \A k \in Nodes(d) : k \in Nat
        BY <1>6, NodeFacts DEF Nodes
      <3>3. \A k \in C : k \in Nodes(d) /\ i <= k /\ k <= i
        <4> HIDE DEF B
        <4> QED
          BY <3>1 DEF NamedIn
      <3> HIDE DEF C
      <3> QED
        BY <1>1, <3>2, <3>3
    <2> HIDE DEF s, get, C
    <2> QED
      BY <2>1, <2>2 DEF Answer
  <1>7. CASE d[i].type # "end"
    <2> DEFINE D == NamedIn(d, path, i, I)
               E == NamedIn(d, path, I + 1, B)
    <2>1. i \in Nodes(d) /\ I < B /\ Holds(d, b, I + 1)
      BY <1>7, ChildOrEnd
    <2>2. C = D \cup E
      BY <1>7, NamedAmong
    <2>3. here = Answer(d, path, D, i)
      BY <1>7 DEF UnderRight
    <2>4. /\ skip.size = Bytes(d)[i] /\ i + skip.nodes = I
          /\ I \in Nat /\ I >= i
      BY <1>1, <1>5, <1>7, SkipsNode
    <2>5. Depth(d, I) = Depth(d, i - 1) /\ (I + 1) - 1 = I
      BY <2>1, <2>4, LastFacts
    <2>6. rest = Answer(d, path, E, I + 1)
      <3> HIDE DEF I
      <3>1. Depth(d, (I + 1) - 1) + 1 = p
        BY <2>5
      <3>2. SearchRight(d, path, b, I + 1)
        BY <1>7 DEF I
      <3> QED
        BY <3>1, <3>2 DEF SearchRight
    <2>7. get[s] = IF here.found THEN here
                   ELSE IF rest.found
                   THEN Hit(rest.node, rest.offset + IF union THEN 0 ELSE Bytes(d)[i])
                   ELSE NotFound
      <3>1. i + skip.nodes + 1 = I + 1
        BY <2>4
      <3>2. Search(d, path, get, s) =
              IF here.found THEN here
              ELSE IF get[From(i + skip.nodes + 1, p, union)].found
              THEN Hit(get[From(i + skip.nodes + 1, p, union)].node,
                       get[From(i + skip.nodes + 1, p, union)].offset + IF union THEN 0 ELSE skip.size)
              ELSE NotFound
        <4> HIDE DEF s, p, union, get
        <4> QED
          BY <1>3, <1>5, <1>7 DEF Search
      <3> HIDE DEF s, p, union, get, skip, here, I
      <3> QED
        BY <1>4, <2>4, <3>1, <3>2
    <2>8. D \in SUBSET Nat /\ E \in SUBSET Nat
      BY NamedInFacts
    <2>9. \A k \in E : k \in Nodes(d) /\ k \in Nat /\ I + 1 <= k /\ k <= B /\ Depth(d, k - 1) = Len(path) - 1
      BY NodeFacts DEF NamedIn
    <2>10. \A k \in D : k <= I
      BY DEF NamedIn
    <2> HIDE DEF C, D, E, here, rest, skip, get, s
    <2>11. CASE D # {}
      <3>1. here = Hit(Min(D), StartFrom(d, path, Min(D), i))
        BY <2>3, <2>11 DEF Answer
      <3>2. get[s] = here
        BY <2>7, <3>1, HitFacts
      <3>3. Min(D) \in D /\ \A x \in D : Min(D) <= x
        BY <2>8, <2>11, MinExists
      <3>4. \A x \in E : Min(D) <= x
        <4>1. Min(D) \in Nat /\ Min(D) <= I
          BY <2>8, <2>10, <3>3
        <4> HIDE DEF I
        <4> QED
          BY <2>4, <2>9, <4>1 DEF I
      <3>5. Min(C) = Min(D)
        <4> DEFINE m == Min(D)
        <4>1. C \in SUBSET Nat /\ m \in C /\ \A x \in C : m <= x
          BY <2>2, <2>8, <3>3, <3>4
        <4> HIDE DEF m
        <4> QED
          BY <4>1, MinIs DEF m
      <3>6. C # {}
        BY <2>2, <2>11
      <3> QED
        BY <3>1, <3>2, <3>5, <3>6 DEF Answer
    <2>12. CASE D = {} /\ E = {}
      <3>1. here = NotFound /\ rest = NotFound /\ C = {}
        BY <2>2, <2>3, <2>6, <2>12 DEF Answer
      <3>2. ~NotFound.found
        BY DEF NotFound
      <3> QED
        BY <2>7, <3>1, <3>2 DEF Answer
    <2>13. CASE D = {} /\ E # {}
      <3> DEFINE k == Min(E)
                 start == StartFrom(d, path, k, I + 1)
                 by == IF union THEN 0 ELSE Bytes(d)[i]
      <3>1. here = NotFound /\ ~here.found
        BY <2>3, <2>13 DEF Answer, NotFound
      <3>2. rest = Hit(k, start)
        BY <2>6, <2>13 DEF Answer
      <3>3. C = E /\ k \in E
        BY <2>2, <2>8, <2>13, MinExists
      <3>4. /\ k \in Nodes(d) /\ k \in Nat /\ I + 1 <= k /\ k <= B
            /\ Depth(d, k - 1) = Len(path) - 1
        BY <2>9, <3>3
      <3>5. I < k
        <4> HIDE DEF I, k
        <4> QED
          BY <2>4, <3>4 DEF I
      <3>6. StartFrom(d, path, k, i) = start + by
        <4> HIDE DEF k
        <4> QED
          BY <1>7, <3>4, <3>5, StartBehind
      <3>7. Answer(d, path, C, i) = Hit(k, StartFrom(d, path, k, i))
        BY <2>13, <3>3 DEF Answer
      <3> HIDE DEF start, by
      <3>8. get[s] = Hit(rest.node, rest.offset + by)
        BY <2>7, <3>1, <3>2, HitFacts DEF by
      <3>9. Hit(rest.node, rest.offset + by) = Hit(k, start + by)
        BY ONLY <3>2, HitFacts
      <3> QED
        BY ONLY <3>6, <3>7, <3>8, <3>9
    <2> QED
      BY <2>11, <2>12, <2>13
  <1> QED
    BY <1>6, <1>7

\* Every search that can be made is answered for.
LEMMA SearchesRight ==
    ASSUME NEW d \in Descriptors, NEW path \in Paths
    PROVE  \A i \in Nodes(d) : Depth(d, i - 1) + 1 <= Len(path) => UnderRight(d, path, i)
  <1> DEFINE Deep(i) == Depth(d, i - 1) + 1 <= Len(path)
             S == {i \in 1..Len(d) : Deep(i) => /\ i \in Nodes(d) => UnderRight(d, path, i)
                                                /\ \A b : Holds(d, b, i) => SearchRight(d, path, b, i)}
  <1>1. Len(d) \in Nat
    BY DescriptorFacts
  <1>2. ASSUME NEW i \in 1..Len(d), \A j \in (i + 1)..Len(d) : j \in S PROVE i \in S
    <2>1. ASSUME i \in Nodes(d), Deep(i) PROVE UnderRight(d, path, i)
      <3>1. ASSUME d[i].type \in Branches, Depth(d, i) + 1 <= Len(path)
            PROVE  SearchRight(d, path, i, i + 1)
        <4>1. Holds(d, i, i + 1)
          BY <2>1, <3>1, FirstChild
        <4>2. i + 1 \in (i + 1)..Len(d)
          BY <1>1, <4>1 DEF Holds
        <4>3. Deep(i + 1)
          <5>1. (i + 1) - 1 = i
            BY <1>1
          <5> QED
            BY <3>1, <5>1
        <4> QED
          BY <1>2, <4>1, <4>2, <4>3
      <3> HIDE DEF S
      <3> QED
        BY <2>1, <3>1, UnderStep
    <2>2. ASSUME NEW b, Holds(d, b, i), Deep(i) PROVE SearchRight(d, path, b, i)
      <3>1. ASSUME d[i].type # "end"
            PROVE  UnderRight(d, path, i) /\ SearchRight(d, path, b, LastOf[d][i] + 1)
        <4>1. i \in Nodes(d) /\ Holds(d, b, LastOf[d][i] + 1)
          BY <2>2, <3>1, ChildOrEnd
        <4>2. LastOf[d][i] \in i..Len(d) /\ Depth(d, LastOf[d][i]) = Depth(d, i - 1)
          BY <4>1, LastFacts
        <4>3. LastOf[d][i] + 1 \in (i + 1)..Len(d)
          BY <1>1, <4>1, <4>2 DEF Holds
        <4>4. Deep(LastOf[d][i] + 1)
          <5>1. (LastOf[d][i] + 1) - 1 = LastOf[d][i]
            BY <1>1, <4>2
          <5> QED
            BY <2>2, <4>2, <5>1
        <4> QED
          BY <1>2, <2>1, <2>2, <4>1, <4>3, <4>4
      <3> HIDE DEF S
      <3> QED
        BY <2>2, <3>1, SearchStep
    <2> HIDE DEF Deep
    <2> QED
      BY <2>1, <2>2
  <1> HIDE DEF S
  <1>3. 1..Len(d) \subseteq S
    BY <1>1, <1>2, Down
  <1>4. \A i \in Nodes(d) : i \in 1..Len(d)
    BY NodeFacts
  <1> QED
    BY <1>3, <1>4 DEF S

\* Seen from the root there is all of it.
LEMMA SeenFromRoot ==
    ASSUME NEW d \in Descriptors, NEW path, NEW k \in Nodes(d)
    PROVE  /\ AroundFrom(d, k, 1) = Around[d][k]
           /\ StartFrom(d, path, k, 1) = ItemStart(d, k, path)
  <1>1. \A a \in Nodes(d) : a >= 1
    BY NodeFacts
  <1>2. AroundFrom(d, k, 1) = Around[d][k] /\ SkippedFrom(d, k, 1) = Skipped[d][k]
    BY <1>1, AroundIs, SkippedIs DEF AroundFrom, SkippedFrom
  <1> QED
    BY <1>2 DEF StartFrom, ItemStart

\* The whole lookup finds the first item the path names, where it begins.
LEMMA FindIs ==
    ASSUME NEW d \in Descriptors, NEW path \in Paths
    PROVE  /\ Named(d, path) = {} => Find(d, path) = NotFound
           /\ Named(d, path) # {} =>
                 /\ Target(d, path) \in Named(d, path)
                 /\ Find(d, path) = Hit(Target(d, path), ItemStart(d, Target(d, path), path))
  <1> DEFINE C == NamedIn(d, path, 1, LastOf[d][1])
  <1>1. 1 \in Nodes(d) /\ LastOf[d][1] = Len(d) /\ Depth(d, 1 - 1) = 0
    <2>1. 1 - 1 = 0 /\ Depth(d, 0) = 0
      BY DepthSteps
    <2> QED
      BY <2>1, RootIs
  <1>2. Len(path) \in Nat \ {0} /\ \A k \in Nodes(d) : k \in 1..Len(d)
    BY PathFacts, NodeFacts
  <1>3. Depth(d, 1 - 1) + 1 <= Len(path) /\ Depth(d, 1 - 1) + 1 = 1
    BY <1>1, <1>2
  <1>4. UnderRight(d, path, 1)
    BY <1>1, <1>3, SearchesRight
  <1>5. Find(d, path) = Answer(d, path, C, 1)
    BY <1>3, <1>4 DEF Find, UnderRight
  <1>6. ASSUME NEW k \in Nodes(d)
        PROVE  AroundFrom(d, k, 1) = Around[d][k] /\ StartFrom(d, path, k, 1) = ItemStart(d, k, path)
    BY SeenFromRoot
  <1>8. ASSUME NEW k PROVE k \in C <=> k \in Named(d, path)
    <2>1. \A n \in Nodes(d) : 1 <= n /\ n <= LastOf[d][1]
      BY <1>1, <1>2
    <2> QED
      BY <1>6, <2>1 DEF NamedIn, Named
  <1>9. C = Named(d, path) /\ C \in SUBSET Nat
    BY <1>8, NamedInFacts
  <1>10. C # {} => Min(C) \in C /\ Min(C) \in Nodes(d)
    <2>1. C # {} => Min(C) \in C
      <3> HIDE DEF C
      <3> QED
        BY <1>9, MinExists
    <2>2. \A k \in C : k \in Nodes(d)
      BY DEF NamedIn
    <2> QED
      BY <2>1, <2>2
  <1> HIDE DEF C
  <1> QED
    BY <1>5, <1>6, <1>9, <1>10 DEF Answer, Target


-----------------------------------------------------------------------------
(***************************************************************************)
(* The API.                                                                *)
(***************************************************************************)

\* kowhai_find: its status, and the item if there is one.
LEMMA FoundIs ==
    ASSUME NEW d \in Descriptors, NEW path \in Paths
    PROVE  /\ FindStatus(d, path) \in {"OK", "INVALID_DESCRIPTOR", "INVALID_SYMBOL_PATH"}
           /\ d[1].type = "start" =>
                 (FindStatus(d, path) = "INVALID_SYMBOL_PATH" <=> Named(d, path) = {})
           /\ d[1].type = "start" => FindStatus(d, path) # "INVALID_DESCRIPTOR"
           /\ FindStatus(d, path) = "OK" =>
                 /\ Target(d, path) \in Named(d, path)
                 /\ Find(d, path).node = Target(d, path)
                 /\ Find(d, path).offset = ItemStart(d, Target(d, path), path)
  <1>1. Named(d, path) = {} => ~Find(d, path).found
    BY FindIs DEF NotFound
  <1>2. ASSUME Named(d, path) # {}
        PROVE  /\ Find(d, path).found /\ Target(d, path) \in Named(d, path)
               /\ Find(d, path).node = Target(d, path)
               /\ Find(d, path).offset = ItemStart(d, Target(d, path), path)
    BY <1>2, FindIs, HitFacts
  <1> QED
    BY <1>1, <1>2 DEF FindStatus

\* The numbers of an item that a path names.
LEMMA ItemFacts ==
    ASSUME NEW d \in Descriptors, NEW path \in Paths, NEW k \in Named(d, path)
    PROVE  /\ ItemStart(d, k, path) \in Nat
           /\ ElementBytes(d, k) \in Nat /\ Bytes(d)[k] \in Nat
           /\ ElementBytes(d, k) <= Bytes(d)[k] /\ NodeSize(d, k).size = Bytes(d)[k]
           /\ d[k].type \notin Branches => ElementBytes(d, k) = TypeSize[d[k].type]
           /\ path[Len(path)].index = 0 => NodeStart(d, k, path) = ItemStart(d, k, path)
  <1> DEFINE e == ElementBytes(d, k)
             c == d[k].count
  <1>1. k \in Nodes(d) /\ Depth(d, k - 1) = Len(path) - 1
    BY DEF Named
  <1>2. ItemStart(d, k, path) \in Nat
    BY <1>1, SeenFromRoot, SummandsNat
  <1>3. e \in Nat /\ Bytes(d)[k] \in Nat /\ Bytes(d)[k] = e * c
    BY <1>1, WalksRight DEF NodeRight
  <1>4. c \in Nat \ {0} /\ d[k].type \in Types
    BY <1>1, NodeFacts
  <1>5. e <= Bytes(d)[k]
    <2> HIDE DEF e, c
    <2>1. PICK m \in Nat : c = m + 1
      <3>1. c - 1 \in Nat /\ c = (c - 1) + 1
        BY <1>4
      <3> QED
        BY <3>1
    <2>2. e * c = e * m + e /\ e * m \in Nat
      BY <1>3, <2>1
    <2> QED
      BY <1>3, <2>2
  <1>6. NodeSize(d, k).size = Bytes(d)[k]
    BY <1>1 DEF Bytes
  <1>7. d[k].type \notin Branches => e = TypeSize[d[k].type]
    BY DEF ElementBytes, Branches
  <1>8. ASSUME path[Len(path)].index = 0 PROVE NodeStart(d, k, path) = ItemStart(d, k, path)
    <2>1. Depth(d, k - 1) + 1 = Len(path)
      BY <1>1, PathFacts
    <2>2. Part(d, path, k).index = 0
      BY <1>8, <2>1 DEF Part
    <2>3. IndexBytes(d, path)[k] = e * 0
      BY <1>1, <2>2 DEF IndexBytes
    <2> HIDE DEF e
    <2>4. IndexBytes(d, path)[k] = 0
      BY <1>3, <2>3
    <2> QED
      BY <1>2, <2>4 DEF NodeStart
  <1> QED
    BY <1>2, <1>3, <1>5, <1>6, <1>7, <1>8

\* Bytes from an offset on lie among the node's if their end does.
LEMMA SpanIn ==
    ASSUME NEW from \in Int, NEW offset \in Int, NEW size \in Int, NEW all \in Int,
           offset >= 0, size + offset <= all
    PROVE  Span(from + offset, size) \subseteq Span(from, all)
  BY DEF Span

\* A sum that an int can hold is itself.
LEMMA IntHolds == ASSUME NEW n \in Int, n <= IntMax PROVE Int16(n) = n
  BY DEF Int16, IntMax

\* A read or write of a found item.
LEMMA ReadOrWriteRight ==
    ASSUME desc \in Descriptors, NEW name \in {"read", "write"}, NEW path \in Paths,
           NEW offset \in Offsets, NEW size \in Sizes, ReadOrWrite(name, path, offset, size)
    PROVE  FindsTheItem' /\ StaysInNode'
  <1> DEFINE k == Target(desc, path)
             start == ItemStart(desc, k, path)
             found == FindStatus(desc, path)
  <1>1. /\ call'.name = name /\ call'.path = path /\ call'.offset = offset /\ call'.size = size
        /\ desc' = desc /\ status' = AccessStatus(desc, path, offset, size)
        /\ status' = "OK" => bytes' = Span(Find(desc, path).offset + offset, size)
    BY DEF ReadOrWrite, Access
  <1>2. offset \in Int /\ size \in Nat
    <2>1. Offsets \subseteq -(IntMax + 1) .. IntMax /\ Sizes \subseteq 0..IntMax
      BY CallsAssumption DEF CallsAssumption
    <2> QED
      BY <2>1
  <1>3. status' = "INVALID_SYMBOL_PATH" <=> found = "INVALID_SYMBOL_PATH"
    BY <1>1, FoundIs DEF AccessStatus
  <1>4. ASSUME status' = "OK"
        PROVE  /\ k \in Named(desc, path)
               /\ bytes' = Span(start + offset, size)
               /\ offset >= 0
               /\ offset + size <= IntMax => size + offset <= Bytes(desc)[k]
    <2>1. /\ found = "OK" /\ ~(offset < 0)
          /\ ~(Int16(size + offset) > NodeSize(desc, Find(desc, path).node).size)
      BY <1>1, <1>4 DEF AccessStatus
    <2>2. /\ k \in Named(desc, path) /\ Find(desc, path).node = k
          /\ Find(desc, path).offset = start
      BY <2>1, FoundIs
    <2>3. NodeSize(desc, Find(desc, path).node).size = Bytes(desc)[k] /\ Bytes(desc)[k] \in Nat
      BY <2>2, ItemFacts
    <2>4. bytes' = Span(start + offset, size)
      BY <1>1, <1>4, <2>2
    <2>5. offset + size <= IntMax => Int16(size + offset) = size + offset
      BY <1>2, IntHolds
    <2> HIDE DEF k, start
    <2> QED
      BY <1>2, <2>1, <2>2, <2>3, <2>4, <2>5
  <1>5. FindsTheItem'
    <2> HIDE DEF k, start
    <2>1. ASSUME desc[1].type = "start"
          PROVE  status' = "INVALID_SYMBOL_PATH" <=> Named(desc, path) = {}
      BY <1>3, <2>1, FoundIs
    <2>2. status' = "OK" => bytes' = Span(ItemStart(desc, Target(desc, path), path) + offset, size)
      BY <1>4 DEF k, start
    <2> QED
      BY <1>1, <2>1, <2>2 DEF FindsTheItem, Item
  <1>6. StaysInNode'
    <2> SUFFICES ASSUME status' = "OK" PROVE StaysInNode'
      BY DEF StaysInNode
    <2>1. Item' = k
      BY <1>1 DEF Item
    <2>2. ~(Typed')
      BY <1>1 DEF Typed, Accepts
    <2>3. ASSUME path[Len(path)].index = 0, offset + size <= IntMax
          PROVE  bytes' \subseteq Span(NodeStart(desc, k, path), Bytes(desc)[k])
      <3>1. k \in Named(desc, path)
        BY <1>4
      <3>2. NodeStart(desc, k, path) = start /\ start \in Nat /\ Bytes(desc)[k] \in Nat
        BY <2>3, <3>1, ItemFacts
      <3>3. offset >= 0 /\ size + offset <= Bytes(desc)[k]
        BY <1>4, <2>3
      <3> HIDE DEF k, start
      <3>4. Span(start + offset, size) \subseteq Span(start, Bytes(desc)[k])
        BY ONLY <1>2, <3>2, <3>3, SpanIn
      <3> QED
        BY <1>4, <3>2, <3>4
    <2> QED
      BY <1>1, <2>1, <2>2, <2>3 DEF StaysInNode, EndFits
  <1> QED
    BY <1>5, <1>6

\* The types of a pair of calls are of the size the pair reads or writes.
LEMMA AcceptsSize ==
    \A type \in DOMAIN Accepts : \A t \in Accepts[type] :
        /\ t \in Types /\ t \notin Branches /\ t \notin {"end"}
        /\ TypeSize[t] = TypeSize[type] /\ TypeSize[type] \in Nat
  <1>1. /\ TypeSize["int8"] = 1 /\ TypeSize["uint8"] = 1 /\ TypeSize["char"] = 1
        /\ TypeSize["int16"] = 2 /\ TypeSize["uint16"] = 2
        /\ TypeSize["int32"] = 4 /\ TypeSize["uint32"] = 4 /\ TypeSize["float"] = 4
    BY DEF TypeSize, Types, Branches
  <1> QED
    BY <1>1 DEF Accepts, Types, Branches

\* A typed get or set of a found item.
LEMMA GetOrSetRight ==
    ASSUME desc \in Descriptors, NEW type \in DOMAIN Accepts, NEW path \in Paths,
           GetOrSet(type, path)
    PROVE  FindsTheItem' /\ StaysInNode'
  <1> DEFINE k == Target(desc, path)
             start == ItemStart(desc, k, path)
             found == FindStatus(desc, path)
             size == TypeSize[type]
  <1>1. /\ call'.name = type /\ call'.path = path /\ call'.offset = 0 /\ call'.size = size
        /\ desc' = desc
        /\ status' = IF found # "OK" THEN found
                     ELSE IF desc[Find(desc, path).node].type \notin Accepts[type]
                          THEN "INVALID_NODE_TYPE" ELSE "OK"
        /\ status' = "OK" => bytes' = Span(Find(desc, path).offset, size)
    BY DEF GetOrSet, Access
  <1>2. status' = "INVALID_SYMBOL_PATH" <=> found = "INVALID_SYMBOL_PATH"
    BY <1>1, FoundIs
  <1>3. ASSUME status' = "OK"
        PROVE  /\ k \in Named(desc, path) /\ start \in Nat
               /\ desc[k].type \notin Branches /\ size \in Nat
               /\ size = ElementBytes(desc, k) /\ size <= Bytes(desc)[k] /\ Bytes(desc)[k] \in Nat
               /\ bytes' = Span(start, size)
    <2>1. found = "OK" /\ desc[Find(desc, path).node].type \in Accepts[type]
      BY <1>1, <1>3
    <2>2. /\ k \in Named(desc, path) /\ Find(desc, path).node = k
          /\ Find(desc, path).offset = start
      BY <2>1, FoundIs
    <2>3. desc[k].type \in Accepts[type]
      BY <2>1, <2>2
    <2>4. desc[k].type \notin Branches /\ TypeSize[desc[k].type] = size /\ size \in Nat
      BY <2>3, AcceptsSize
    <2>5. /\ start \in Nat /\ ElementBytes(desc, k) = TypeSize[desc[k].type]
          /\ ElementBytes(desc, k) <= Bytes(desc)[k] /\ Bytes(desc)[k] \in Nat
      BY <2>2, <2>4, ItemFacts
    <2> HIDE DEF k, start, size, found
    <2> QED
      BY <1>1, <1>3, <2>2, <2>4, <2>5
  <1>4. FindsTheItem'
    <2>1. ASSUME desc[1].type = "start"
          PROVE  status' = "INVALID_SYMBOL_PATH" <=> Named(desc, path) = {}
      BY <1>2, <2>1, FoundIs
    <2>2. status' = "OK" => bytes' = Span(ItemStart(desc, Target(desc, path), path) + 0, size)
      <3> SUFFICES ASSUME status' = "OK" PROVE bytes' = Span(start + 0, size)
        OBVIOUS
      <3> HIDE DEF start, size
      <3>1. start + 0 = start
        BY <1>3
      <3> QED
        BY <1>3, <3>1
    <2> HIDE DEF size
    <2> QED
      BY <1>1, <2>1, <2>2 DEF FindsTheItem, Item
  <1>5. StaysInNode'
    <2> SUFFICES ASSUME status' = "OK" PROVE StaysInNode'
      BY DEF StaysInNode
    <2>1. Item' = k
      BY <1>1 DEF Item
    <2>2. bytes' = Span(ItemStart(desc, k, path), ElementBytes(desc, k)) /\ desc[k].type \notin Branches
      BY <1>3
    <2>3. ASSUME path[Len(path)].index = 0
          PROVE  bytes' \subseteq Span(NodeStart(desc, k, path), Bytes(desc)[k])
      <3>1. NodeStart(desc, k, path) = start
        BY <1>3, <2>3, ItemFacts
      <3> HIDE DEF k, start, size
      <3>2. Span(start, size) \subseteq Span(start, Bytes(desc)[k])
        BY <1>3 DEF Span
      <3> QED
        BY <1>3, <3>1, <3>2
    <2> HIDE DEF k
    <2> QED
      BY <1>1, <2>1, <2>2, <2>3 DEF StaysInNode
  <1> QED
    BY <1>4, <1>5

\* Every state there is after a call, whatever was called on which descriptor.
TreeInv == desc \in Descriptors /\ FindsTheItem /\ StaysInNode

LEMMA CallsKeepTreeInv == Spec => []TreeInv
  <1>1. Init => TreeInv
    BY DEF Init, TreeInv, FindsTheItem, StaysInNode, Called
  <1>2. TreeInv /\ [Next]_vars => TreeInv'
    <2> SUFFICES ASSUME TreeInv, [Next]_vars PROVE TreeInv'
      OBVIOUS
    <2>0. desc \in Descriptors
      BY DEF TreeInv
    <2>1. ASSUME NEW path \in Paths, NEW name \in {"read", "write"}, NEW offset \in Offsets,
                 NEW size \in Sizes, ReadOrWrite(name, path, offset, size)
          PROVE  TreeInv'
      <3>1. desc' = desc
        BY <2>1 DEF ReadOrWrite
      <3> QED
        BY <2>0, <2>1, <3>1, ReadOrWriteRight DEF TreeInv
    <2>2. ASSUME NEW path \in Paths, NEW type \in DOMAIN Accepts, GetOrSet(type, path)
          PROVE  TreeInv'
      <3>1. desc' = desc
        BY <2>2 DEF GetOrSet
      <3> QED
        BY <2>0, <2>2, <3>1, GetOrSetRight DEF TreeInv
    <2>3. CASE UNCHANGED vars
      BY <2>3 DEF vars, TreeInv, FindsTheItem, StaysInNode, EndFits, Called, Typed, Item
    <2> QED
      BY <2>1, <2>2, <2>3 DEF Next
  <1> QED
    BY <1>1, <1>2, PTL DEF Spec

\* kowhai_get_node_size and kowhai_server_init_tree_descriptor_sizes agree
\* with the brackets on every descriptor: the nodes they walk and count, and
\* the size of every node (WalksAgree).
THEOREM TreesWalked == Spec => []WalksAgree
  <1>1. ASSUME desc \in Descriptors PROVE WalksAgree
    <2>1. ASSUME NEW k \in Nodes(desc)
          PROVE  /\ k + NodeSize(desc, k).nodes = LastOf[desc][k]
                 /\ Bytes(desc)[k] = desc[k].count * ElementBytes(desc, k)
      <3>1. k \in Positions /\ ~Closes(desc, k)
        BY <1>1, NodeFacts DEF Positions, Closes
      <3>2. k + NodeSize(desc, k).nodes = LastOf[desc][k]
        BY <1>1, <3>1, SkipsNode
      <3> DEFINE e == ElementBytes(desc, k)
                 c == desc[k].count
      <3>3. e \in Nat /\ c \in Nat /\ Bytes(desc)[k] = e * c
        BY <1>1, WalksRight, NodeFacts DEF NodeRight
      <3> HIDE DEF e, c
      <3>4. Bytes(desc)[k] = c * e
        BY <3>3
      <3> QED
        BY <3>2, <3>4 DEF e, c
    <2>2. Len(desc) \in Nat \ {0} /\ DOMAIN desc = 1..Len(desc)
      BY <1>1, DescriptorFacts
    <2>3. NodeCount(desc) = Len(desc)
      <3>1. 1 \in Positions /\ ~Closes(desc, 1) /\ LastOf[desc][1] = Len(desc)
        BY <1>1, <2>2, RootIs, NodeFacts DEF Positions, Closes
      <3> DEFINE n == NodeAt(desc, Siblings(desc), 1)
      <3>2. n.last = Len(desc)
        BY <1>1, <3>1, RootIs, WalksRight DEF NodeRight
      <3>3. NodeSize(desc, 1).nodes = n.last - 1
        BY DEF NodeSize
      <3> HIDE DEF n
      <3> QED
        BY <2>2, <3>2, <3>3 DEF NodeCount
    <2>4. ServerNodeCount(desc) = Len(desc)
      <3> DEFINE S == {i \in DOMAIN desc : Depth(desc, i) <= 0}
      <3>1. Len(desc) \in S
        BY <1>1, <2>2, DescriptorFacts
      <3>2. ASSUME NEW i \in S PROVE Len(desc) <= i
        <4>1. ASSUME i \in 1 .. Len(desc) - 1 PROVE FALSE
          <5>1. Depth(desc, i) > 0 /\ Depth(desc, i) <= 0
            BY <1>1, <4>1, DescriptorFacts
          <5>2. Depth(desc, i) \in Int
            BY <2>2, DepthSteps
          <5> QED
            BY <5>1, <5>2
        <4> QED
          BY <2>2, <4>1
      <3>3. S \in SUBSET Nat
        BY <2>2
      <3>4. ServerNodeCount(desc) = Min(S)
        BY DEF ServerNodeCount
      <3> HIDE DEF S
      <3> QED
        BY <3>1, <3>2, <3>3, <3>4, MinIs
    <2> QED
      BY <2>1, <2>3, <2>4 DEF WalksAgree
  <1>2. TreeInv => WalksAgree
    BY <1>1 DEF TreeInv
  <1> QED
    BY <1>2, CallsKeepTreeInv, PTL

\* kowhai_get_node finds a path exactly when the tree has an item of it, and
\* the call then uses the bytes where the first such item is (FindsTheItem).
THEOREM ItemFound == Spec => []FindsTheItem
  <1>1. TreeInv => FindsTheItem
    BY DEF TreeInv
  <1> QED
    BY <1>1, CallsKeepTreeInv, PTL

\* A typed get or set uses exactly its element, and a read or write through
\* element 0 stays in the node it names when the end it asks for is one that
\* the check's int can hold (kowhai.c:237, 263).
THEOREM ItemKept == Spec => []StaysInNode
  <1>1. TreeInv => StaysInNode
    BY DEF TreeInv
  <1> QED
    BY <1>1, CallsKeepTreeInv, PTL
=============================================================================

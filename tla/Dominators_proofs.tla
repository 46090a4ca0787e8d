-------------------------- MODULE Dominators_proofs --------------------------
(***************************************************************************)
(* The immediate dominators and the frontiers that Function.cpp computes   *)
(* are those of the definition, for every graph and every order in which   *)
(* the search takes successors; a backward computation adds the frontiers  *)
(* to whatever earlier ones left in the sets.                              *)
(*                                                                         *)
(* The argument is about numbers.  A depth first search numbers the blocks *)
(* so that the descendants of i are i .. last[i] and an edge never leads   *)
(* past them (SearchTree).  In such a tree the semidominator of w is an    *)
(* ancestor of w, every dominator is one, and w is reached without d just  *)
(* if its parent or its semidominator is (AvoidsThrough).  So the          *)
(* dominators of w are w and those its parent and its semidominator have   *)
(* in common, which the code finds where two paths up the tree meet.       *)
(***************************************************************************)
EXTENDS Dominators, FiniteSetTheorems, SequenceTheorems, WellFoundedInduction, TLAPS

-----------------------------------------------------------------------------
(* Least and greatest numbers.                                             *)

(* A nonempty set of numbers has a least one, which Min finds. *)
LEMMA MinFacts ==
  ASSUME NEW S \in SUBSET Nat, S # {}
  PROVE  Min(S) \in S /\ \A n \in S : Min(S) =< n
<1> DEFINE R == {p \in Nat \X Nat : p[1] < p[2]}
<1>1. IsWellFoundedOn(R, Nat)
  BY NatLessThanWellFounded DEF OpToRel
<1>2. ASSUME NEW m \in Nat, NEW n \in Nat, ~(<<n, m>> \in R) PROVE m =< n
  BY <1>2
<1> HIDE DEF R
<1>3. \E m \in S : \A n \in S : ~(<<n, m>> \in R)
  BY <1>1, WFMin
<1>4. \E m \in S : \A n \in S : m =< n
  BY <1>2, <1>3
<1> QED
  BY <1>4 DEF Min

(* And one up to a bound has a greatest one, which Max finds. *)
LEMMA MaxFacts ==
  ASSUME NEW b \in Nat, NEW S \in SUBSET (1 .. b), S # {}
  PROVE  Max(S) \in S /\ \A m \in S : m =< Max(S)
<1> DEFINE D == {b - x : x \in S}
<1>0. \A x \in S : x \in Nat /\ b - x \in Nat
  OBVIOUS
<1>1. D \in SUBSET Nat /\ D # {}
  BY <1>0
<1> HIDE DEF D
<1>2. Min(D) \in D /\ \A n \in D : Min(D) =< n
  BY <1>1, MinFacts
<1>3. PICK m \in S : Min(D) = b - m
  BY <1>2 DEF D
<1>4. \A x \in S : b - m =< b - x
  BY <1>2, <1>3 DEF D
<1>5. \E x \in S : \A y \in S : x >= y
  BY <1>4
<1> QED
  BY <1>5 DEF Max

-----------------------------------------------------------------------------
(* Search trees.                                                           *)

(* What the entry reaches without d. *)
Without(n, e, d) ==
  {u \in 1 .. n : \A S \in SUBSET (1 .. n) :
     (d # 1 => 1 \in S) /\ (\A x \in S : e[x] \ {d} \subseteq S) => u \in S}

(* Above is the least set that holds w and is closed under predecessors    *)
(* above w;                                                                *)
LEMMA AboveFacts ==
  ASSUME NEW n \in Nat, NEW e \in [1 .. n -> SUBSET (1 .. n)], NEW w \in 1 .. n
  PROVE  /\ Above(n, e, w) \subseteq w .. n
         /\ w \in Above(n, e, w)
         /\ \A x \in w + 1 .. n : e[x] \cap Above(n, e, w) # {} => x \in Above(n, e, w)
         /\ \A S \in SUBSET (1 .. n) :
              w \in S /\ (\A x \in w + 1 .. n : e[x] \cap S # {} => x \in S)
                => Above(n, e, w) \subseteq S
<1>1. w \in Above(n, e, w) /\ Above(n, e, w) \subseteq 1 .. n
  BY DEF Above
<1>2. ASSUME NEW x \in w + 1 .. n, e[x] \cap Above(n, e, w) # {}
      PROVE  x \in Above(n, e, w)
  <2>1. PICK y \in e[x] : y \in Above(n, e, w)
    BY <1>2
  <2>2. x \in 1 .. n
    OBVIOUS
  <2>3. ASSUME NEW S \in SUBSET (1 .. n), w \in S,
               \A z \in w + 1 .. n : e[z] \cap S # {} => z \in S
        PROVE  x \in S
    <3>1. y \in S
      BY <2>1, <2>3 DEF Above
    <3> QED
      BY <3>1, <2>1, <2>3, <1>2
  <2> QED
    BY <2>2, <2>3 DEF Above
<1>3. ASSUME NEW S \in SUBSET (1 .. n),
             w \in S /\ (\A x \in w + 1 .. n : e[x] \cap S # {} => x \in S)
      PROVE  Above(n, e, w) \subseteq S
  BY <1>3 DEF Above
<1>4. Above(n, e, w) \subseteq w .. n
  <2>1. /\ w .. n \in SUBSET (1 .. n) /\ w \in w .. n
        /\ \A x \in w + 1 .. n : x \in w .. n
    OBVIOUS
  <2> QED
    BY <1>3, <2>1
<1> QED
  BY <1>1, <1>2, <1>3, <1>4

(* and Without the least that holds the entry and is closed under          *)
(* successors other than d.                                                *)
LEMMA WithoutFacts ==
  ASSUME NEW n \in Nat, NEW e \in [1 .. n -> SUBSET (1 .. n)], NEW d \in 1 .. n
  PROVE  /\ Without(n, e, d) \subseteq (1 .. n) \ {d}
         /\ d # 1 => 1 \in Without(n, e, d)
         /\ \A x \in Without(n, e, d) : e[x] \ {d} \subseteq Without(n, e, d)
         /\ \A S \in SUBSET (1 .. n) :
              (d # 1 => 1 \in S) /\ (\A x \in S : e[x] \ {d} \subseteq S)
                => Without(n, e, d) \subseteq S
<1>1. ASSUME NEW S \in SUBSET (1 .. n), (d # 1 => 1 \in S) /\ (\A x \in S : e[x] \ {d} \subseteq S)
      PROVE  Without(n, e, d) \subseteq S
  BY <1>1 DEF Without
<1>2. Without(n, e, d) \subseteq (1 .. n) \ {d}
  <2> DEFINE S == (1 .. n) \ {d}
  <2>1. (d # 1 => 1 \in S) /\ (\A x \in S : e[x] \ {d} \subseteq S)
    OBVIOUS
  <2> QED
    BY <1>1, <2>1
<1>3. d # 1 => 1 \in Without(n, e, d)
  BY DEF Without
<1>4. ASSUME NEW x \in Without(n, e, d), NEW y \in e[x] \ {d}
      PROVE  y \in Without(n, e, d)
  <2>1. y \in 1 .. n
    BY <1>2
  <2> QED
    BY <2>1 DEF Without
<1> QED
  BY <1>1, <1>2, <1>3, <1>4

(* An edge to a block not below i keeps within the descendants of i. *)
LEMMA DescendantsClosed ==
  ASSUME NEW n, NEW pn, NEW last, NEW e, SearchTree(n, pn, last, e),
         NEW i \in 1 .. n, NEW x \in i .. last[i], NEW y \in e[x], i =< y
  PROVE  y \in i .. last[i]
BY DEF SearchTree

(* What leads to a block above w leads there from all its ancestors above w. *)
LEMMA TreeAbove ==
  ASSUME NEW n, NEW pn, NEW last, NEW e, SearchTree(n, pn, last, e),
         NEW w \in 1 .. n, NEW x \in Above(n, e, w), NEW z \in w + 1 .. n, x \in z .. last[z]
  PROVE  z \in Above(n, e, w)
<1> DEFINE S == {y \in z .. last[z] : y \in Above(n, e, w)}
<1>0. /\ n \in Nat /\ e \in [1 .. n -> SUBSET (1 .. n)] /\ last \in [1 .. n -> 1 .. n]
      /\ pn \in [2 .. n -> 1 .. n]
      /\ \A i \in 2 .. n : pn[i] < i /\ i =< last[pn[i]] /\ i \in e[pn[i]]
      /\ \A i \in 2 .. n : \A k \in 1 .. i - 1 : i =< last[k] => k =< pn[i]
  BY DEF SearchTree
<1>1. S \in SUBSET Nat /\ S # {}
  <2>1. x \in S
    OBVIOUS
  <2>2. \A y \in z .. last[z] : y \in Nat
    BY <1>0
  <2> QED
    BY <2>1, <2>2
<1>2. PICK m \in S : \A k \in S : m =< k
  BY <1>1, MinFacts
<1>3. m = z
  <2>1. SUFFICES ASSUME m # z PROVE FALSE
    OBVIOUS
  <2>2. /\ m \in 2 .. n /\ z \in 1 .. m - 1 /\ m =< last[z]
    BY <2>1, <1>0
  <2>3. z =< pn[m] /\ pn[m] < m /\ m \in e[pn[m]] /\ pn[m] \in w + 1 .. n
    BY <2>2, <1>0
  <2>4. pn[m] \in Above(n, e, w)
    BY <2>3, <1>0, <1>2, AboveFacts
  <2> QED
    BY <2>2, <2>3, <2>4, <1>0, <1>2
<1> QED
  BY <1>2, <1>3

(* What comes to u through blocks above u comes to w if u does. *)
LEMMA AboveThrough ==
  ASSUME NEW n \in Nat, NEW e \in [1 .. n -> SUBSET (1 .. n)], NEW w \in 1 .. n,
         NEW u \in Above(n, e, w)
  PROVE  Above(n, e, u) \subseteq Above(n, e, w)
<1>1. u \in 1 .. n /\ w =< u /\ Above(n, e, w) \in SUBSET (1 .. n)
  BY AboveFacts
<1>2. \A x \in u + 1 .. n : e[x] \cap Above(n, e, w) # {} => x \in Above(n, e, w)
  BY <1>1, AboveFacts
<1> QED
  BY <1>1, <1>2, AboveFacts

(* The semidominator of a block is one of its ancestors. *)
LEMMA SemiFacts ==
  ASSUME NEW n, NEW pn, NEW last, NEW e, SearchTree(n, pn, last, e), NEW w \in 2 .. n
  PROVE  /\ Semi(n, e, w) \in Into(n, e, w) /\ Semi(n, e, w) \in 1 .. w - 1
         /\ \A v \in Into(n, e, w) : Semi(n, e, w) =< v
         /\ w =< last[Semi(n, e, w)]
<1>0. /\ n \in Nat /\ e \in [1 .. n -> SUBSET (1 .. n)] /\ last \in [1 .. n -> 1 .. n]
      /\ pn \in [2 .. n -> 1 .. n]
      /\ \A i \in 2 .. n : pn[i] < i /\ i \in e[pn[i]]
      /\ \A i \in 1 .. n : \A j \in e[i] : j =< last[i]
  BY DEF SearchTree
<1>1. w \in 1 .. n
  BY <1>0
<1>2. w \in Above(n, e, w) /\ Above(n, e, w) \subseteq w .. n
  BY <1>0, <1>1, AboveFacts
<1>3. pn[w] \in Into(n, e, w) /\ pn[w] < w
  BY <1>0, <1>2 DEF Into
<1>4. Into(n, e, w) \in SUBSET Nat
  BY <1>0 DEF Into
<1>5. Semi(n, e, w) \in Into(n, e, w) /\ \A v \in Into(n, e, w) : Semi(n, e, w) =< v
  BY <1>3, <1>4, MinFacts DEF Semi
<1>6. Semi(n, e, w) \in 1 .. w - 1
  <2>1. Semi(n, e, w) \in 1 .. n /\ Semi(n, e, w) =< pn[w]
    BY <1>3, <1>5 DEF Into
  <2>2. pn[w] \in 1 .. n
    BY <1>0
  <2> QED
    BY <2>1, <2>2, <1>0, <1>3
<1>7. w =< last[Semi(n, e, w)]
  <2>1. PICK x \in Above(n, e, w) : x \in e[Semi(n, e, w)]
    BY <1>5 DEF Into
  <2>2. Semi(n, e, w) \in 1 .. n
    BY <1>5 DEF Into
  <2>3. x =< last[Semi(n, e, w)] /\ last[Semi(n, e, w)] \in Nat
    BY <2>1, <2>2, <1>0
  <2>4. x \in w .. n
    BY <1>2
  <2> QED
    BY <2>3, <2>4
<1> QED
  BY <1>5, <1>6, <1>7

(* No predecessor of w, and no semidominator of an ancestor above w of one, *)
(* is less than the semidominator of w;                                     *)
LEMMA SemiBound ==
  ASSUME NEW n, NEW pn, NEW last, NEW e, SearchTree(n, pn, last, e), NEW w \in 2 .. n,
         NEW v \in 1 .. n, w \in e[v]
  PROVE  /\ Semi(n, e, w) =< v
         /\ \A u \in w + 1 .. n : v \in u .. last[u] => Semi(n, e, w) =< Semi(n, e, u)
<1>0. /\ n \in Nat /\ e \in [1 .. n -> SUBSET (1 .. n)] /\ last \in [1 .. n -> 1 .. n]
      /\ w \in 1 .. n
  BY DEF SearchTree
<1>1. w \in Above(n, e, w) /\ \A v1 \in Into(n, e, w) : Semi(n, e, w) =< v1
  BY <1>0, AboveFacts, SemiFacts
<1>2. Semi(n, e, w) =< v
  BY <1>1 DEF Into
<1>3. ASSUME NEW u \in w + 1 .. n, v \in u .. last[u]
      PROVE  Semi(n, e, w) =< Semi(n, e, u)
  <2>1. v \in w + 1 .. n /\ u \in 2 .. n
    BY <1>0, <1>3
  <2>2. v \in Above(n, e, w)
    BY <2>1, <1>0, <1>1, AboveFacts
  <2>3. u \in Above(n, e, w)
    BY <2>2, <1>3, <1>0, TreeAbove
  <2>4. Into(n, e, u) \subseteq Into(n, e, w)
    BY <2>3, <1>0, AboveThrough DEF Into
  <2> QED
    BY <2>1, <2>4, <1>1, SemiFacts
<1> QED
  BY <1>2, <1>3

(* and one of these is no greater. *)
LEMMA SemiAttained ==
  ASSUME NEW n, NEW pn, NEW last, NEW e, SearchTree(n, pn, last, e), NEW w \in 2 .. n
  PROVE  \/ w \in e[Semi(n, e, w)]
         \/ \E v \in 1 .. n : \E u \in w + 1 .. n :
              w \in e[v] /\ v \in u .. last[u] /\ Semi(n, e, u) =< Semi(n, e, w)
<1>0. /\ n \in Nat /\ e \in [1 .. n -> SUBSET (1 .. n)] /\ last \in [1 .. n -> 1 .. n]
      /\ w \in 1 .. n
      /\ \A i \in 1 .. n : i =< last[i]
      /\ \A i \in 1 .. n : \A j \in e[i] : j =< last[i]
      /\ \A i \in 1 .. n : \A j \in i .. last[i] : last[j] =< last[i]
  BY DEF SearchTree
<1> DEFINE From(x, u, v) == x \in Above(n, e, u) /\ w \in e[v] /\ v \in u .. last[u]
           S == {w} \cup {x \in w + 1 .. n : \E u \in w + 1 .. n : \E v \in 1 .. n : From(x, u, v)}
<1>1. ASSUME NEW x \in w + 1 .. n, e[x] \cap S # {}
      PROVE  \E u \in w + 1 .. n : \E v \in 1 .. n : From(x, u, v)
  <2>1. PICK y \in S : y \in e[x]
    BY <1>1
  <2>2. x \in 1 .. n /\ x \in Above(n, e, x) /\ x \in x .. last[x]
    BY <1>0, AboveFacts
  <2>3. CASE y = w
    BY <2>1, <2>2, <2>3
  <2>4. CASE y # w
    <3>1. y \in w + 1 .. n
      BY <2>1, <2>4
    <3>2. PICK u \in w + 1 .. n, v \in 1 .. n : From(y, u, v)
      BY <2>1, <2>4
    <3>3. u \in 1 .. n /\ u =< y /\ u \in Above(n, e, u) /\ y \in 1 .. n
      <4>1. u \in 1 .. n /\ y \in 1 .. n
        BY <3>1, <1>0
      <4>2. u \in Above(n, e, u) /\ Above(n, e, u) \subseteq u .. n /\ y \in Above(n, e, u)
        BY <4>1, <3>2, <1>0, AboveFacts
      <4> QED
        BY <4>1, <4>2
    <3>4. CASE u < x
      <4>1. x \in u + 1 .. n /\ y \in e[x] \cap Above(n, e, u)
        BY <3>2, <3>3, <3>4, <2>1
      <4>2. x \in Above(n, e, u)
        BY <3>3, <4>1, <1>0, AboveFacts
      <4> QED
        BY <3>2, <4>2
    <3>5. CASE x =< u
      <4>1. y =< last[x]
        BY <2>1, <2>2, <1>0
      <4>2. u \in x .. last[x]
        BY <3>3, <3>5, <4>1, <1>0, <2>2
      <4>3. last[u] =< last[x] /\ u =< v /\ v =< last[u] /\ u \in Nat /\ last[u] \in Nat /\ last[x] \in Nat
        BY <3>2, <4>2, <1>0, <2>2
      <4>4. v \in x .. last[x]
        BY <4>3, <3>5, <3>2, <2>2
      <4> QED
        BY <3>2, <4>4, <2>2
    <3> QED
      BY <3>3, <3>4, <3>5, <2>2
  <2> QED
    BY <2>3, <2>4
<1>2. Above(n, e, w) \subseteq S
  <2>1. S \in SUBSET (1 .. n) /\ w \in S
    BY <1>0
  <2>2. \A x \in w + 1 .. n : e[x] \cap S # {} => x \in S
    BY <1>1
  <2> HIDE DEF S
  <2> QED
    BY <2>1, <2>2, <1>0, AboveFacts
<1>3. PICK x \in Above(n, e, w) : x \in e[Semi(n, e, w)] /\ Semi(n, e, w) \in 1 .. w - 1
  BY SemiFacts DEF Into
<1>4. CASE x = w
  BY <1>3, <1>4
<1>5. CASE x # w
  <2>1. PICK u \in w + 1 .. n, v \in 1 .. n : From(x, u, v)
    BY <1>2, <1>3, <1>5
  <2>2. Semi(n, e, w) \in Into(n, e, u) /\ u \in 2 .. n
    BY <2>1, <1>3, <1>0 DEF Into
  <2>3. Semi(n, e, u) =< Semi(n, e, w)
    BY <2>2, SemiFacts
  <2> QED
    BY <2>1, <2>3
<1> QED
  BY <1>4, <1>5

(* One step without d. *)
LEMMA WithoutStep ==
  ASSUME NEW n \in Nat, NEW e \in [1 .. n -> SUBSET (1 .. n)], NEW d \in 1 .. n,
         NEW x \in Without(n, e, d), NEW y \in e[x], y # d
  PROVE  y \in Without(n, e, d)
<1>1. e[x] \ {d} \subseteq Without(n, e, d)
  BY WithoutFacts
<1> QED
  BY <1>1

(* What comes to w through a block above it has no smaller semidominator. *)
LEMMA SemiThrough ==
  ASSUME NEW n, NEW pn, NEW last, NEW e, SearchTree(n, pn, last, e), NEW w \in 2 .. n,
         NEW u \in Above(n, e, w), u # w
  PROVE  u \in w + 1 .. n /\ Semi(n, e, w) =< Semi(n, e, u)
<1>0. n \in Nat /\ e \in [1 .. n -> SUBSET (1 .. n)] /\ w \in 1 .. n
  BY DEF SearchTree
<1>1. u \in w .. n
  BY <1>0, AboveFacts
<1>2. u \in w + 1 .. n /\ u \in 2 .. n
  BY <1>0, <1>1
<1>3. Into(n, e, u) \subseteq Into(n, e, w)
  BY <1>0, AboveThrough DEF Into
<1> QED
  BY <1>2, <1>3, SemiFacts

(* What is reached without d and comes after it is under a block after d   *)
(* whose semidominator is before d.                                        *)
LEMMA WithoutUnder ==
  ASSUME NEW n, NEW pn, NEW last, NEW e, SearchTree(n, pn, last, e),
         NEW d \in 1 .. n, NEW x \in Without(n, e, d), d < x
  PROVE  \E z \in d + 1 .. n : x \in z .. last[z] /\ Semi(n, e, z) < d
<1> DEFINE Under(y) == \E z \in d + 1 .. n : y \in z .. last[z] /\ Semi(n, e, z) < d
           K == {y \in 1 .. n : y # d /\ (d < y => Under(y))}
<1>0. /\ n \in Nat /\ e \in [1 .. n -> SUBSET (1 .. n)] /\ last \in [1 .. n -> 1 .. n]
      /\ \A i \in 1 .. n : i =< last[i]
  BY DEF SearchTree
<1>1. ASSUME NEW y \in K, NEW v \in e[y] \ {d}, d < v
      PROVE  Under(v)
  <2>0. v \in 2 .. n /\ v \in d + 1 .. n /\ v \in v .. last[v] /\ v \in 1 .. n /\ y \in 1 .. n
    <3>1. v \in 1 .. n /\ y \in 1 .. n
      BY <1>0
    <3>2. last[v] \in 1 .. n /\ v =< last[v]
      BY <3>1, <1>0
    <3> QED
      BY <3>1, <3>2, <1>1
  <2>1. CASE y < d
    <3>1. Semi(n, e, v) =< y /\ Semi(n, e, v) \in Nat
      <4>1. Semi(n, e, v) =< y
        BY <2>0, SemiBound
      <4>2. Semi(n, e, v) \in 1 .. v - 1
        BY <2>0, SemiFacts
      <4> QED
        BY <4>1, <4>2
    <3>2. Semi(n, e, v) < d
      BY <3>1, <2>1, <2>0
    <3> QED
      BY <2>0, <3>2
  <2>2. CASE d < y
    <3>1. PICK z \in d + 1 .. n : y \in z .. last[z] /\ Semi(n, e, z) < d
      BY <2>2
    <3>2. z \in 1 .. n /\ z \in 2 .. n
      OBVIOUS
    <3>3. CASE z =< v
      <4>1. v \in z .. last[z]
        BY <3>1, <3>2, <3>3, DescendantsClosed
      <4> QED
        BY <3>1, <4>1
    <3>4. CASE v < z
      <4>1. z \in v + 1 .. n /\ y \in v + 1 .. n
        BY <3>1, <3>2, <3>4, <2>0, <1>0
      <4>2. y \in Above(n, e, v)
        BY <4>1, <2>0, <1>0, AboveFacts
      <4>3. z \in Above(n, e, v)
        BY <4>1, <4>2, <3>1, <2>0, TreeAbove
      <4>4. Semi(n, e, v) =< Semi(n, e, z) /\ Semi(n, e, v) \in 1 .. v - 1 /\ Semi(n, e, z) \in 1 .. z - 1
        <5>1. Semi(n, e, v) =< Semi(n, e, z)
          BY <4>3, <3>4, <2>0, SemiThrough
        <5> QED
          BY <5>1, <2>0, <3>2, SemiFacts
      <4>5. Semi(n, e, v) < d
        BY <4>4, <3>1, <3>2
      <4> QED
        BY <4>5, <2>0
    <3> QED
      BY <3>3, <3>4, <2>0, <3>2
  <2> QED
    BY <2>1, <2>2, <2>0
<1>2. Without(n, e, d) \subseteq K
  <2>1. K \in SUBSET (1 .. n)
    OBVIOUS
  <2>2. d # 1 => 1 \in K
    BY <1>0
  <2>3. \A y \in K : e[y] \ {d} \subseteq K
    <3> SUFFICES ASSUME NEW y \in K, NEW v \in e[y] \ {d} PROVE v \in K
      OBVIOUS
    <3>1. v \in 1 .. n
      BY <1>0
    <3>2. d < v => Under(v)
      BY <1>1
    <3> QED
      BY <3>1, <3>2
  <2> HIDE DEF K
  <2> QED
    BY <2>1, <2>2, <2>3, <1>0, WithoutFacts
<1> QED
  BY <1>2

(* Everything that comes before d is reached without it. *)
LEMMA BeforeAvoids ==
  ASSUME NEW n, NEW pn, NEW last, NEW e, SearchTree(n, pn, last, e),
         NEW d \in 1 .. n, NEW y \in 1 .. d - 1
  PROVE  y \in Without(n, e, d)
<1> DEFINE S == {x \in 1 .. d - 1 : x \notin Without(n, e, d)}
<1>0. /\ n \in Nat /\ e \in [1 .. n -> SUBSET (1 .. n)] /\ pn \in [2 .. n -> 1 .. n]
      /\ \A i \in 2 .. n : pn[i] < i /\ i \in e[pn[i]]
  BY DEF SearchTree
<1> SUFFICES ASSUME S # {} PROVE FALSE
  OBVIOUS
<1>1. PICK m \in S : \A k \in S : m =< k
  <2>1. S \in SUBSET Nat
    OBVIOUS
  <2> QED
    BY <2>1, MinFacts
<1>2. m # 1
  BY <1>0, WithoutFacts
<1>3. m \in 2 .. n /\ m # d
  BY <1>0, <1>2
<1>4. pn[m] \in 1 .. d - 1 /\ pn[m] \notin S
  BY <1>0, <1>1, <1>3
<1>5. m \in e[pn[m]] \ {d} /\ pn[m] \in Without(n, e, d)
  BY <1>0, <1>3, <1>4
<1>6. m \in Without(n, e, d)
  BY <1>0, <1>5, WithoutStep
<1> QED
  BY <1>6

(* What is reached without d after it takes all that is under it along; *)
LEMMA DownAvoids ==
  ASSUME NEW n, NEW pn, NEW last, NEW e, SearchTree(n, pn, last, e),
         NEW d \in 1 .. n, NEW z \in Without(n, e, d), d < z, NEW p \in z .. last[z]
  PROVE  p \in Without(n, e, d)
<1> DEFINE S == {x \in z .. last[z] : x \notin Without(n, e, d)}
<1>0. /\ n \in Nat /\ e \in [1 .. n -> SUBSET (1 .. n)] /\ pn \in [2 .. n -> 1 .. n]
      /\ last \in [1 .. n -> 1 .. n]
      /\ \A i \in 2 .. n : pn[i] < i /\ i \in e[pn[i]]
      /\ \A i \in 2 .. n : \A k \in 1 .. i - 1 : i =< last[k] => k =< pn[i]
  BY DEF SearchTree
<1> SUFFICES ASSUME S # {} PROVE FALSE
  OBVIOUS
<1>1. z \in 1 .. n /\ last[z] \in 1 .. n
  BY <1>0, WithoutFacts
<1>2. PICK m \in S : \A k \in S : m =< k
  <2>1. S \in SUBSET Nat
    BY <1>1
  <2> QED
    BY <2>1, MinFacts
<1>3. m \in 2 .. n /\ z \in 1 .. m - 1 /\ m =< last[z]
  <2>1. m # z /\ m \in z .. last[z]
    OBVIOUS
  <2> HIDE DEF S
  <2>2. m \in Int /\ z =< m /\ m =< last[z]
    BY <2>1
  <2> QED
    BY <2>1, <2>2, <1>0, <1>1
<1>4. pn[m] \in 1 .. n /\ pn[m] < m /\ z =< pn[m] /\ m \in e[pn[m]]
  BY <1>0, <1>3
<1>5. pn[m] \in z .. last[z] /\ pn[m] \notin S /\ m # d
  BY <1>1, <1>2, <1>3, <1>4
<1>6. m \in e[pn[m]] \ {d} /\ pn[m] \in Without(n, e, d)
  BY <1>4, <1>5
<1>7. m \in Without(n, e, d)
  BY <1>0, <1>6, WithoutStep
<1> QED
  BY <1>7

(* so does what leads to a block after d through blocks above that one. *)
LEMMA IntoAvoids ==
  ASSUME NEW n, NEW pn, NEW last, NEW e, SearchTree(n, pn, last, e),
         NEW d \in 1 .. n, NEW z \in 1 .. n, d < z,
         NEW v \in Without(n, e, d), v \in Into(n, e, z)
  PROVE  z \in Without(n, e, d)
<1> DEFINE S == {u \in z .. n : u \in Without(n, e, d) => z \in Without(n, e, d)}
<1>0. n \in Nat /\ e \in [1 .. n -> SUBSET (1 .. n)]
  BY DEF SearchTree
<1>1. /\ d \notin S
      /\ \A x \in Without(n, e, d) : e[x] \cap S # {} => z \in Without(n, e, d)
  <2>1. d \notin S
    OBVIOUS
  <2>2. ASSUME NEW x \in Without(n, e, d), NEW y \in e[x], y \in S
        PROVE  z \in Without(n, e, d)
    <3>1. y \in e[x] \ {d}
      BY <2>1, <2>2
    <3>2. y \in Without(n, e, d)
      BY <3>1, <1>0, WithoutFacts
    <3> QED
      BY <3>2, <2>2
  <2> QED
    BY <2>1, <2>2
<1>2. Above(n, e, z) \subseteq S
  <2>1. S \in SUBSET (1 .. n) /\ z \in S
    OBVIOUS
  <2>2. \A x \in z + 1 .. n : e[x] \cap S # {} => x \in S
    <3> SUFFICES ASSUME NEW x \in z + 1 .. n, e[x] \cap S # {} PROVE x \in S
      OBVIOUS
    <3>1. x \in z .. n
      OBVIOUS
    <3>2. x \in Without(n, e, d) => z \in Without(n, e, d)
      BY <1>1
    <3> QED
      BY <3>1, <3>2
  <2> HIDE DEF S
  <2> QED
    BY <2>1, <2>2, <1>0, AboveFacts
<1> HIDE DEF S
<1> QED
  BY <1>1, <1>2 DEF Into

(* A block is reached without d just if its parent or its semidominator is. *)
LEMMA AvoidsThrough ==
  ASSUME NEW n, NEW pn, NEW last, NEW e, SearchTree(n, pn, last, e),
         NEW d \in 1 .. n, NEW w \in 2 .. n, w # d
  PROVE  w \in Without(n, e, d) <=>
           pn[w] \in Without(n, e, d) \/ Semi(n, e, w) \in Without(n, e, d)
<1>0. /\ n \in Nat /\ e \in [1 .. n -> SUBSET (1 .. n)] /\ pn \in [2 .. n -> 1 .. n]
      /\ last \in [1 .. n -> 1 .. n]
      /\ pn[w] < w /\ w \in e[pn[w]] /\ pn[w] \in 1 .. n /\ w \in 1 .. n
      /\ \A k \in 1 .. w - 1 : w =< last[k] => k =< pn[w]
  BY DEF SearchTree
<1>1. Semi(n, e, w) \in Into(n, e, w) /\ Semi(n, e, w) \in 1 .. w - 1 /\ Semi(n, e, w) \in 1 .. n
  BY <1>0, SemiFacts
<1>2. ASSUME pn[w] \in Without(n, e, d) PROVE w \in Without(n, e, d)
  <2>1. w \in e[pn[w]] \ {d}
    BY <1>0
  <2> QED
    BY <1>2, <2>1, <1>0, WithoutFacts
<1>3. ASSUME Semi(n, e, w) \in Without(n, e, d) PROVE w \in Without(n, e, d)
  <2>1. CASE d < w
    BY <2>1, <1>0, <1>1, <1>3, IntoAvoids
  <2>2. CASE w < d
    <3>1. w \in 1 .. d - 1
      BY <2>2, <1>0
    <3> QED
      BY <3>1, BeforeAvoids
  <2> QED
    BY <2>1, <2>2
<1>4. ASSUME w \in Without(n, e, d)
      PROVE  pn[w] \in Without(n, e, d) \/ Semi(n, e, w) \in Without(n, e, d)
  <2>1. CASE pn[w] < d
    <3>1. pn[w] \in 1 .. d - 1
      BY <2>1, <1>0
    <3> QED
      BY <3>1, BeforeAvoids
  <2>2. CASE Semi(n, e, w) < d
    <3>1. Semi(n, e, w) \in 1 .. d - 1
      BY <2>2, <1>1
    <3> QED
      BY <3>1, BeforeAvoids
  <2>3. CASE d =< pn[w] /\ d =< Semi(n, e, w)
    <3>1. d < w
      BY <2>3, <1>0
    <3>2. PICK z \in d + 1 .. n : w \in z .. last[z] /\ Semi(n, e, z) < d
      BY <3>1, <1>4, WithoutUnder
    <3>3. z # w
      BY <3>2, <2>3, <1>1
    <3>4. z \in 2 .. n /\ z \in 1 .. n /\ z \in 1 .. w - 1 /\ w =< last[z] /\ last[z] \in 1 .. n
      BY <3>2, <3>3, <1>0
    <3>5. pn[w] \in z .. last[z]
      BY <3>4, <1>0
    <3>6. Semi(n, e, z) \in 1 .. d - 1 /\ Semi(n, e, z) \in Into(n, e, z)
      <4>1. Semi(n, e, z) \in 1 .. z - 1 /\ Semi(n, e, z) \in Into(n, e, z)
        BY <3>4, SemiFacts
      <4> QED
        BY <4>1, <3>2
    <3>7. Semi(n, e, z) \in Without(n, e, d)
      BY <3>6, BeforeAvoids
    <3>8. z \in Without(n, e, d) /\ d < z
      <4>1. d < z
        OBVIOUS
      <4> QED
        BY <4>1, <3>4, <3>6, <3>7, IntoAvoids
    <3> QED
      BY <3>5, <3>8, DownAvoids
  <2>4. pn[w] \in Int /\ Semi(n, e, w) \in Int /\ d \in Int
    BY <1>0, <1>1
  <2>5. pn[w] < d \/ Semi(n, e, w) < d \/ (d =< pn[w] /\ d =< Semi(n, e, w))
    BY <2>4
  <2> QED
    BY <2>1, <2>2, <2>3, <2>5
<1> QED
  BY <1>2, <1>3, <1>4

(* The dominators of w, as numbers. *)
DomNumbers(n, e, w) == {d \in 1 .. n : w \notin Without(n, e, d)}

(* A block and the entry are among its dominators, none of which comes     *)
(* after it.                                                               *)
LEMMA DomFacts ==
  ASSUME NEW n, NEW pn, NEW last, NEW e, SearchTree(n, pn, last, e), NEW w \in 1 .. n
  PROVE  /\ DomNumbers(n, e, w) \subseteq 1 .. w
         /\ w \in DomNumbers(n, e, w)
         /\ 1 \in DomNumbers(n, e, w)
         /\ DomNumbers(n, e, 1) = {1}
<1>0. /\ n \in Nat \ {0} /\ e \in [1 .. n -> SUBSET (1 .. n)] /\ 1 \in 1 .. n
  BY DEF SearchTree
<1>1. ASSUME NEW d \in DomNumbers(n, e, w)
      PROVE  d \in 1 .. w
  <2>1. d \in 1 .. n /\ ~(w \in 1 .. d - 1)
    BY <1>1, BeforeAvoids DEF DomNumbers
  <2> QED
    BY <2>1, <1>0
<1>2. w \in DomNumbers(n, e, w) /\ 1 \in DomNumbers(n, e, 1)
  <2>1. \A d \in 1 .. n : d \notin Without(n, e, d)
    BY <1>0, WithoutFacts
  <2> QED
    BY <2>1, <1>0 DEF DomNumbers
<1>3. w \notin Without(n, e, 1)
  <2> DEFINE S == {}
  <2>1. S \in SUBSET (1 .. n) /\ \A x \in S : e[x] \ {1} \subseteq S
    OBVIOUS
  <2>2. Without(n, e, 1) \subseteq S
    <3> HIDE DEF S
    <3> QED
      BY <2>1, <1>0, WithoutFacts
  <2> QED
    BY <2>2
<1>4. ASSUME NEW d \in 1 .. n, d # 1 PROVE d \notin DomNumbers(n, e, 1)
  BY <1>4, <1>0, WithoutFacts DEF DomNumbers
<1>5. DomNumbers(n, e, 1) \subseteq 1 .. n
  BY DEF DomNumbers
<1> QED
  <2>1. DomNumbers(n, e, 1) = {1}
    BY <1>2, <1>4, <1>5
  <2>2. 1 \in DomNumbers(n, e, w)
    BY <1>3, <1>0 DEF DomNumbers
  <2> QED
    BY <1>1, <1>2, <2>1, <2>2

(* A dominator is an ancestor. *)
LEMMA DomAncestor ==
  ASSUME NEW n, NEW pn, NEW last, NEW e, SearchTree(n, pn, last, e), NEW w \in 1 .. n,
         NEW d \in DomNumbers(n, e, w)
  PROVE  w \in d .. last[d]
<1> DEFINE S == {y \in 1 .. n : y \notin d .. last[d] /\ y \notin Without(n, e, d)}
<1>0. /\ n \in Nat \ {0} /\ e \in [1 .. n -> SUBSET (1 .. n)] /\ pn \in [2 .. n -> 1 .. n]
      /\ last \in [1 .. n -> 1 .. n] /\ last[1] = n
      /\ d \in 1 .. n /\ last[d] \in 1 .. n
      /\ \A i \in 1 .. n : i =< last[i]
      /\ \A j \in d .. last[d] : last[j] =< last[d]
      /\ \A i \in 2 .. n : pn[i] < i /\ i =< last[pn[i]] /\ i \in e[pn[i]] /\ pn[i] \in 1 .. n
  BY DEF SearchTree, DomNumbers
<1> SUFFICES ASSUME S # {} PROVE FALSE
  BY DEF DomNumbers
<1>1. PICK m \in S : \A k \in S : m =< k
  <2>1. S \in SUBSET Nat
    OBVIOUS
  <2> QED
    BY <2>1, MinFacts
<1>2. m # 1
  <2>1. CASE d = 1
    <3>1. m \notin 1 .. n
      BY <2>1, <1>0
    <3> QED
      BY <3>1
  <2>2. CASE d # 1
    <3>1. 1 \in Without(n, e, d)
      BY <2>2, <1>0, WithoutFacts
    <3> QED
      BY <3>1
  <2> QED
    BY <2>1, <2>2
<1>3. m \in 2 .. n
  BY <1>0, <1>2
<1>4. pn[m] \in 1 .. n /\ pn[m] < m /\ m =< last[pn[m]] /\ m \in e[pn[m]] /\ last[pn[m]] \in 1 .. n
  BY <1>0, <1>3
<1>5. m \notin d .. last[d] /\ m \notin Without(n, e, d) /\ m # d
  <2>1. d \in d .. last[d]
    BY <1>0
  <2> QED
    BY <2>1
<1>6. pn[m] \notin d .. last[d]
  <2>1. SUFFICES ASSUME pn[m] \in d .. last[d] PROVE FALSE
    OBVIOUS
  <2>2. last[pn[m]] =< last[d] /\ d =< pn[m]
    <3>1. \A j \in d .. last[d] : last[j] =< last[d]
      BY <1>0
    <3> QED
      BY <2>1, <3>1
  <2>3. m \in d .. last[d]
    <3>1. d \in Int /\ m \in Int /\ pn[m] \in Int /\ last[d] \in Int /\ last[pn[m]] \in Int
      BY <1>0, <1>3, <1>4
    <3> QED
      BY <2>2, <1>4, <3>1
  <2> QED
    BY <2>3, <1>5
<1>7. pn[m] \notin S
  BY <1>1, <1>3, <1>4
<1>8. pn[m] \in Without(n, e, d)
  BY <1>4, <1>6, <1>7
<1>9. m \in Without(n, e, d)
  BY <1>0, <1>4, <1>5, <1>8, WithoutStep
<1> QED
  BY <1>5, <1>9

(* A dominator of a dominator is one; *)
LEMMA DomTransitive ==
  ASSUME NEW n, NEW pn, NEW last, NEW e, SearchTree(n, pn, last, e), NEW w \in 1 .. n,
         NEW m \in DomNumbers(n, e, w), NEW d \in DomNumbers(n, e, m)
  PROVE  d \in DomNumbers(n, e, w)
<1> DEFINE S == Without(n, e, d) \cap Without(n, e, m)
<1>0. /\ n \in Nat \ {0} /\ e \in [1 .. n -> SUBSET (1 .. n)] /\ 1 \in 1 .. n
      /\ d \in 1 .. n /\ m \in 1 .. n /\ m \notin Without(n, e, d)
  BY DEF SearchTree, DomNumbers
<1>1. S \in SUBSET (1 .. n)
  BY <1>0, WithoutFacts
<1>2. d # 1 => 1 \in S
  <2> SUFFICES ASSUME d # 1 PROVE 1 \in S
    OBVIOUS
  <2>1. 1 \in Without(n, e, d)
    BY <1>0, WithoutFacts
  <2>2. m # 1
    BY <2>1, <1>0
  <2>3. 1 \in Without(n, e, m)
    BY <2>2, <1>0, WithoutFacts
  <2> QED
    BY <2>1, <2>3
<1>3. \A x \in S : e[x] \ {d} \subseteq S
  <2> SUFFICES ASSUME NEW x \in S, NEW y \in e[x], y # d PROVE y \in S
    OBVIOUS
  <2>1. y \in Without(n, e, d)
    BY <1>0, WithoutStep
  <2>2. y # m
    BY <2>1, <1>0
  <2>3. y \in Without(n, e, m)
    BY <2>2, <1>0, WithoutStep
  <2> QED
    BY <2>1, <2>3
<1>4. Without(n, e, d) \subseteq S
  <2> HIDE DEF S
  <2> QED
    BY <1>0, <1>1, <1>2, <1>3, WithoutFacts
<1> QED
  BY <1>4, <1>0 DEF DomNumbers

(* and of two dominators the earlier dominates the later. *)
LEMMA DomChain ==
  ASSUME NEW n, NEW pn, NEW last, NEW e, SearchTree(n, pn, last, e), NEW w \in 1 .. n,
         NEW m \in DomNumbers(n, e, w), NEW d \in DomNumbers(n, e, w), d =< m
  PROVE  d \in DomNumbers(n, e, m)
<1>0. n \in Nat \ {0} /\ d \in 1 .. n /\ m \in 1 .. n /\ w \notin Without(n, e, d)
  BY DEF SearchTree, DomNumbers
<1>1. CASE d = m
  BY <1>0, <1>1, DomFacts
<1>2. CASE d < m
  <2>1. w \in m .. last[m]
    BY DomAncestor
  <2>2. m \notin Without(n, e, d)
    BY <2>1, <1>0, <1>2, DownAvoids
  <2> QED
    BY <2>2, <1>0 DEF DomNumbers
<1> QED
  BY <1>0, <1>1, <1>2

(* The last of the dominators of w before w is its immediate dominator. *)
LEMMA DomImmediate ==
  ASSUME NEW n, NEW pn, NEW last, NEW e, SearchTree(n, pn, last, e), NEW w \in 1 .. n,
         NEW m \in DomNumbers(n, e, w), m # w, \A d \in DomNumbers(n, e, w) : d # w => d =< m
  PROVE  m < w /\ DomNumbers(n, e, w) = {w} \cup DomNumbers(n, e, m)
<1>0. n \in Nat \ {0} /\ m \in 1 .. n
  BY DEF SearchTree, DomNumbers
<1>1. m < w
  <2>1. m \in 1 .. w
    BY DomFacts
  <2> QED
    BY <2>1
<1>2. ASSUME NEW d \in DomNumbers(n, e, w), d # w PROVE d \in DomNumbers(n, e, m)
  BY <1>2, DomChain
<1>3. \A d \in DomNumbers(n, e, m) : d \in DomNumbers(n, e, w)
  BY DomTransitive
<1>4. w \in DomNumbers(n, e, w)
  BY DomFacts
<1> QED
  BY <1>1, <1>2, <1>3, <1>4

(* The dominators of w are those of its parent and its semidominator. *)
LEMMA DomThrough ==
  ASSUME NEW n, NEW pn, NEW last, NEW e, SearchTree(n, pn, last, e), NEW w \in 2 .. n
  PROVE  LET J == DomNumbers(n, e, pn[w]) \cap DomNumbers(n, e, Semi(n, e, w))
         IN  /\ J \in SUBSET (1 .. n) /\ J # {}
             /\ Max(J) \in 1 .. w - 1
             /\ DomNumbers(n, e, w) = {w} \cup DomNumbers(n, e, Max(J))
<1> DEFINE J == DomNumbers(n, e, pn[w]) \cap DomNumbers(n, e, Semi(n, e, w))
<1>0. n \in Nat \ {0} /\ w \in 1 .. n /\ pn[w] \in 1 .. n /\ pn[w] < w
  BY DEF SearchTree
<1>1. Semi(n, e, w) \in 1 .. n
  <2>1. Semi(n, e, w) \in 1 .. w - 1
    BY SemiFacts
  <2> QED
    BY <2>1, <1>0
<1>2. J \in SUBSET (1 .. n) /\ 1 \in J
  BY <1>0, <1>1, DomFacts DEF DomNumbers
<1>3. w \notin J
  <2>1. DomNumbers(n, e, pn[w]) \subseteq 1 .. pn[w]
    BY <1>0, DomFacts
  <2>2. w \notin 1 .. pn[w]
    BY <1>0
  <2> QED
    BY <2>1, <2>2
<1>4. \A d \in 1 .. n : d # w => (d \in DomNumbers(n, e, w) <=> d \in J)
  <2> SUFFICES ASSUME NEW d \in 1 .. n, d # w PROVE d \in DomNumbers(n, e, w) <=> d \in J
    OBVIOUS
  <2>1. w \in Without(n, e, d) <=> pn[w] \in Without(n, e, d) \/ Semi(n, e, w) \in Without(n, e, d)
    BY AvoidsThrough
  <2> QED
    BY <2>1 DEF DomNumbers
<1>5. Max(J) \in J /\ \A d \in J : d =< Max(J)
  <2> HIDE DEF J
  <2> QED
    BY <1>2, <1>0, MaxFacts
<1>6. Max(J) \in DomNumbers(n, e, w) /\ Max(J) # w /\ Max(J) \in 1 .. n
  BY <1>2, <1>3, <1>4, <1>5
<1>7. \A d \in DomNumbers(n, e, w) : d # w => d =< Max(J)
  BY <1>4, <1>5 DEF DomNumbers
<1> HIDE DEF J
<1>8. Max(J) < w /\ DomNumbers(n, e, w) = {w} \cup DomNumbers(n, e, Max(J))
  BY <1>0, <1>6, <1>7, DomImmediate
<1> QED
  BY <1>0, <1>2, <1>6, <1>8 DEF J

(* A block other than the entry is reached without d just if a             *)
(* predecessor is.                                                         *)
LEMMA WithoutLast ==
  ASSUME NEW n \in Nat, NEW e \in [1 .. n -> SUBSET (1 .. n)],
         NEW d \in 1 .. n, NEW w \in 2 .. n, w # d
  PROVE  w \in Without(n, e, d) <=> \E x \in Without(n, e, d) : w \in e[x]
<1>1. ASSUME \A x \in Without(n, e, d) : w \notin e[x] PROVE w \notin Without(n, e, d)
  <2> DEFINE S == Without(n, e, d) \ {w}
  <2>1. S \in SUBSET (1 .. n) /\ (d # 1 => 1 \in S)
    BY WithoutFacts
  <2>2. \A x \in S : e[x] \ {d} \subseteq S
    BY <1>1, WithoutStep
  <2>3. Without(n, e, d) \subseteq S
    <3> HIDE DEF S
    <3> QED
      BY <2>1, <2>2, WithoutFacts
  <2> QED
    BY <2>3
<1> QED
  BY <1>1, WithoutStep

(* The dominators of a block with one predecessor are those of that one. *)
LEMMA DomSingle ==
  ASSUME NEW n, NEW pn, NEW last, NEW e, SearchTree(n, pn, last, e), NEW w \in 2 .. n,
         NEW p \in 1 .. n, p # w, \A x \in 1 .. n : w \in e[x] => x = p
  PROVE  DomNumbers(n, e, w) = {w} \cup DomNumbers(n, e, p)
<1>0. /\ n \in Nat \ {0} /\ e \in [1 .. n -> SUBSET (1 .. n)] /\ w \in 1 .. n
      /\ pn[w] \in 1 .. n /\ w \in e[pn[w]] /\ pn[w] < w
  BY DEF SearchTree
<1>1. p = pn[w] /\ p < w
  BY <1>0
<1>2. \A d \in 1 .. n : d # w => (d \in DomNumbers(n, e, w) <=> d \in DomNumbers(n, e, p))
  <2> SUFFICES ASSUME NEW d \in 1 .. n, d # w
               PROVE  w \in Without(n, e, d) <=> p \in Without(n, e, d)
    BY DEF DomNumbers
  <2>1. w \in Without(n, e, d) <=> \E x \in Without(n, e, d) : w \in e[x]
    BY <1>0, WithoutLast
  <2>2. Without(n, e, d) \subseteq 1 .. n
    BY <1>0, WithoutFacts
  <2> QED
    BY <2>1, <2>2, <1>0, <1>1
<1>3. w \in DomNumbers(n, e, w) /\ w \notin DomNumbers(n, e, p)
  <2>1. DomNumbers(n, e, p) \subseteq 1 .. p
    BY DomFacts
  <2>2. w \notin 1 .. p
    BY <1>1
  <2> QED
    BY <2>1, <2>2, <1>0, DomFacts
<1> QED
  BY <1>2, <1>3 DEF DomNumbers

(* Induction up to b, over the set of the numbers it has come to; *)
LEMMA Climb ==
  ASSUME NEW b \in Nat, NEW T, 0 \in T, \A k \in 0 .. b - 1 : k \in T => k + 1 \in T
  PROVE  0 .. b \subseteq T
<1> SUFFICES ASSUME (0 .. b) \ T # {} PROVE FALSE
  OBVIOUS
<1>1. PICK m \in (0 .. b) \ T : \A k \in (0 .. b) \ T : m =< k
  <2>1. (0 .. b) \ T \in SUBSET Nat
    OBVIOUS
  <2> QED
    BY <2>1, MinFacts
<1>2. m \in 1 .. b
  <2>1. m # 0
    BY <1>1
  <2> QED
    BY <1>1, <2>1
<1>3. m - 1 \in 0 .. b - 1 /\ m - 1 \in T /\ (m - 1) + 1 = m
  BY <1>1, <1>2
<1> QED
  BY <1>3, <1>1

(* with it, a recursion that looks at smaller numbers only has a solution. *)
Causal(D, V, G) ==
  /\ G \in [D -> [[D -> V] -> V]]
  /\ \A k \in D : \A f, g \in [D -> V] :
       (\A j \in D : j < k => f[j] = g[j]) => G[k][f] = G[k][g]

Solves(D, G, f) == \A k \in D : f[k] = G[k][f]

(* It is found by climbing from none to all of the domain.                 *)
LEMMA Solution ==
  ASSUME NEW b \in Nat, NEW D \in SUBSET (0 .. b), NEW V, V # {}, NEW G, Causal(D, V, G)
  PROVE  \E f \in [D -> V] : Solves(D, G, f)
<1> DEFINE Upto(m, f) == \A k \in D : k < m => f[k] = G[k][f]
           T == {m \in 0 .. b + 1 : \E f \in [D -> V] : Upto(m, f)}
<1>0. /\ \A k \in D : k \in 0 .. b
      /\ G \in [D -> [[D -> V] -> V]]
      /\ \A k \in D : \A f, g \in [D -> V] :
           (\A j \in D : j < k => f[j] = g[j]) => G[k][f] = G[k][g]
  BY DEF Causal
<1>1. 0 \in T
  <2>0. PICK v0 \in V : TRUE
    OBVIOUS
  <2>1. [k \in D |-> v0] \in [D -> V] /\ Upto(0, [k \in D |-> v0])
    BY <1>0
  <2>2. 0 \in 0 .. b + 1
    OBVIOUS
  <2> HIDE DEF Upto
  <2> QED
    BY <2>1, <2>2
<1>2. ASSUME NEW m \in 0 .. b, m \in T PROVE m + 1 \in T
  <2>1. PICK f \in [D -> V] : Upto(m, f)
    BY <1>2
  <2>2. CASE m \in D
    <3> DEFINE g == [f EXCEPT ![m] = G[m][f]]
    <3>1. g \in [D -> V]
      BY <2>2, <1>0
    <3>2. ASSUME NEW k \in D, k < m + 1 PROVE g[k] = G[k][g]
      <4>1. k =< m
        BY <3>2, <1>0
      <4>2. G[k][f] = G[k][g]
        <5>1. \A j \in D : j < k => f[j] = g[j]
          BY <4>1, <2>2, <1>0
        <5> HIDE DEF g
        <5> QED
          BY <5>1, <3>1, <1>0
      <4>3. g[k] = G[k][f]
        BY <4>1, <2>1, <2>2, <1>0
      <4> QED
        BY <4>2, <4>3
    <3> HIDE DEF g
    <3>3. Upto(m + 1, g)
      BY <3>2
    <3> HIDE DEF Upto
    <3> QED
      BY <3>1, <3>3
  <2>3. CASE m \notin D
    <3>1. ASSUME NEW k \in D, k < m + 1 PROVE k < m
      <4>1. k # m /\ k \in Int /\ m \in Int
        BY <2>3, <1>0
      <4> QED
        BY <3>1, <4>1
    <3>2. Upto(m + 1, f)
      BY <3>1, <2>1
    <3> HIDE DEF Upto
    <3> QED
      BY <3>2
  <2> QED
    BY <2>2, <2>3
<1>3. 0 .. b + 1 \subseteq T
  <2> HIDE DEF T
  <2> QED
    BY <1>1, <1>2, Climb
<1>4. PICK f \in [D -> V] : Upto(b + 1, f)
  <2>1. b + 1 \in T
    <3>1. b + 1 \in 0 .. b + 1
      OBVIOUS
    <3> HIDE DEF T
    <3> QED
      BY <1>3, <3>1
  <2> HIDE DEF Upto
  <2> QED
    BY <2>1
<1> QED
  BY <1>0, <1>4 DEF Solves

-----------------------------------------------------------------------------
(* What a block reaches.                                                   *)

(* ReachableFrom, which takes as many steps as there are blocks, holds     *)
(* what it starts from, is closed under edges that avoid A, and lies in    *)
(* every set of which that is true.                                        *)
LEMMA ReachFacts ==
  ASSUME NEW K \in Nat, NEW e \in [1 .. K -> SUBSET (1 .. K)], NEW r \in 1 .. K, NEW A
  PROVE  /\ ReachableFrom(r, e, A) \subseteq (1 .. K) \ A
         /\ {r} \ A \subseteq ReachableFrom(r, e, A)
         /\ \A x \in ReachableFrom(r, e, A) : e[x] \ A \subseteq ReachableFrom(r, e, A)
         /\ \A S \in SUBSET (1 .. K) :
              {r} \ A \subseteq S /\ (\A x \in S : e[x] \ A \subseteq S)
                => ReachableFrom(r, e, A) \subseteq S
<1> DEFINE V == SUBSET (1 .. K)
           More(X) == X \cup ((UNION {e[x] : x \in X}) \ A)
           G == [k \in 0 .. K |-> [f \in [0 .. K -> V] |->
                   IF k = 0 THEN {r} \ A ELSE More(f[k - 1])]]
           step == CHOOSE step : step = [k \in 0 .. K |-> 
                     IF k = 0 THEN {r} \ A
                     ELSE LET before == step[k - 1] IN before \cup ((UNION {e[b] : b \in before}) \ A)]
<1>1. DOMAIN e = 1 .. K /\ Cardinality(1 .. K) = K
  BY FS_Interval
<1>2. ReachableFrom(r, e, A) = step[K]
  BY <1>1 DEF ReachableFrom
<1>3. \A X \in V : More(X) \in V
  OBVIOUS
<1>4. PICK f \in [0 .. K -> V] : \A k \in 0 .. K : f[k] = G[k][f]
  <2>1. G \in [0 .. K -> [[0 .. K -> V] -> V]]
    BY <1>3
  <2>2. ASSUME NEW k \in 0 .. K, NEW f \in [0 .. K -> V], NEW g \in [0 .. K -> V],
               \A j \in 0 .. K : j < k => f[j] = g[j]
        PROVE  G[k][f] = G[k][g]
    <3>1. CASE k = 0
      BY <3>1
    <3>2. CASE k # 0
      <4>1. k - 1 \in 0 .. K /\ k - 1 < k
        BY <3>2
      <4>2. f[k - 1] = g[k - 1]
        BY <4>1, <2>2
      <4> QED
        BY <4>2
    <3> QED
      BY <3>1, <3>2
  <2> DEFINE D == 0 .. K
  <2>3. {} \in V /\ D \in SUBSET (0 .. K)
    OBVIOUS
  <2> HIDE DEF G, V
  <2>4. Causal(D, V, G)
    BY <2>1, <2>2 DEF Causal
  <2> HIDE DEF D
  <2>5. \E f \in [D -> V] : Solves(D, G, f)
    BY <2>3, <2>4, Solution
  <2> QED
    BY <2>5 DEF D, Solves
<1>5. f[0] = {r} \ A /\ \A k \in 1 .. K : f[k] = More(f[k - 1])
  BY <1>4
<1>6. f = [k \in 0 .. K |-> IF k = 0 THEN {r} \ A
             ELSE LET before == f[k - 1] IN before \cup ((UNION {e[b] : b \in before}) \ A)]
  BY <1>4
<1>7. step = [k \in 0 .. K |-> IF k = 0 THEN {r} \ A
             ELSE LET before == step[k - 1] IN before \cup ((UNION {e[b] : b \in before}) \ A)]
  BY <1>6
<1> HIDE DEF step
<1>8. step[0] = {r} \ A /\ \A k \in 1 .. K : step[k] = More(step[k - 1])
  <2>1. \A k \in 0 .. K : step[k] = IF k = 0 THEN {r} \ A ELSE More(step[k - 1])
    BY <1>7, Zenon
  <2>2. \A k \in 1 .. K : k \in 0 .. K /\ k # 0
    OBVIOUS
  <2>3. 0 \in 0 .. K
    OBVIOUS
  <2> HIDE DEF More
  <2> QED
    BY <2>1, <2>2, <2>3, Zenon
<1> HIDE DEF More
<1>9. ASSUME NEW X \in V PROVE X \subseteq More(X) /\ \A x \in X : e[x] \ A \subseteq More(X)
  BY DEF More
<1>10. ASSUME NEW X \in V, \A x \in X : e[x] \ A \subseteq X PROVE More(X) = X
  BY <1>10 DEF More
<1> DEFINE In(S) == {k \in 0 .. K : step[k] \in SUBSET S}
<1>11. ASSUME NEW S \in SUBSET (1 .. K), {r} \ A \subseteq S, \A x \in S : e[x] \ A \subseteq S
       PROVE  \A k \in 0 .. K : step[k] \subseteq S
  <2>1. 0 \in In(S)
    BY <1>8, <1>11
  <2>2. ASSUME NEW k \in 0 .. K - 1, k \in In(S) PROVE k + 1 \in In(S)
    <3>1. k + 1 \in 1 .. K /\ (k + 1) - 1 = k
      OBVIOUS
    <3>2. step[k + 1] = More(step[k]) /\ step[k] \subseteq S
      BY <3>1, <2>2, <1>8
    <3>3. More(step[k]) \subseteq S
      BY <3>2, <1>11 DEF More
    <3> QED
      BY <3>1, <3>2, <3>3
  <2>3. 0 .. K \subseteq In(S)
    <3> HIDE DEF In
    <3> QED
      BY <2>1, <2>2, Climb
  <2> QED
    BY <2>3
<1>12. \A k \in 0 .. K : step[k] \subseteq (1 .. K) \ A
  BY <1>11
<1>13. \A k \in 0 .. K : {r} \ A \subseteq step[k]
  <2> DEFINE T == {k \in 0 .. K : {r} \ A \subseteq step[k]}
  <2>1. 0 \in T
    BY <1>8
  <2>2. ASSUME NEW k \in 0 .. K - 1, k \in T PROVE k + 1 \in T
    <3>1. k + 1 \in 1 .. K /\ (k + 1) - 1 = k /\ step[k] \in V
      BY <1>12
    <3>2. step[k + 1] = More(step[k]) /\ step[k] \subseteq More(step[k])
      BY <3>1, <1>8, <1>9
    <3> QED
      BY <3>1, <3>2, <2>2
  <2>3. 0 .. K \subseteq T
    <3> HIDE DEF T
    <3> QED
      BY <2>1, <2>2, Climb
  <2> QED
    BY <2>3
<1> DEFINE Closed(X) == \A x \in X : e[x] \ A \subseteq X
           T == {k \in 0 .. K : Closed(step[k]) \/ k =< Cardinality(step[k])}
<1>14. \A k \in 0 .. K : step[k] \in V /\ IsFiniteSet(step[k]) /\ Cardinality(step[k]) \in Nat
  <2> SUFFICES ASSUME NEW k \in 0 .. K
               PROVE  step[k] \in V /\ IsFiniteSet(step[k]) /\ Cardinality(step[k]) \in Nat
    OBVIOUS
  <2>0. IsFiniteSet(1 .. K)
    BY FS_Interval
  <2>1. step[k] \in V
    BY <1>12
  <2>2. IsFiniteSet(step[k])
    BY <2>0, <2>1, FS_Subset
  <2> QED
    BY <2>1, <2>2, FS_CardinalityType
<1>15. Closed(step[K])
  <2>1. 0 \in T
    BY <1>14
  <2>2. ASSUME NEW k \in 0 .. K - 1, k \in T PROVE k + 1 \in T
    <3>1. k \in 0 .. K /\ k + 1 \in 0 .. K /\ k + 1 \in 1 .. K /\ (k + 1) - 1 = k
      OBVIOUS
    <3>2. step[k + 1] = More(step[k]) /\ step[k] \in V /\ step[k + 1] \in V
      BY <3>1, <1>8, <1>14
    <3>3. CASE Closed(step[k])
      BY <3>1, <3>2, <3>3, <1>10
    <3>4. CASE ~Closed(step[k])
      <4>1. k =< Cardinality(step[k])
        BY <2>2, <3>4
      <4>2. step[k] \subseteq step[k + 1] /\ step[k] # step[k + 1]
        BY <3>2, <3>4, <1>9
      <4>3. Cardinality(step[k]) < Cardinality(step[k + 1])
        BY <4>2, <3>1, <1>14, FS_Subset
      <4> QED
        BY <4>1, <4>3, <3>1, <1>14
    <3> QED
      BY <3>3, <3>4
  <2>3. K \in T
    <3> HIDE DEF T
    <3>1. 0 .. K \subseteq T
      BY <2>1, <2>2, Climb
    <3> QED
      BY <3>1
  <2>4. SUFFICES ASSUME K =< Cardinality(step[K]) PROVE Closed(step[K])
    BY <2>3
  <2>5. step[K] = 1 .. K
    <3>1. IsFiniteSet(1 .. K)
      BY FS_Interval
    <3>2. step[K] \subseteq 1 .. K /\ Cardinality(step[K]) \in Nat
      BY <1>14
    <3> QED
      BY <3>1, <3>2, <1>1, <2>4, FS_Subset
  <2> QED
    BY <2>5, <1>12
<1>16. K \in 0 .. K
  OBVIOUS
<1> QED
  BY <1>2, <1>11, <1>12, <1>13, <1>15, <1>16

-----------------------------------------------------------------------------
(* The graph.                                                              *)

(* The graphs to begin with, in both directions.                           *)
LEMMA InitGraph == Init => GraphInv
<1> SUFFICES ASSUME Init PROVE GraphInv
  OBVIOUS
<1> USE NAssumption DEF Block, Entry, Exit
<1>1. ASSUME NEW K \in Nat, DOMAIN edge = 1 .. K
      PROVE  Cardinality(Node) = K /\ Node = Number
  <2>1. Cardinality(1 .. K) = K
    BY FS_Interval
  <2> QED
    BY <1>1, <2>1 DEF Node, Number
<1>2. PICK g \in Graphs :
       /\ \/ /\ root = Entry
             /\ edge = g
             /\ back = Against(g)
          \/ /\ root = Exit
             /\ back = WithExit(g)
             /\ edge = Against(back)
       /\ \/ root = Entry /\ left = [b \in Node |-> {}]
          \/ root = Exit /\ \E s \in Stale(g) :
               left = [b \in Node |-> IF b = Exit THEN {} ELSE s[b]]
  BY DEF Init
<1>3. g \in [1 .. N -> SUBSET (1 .. N)]
  BY GraphsAssumption
<1>4. back[root] = {} /\ ReachableFrom(root, edge, {}) = Node
  BY DEF Init
<1>5. CASE root = Entry /\ edge = g /\ back = Against(g)
  <2>1. Cardinality(Node) = N /\ Node = Number /\ Node = 1 .. N
    BY <1>1, <1>3, <1>5 DEF Node
  <2>2. /\ edge \in [Node -> SUBSET Node] /\ back \in [Node -> SUBSET Node]
        /\ \A b, c \in Node : c \in edge[b] <=> b \in back[c]
    BY <2>1, <1>3, <1>5 DEF Against
  <2>3. left = [b \in Node |-> {}]
    BY <1>2, <1>5
  <2>4. left \in [Node -> SUBSET Node]
    BY <2>3
  <2> QED
    BY <2>1, <2>2, <2>3, <2>4, <1>4, <1>5 DEF GraphInv
<1>6. CASE root = Exit /\ back = WithExit(g) /\ edge = Against(back)
  <2>0. 1 .. N + 1 = 1 .. N \cup {N + 1}
    OBVIOUS
  <2>1. back \in [1 .. N + 1 -> SUBSET (1 .. N + 1)]
    BY <2>0, <1>3, <1>6 DEF WithExit
  <2>2. DOMAIN edge = 1 .. N + 1 /\ N + 1 \in Nat
    BY <2>1, <1>6 DEF Against
  <2>3. Cardinality(Node) = N + 1 /\ Node = Number /\ Node = 1 .. N + 1
    BY <1>1, <2>2 DEF Node
  <2>4. /\ edge \in [Node -> SUBSET Node] /\ back \in [Node -> SUBSET Node]
        /\ \A b, c \in Node : c \in edge[b] <=> b \in back[c]
    BY <2>1, <2>3, <1>6 DEF Against
  <2>5. root # Entry
    BY <1>6
  <2>6. PICK s \in Stale(g) : left = [b \in Node |-> IF b = Exit THEN {} ELSE s[b]]
    BY <1>2, <2>5
  <2>7. s \in [1 .. N -> SUBSET (1 .. N)]
    BY StaleAssumption
  <2>8. left \in [Node -> SUBSET Node]
    BY <2>0, <2>3, <2>6, <2>7
  <2> QED
    BY <2>2, <2>3, <2>4, <2>5, <2>8, <1>4, <1>6 DEF GraphInv
<1> QED
  BY <1>2, <1>5, <1>6

-----------------------------------------------------------------------------
(* The search.                                                             *)

(* Blocks and numbers. *)
OrderShape ==
  /\ Len(preOrder2DFS) \in Nat \ {0}
  /\ \A i \in 1 .. Len(preOrder2DFS) :
       preOrder2DFS[i] \in Node /\ preOrder2DFS[i] \in Found /\ Order(preOrder2DFS[i]) = i
  /\ \A b \in Found :
       b \in Node /\ Order(b) \in 1 .. Len(preOrder2DFS) /\ preOrder2DFS[Order(b)] = b
  /\ root \in Found /\ Order(root) = 1
  /\ ParentOf \in [2 .. Len(preOrder2DFS) -> 1 .. Len(preOrder2DFS)]
  /\ \A i \in 2 .. Len(preOrder2DFS) :
       /\ ParentOf[i] \in 1 .. Len(preOrder2DFS) /\ ParentOf[i] < i
       /\ parent[preOrder2DFS[i]] = preOrder2DFS[ParentOf[i]]
       /\ preOrder2DFS[i] \in edge[preOrder2DFS[ParentOf[i]]]

(* No block has two numbers, so Order is the inverse of preOrder2DFS.      *)
LEMMA OrderFacts == OrderInv => OrderShape
<1> SUFFICES ASSUME OrderInv PROVE OrderShape
  OBVIOUS
<1>1. Len(preOrder2DFS) \in Nat \ {0} /\ \A i \in 1 .. Len(preOrder2DFS) : preOrder2DFS[i] \in Node
  BY DEF OrderInv
<1>2. \A i \in 1 .. Len(preOrder2DFS) : Order(preOrder2DFS[i]) = i
  BY DEF OrderInv, Order
<1>3. \A b \in Found : \E i \in 1 .. Len(preOrder2DFS) : b = preOrder2DFS[i]
  BY DEF Found
<1>4. \A b \in Found : b \in Node /\ Order(b) \in 1 .. Len(preOrder2DFS) /\ preOrder2DFS[Order(b)] = b
  BY <1>1, <1>2, <1>3
<1>5. \A i \in 1 .. Len(preOrder2DFS) : preOrder2DFS[i] \in Found
  BY DEF Found
<1>6. root \in Found /\ Order(root) = 1
  BY <1>1, <1>2, <1>5 DEF OrderInv
<1>7. ASSUME NEW i \in 2 .. Len(preOrder2DFS)
      PROVE  /\ Order(parent[preOrder2DFS[i]]) \in 1 .. Len(preOrder2DFS)
             /\ Order(parent[preOrder2DFS[i]]) < i
             /\ parent[preOrder2DFS[i]] = preOrder2DFS[Order(parent[preOrder2DFS[i]])]
             /\ preOrder2DFS[i] \in edge[preOrder2DFS[Order(parent[preOrder2DFS[i]])]]
  <2>1. PICK k \in 1 .. i - 1 :
         parent[preOrder2DFS[i]] = preOrder2DFS[k] /\ preOrder2DFS[i] \in edge[preOrder2DFS[k]]
    BY DEF OrderInv
  <2>2. k \in 1 .. Len(preOrder2DFS) /\ k < i
    BY <1>1
  <2>3. Order(parent[preOrder2DFS[i]]) = k
    BY <2>1, <2>2, <1>2
  <2> QED
    BY <2>1, <2>2, <2>3
<1>8. ParentOf \in [2 .. Len(preOrder2DFS) -> 1 .. Len(preOrder2DFS)]
  BY <1>7 DEF ParentOf
<1> QED
  BY <1>1, <1>2, <1>4, <1>5, <1>6, <1>7, <1>8 DEF ParentOf, OrderShape

(* When the search begins, the root is the only block found.               *)
LEMMA InitSearch == Init => OrderInv /\ SearchInv
<1> SUFFICES ASSUME Init PROVE OrderInv /\ SearchInv
  OBVIOUS
<1>1. GraphInv
  BY InitGraph
<1>2. preOrder2DFS = <<root>> /\ stack = <<root>> /\ root \in Node /\ parent = [b \in Node |-> None]
  BY <1>1 DEF Init, GraphInv
<1>3. OrderInv
  BY <1>2 DEF OrderInv
<1>4. Len(preOrder2DFS) = 1 /\ Len(stack) = 1 /\ stack[1] = root /\ preOrder2DFS[1] = root
  BY <1>2
<1>5. 1 \in OnStack /\ OnStack = 1 .. 1
  BY <1>4 DEF OnStack
<1>6. Spans([i \in 1 .. 1 |-> 1])
  BY <1>4, <1>5 DEF Spans
<1>7. Found = {root}
  BY <1>4 DEF Found
<1> QED
  BY <1>2, <1>3, <1>4, <1>6, <1>7 DEF Init, SearchInv

(* A block found gets the next number and goes on the stack: it is a       *)
(* descendant of all that is there, and of nothing else.                   *)
LEMMA SearchStep ==
  ASSUME GraphInv, OrderInv, SearchInv, Search
  PROVE  OrderInv' /\ SearchInv'
<1> DEFINE L == Len(preOrder2DFS)
<1>1. PICK b \in edge[Top] \ Found : Visit(b)
  BY DEF Search
<1>2. /\ stack \in Seq(Found) /\ stack # <<>> /\ stack[1] = root
      /\ \A j, k \in 1 .. Len(stack) : j < k => Order(stack[j]) < Order(stack[k])
      /\ pc = "search" /\ UNCHANGED <<graph, sdoms, ancestors, idoms, domFrontier, cur, pc>>
      /\ idoms = [i \in Number |-> 1] /\ domFrontier = left
  BY DEF Search, SearchInv
<1>3. PICK last \in [1 .. L -> 1 .. L] : Spans(last)
  BY <1>2 DEF SearchInv
<1> DEFINE t == Order(Top)
<1>4. /\ L \in Nat \ {0}
      /\ \A i \in 1 .. L :
           preOrder2DFS[i] \in Node /\ preOrder2DFS[i] \in Found /\ Order(preOrder2DFS[i]) = i
      /\ \A c \in Found : c \in Node /\ Order(c) \in 1 .. L /\ preOrder2DFS[Order(c)] = c
      /\ root \in Found /\ Order(root) = 1
      /\ ParentOf \in [2 .. L -> 1 .. L]
      /\ \A i \in 2 .. L :
           /\ ParentOf[i] \in 1 .. L /\ ParentOf[i] < i
           /\ parent[preOrder2DFS[i]] = preOrder2DFS[ParentOf[i]]
           /\ preOrder2DFS[i] \in edge[preOrder2DFS[ParentOf[i]]]
  BY OrderFacts DEF OrderShape
<1>5. /\ Len(stack) \in Nat \ {0} /\ Top \in Found /\ Top \in Node
      /\ t \in 1 .. L /\ preOrder2DFS[t] = Top
      /\ t \in OnStack
  <2>1. Len(stack) \in Nat \ {0}
    BY <1>2
  <2>2. Top \in Found
    BY <1>2, <2>1 DEF Top
  <2> QED
    BY <2>1, <2>2, <1>4 DEF OnStack, Top
<1>6. \A i \in OnStack : i \in 1 .. L /\ i =< t
  <2> SUFFICES ASSUME NEW i \in OnStack PROVE i \in 1 .. L /\ i =< t
    OBVIOUS
  <2>1. PICK k \in 1 .. Len(stack) : stack[k] = preOrder2DFS[i]
    BY DEF OnStack
  <2>2. i \in 1 .. L /\ Order(stack[k]) = i
    BY <2>1, <1>4 DEF OnStack
  <2>3. CASE k = Len(stack)
    BY <2>2, <2>3, <1>5 DEF Top
  <2>4. CASE k # Len(stack)
    <3>1. k < Len(stack) /\ Len(stack) \in 1 .. Len(stack)
      BY <2>4, <1>5
    <3>2. Order(stack[k]) < Order(stack[Len(stack)])
      BY <3>1, <1>2
    <3> QED
      BY <3>2, <2>2, <1>5 DEF Top
  <2> QED
    BY <2>3, <2>4
<1>7. b \in Node /\ b \notin Found /\ b \in edge[Top]
  BY <1>1, <1>5 DEF GraphInv
<1>8. /\ preOrder2DFS' = Append(preOrder2DFS, b)
      /\ parent' = [parent EXCEPT ![b] = Top]
      /\ stack' = Append(stack, b)
      /\ Node' = Node /\ edge' = edge /\ root' = root /\ Number' = Number
  BY <1>1, <1>2 DEF Visit, graph, Node, Number
<1>9. /\ preOrder2DFS \in Seq(Node) /\ parent \in [Node -> Node \cup {None}]
      /\ preOrder2DFS[1] = root
      /\ \A i, j \in 1 .. L : preOrder2DFS[i] = preOrder2DFS[j] => i = j
  BY DEF OrderInv
<1>10. /\ preOrder2DFS' \in Seq(Node) \ {<<>>}
       /\ Len(preOrder2DFS') = L + 1
       /\ \A i \in 1 .. L : preOrder2DFS'[i] = preOrder2DFS[i]
       /\ preOrder2DFS'[L + 1] = b
  BY <1>4, <1>7, <1>8, <1>9
<1>11. /\ parent' \in [Node -> Node \cup {None}] /\ parent'[b] = Top
       /\ \A i \in 1 .. L : parent'[preOrder2DFS[i]] = parent[preOrder2DFS[i]]
  BY <1>4, <1>5, <1>7, <1>8, <1>9
<1>12. OrderInv'
  <2>1. preOrder2DFS'[1] = root'
    BY <1>4, <1>8, <1>9, <1>10
  <2>2. ASSUME NEW i \in 1 .. L + 1, NEW j \in 1 .. L + 1, preOrder2DFS'[i] = preOrder2DFS'[j]
        PROVE  i = j
    <3>1. CASE i \in 1 .. L /\ j \in 1 .. L
      BY <3>1, <2>2, <1>9, <1>10
    <3>2. CASE i = L + 1 /\ j \in 1 .. L
      BY <3>2, <2>2, <1>4, <1>7, <1>10
    <3>3. CASE i \in 1 .. L /\ j = L + 1
      BY <3>3, <2>2, <1>4, <1>7, <1>10
    <3> QED
      BY <3>1, <3>2, <3>3, <1>4
  <2>3. ASSUME NEW i \in 2 .. L + 1
        PROVE  \E k \in 1 .. i - 1 :
                 /\ parent'[preOrder2DFS'[i]] = preOrder2DFS'[k]
                 /\ preOrder2DFS'[i] \in edge[preOrder2DFS'[k]]
    <3>1. CASE i \in 2 .. L
      <4>1. ParentOf[i] \in 1 .. i - 1 /\ ParentOf[i] \in 1 .. L /\ i \in 1 .. L
        BY <3>1, <1>4
      <4> QED
        BY <4>1, <3>1, <1>4, <1>10, <1>11
    <3>2. CASE i = L + 1
      <4>1. t \in 1 .. i - 1
        BY <3>2, <1>5, <1>4
      <4> QED
        BY <4>1, <3>2, <1>5, <1>7, <1>10, <1>11
    <3> QED
      BY <3>1, <3>2, <1>4
  <2> QED
    BY <2>1, <2>2, <2>3, <1>8, <1>10, <1>11 DEF OrderInv
<1>13. \A c \in Found \cup {b} : \A i \in 1 .. L + 1 : preOrder2DFS'[i] = c => Order(c)' = i
  BY <1>10, <1>12 DEF OrderInv, Order
<1>14. /\ Found' = Found \cup {b}
       /\ \A c \in Found : Order(c)' = Order(c)
       /\ Order(b)' = L + 1
  <2>1. Found' = Found \cup {b}
    <3>1. Found' = {preOrder2DFS'[i] : i \in 1 .. L + 1}
      BY <1>10 DEF Found
    <3>2. L + 1 \in 1 .. L + 1 /\ \A i \in 1 .. L + 1 : i = L + 1 \/ i \in 1 .. L
      BY <1>4
    <3>3. \A i \in 1 .. L : i \in 1 .. L + 1
      BY <1>4
    <3>4. Found = {preOrder2DFS[i] : i \in 1 .. L}
      BY DEF Found
    <3> QED
      BY <3>1, <3>2, <3>3, <3>4, <1>10
  <2>2. ASSUME NEW c \in Found PROVE Order(c)' = Order(c)
    <3>1. Order(c) \in 1 .. L + 1 /\ preOrder2DFS'[Order(c)] = c
      BY <1>4, <1>10
    <3> QED
      BY <3>1, <1>13
  <2>3. L + 1 \in 1 .. L + 1
    BY <1>4
  <2> QED
    BY <2>1, <2>2, <2>3, <1>10, <1>13
<1>15. /\ \A i \in 2 .. L : ParentOf'[i] = ParentOf[i]
       /\ ParentOf'[L + 1] = t
  <2>1. \A i \in 2 .. L + 1 : \A k \in 1 .. L + 1 :
          parent'[preOrder2DFS'[i]] = preOrder2DFS'[k] => ParentOf'[i] = k
    BY <1>10, <1>12 DEF OrderInv, Order, ParentOf
  <2>2. ASSUME NEW i \in 2 .. L PROVE ParentOf'[i] = ParentOf[i]
    <3>1. i \in 1 .. L /\ i \in 2 .. L + 1 /\ ParentOf[i] \in 1 .. L + 1
      BY <1>4
    <3>2. parent'[preOrder2DFS'[i]] = preOrder2DFS'[ParentOf[i]]
      BY <3>1, <1>4, <1>10, <1>11
    <3> QED
      BY <2>1, <3>1, <3>2
  <2>3. L + 1 \in 2 .. L + 1 /\ t \in 1 .. L + 1 /\ preOrder2DFS'[t] = Top
    BY <1>4, <1>5, <1>10
  <2> QED
    BY <2>1, <2>2, <2>3, <1>10, <1>11
<1>16. OnStack' = OnStack \cup {L + 1}
  <2>1. /\ Len(stack') = Len(stack) + 1 /\ stack'[Len(stack) + 1] = b
        /\ \A k \in 1 .. Len(stack) : stack'[k] = stack[k] /\ stack[k] \in Found
    BY <1>2, <1>5, <1>8
  <2>2. ASSUME NEW i \in 1 .. L PROVE i \in OnStack' <=> i \in OnStack
    <3>1. preOrder2DFS'[i] = preOrder2DFS[i] /\ i \in 1 .. L + 1 /\ preOrder2DFS[i] # b
      BY <1>4, <1>7, <1>10
    <3>2. (\E k \in 1 .. Len(stack) + 1 : stack'[k] = preOrder2DFS[i])
            <=> (\E k \in 1 .. Len(stack) : stack[k] = preOrder2DFS[i])
      BY <2>1, <3>1, <1>5
    <3> QED
      BY <2>1, <3>1, <3>2, <1>10 DEF OnStack
  <2>3. L + 1 \in OnStack'
    <3>1. L + 1 \in 1 .. L + 1 /\ Len(stack) + 1 \in 1 .. Len(stack) + 1
      BY <1>4, <1>5
    <3> QED
      BY <3>1, <2>1, <1>10 DEF OnStack
  <2>4. OnStack \subseteq 1 .. L /\ OnStack' \subseteq 1 .. L + 1
    BY <1>10 DEF OnStack
  <2>5. \A i \in 1 .. L + 1 : i = L + 1 \/ i \in 1 .. L
    BY <1>4
  <2> QED
    BY <2>2, <2>3, <2>4, <2>5
<1>17. /\ last \in [1 .. L -> 1 .. L] /\ last[1] = L
       /\ \A i \in 1 .. L : i =< last[i] /\ \A j \in i .. last[i] : last[j] =< last[i]
       /\ \A i \in 2 .. L : i =< last[ParentOf[i]]
       /\ \A i \in 2 .. L : \A k \in 1 .. i - 1 : i =< last[k] => k =< ParentOf[i]
       /\ \A i \in OnStack : last[i] = L
       /\ \A i \in (1 .. L) \ OnStack :
           /\ edge[preOrder2DFS[i]] \subseteq Found
           /\ \A c \in edge[preOrder2DFS[i]] : Order(c) =< last[i]
           /\ \A j \in OnStack : i < j => last[i] < j
  BY <1>3 DEF Spans
<1>18. PICK to \in [1 .. L + 1 -> 1 .. L + 1] :
         /\ \A i \in OnStack \cup {L + 1} : to[i] = L + 1
         /\ \A i \in (1 .. L) \ OnStack : to[i] = last[i]
         /\ OnStack \subseteq 1 .. L
  <2> DEFINE new == [i \in 1 .. L + 1 |-> IF i \in OnStack \cup {L + 1} THEN L + 1 ELSE last[i]]
  <2>1. /\ new \in [1 .. L + 1 -> 1 .. L + 1]
        /\ \A i \in OnStack \cup {L + 1} : new[i] = L + 1
        /\ \A i \in (1 .. L) \ OnStack : new[i] = last[i]
        /\ OnStack \subseteq 1 .. L
    BY <1>4, <1>6, <1>17
  <2> HIDE DEF new
  <2> QED
    BY <2>1
<1>19. to[1] = L + 1
  <2>1. 1 \in OnStack
    <3>1. stack[1] = preOrder2DFS[1] /\ 1 \in 1 .. Len(stack) /\ 1 \in 1 .. L
      BY <1>2, <1>4, <1>5, <1>9
    <3> QED
      BY <3>1 DEF OnStack
  <2> QED
    BY <2>1, <1>18
<1>20. ASSUME NEW i \in 1 .. L + 1
       PROVE  i =< to[i] /\ \A j \in i .. to[i] : to[j] =< to[i]
  <2>1. CASE i \in OnStack \cup {L + 1}
    BY <2>1, <1>4, <1>18
  <2>2. CASE i \notin OnStack \cup {L + 1}
    <3>0. i \in (1 .. L) \ OnStack
      BY <2>2, <1>4
    <3>1. i \in (1 .. L) \ OnStack /\ to[i] = last[i] /\ last[i] \in 1 .. L
      BY <3>0, <1>17, <1>18
    <3>2. ASSUME NEW j \in i .. last[i] PROVE to[j] =< last[i]
      <4>1. j \in 1 .. L
        BY <3>1
      <4>2. j \notin OnStack
        <5>1. j \in OnStack => i < j /\ last[i] < j
          BY <3>1, <4>1, <1>17
        <5> QED
          BY <5>1, <3>1
      <4> QED
        BY <4>1, <4>2, <3>1, <1>17, <1>18
    <3> QED
      BY <3>1, <3>2, <1>17
  <2> QED
    BY <2>1, <2>2
<1>21. ASSUME NEW i \in 2 .. L + 1 PROVE i =< to[ParentOf'[i]]
  <2>1. CASE i \in 2 .. L
    <3>1. ParentOf'[i] = ParentOf[i] /\ ParentOf[i] \in 1 .. L /\ i =< last[ParentOf[i]] /\ last[ParentOf[i]] \in 1 .. L
      BY <2>1, <1>4, <1>15, <1>17
    <3>2. to[ParentOf[i]] = L + 1 \/ to[ParentOf[i]] = last[ParentOf[i]]
      BY <3>1, <1>18
    <3> QED
      BY <3>1, <3>2, <2>1
  <2>2. CASE i = L + 1
    BY <2>2, <1>4, <1>5, <1>15, <1>18
  <2> QED
    BY <2>1, <2>2, <1>4
<1>22. ASSUME NEW i \in 2 .. L + 1, NEW k \in 1 .. i - 1, i =< to[k] PROVE k =< ParentOf'[i]
  <2>0. k \in 1 .. L
    BY <1>4
  <2>1. CASE i \in 2 .. L
    <3>1. CASE k \in OnStack
      BY <2>0, <2>1, <3>1, <1>4, <1>15, <1>17
    <3>2. CASE k \notin OnStack
      BY <2>0, <2>1, <3>2, <1>4, <1>15, <1>17, <1>18, <1>22
    <3> QED
      BY <3>1, <3>2
  <2>2. CASE i = L + 1
    <3>1. k \in OnStack
      <4>1. k \in (1 .. L) \ OnStack => to[k] = last[k] /\ last[k] =< L
        BY <1>4, <1>17, <1>18
      <4> QED
        BY <4>1, <2>0, <2>2, <1>4, <1>22
    <3> QED
      BY <3>1, <2>2, <1>6, <1>15
  <2> QED
    BY <2>1, <2>2, <1>4
<1>23. ASSUME NEW i \in (1 .. L + 1) \ (OnStack \cup {L + 1})
       PROVE  /\ edge[preOrder2DFS'[i]] \subseteq Found'
              /\ \A c \in edge[preOrder2DFS'[i]] : Order(c)' =< to[i]
              /\ \A j \in OnStack \cup {L + 1} : i < j => to[i] < j
  <2>1. i \in (1 .. L) \ OnStack /\ to[i] = last[i] /\ preOrder2DFS'[i] = preOrder2DFS[i] /\ last[i] \in 1 .. L
    BY <1>4, <1>10, <1>17, <1>18
  <2>2. edge[preOrder2DFS[i]] \subseteq Found /\ \A c \in edge[preOrder2DFS[i]] : Order(c) =< last[i]
    BY <2>1, <1>17
  <2>3. \A c \in edge[preOrder2DFS[i]] : Order(c)' =< last[i]
    BY <2>2, <1>14
  <2>4. \A j \in OnStack \cup {L + 1} : i < j => last[i] < j
    BY <2>1, <1>4, <1>17
  <2> QED
    BY <2>1, <2>2, <2>3, <2>4, <1>14
<1>24. Spans(to)'
  BY <1>8, <1>10, <1>16, <1>18, <1>19, <1>20, <1>21, <1>22, <1>23 DEF Spans
<1>25. /\ stack' \in Seq(Found') /\ stack' # <<>> /\ stack'[1] = root'
       /\ Len(stack') = Len(stack) + 1 /\ stack'[Len(stack) + 1] = b
       /\ \A k \in 1 .. Len(stack) : stack'[k] = stack[k] /\ stack[k] \in Found
  <2>1. /\ Len(stack') = Len(stack) + 1 /\ stack'[Len(stack) + 1] = b
        /\ \A k \in 1 .. Len(stack) : stack'[k] = stack[k] /\ stack[k] \in Found
    BY <1>2, <1>5, <1>8
  <2>2. stack' \in Seq(Found')
    <3>1. b \in Found' /\ \A k \in 1 .. Len(stack) : stack[k] \in Found'
      BY <2>1, <1>14
    <3>2. stack = [k \in 1 .. Len(stack) |-> stack[k]] /\ Len(stack) \in Nat
      BY <1>2
    <3>3. stack \in Seq(Found')
      BY <3>1, <3>2
    <3> QED
      BY <3>1, <3>3, <1>8
  <2>3. stack'[1] = root' /\ stack' # <<>>
    <3>1. 1 \in 1 .. Len(stack)
      BY <1>5
    <3>2. stack'[1] = root'
      BY <2>1, <3>1, <1>2, <1>8
    <3>3. Len(stack') # 0
      BY <2>1, <1>5
    <3> QED
      BY <3>2, <3>3
  <2> QED
    BY <2>1, <2>2, <2>3
<1>26. ASSUME NEW j \in 1 .. Len(stack) + 1, NEW k \in 1 .. Len(stack) + 1, j < k
       PROVE  \A x, y : x = stack'[j] /\ y = stack'[k] => Order(x)' < Order(y)'
  <2>1. j \in 1 .. Len(stack) /\ stack'[j] = stack[j] /\ stack[j] \in Found
    BY <1>5, <1>25, <1>26
  <2>2. CASE k \in 1 .. Len(stack)
    <3>1. stack'[k] = stack[k] /\ stack[k] \in Found /\ Order(stack[j]) < Order(stack[k])
      BY <2>1, <2>2, <1>2, <1>25, <1>26
    <3> QED
      BY <2>1, <3>1, <1>14
  <2>3. CASE k = Len(stack) + 1
    <3>1. stack'[k] = b /\ Order(stack[j]) \in 1 .. L
      BY <2>1, <2>3, <1>4, <1>25
    <3> QED
      BY <2>1, <3>1, <1>4, <1>14
  <2> QED
    BY <2>2, <2>3, <1>5
<1>27. SearchInv'
  <2>1. pc' = "search" /\ idoms' = [i \in Number' |-> 1] /\ domFrontier' = left'
    BY <1>2, <1>8 DEF graph
  <2>2. \E new \in [1 .. L + 1 -> 1 .. L + 1] : Spans(new)'
    BY <1>24
  <2>3. (\A j, k \in 1 .. Len(stack) : j < k => Order(stack[j]) < Order(stack[k]))'
    BY <1>25, <1>26
  <2> QED
    BY <2>1, <2>2, <2>3, <1>10, <1>25 DEF SearchInv
<1> QED
  BY <1>12, <1>27

(* A block that leaves the stack has only successors that were found, and  *)
(* none of them after its last descendant.                                 *)
LEMMA ReturnStep ==
  ASSUME GraphInv, OrderInv, SearchInv, SearchReturn
  PROVE  OrderInv' /\ SearchInv'
<1> DEFINE L == Len(preOrder2DFS)
           t == Order(Top)
           m == Len(stack)
<1>1. /\ stack \in Seq(Found) /\ stack # <<>> /\ stack[1] = root
      /\ \A j, k \in 1 .. m : j < k => Order(stack[j]) < Order(stack[k])
      /\ pc = "search" /\ edge[Top] \subseteq Found /\ stack' = SubSeq(stack, 1, m - 1)
      /\ idoms = [i \in Number |-> 1] /\ domFrontier = left
      /\ root' = root /\ edge' = edge /\ left' = left /\ preOrder2DFS' = preOrder2DFS /\ parent' = parent
      /\ idoms' = idoms /\ domFrontier' = domFrontier /\ pc' = pc
  BY DEF SearchReturn, SearchInv, graph
<1>2. PICK last \in [1 .. L -> 1 .. L] : Spans(last)
  BY <1>1 DEF SearchInv
<1>3. /\ L \in Nat \ {0}
      /\ \A i \in 1 .. L : preOrder2DFS[i] \in Found /\ Order(preOrder2DFS[i]) = i
      /\ \A c \in Found : c \in Node /\ Order(c) \in 1 .. L /\ preOrder2DFS[Order(c)] = c
  BY OrderFacts DEF OrderShape
<1>4. /\ OrderInv' /\ Found' = Found /\ ParentOf' = ParentOf /\ Node' = Node /\ Number' = Number
      /\ \A c : Order(c)' = Order(c)
  <2>1. Found' = Found /\ ParentOf' = ParentOf /\ Node' = Node /\ Number' = Number
    BY <1>1 DEF Found, ParentOf, Order, Node, Number
  <2>2. \A c : Order(c)' = Order(c)
    BY <1>1 DEF Order
  <2>3. OrderInv'
    BY <1>1 DEF OrderInv, Node
  <2> QED
    BY <2>1, <2>2, <2>3
<1>5. /\ m \in Nat \ {0} /\ m - 1 \in Nat /\ Len(stack') = m - 1
      /\ stack' \in Seq(Found)
      /\ \A k \in 1 .. m - 1 : stack'[k] = stack[k] /\ k \in 1 .. m
      /\ \A k \in 1 .. m : stack[k] \in Found
  <2>1. m \in Nat \ {0} /\ m - 1 \in Nat /\ \A k \in 1 .. m : stack[k] \in Found
    BY <1>1
  <2>2. stack' = [k \in 1 .. m - 1 |-> stack[k]]
    BY <2>1, <1>1
  <2>3. \A k \in 1 .. m - 1 : stack'[k] = stack[k] /\ k \in 1 .. m
    BY <2>1, <2>2
  <2>4. stack' \in Seq(Found)
    BY <2>1, <2>2, <2>3
  <2>5. Len(stack') = m - 1
    <3>1. Len(SubSeq(stack, 1, m - 1)) = IF 1 =< m - 1 THEN (m - 1) - 1 + 1 ELSE 0
      <4>1. \A k \in 1 .. m - 1 : stack[k] \in Found
        BY <2>1
      <4>2. 1 \in Int /\ m - 1 \in Int
        BY <2>1
      <4> QED
        BY <4>1, <4>2, SubSeqProperties
    <3>2. Len(stack') = Len(SubSeq(stack, 1, m - 1))
      BY <1>1, Zenon
    <3>3. (IF 1 =< m - 1 THEN (m - 1) - 1 + 1 ELSE 0) = m - 1
      BY <2>1
    <3> QED
      BY <3>1, <3>2, <3>3, Zenon
  <2> QED
    BY <2>1, <2>3, <2>4, <2>5
<1>6. Top \in Found /\ Top = stack[m] /\ t \in 1 .. L /\ preOrder2DFS[t] = Top
  BY <1>3, <1>5 DEF Top
<1>7. OnStack' \subseteq OnStack /\ \A i \in OnStack' : i < t
  <2> SUFFICES ASSUME NEW i \in OnStack' PROVE i \in OnStack /\ i < t
    OBVIOUS
  <2>1. PICK k \in 1 .. m - 1 : stack[k] = preOrder2DFS[i]
    BY <1>1, <1>5 DEF OnStack
  <2>2. k \in 1 .. m /\ k < m /\ i \in 1 .. L
    BY <1>1, <1>5 DEF OnStack
  <2>3. i \in OnStack
    BY <2>1, <2>2 DEF OnStack
  <2>4. m \in 1 .. m
    BY <1>5
  <2>5. Order(stack[k]) < Order(stack[m])
    BY <2>2, <2>4, <1>1
  <2> QED
    BY <2>1, <2>2, <2>3, <2>5, <1>3, <1>6
<1>8. ASSUME NEW i \in OnStack, i # t PROVE i \in OnStack'
  <2>1. PICK k \in 1 .. m : stack[k] = preOrder2DFS[i]
    BY DEF OnStack
  <2>2. i \in 1 .. L
    BY DEF OnStack
  <2>3. k # m
    BY <2>1, <2>2, <1>3, <1>6, <1>8
  <2>4. k \in 1 .. m - 1
    BY <2>3, <1>5
  <2> QED
    BY <2>1, <2>2, <2>4, <1>1, <1>5 DEF OnStack
<1>9. /\ last[1] = L
      /\ \A i \in 1 .. L : i =< last[i] /\ \A j \in i .. last[i] : last[j] =< last[i]
      /\ \A i \in 2 .. L : i =< last[ParentOf[i]]
      /\ \A i \in 2 .. L : \A k \in 1 .. i - 1 : i =< last[k] => k =< ParentOf[i]
      /\ \A i \in OnStack : last[i] = L
      /\ \A i \in (1 .. L) \ OnStack :
           /\ edge[preOrder2DFS[i]] \subseteq Found
           /\ \A c \in edge[preOrder2DFS[i]] : Order(c) =< last[i]
           /\ \A j \in OnStack : i < j => last[i] < j
  BY <1>2 DEF Spans
<1>10. ASSUME NEW i \in (1 .. L) \ OnStack'
       PROVE  /\ edge[preOrder2DFS[i]] \subseteq Found
              /\ \A c \in edge[preOrder2DFS[i]] : Order(c) =< last[i]
              /\ \A j \in OnStack' : i < j => last[i] < j
  <2>1. CASE i # t
    BY <2>1, <1>7, <1>8, <1>9
  <2>2. CASE i = t
    <3>1. t \in OnStack
      <4>1. m \in 1 .. m
        BY <1>5
      <4> QED
        BY <4>1, <1>6 DEF OnStack
    <3>2. last[t] = L
      BY <3>1, <1>9
    <3>3. \A c \in edge[Top] : Order(c) =< L
      BY <1>1, <1>3
    <3>4. \A j \in OnStack' : ~(t < j)
      <4>1. \A j \in OnStack' : j \in 1 .. L
        BY <1>7 DEF OnStack
      <4> QED
        BY <4>1, <1>6, <1>7
    <3> QED
      BY <2>2, <3>2, <3>3, <3>4, <1>1, <1>6
  <2> QED
    BY <2>1, <2>2
<1>11. \A i \in OnStack' : last[i] = L
  BY <1>7, <1>9
<1>12. Spans(last)'
  BY <1>1, <1>4, <1>9, <1>10, <1>11 DEF Spans
<1>13. stack' # <<>> => stack'[1] = root'
  BY <1>1, <1>5
<1>14. (\A j, k \in 1 .. Len(stack) : j < k => Order(stack[j]) < Order(stack[k]))'
  BY <1>1, <1>4, <1>5
<1> QED
  BY <1>1, <1>4, <1>5, <1>12, <1>13, <1>14 DEF SearchInv

(* When the search is over it has found every block. *)
LEMMA SearchDone ==
  ASSUME GraphInv, OrderInv, SearchInv, pc = "search", stack = <<>>
  PROVE  /\ Found = Node
         /\ Len(preOrder2DFS) = Cardinality(Node)
         /\ \E last \in [Number -> Number] : SearchTree(Cardinality(Node), ParentOf, last, EdgesOf)
<1> DEFINE L == Len(preOrder2DFS)
<1>1. PICK last \in [1 .. L -> 1 .. L] : Spans(last)
  BY DEF SearchInv
<1>2. /\ L \in Nat \ {0}
      /\ \A i \in 1 .. L :
           preOrder2DFS[i] \in Node /\ preOrder2DFS[i] \in Found /\ Order(preOrder2DFS[i]) = i
      /\ \A c \in Found : c \in Node /\ Order(c) \in 1 .. L /\ preOrder2DFS[Order(c)] = c
      /\ root \in Found /\ Order(root) = 1
      /\ ParentOf \in [2 .. L -> 1 .. L]
      /\ \A i \in 2 .. L :
           /\ ParentOf[i] \in 1 .. L /\ ParentOf[i] < i
           /\ preOrder2DFS[i] \in edge[preOrder2DFS[ParentOf[i]]]
  BY OrderFacts DEF OrderShape
<1>3. OnStack = {}
  BY DEF OnStack
<1>4. /\ last[1] = L
      /\ \A i \in 1 .. L : i =< last[i] /\ \A j \in i .. last[i] : last[j] =< last[i]
      /\ \A i \in 2 .. L : i =< last[ParentOf[i]]
      /\ \A i \in 2 .. L : \A k \in 1 .. i - 1 : i =< last[k] => k =< ParentOf[i]
      /\ \A i \in 1 .. L :
           /\ edge[preOrder2DFS[i]] \subseteq Found
           /\ \A c \in edge[preOrder2DFS[i]] : Order(c) =< last[i]
  BY <1>1, <1>3 DEF Spans
<1>5. Found = Node
  <2> DEFINE K == Cardinality(Node)
             S == Found
  <2>1. K \in Nat /\ Node = 1 .. K /\ edge \in [1 .. K -> SUBSET (1 .. K)] /\ root \in 1 .. K
    BY DEF GraphInv, Number
  <2>2. S \in SUBSET (1 .. K) /\ {root} \ {} \subseteq S
    BY <2>1, <1>2
  <2>3. \A x \in S : edge[x] \ {} \subseteq S
    <3> SUFFICES ASSUME NEW x \in Found PROVE edge[x] \subseteq Found
      OBVIOUS
    <3> QED
      BY <1>2, <1>4
  <2>4. ReachableFrom(root, edge, {}) \subseteq S
    <3> HIDE DEF S, K
    <3> QED
      BY <2>1, <2>2, <2>3, ReachFacts
  <2> QED
    BY <2>1, <2>2, <2>4 DEF GraphInv
<1>6. L = Cardinality(Node)
  <2>1. [i \in 1 .. L |-> preOrder2DFS[i]] \in Bijection(1 .. L, Node)
    <3> DEFINE f == [i \in 1 .. L |-> preOrder2DFS[i]]
    <3>1. f \in [1 .. L -> Node] /\ \A i, j \in 1 .. L : f[i] = f[j] => i = j
      BY <1>2 DEF OrderInv
    <3>2. \A c \in Node : \E i \in 1 .. L : f[i] = c
      BY <1>2, <1>5
    <3> QED
      BY <3>1, <3>2 DEF Bijection, Injection, Surjection, IsInjective
  <2>2. ExistsBijection(1 .. L, Node)
    BY <2>1 DEF ExistsBijection
  <2> QED
    BY <2>2, <1>2, FS_CountingElements
<1>7. EdgesOf \in [1 .. L -> SUBSET (1 .. L)]
  BY <1>2, <1>4 DEF EdgesOf
<1>8. \A i \in 1 .. L : 1 \notin EdgesOf[i] /\ \A j \in EdgesOf[i] : j =< last[i]
  <2> SUFFICES ASSUME NEW i \in 1 .. L, NEW c \in edge[preOrder2DFS[i]]
               PROVE  Order(c) # 1 /\ Order(c) =< last[i]
    BY DEF EdgesOf
  <2>1. c \in Found /\ c # root
    BY <1>2, <1>4 DEF GraphInv
  <2> QED
    BY <2>1, <1>2, <1>4
<1>9. \A i \in 2 .. L : i \in EdgesOf[ParentOf[i]]
  <2> SUFFICES ASSUME NEW i \in 2 .. L PROVE i \in EdgesOf[ParentOf[i]]
    OBVIOUS
  <2>1. i \in 1 .. L /\ Order(preOrder2DFS[i]) = i
    BY <1>2
  <2> QED
    BY <2>1, <1>2 DEF EdgesOf
<1>10. SearchTree(L, ParentOf, last, EdgesOf)
  BY <1>2, <1>4, <1>7, <1>8, <1>9 DEF SearchTree
<1> QED
  BY <1>5, <1>6, <1>10 DEF Number

(* The lesser of two. *)
LEMMA MinTwo ==
  ASSUME NEW x \in Nat, NEW y \in Nat
  PROVE  (Min({x, y}) = x \/ Min({x, y}) = y) /\ Min({x, y}) =< x /\ Min({x, y}) =< y
<1>1. {x, y} \in SUBSET Nat /\ {x, y} # {}
  OBVIOUS
<1> QED
  BY <1>1, MinFacts

-----------------------------------------------------------------------------
(* computeSdom.                                                            *)

(* Eval is defined, as links lead to smaller numbers. *)
LEMMA EvalFacts ==
  ASSUME NEW n \in Nat, Number = 1 .. n, sdoms \in [Number -> Number],
         ancestors \in [Number -> Number \cup {None}],
         \A v \in Number : ancestors[v] # None => ancestors[v] < v
  PROVE  /\ Eval \in [Number -> Number]
         /\ \A v \in Number :
              Eval[v] = IF ancestors[v] = None \/ ancestors[ancestors[v]] = None THEN sdoms[v]
                        ELSE Min({sdoms[v], Eval[ancestors[v]]})
<1> DEFINE Root(v) == ancestors[v] = None \/ ancestors[ancestors[v]] = None
           Of(v) == [f \in [Number -> Number] |->
                       IF Root(v) THEN sdoms[v] ELSE Min({sdoms[v], f[ancestors[v]]})]
           G == [v \in Number |-> Of(v)]
<1>0. \A v \in Number : v \in Nat /\ None \notin Number
  BY DEF None
<1>1. ASSUME NEW v \in Number, NEW f \in [Number -> Number]
      PROVE  /\ ~Root(v) => ancestors[v] \in Number
             /\ (IF Root(v) THEN sdoms[v] ELSE Min({sdoms[v], f[ancestors[v]]})) \in Number
  <2>1. ~Root(v) => ancestors[v] \in Number
    OBVIOUS
  <2>2. CASE ~Root(v)
    <3>1. f[ancestors[v]] \in Number /\ sdoms[v] \in Number
      BY <2>1, <2>2
    <3>2. Min({sdoms[v], f[ancestors[v]]}) \in Number
      <4>1. \A x, y \in Number : Min({x, y}) \in Number
        BY <1>0, MinTwo
      <4> QED
        BY <3>1, <4>1
    <3> QED
      BY <2>1, <2>2, <3>2
  <2>3. CASE Root(v)
    BY <2>3
  <2> QED
    BY <2>2, <2>3
<1>2. Causal(Number, Number, G)
  <2>1. G \in [Number -> [[Number -> Number] -> Number]]
    <3>1. \A v \in Number : Of(v) \in [[Number -> Number] -> Number]
      BY <1>1
    <3> HIDE DEF Of
    <3> QED
      BY <3>1
  <2>2. ASSUME NEW v \in Number, NEW f \in [Number -> Number], NEW g \in [Number -> Number],
               \A j \in Number : j < v => f[j] = g[j]
        PROVE  G[v][f] = G[v][g]
    BY <2>2, <1>1
  <2> HIDE DEF G
  <2> QED
    BY <2>1, <2>2 DEF Causal
<1>3. CASE Number = {}
  <2>1. \E f \in [Number -> Number] : f = [v \in Number |-> IF Root(v) THEN sdoms[v] ELSE Min({sdoms[v], f[ancestors[v]]})]
    BY <1>3
  <2> QED
    BY <1>3, <2>1 DEF Eval
<1>4. CASE Number # {}
  <2>1. Number \in SUBSET (0 .. n)
    OBVIOUS
  <2>2. PICK f \in [Number -> Number] : Solves(Number, G, f)
    <3> HIDE DEF G
    <3> QED
      BY <2>1, <1>2, <1>4, Solution
  <2>3. f = [v \in Number |-> IF Root(v) THEN sdoms[v] ELSE Min({sdoms[v], f[ancestors[v]]})]
    BY <2>2 DEF Solves
  <2>4. Eval = [v \in Number |-> IF ancestors[v] = None \/ ancestors[ancestors[v]] = None THEN sdoms[v]
                                 ELSE Min({sdoms[v], Eval[ancestors[v]]})]
    BY <2>3 DEF Eval
  <2>5. \A v \in Number :
              Eval[v] = IF ancestors[v] = None \/ ancestors[ancestors[v]] = None THEN sdoms[v]
                        ELSE Min({sdoms[v], Eval[ancestors[v]]})
    BY <2>4
  <2>6. \A v \in Number : Eval[v] \in Number
    <3> DEFINE S == {v \in Number : Eval[v] \notin Number}
    <3> SUFFICES ASSUME S # {} PROVE FALSE
      OBVIOUS
    <3>1. PICK m \in S : \A k \in S : m =< k
      <4>1. S \in SUBSET Nat
        BY <1>0
      <4> HIDE DEF S
      <4> QED
        BY <4>1, MinFacts
    <3>2. CASE Root(m)
      BY <3>2, <2>5
    <3>3. CASE ~Root(m)
      <4>1. ancestors[m] \in Number /\ ancestors[m] < m /\ m \in Number
        BY <3>3
      <4>2. Eval[ancestors[m]] \in Number
        <5>1. ancestors[m] \in Nat /\ m \in Nat
          BY <4>1, <1>0
        <5>2. ~(m =< ancestors[m])
          BY <5>1, <4>1
        <5>3. ancestors[m] \notin S
          BY <5>2, <3>1
        <5> QED
          BY <5>3, <4>1
      <4>3. Min({sdoms[m], Eval[ancestors[m]]}) \in Number
        <5>1. sdoms[m] \in Number
          OBVIOUS
        <5> QED
          BY <5>1, <4>2, <1>0, MinTwo
      <4>4. Eval[m] = Min({sdoms[m], Eval[ancestors[m]]})
        BY <4>1, <3>3, <2>5
      <4> QED
        BY <4>3, <4>4
    <3> QED
      BY <3>2, <3>3
  <2>7. DOMAIN Eval = Number
    BY <2>4
  <2>8. Eval = [v \in Number |-> Eval[v]]
    BY <2>4
  <2> QED
    BY <2>5, <2>6, <2>8
<1> QED
  BY <1>3, <1>4

(* The forest when computeSdom has come down to cur. *)
Linked(n, pn, e) ==
  /\ cur \in Number
  /\ sdoms \in [Number -> Number]
  /\ ancestors \in [Number -> Number \cup {None}]
  /\ \A i \in Number : IF i =< cur THEN sdoms[i] = i /\ ancestors[i] = None
                        ELSE sdoms[i] = Semi(n, e, i) /\ ancestors[i] = pn[i]

(* Above cur, Eval is the least semidominator of an ancestor above cur. *)
LEMMA EvalLeast ==
  ASSUME NEW n, NEW pn, NEW last, NEW e, SearchTree(n, pn, last, e), Number = 1 .. n,
         Linked(n, pn, e), NEW v \in Number
  PROVE  /\ v =< cur => Eval[v] = v
         /\ cur < v => /\ \E u \in cur + 1 .. n : v \in u .. last[u] /\ Eval[v] = Semi(n, e, u)
                       /\ \A u \in cur + 1 .. n : v \in u .. last[u] => Eval[v] =< Semi(n, e, u)
<1>0. /\ n \in Nat \ {0} /\ pn \in [2 .. n -> 1 .. n] /\ last \in [1 .. n -> 1 .. n]
      /\ \A i \in 1 .. n : i =< last[i] /\ \A j \in i .. last[i] : last[j] =< last[i]
      /\ \A i \in 2 .. n : pn[i] < i /\ i =< last[pn[i]]
      /\ \A i \in 2 .. n : \A k \in 1 .. i - 1 : i =< last[k] => k =< pn[i]
  BY DEF SearchTree
<1>1. /\ None \notin Number
      /\ cur \in Number /\ sdoms \in [Number -> Number] /\ ancestors \in [Number -> Number \cup {None}]
      /\ \A i \in Number : IF i =< cur THEN sdoms[i] = i /\ ancestors[i] = None
                            ELSE sdoms[i] = Semi(n, e, i) /\ ancestors[i] = pn[i]
  BY DEF None, Linked
<1>2. \A i \in Number : ancestors[i] # None => i \in 2 .. n /\ cur < i /\ ancestors[i] = pn[i] /\ pn[i] < i /\ pn[i] \in Number
  <2> SUFFICES ASSUME NEW i \in Number, ancestors[i] # None
               PROVE  i \in 2 .. n /\ cur < i /\ ancestors[i] = pn[i] /\ pn[i] < i /\ pn[i] \in Number
    OBVIOUS
  <2>1. cur < i /\ ancestors[i] = pn[i] /\ i \in 2 .. n
    <3>1. ~(i =< cur)
      BY <1>1
    <3> QED
      BY <3>1, <1>0, <1>1
  <2> QED
    BY <2>1, <1>0
<1>3. /\ Eval \in [Number -> Number]
      /\ \A i \in Number :
              Eval[i] = IF ancestors[i] = None \/ ancestors[ancestors[i]] = None THEN sdoms[i]
                        ELSE Min({sdoms[i], Eval[ancestors[i]]})
  BY <1>0, <1>1, <1>2, EvalFacts
<1>4. v =< cur => Eval[v] = v
  BY <1>1, <1>3
<1> DEFINE Least(i) == /\ \E u \in cur + 1 .. n : i \in u .. last[u] /\ Eval[i] = Semi(n, e, u)
                       /\ \A u \in cur + 1 .. n : i \in u .. last[u] => Eval[i] =< Semi(n, e, u)
           S == {i \in cur + 1 .. n : ~Least(i)}
<1>5. \A u \in cur + 1 .. n : Semi(n, e, u) \in Nat /\ u \in 2 .. n
  <2> SUFFICES ASSUME NEW u \in cur + 1 .. n PROVE Semi(n, e, u) \in Nat /\ u \in 2 .. n
    OBVIOUS
  <2>1. u \in 2 .. n
    BY <1>0, <1>1
  <2>2. Semi(n, e, u) \in 1 .. u - 1
    BY <2>1, SemiFacts
  <2> QED
    BY <2>1, <2>2
<1>6. S = {}
  <2> SUFFICES ASSUME S # {} PROVE FALSE
    OBVIOUS
  <2>1. PICK m \in S : \A k \in S : m =< k
    <3>1. S \in SUBSET Nat
      BY <1>0, <1>1
    <3> HIDE DEF S
    <3> QED
      BY <3>1, MinFacts
  <2>2. m \in 2 .. n /\ cur < m /\ m \in Number /\ m \in cur + 1 .. n /\ ~Least(m)
    BY <1>0, <1>1
  <2> HIDE DEF S
  <2>3. /\ pn[m] \in 1 .. n /\ pn[m] < m /\ m =< last[pn[m]] /\ m \in m .. last[m] /\ last[m] \in 1 .. n
        /\ last[pn[m]] \in 1 .. n
        /\ ancestors[m] = pn[m] /\ sdoms[m] = Semi(n, e, m) /\ pn[m] \in Number /\ ancestors[m] # None
    <3>1. pn[m] \in 1 .. n /\ pn[m] < m /\ m =< last[pn[m]] /\ last[m] \in 1 .. n /\ m =< last[m]
      BY <2>2, <1>0
    <3>2. ~(m =< cur)
      BY <2>2, <1>0, <1>1
    <3>3. ancestors[m] = pn[m] /\ sdoms[m] = Semi(n, e, m)
      BY <3>2, <2>2, <1>1
    <3> QED
      BY <3>1, <3>3, <2>2, <1>0, <1>1
  <2>4. \A u \in cur + 1 .. n : m \in u .. last[u] => u = m \/ (u =< pn[m] /\ pn[m] \in u .. last[u])
    <3> SUFFICES ASSUME NEW u \in cur + 1 .. n, m \in u .. last[u], u # m
                 PROVE  u =< pn[m] /\ pn[m] \in u .. last[u]
      OBVIOUS
    <3>1. u \in 1 .. m - 1 /\ m =< last[u] /\ last[u] \in 1 .. n
      BY <1>0, <1>1, <2>2
    <3>2. u =< pn[m]
      BY <3>1, <2>2, <1>0
    <3> QED
      BY <3>1, <3>2, <2>3
  <2>5. CASE pn[m] =< cur
    <3>1. ancestors[pn[m]] = None
      BY <2>3, <2>5, <1>1
    <3>2. Eval[m] = Semi(n, e, m)
      BY <3>1, <2>2, <2>3, <1>3
    <3>3. \A u \in cur + 1 .. n : m \in u .. last[u] => u = m
      BY <2>3, <2>4, <2>5, <1>1
    <3> QED
      BY <3>2, <3>3, <2>2, <2>3, <1>5
  <2>6. CASE cur < pn[m]
    <3>1. ancestors[pn[m]] # None
      <4>1. cur \in Int /\ 1 =< cur /\ pn[m] \in Int
        BY <2>3, <1>0, <1>1
      <4>2. ~(pn[m] =< cur) /\ pn[m] \in 2 .. n
        BY <4>1, <2>3, <2>6
      <4>3. ancestors[pn[m]] = pn[pn[m]] /\ pn[pn[m]] \in Number
        BY <4>2, <2>3, <1>0, <1>1
      <4> QED
        BY <4>3, <1>1
    <3>2. Eval[m] = Min({Semi(n, e, m), Eval[pn[m]]})
      BY <3>1, <2>2, <2>3, <1>3
    <3>3. Least(pn[m])
      <4>1. pn[m] \in cur + 1 .. n /\ pn[m] \notin S
        BY <2>1, <2>2, <2>3, <2>6, <1>1
      <4> QED
        BY <4>1 DEF S
    <3>4. Semi(n, e, m) \in Nat /\ Eval[pn[m]] \in Nat
      BY <2>2, <2>3, <1>3, <1>5
    <3>5. /\ Eval[m] = Semi(n, e, m) \/ Eval[m] = Eval[pn[m]]
          /\ Eval[m] =< Semi(n, e, m) /\ Eval[m] =< Eval[pn[m]] /\ Eval[m] \in Nat
      BY <3>2, <3>4, MinTwo
    <3>6. \A u \in cur + 1 .. n : pn[m] \in u .. last[u] => m \in u .. last[u]
      <4> SUFFICES ASSUME NEW u \in cur + 1 .. n, pn[m] \in u .. last[u] PROVE m \in u .. last[u]
        OBVIOUS
      <4>1. u \in 1 .. n
        BY <1>0, <1>1
      <4>2. last[pn[m]] =< last[u] /\ last[u] \in 1 .. n
        BY <4>1, <1>0
      <4> QED
        BY <4>2, <2>2, <2>3
    <3>7. \E u \in cur + 1 .. n : m \in u .. last[u] /\ Eval[m] = Semi(n, e, u)
      <4>1. CASE Eval[m] = Semi(n, e, m)
        BY <4>1, <2>2, <2>3
      <4>2. CASE Eval[m] = Eval[pn[m]]
        BY <4>2, <3>3, <3>6
      <4> QED
        BY <4>1, <4>2, <3>5
    <3>8. \A u \in cur + 1 .. n : m \in u .. last[u] => Eval[m] =< Semi(n, e, u)
      <4> SUFFICES ASSUME NEW u \in cur + 1 .. n, m \in u .. last[u] PROVE Eval[m] =< Semi(n, e, u)
        OBVIOUS
      <4>1. CASE u = m
        BY <4>1, <3>5
      <4>2. CASE u # m
        <5>1. Eval[pn[m]] =< Semi(n, e, u) /\ Semi(n, e, u) \in Nat
          BY <4>2, <2>4, <3>3, <1>5
        <5> QED
          BY <5>1, <3>4, <3>5
      <4> QED
        BY <4>1, <4>2
    <3> QED
      BY <3>7, <3>8, <2>2
  <2> QED
    BY <2>3, <2>5, <2>6, <1>1
<1>7. cur < v => v \in cur + 1 .. n
  BY <1>0, <1>1
<1> QED
  BY <1>4, <1>6, <1>7

(* Edges between numbers are those between blocks. *)
LEMMA TreeFacts ==
  ASSUME GraphInv, OrderInv, TreeInv, pc # "search"
  PROVE  /\ Cardinality(Node) \in Nat \ {0} /\ Node = 1 .. Cardinality(Node) /\ Number = Node
         /\ Len(preOrder2DFS) = Cardinality(Node)
         /\ \A i \in Number : preOrder2DFS[i] \in Node /\ Order(preOrder2DFS[i]) = i
         /\ \A b \in Node : Order(b) \in Number /\ preOrder2DFS[Order(b)] = b
         /\ preOrder2DFS[1] = root /\ Order(root) = 1
         /\ \A i, j \in Number : j \in EdgesOf[i] <=> preOrder2DFS[j] \in edge[preOrder2DFS[i]]
         /\ \A i, j \in Number : j \in EdgesOf[i] <=> preOrder2DFS[i] \in back[preOrder2DFS[j]]
<1>1. OrderShape
  BY OrderFacts
<1>2. Found = Node /\ Len(preOrder2DFS) = Cardinality(Node)
  BY DEF TreeInv
<1>3. /\ Cardinality(Node) \in Nat \ {0} /\ Node = 1 .. Cardinality(Node) /\ Number = Node
  BY <1>1, <1>2 DEF OrderShape, GraphInv, Number
<1>4. /\ \A i \in Number : preOrder2DFS[i] \in Node /\ Order(preOrder2DFS[i]) = i
      /\ \A b \in Node : Order(b) \in Number /\ preOrder2DFS[Order(b)] = b
      /\ Order(root) = 1
  BY <1>1, <1>2, <1>3 DEF OrderShape
<1>5. ASSUME NEW i \in Number, NEW j \in Number
      PROVE  j \in EdgesOf[i] <=> preOrder2DFS[j] \in edge[preOrder2DFS[i]]
  <2>1. EdgesOf[i] = {Order(c) : c \in edge[preOrder2DFS[i]]}
    BY <1>2, <1>3 DEF EdgesOf
  <2>2. edge[preOrder2DFS[i]] \subseteq Node
    BY <1>4 DEF GraphInv
  <2> QED
    BY <2>1, <2>2, <1>4
<1>6. \A i, j \in Number : preOrder2DFS[j] \in edge[preOrder2DFS[i]] <=> preOrder2DFS[i] \in back[preOrder2DFS[j]]
  BY <1>4 DEF GraphInv
<1> QED
  BY <1>2, <1>3, <1>4, <1>5, <1>6 DEF OrderInv

(* The least of what predecessors evaluate to is the semidominator.        *)
LEMMA SdomValue ==
  ASSUME GraphInv, OrderInv, TreeInv, SdomInv, pc = "sdom", cur > 1
  PROVE  /\ Min({cur} \cup {Eval[Order(b)] : b \in back[preOrder2DFS[cur]]})
              = Semi(Cardinality(Node), EdgesOf, cur)
         /\ Semi(Cardinality(Node), EdgesOf, cur) \in Number
<1> DEFINE n == Cardinality(Node)
           e == EdgesOf
           pn == ParentOf
           S == {cur} \cup {Eval[Order(b)] : b \in back[preOrder2DFS[cur]]}
<1>1. PICK last \in [Number -> Number] : SearchTree(n, pn, last, e)
  BY DEF TreeInv
<1>2. /\ n \in Nat \ {0} /\ Number = 1 .. n
      /\ \A i \in Number : preOrder2DFS[i] \in Node /\ Order(preOrder2DFS[i]) = i
      /\ \A b \in Node : Order(b) \in Number /\ preOrder2DFS[Order(b)] = b
      /\ \A i, j \in Number : j \in e[i] <=> preOrder2DFS[i] \in back[preOrder2DFS[j]]
  BY TreeFacts
<1>3. cur \in Number /\ Linked(n, pn, e)
  BY DEF SdomInv, Linked
<1> HIDE DEF n, e, pn
<1>4. \A v \in Number :
        /\ v =< cur => Eval[v] = v
        /\ cur < v => /\ \E u \in cur + 1 .. n : v \in u .. last[u] /\ Eval[v] = Semi(n, e, u)
                      /\ \A u \in cur + 1 .. n : v \in u .. last[u] => Eval[v] =< Semi(n, e, u)
  BY <1>1, <1>2, <1>3, EvalLeast
<1>5. S = {cur} \cup {Eval[v] : v \in {v \in Number : cur \in e[v]}}
  <2>1. back[preOrder2DFS[cur]] \subseteq Node
    BY <1>2, <1>3 DEF GraphInv
  <2>2. ASSUME NEW b \in back[preOrder2DFS[cur]] PROVE Order(b) \in Number /\ cur \in e[Order(b)]
    BY <2>1, <1>2, <1>3
  <2>3. ASSUME NEW v \in Number, cur \in e[v]
        PROVE  \E b \in back[preOrder2DFS[cur]] : Order(b) = v
    BY <2>3, <1>2, <1>3
  <2> QED
    BY <2>2, <2>3
<1>6. cur \in 2 .. n /\ cur \in Int
  BY <1>2, <1>3
<1>7. Semi(n, e, cur) \in 1 .. cur - 1
  BY <1>1, <1>6, SemiFacts
<1>8. \A u \in cur + 1 .. n : Semi(n, e, u) \in Nat
  <2> SUFFICES ASSUME NEW u \in cur + 1 .. n PROVE Semi(n, e, u) \in Nat
    OBVIOUS
  <2>1. u \in 2 .. n
    BY <1>6
  <2>2. Semi(n, e, u) \in 1 .. u - 1
    BY <2>1, <1>1, SemiFacts
  <2> QED
    BY <2>2
<1>9. ASSUME NEW v \in Number, cur \in e[v]
      PROVE  Eval[v] \in Nat /\ Semi(n, e, cur) =< Eval[v]
  <2>1. /\ Semi(n, e, cur) =< v
        /\ \A u \in cur + 1 .. n : v \in u .. last[u] => Semi(n, e, cur) =< Semi(n, e, u)
    BY <1>1, <1>2, <1>6, <1>9, SemiBound
  <2>2. CASE v =< cur
    BY <2>1, <2>2, <1>2, <1>4
  <2>3. CASE cur < v
    BY <2>1, <2>3, <1>4, <1>8
  <2> QED
    BY <2>2, <2>3, <1>2, <1>6
<1>10. \E v \in Number : cur \in e[v] /\ Eval[v] =< Semi(n, e, cur)
  <2>1. CASE cur \in e[Semi(n, e, cur)]
    <3>1. Semi(n, e, cur) \in Number /\ Semi(n, e, cur) =< cur
      BY <1>2, <1>6, <1>7
    <3>2. Eval[Semi(n, e, cur)] =< Semi(n, e, cur)
      BY <3>1, <1>4, <1>7
    <3> QED
      BY <2>1, <3>1, <3>2
  <2>2. ASSUME NEW v \in 1 .. n, NEW u \in cur + 1 .. n,
               cur \in e[v], v \in u .. last[u], Semi(n, e, u) =< Semi(n, e, cur)
        PROVE  \E x \in Number : cur \in e[x] /\ Eval[x] =< Semi(n, e, cur)
    <3>1. v \in Number /\ cur < v
      BY <2>2, <1>2, <1>6
    <3>2. Eval[v] =< Semi(n, e, u) /\ Eval[v] \in Nat
      BY <3>1, <2>2, <1>4, <1>9
    <3>3. Eval[v] =< Semi(n, e, cur)
      BY <3>2, <2>2, <1>7, <1>8
    <3> QED
      BY <3>1, <3>3, <2>2
  <2> QED
    BY <2>1, <2>2, <1>1, <1>6, SemiAttained
<1>11. S \in SUBSET Nat /\ S # {} /\ \A x \in S : Semi(n, e, cur) =< x
  BY <1>5, <1>6, <1>7, <1>9
<1>12. \E x \in S : x =< Semi(n, e, cur)
  BY <1>5, <1>10
<1> HIDE DEF S
<1>13. Min(S) \in S /\ \A x \in S : Min(S) =< x
  BY <1>11, MinFacts
<1>14. Min(S) = Semi(n, e, cur)
  <2>1. Min(S) \in Nat /\ Semi(n, e, cur) \in Nat /\ Semi(n, e, cur) =< Min(S)
    <3>1. Min(S) \in Nat /\ Semi(n, e, cur) =< Min(S)
      BY <1>11, <1>13, Zenon
    <3>2. Semi(n, e, cur) \in Nat
      BY <1>6, <1>7
    <3> QED
      BY <3>1, <3>2
  <2>2. PICK x \in S : x =< Semi(n, e, cur)
    BY <1>12
  <2>3. x \in Nat /\ Min(S) =< x
    BY <1>11, <1>13
  <2> QED
    BY <2>1, <2>2, <2>3
<1> QED
  BY <1>2, <1>6, <1>7, <1>14 DEF S, n, e

-----------------------------------------------------------------------------
(* Dominators of blocks and of numbers.                                    *)

(* The blocks that dominate one another are those whose numbers do;        *)
LEMMA DomBridge ==
  ASSUME GraphInv, OrderInv, TreeInv, pc # "search", NEW i \in Number, NEW d \in Number
  PROVE  preOrder2DFS[d] \in DominatorsOf(root, edge)[preOrder2DFS[i]]
           <=> d \in DomNumbers(Cardinality(Node), EdgesOf, i)
<1> DEFINE n == Cardinality(Node)
           e == EdgesOf
           R == ReachableFrom(root, edge, {preOrder2DFS[d]})
           W == Without(n, e, d)
           P == preOrder2DFS
<1>1. PICK last \in [Number -> Number] : SearchTree(n, ParentOf, last, e)
  BY DEF TreeInv
<1>2. /\ n \in Nat \ {0} /\ Number = 1 .. n /\ Node = 1 .. n
      /\ \A j \in Number : preOrder2DFS[j] \in Node /\ Order(preOrder2DFS[j]) = j
      /\ \A b \in Node : Order(b) \in Number /\ preOrder2DFS[Order(b)] = b
      /\ preOrder2DFS[1] = root /\ Order(root) = 1
      /\ \A j, k \in Number : k \in e[j] <=> preOrder2DFS[k] \in edge[preOrder2DFS[j]]
  BY TreeFacts
<1>3. e \in [1 .. n -> SUBSET (1 .. n)] /\ 1 \in 1 .. n /\ d \in 1 .. n
  BY <1>1, <1>2 DEF SearchTree
<1>4. edge \in [1 .. n -> SUBSET (1 .. n)] /\ root \in 1 .. n
  BY <1>2 DEF GraphInv
<1>5. \A j, k \in Number : P[j] = P[k] => j = k
  BY <1>2
<1> HIDE DEF n, e
<1>6. /\ R \subseteq (1 .. n) \ {P[d]}
      /\ {root} \ {P[d]} \subseteq R
      /\ \A x \in R : edge[x] \ {P[d]} \subseteq R
      /\ \A S \in SUBSET (1 .. n) :
              {root} \ {P[d]} \subseteq S /\ (\A x \in S : edge[x] \ {P[d]} \subseteq S) => R \subseteq S
  <2> DEFINE A == {P[d]}
  <2> HIDE DEF A, P
  <2>1. /\ ReachableFrom(root, edge, A) \subseteq (1 .. n) \ A
        /\ {root} \ A \subseteq ReachableFrom(root, edge, A)
        /\ \A x \in ReachableFrom(root, edge, A) : edge[x] \ A \subseteq ReachableFrom(root, edge, A)
        /\ \A S \in SUBSET (1 .. n) :
             {root} \ A \subseteq S /\ (\A x \in S : edge[x] \ A \subseteq S)
               => ReachableFrom(root, edge, A) \subseteq S
    <3>1. n \in Nat
      BY <1>2
    <3> QED
      BY <3>1, <1>4, ReachFacts
  <2> QED
    BY <2>1, Zenon DEF A, P
<1>7. /\ W \subseteq (1 .. n) \ {d}
      /\ d # 1 => 1 \in W
      /\ \A x \in W : e[x] \ {d} \subseteq W
      /\ \A S \in SUBSET (1 .. n) : (d # 1 => 1 \in S) /\ (\A x \in S : e[x] \ {d} \subseteq S) => W \subseteq S
  BY <1>2, <1>3, WithoutFacts
<1> HIDE DEF R, W
<1>8. \A b \in R : Order(b) \in W
  <2> DEFINE S == {b \in 1 .. n : Order(b) \in W}
  <2>1. {root} \ {P[d]} \subseteq S
    <3> SUFFICES ASSUME root # P[d] PROVE Order(root) \in W
      BY <1>4
    <3>1. d # 1
      BY <1>2
    <3> QED
      BY <3>1, <1>2, <1>7
  <2>2. ASSUME NEW x \in S, NEW y \in edge[x], y # P[d] PROVE y \in S
    <3>1. x \in Node /\ y \in Node /\ Order(x) \in W
      BY <1>2, <1>4
    <3>2. Order(y) # d /\ Order(y) \in e[Order(x)]
      BY <3>1, <2>2, <1>2
    <3>3. Order(y) \in W
      BY <3>1, <3>2, <1>7
    <3> QED
      BY <3>1, <3>3, <1>2
  <2>3. R \subseteq S
    <3>1. S \in SUBSET (1 .. n) /\ \A x \in S : edge[x] \ {P[d]} \subseteq S
      BY <2>2
    <3> HIDE DEF S
    <3> QED
      BY <2>1, <3>1, <1>6
  <2> QED
    BY <2>3
<1>9. \A j \in W : P[j] \in R
  <2> DEFINE S == {j \in 1 .. n : P[j] \in R}
  <2>1. d # 1 => 1 \in S
    <3> SUFFICES ASSUME d # 1 PROVE P[1] \in R
      BY <1>3
    <3>1. root # P[d]
      BY <1>2, <1>3, <1>5
    <3> QED
      BY <3>1, <1>2, <1>6
  <2>2. ASSUME NEW x \in S, NEW y \in e[x], y # d PROVE y \in S
    <3>1. x \in Number /\ y \in Number /\ P[x] \in R
      BY <1>2, <1>3
    <3>2. P[y] # P[d] /\ P[y] \in edge[P[x]]
      BY <3>1, <2>2, <1>2, <1>5
    <3>3. P[y] \in R
      BY <3>1, <3>2, <1>6
    <3> QED
      BY <3>1, <3>3, <1>2
  <2>3. W \subseteq S
    <3>1. S \in SUBSET (1 .. n) /\ \A x \in S : e[x] \ {d} \subseteq S
      BY <2>2
    <3> HIDE DEF S
    <3> QED
      BY <2>1, <3>1, <1>7
  <2> QED
    BY <2>3
<1>10. P[i] \in R <=> i \in W
  BY <1>2, <1>8, <1>9
<1>11. DominatorsOf(root, edge)[P[i]] = {c \in Node : P[i] \notin ReachableFrom(root, edge, {c})}
  BY <1>2 DEF DominatorsOf, Node
<1>12. P[d] \in DominatorsOf(root, edge)[P[i]] <=> P[i] \notin R
  BY <1>2, <1>11 DEF R
<1> QED
  BY <1>2, <1>10, <1>12 DEF DomNumbers, W, n, e

(* hence an equation between their dominators holds if it does for         *)
(* numbers.                                                                *)
LEMMA DomEquation ==
  ASSUME GraphInv, OrderInv, TreeInv, pc # "search", NEW i \in Number, NEW j \in Number
  PROVE  DominatorsOf(root, edge)[preOrder2DFS[i]]
             = {preOrder2DFS[i]} \cup DominatorsOf(root, edge)[preOrder2DFS[j]]
           <=> DomNumbers(Cardinality(Node), EdgesOf, i) = {i} \cup DomNumbers(Cardinality(Node), EdgesOf, j)
<1> DEFINE P == preOrder2DFS
           D(k) == DominatorsOf(root, edge)[P[k]]
           M(k) == DomNumbers(Cardinality(Node), EdgesOf, k)
<1>1. /\ \A k \in Number : P[k] \in Node /\ Order(P[k]) = k
      /\ \A b \in Node : Order(b) \in Number /\ P[Order(b)] = b
      /\ Number = 1 .. Cardinality(Node)
  BY TreeFacts
<1>2. \A k \in Number : D(k) \subseteq Node
  BY <1>1 DEF DominatorsOf, Node
<1>3. \A k \in Number : M(k) \subseteq Number
  BY <1>1 DEF DomNumbers
<1>4. \A k, d \in Number : P[d] \in D(k) <=> d \in M(k)
  BY DomBridge
<1> HIDE DEF P, D, M
<1>5. ASSUME D(i) = {P[i]} \cup D(j) PROVE M(i) = {i} \cup M(j)
  <2>1. ASSUME NEW d \in Number PROVE d \in M(i) <=> d \in {i} \cup M(j)
    BY <1>1, <1>4, <1>5
  <2> QED
    BY <2>1, <1>3
<1>6. ASSUME M(i) = {i} \cup M(j) PROVE D(i) = {P[i]} \cup D(j)
  <2>1. ASSUME NEW b \in Node PROVE b \in D(i) <=> b \in {P[i]} \cup D(j)
    <3>1. Order(b) \in Number /\ P[Order(b)] = b
      BY <1>1
    <3>2. b \in D(i) <=> Order(b) \in M(i)
      BY <3>1, <1>4
    <3>3. b \in D(j) <=> Order(b) \in M(j)
      BY <3>1, <1>4
    <3>4. b = P[i] <=> Order(b) = i
      BY <3>1, <1>1
    <3> QED
      BY <3>2, <3>3, <3>4, <1>6
  <2> QED
    BY <2>1, <1>1, <1>2
<1> QED
  BY <1>5, <1>6 DEF P, D, M

-----------------------------------------------------------------------------
(* computeIdom.                                                            *)

(* TreePath is defined, as immediate dominators have smaller numbers. *)
LEMMA TreePathFacts ==
  ASSUME NEW n \in Nat, Number = 1 .. n, idoms \in [Number -> Number],
         \A i \in Number \ {1} : idoms[i] < i
  PROVE  \A i \in Number : TreePath[i] = IF i = 1 THEN {1} ELSE {i} \cup TreePath[idoms[i]]
<1> DEFINE V == SUBSET Number
           Of(i) == [f \in [Number -> V] |-> IF i = 1 THEN {1} ELSE {i} \cup f[idoms[i]]]
           G == [i \in Number |-> Of(i)]
<1>1. Causal(Number, V, G)
  <2>1. ASSUME NEW i \in Number PROVE Of(i) \in [[Number -> V] -> V]
    <3>1. ASSUME NEW f \in [Number -> V]
          PROVE  (IF i = 1 THEN {1} ELSE {i} \cup f[idoms[i]]) \in V
      <4>1. f[idoms[i]] \in SUBSET Number
        OBVIOUS
      <4> QED
        BY <4>1
    <3> QED
      BY <3>1
  <2>2. G \in [Number -> [[Number -> V] -> V]]
    <3> HIDE DEF Of
    <3> QED
      BY <2>1
  <2>3. ASSUME NEW i \in Number, NEW f \in [Number -> V], NEW g \in [Number -> V],
               \A j \in Number : j < i => f[j] = g[j]
        PROVE  G[i][f] = G[i][g]
    <3>1. CASE i = 1
      BY <3>1
    <3>2. CASE i # 1
      <4>1. f[idoms[i]] = g[idoms[i]]
        BY <3>2, <2>3
      <4> QED
        BY <3>2, <4>1
    <3> QED
      BY <3>1, <3>2
  <2> HIDE DEF G
  <2> QED
    BY <2>2, <2>3 DEF Causal
<1>2. PICK f \in [Number -> V] : Solves(Number, G, f)
  <2>1. Number \in SUBSET (0 .. n) /\ V # {}
    OBVIOUS
  <2> HIDE DEF G, V
  <2> QED
    BY <2>1, <1>1, Solution
<1>3. f = [i \in Number |-> IF i = 1 THEN {1} ELSE {i} \cup f[idoms[i]]]
  BY <1>2 DEF Solves
<1>4. TreePath = [i \in Number |-> IF i = 1 THEN {1} ELSE {i} \cup TreePath[idoms[i]]]
  BY <1>3 DEF TreePath
<1> QED
  BY <1>4

(* The immediate dominators are known up to c. *)
KnownTo(n, e, c) ==
  /\ c \in Int
  /\ idoms \in [Number -> Number]
  /\ \A i \in Number \ {1} : idoms[i] < i
  /\ \A i \in Number \ {1} : i < c => DomNumbers(n, e, i) = {i} \cup DomNumbers(n, e, idoms[i])

(* The path up the tree is, as far as it is known, the dominators. *)
LEMMA TreePathIs ==
  ASSUME NEW n, NEW pn, NEW last, NEW e, SearchTree(n, pn, last, e), Number = 1 .. n,
         NEW c, KnownTo(n, e, c), NEW i \in Number, i < c
  PROVE  TreePath[i] = DomNumbers(n, e, i)
<1> DEFINE S == {k \in Number : k < c /\ TreePath[k] # DomNumbers(n, e, k)}
<1>0. /\ n \in Nat \ {0} /\ c \in Int
      /\ idoms \in [Number -> Number]
      /\ \A j \in Number \ {1} : idoms[j] < j
      /\ \A j \in Number \ {1} : j < c => DomNumbers(n, e, j) = {j} \cup DomNumbers(n, e, idoms[j])
  BY DEF SearchTree, KnownTo
<1>1. \A k \in Number : TreePath[k] = IF k = 1 THEN {1} ELSE {k} \cup TreePath[idoms[k]]
  BY <1>0, TreePathFacts
<1> SUFFICES ASSUME S # {} PROVE FALSE
  OBVIOUS
<1>2. PICK m \in S : \A k \in S : m =< k
  <2>1. S \in SUBSET Nat
    OBVIOUS
  <2> HIDE DEF S
  <2> QED
    BY <2>1, MinFacts
<1>3. m \in Number /\ m < c /\ TreePath[m] # DomNumbers(n, e, m)
  OBVIOUS
<1>4. CASE m = 1
  <2>1. DomNumbers(n, e, 1) = {1}
    BY <1>3, DomFacts
  <2> QED
    BY <2>1, <1>1, <1>3, <1>4
<1>5. CASE m # 1
  <2>1. idoms[m] \in Number /\ idoms[m] < m /\ idoms[m] < c /\ ~(m =< idoms[m])
    <3>1. idoms[m] \in Number /\ idoms[m] < m
      BY <1>0, <1>3, <1>5
    <3> QED
      BY <3>1, <1>0, <1>3
  <2>2. TreePath[idoms[m]] = DomNumbers(n, e, idoms[m])
    BY <2>1, <1>2
  <2>3. DomNumbers(n, e, m) = {m} \cup DomNumbers(n, e, idoms[m])
    BY <1>0, <1>3, <1>5
  <2> QED
    BY <2>2, <2>3, <1>1, <1>3, <1>5
<1> QED
  BY <1>4, <1>5

(* The least common ancestor of parent and semidominator. *)
LEMMA IdomValue ==
  ASSUME GraphInv, OrderInv, TreeInv, IdomInv, pc = "idom", cur \in Number
  PROVE  LET m == LCA(Order(parent[preOrder2DFS[cur]]), sdoms[cur])
         IN  /\ m \in 1 .. cur - 1
             /\ DominatorsOf(root, edge)[preOrder2DFS[cur]]
                  = {preOrder2DFS[cur]} \cup DominatorsOf(root, edge)[preOrder2DFS[m]]
<1> DEFINE n == Cardinality(Node)
           e == EdgesOf
           pn == ParentOf
           m == LCA(Order(parent[preOrder2DFS[cur]]), sdoms[cur])
<1>1. PICK last \in [Number -> Number] : SearchTree(n, pn, last, e)
  BY DEF TreeInv
<1>2. n \in Nat \ {0} /\ Number = 1 .. n /\ Len(preOrder2DFS) = n
  BY TreeFacts
<1>3. /\ idoms \in [Number -> Number]
      /\ \A i \in Number \ {1} : idoms[i] < i
      /\ cur \in 2 .. n
      /\ sdoms[cur] = Semi(n, e, cur)
  BY <1>2 DEF IdomInv
<1>4. \A i \in Number \ {1} : i < cur => DomNumbers(n, e, i) = {i} \cup DomNumbers(n, e, idoms[i])
  <2> SUFFICES ASSUME NEW i \in Number \ {1}, i < cur
               PROVE  DomNumbers(n, e, i) = {i} \cup DomNumbers(n, e, idoms[i])
    OBVIOUS
  <2>1. DominatorsOf(root, edge)[preOrder2DFS[i]]
          = {preOrder2DFS[i]} \cup DominatorsOf(root, edge)[preOrder2DFS[idoms[i]]]
    BY DEF IdomInv
  <2> QED
    BY <2>1, <1>3, DomEquation
<1>5. Order(parent[preOrder2DFS[cur]]) = pn[cur]
  BY <1>2, <1>3 DEF ParentOf
<1> HIDE DEF n, e, pn
<1>6. pn[cur] \in Number /\ pn[cur] < cur
  BY <1>1, <1>2, <1>3 DEF SearchTree
<1>7. Semi(n, e, cur) \in Number /\ Semi(n, e, cur) < cur
  <2>1. Semi(n, e, cur) \in 1 .. cur - 1
    BY <1>1, <1>3, SemiFacts
  <2>2. cur \in Int /\ cur =< n /\ n \in Int
    BY <1>2, <1>3
  <2>3. Semi(n, e, cur) \in Int /\ 1 =< Semi(n, e, cur) /\ Semi(n, e, cur) < cur
    BY <2>1, <2>2
  <2>4. Semi(n, e, cur) \in 1 .. n
    BY <2>2, <2>3
  <2> QED
    BY <2>3, <2>4, <1>2
<1>8. KnownTo(n, e, cur)
  <2>1. cur \in Int
    BY <1>2, <1>3
  <2>2. idoms \in [Number -> Number] /\ \A i \in Number \ {1} : idoms[i] < i
    BY <1>3
  <2> QED
    BY <2>1, <2>2, <1>4 DEF KnownTo
<1>9. TreePath[pn[cur]] = DomNumbers(n, e, pn[cur])
  BY <1>1, <1>2, <1>6, <1>8, TreePathIs
<1>10. TreePath[Semi(n, e, cur)] = DomNumbers(n, e, Semi(n, e, cur))
  BY <1>1, <1>2, <1>7, <1>8, TreePathIs
<1>11. m = Max(DomNumbers(n, e, pn[cur]) \cap DomNumbers(n, e, Semi(n, e, cur)))
  BY <1>3, <1>5, <1>9, <1>10 DEF LCA
<1>12. m \in 1 .. cur - 1 /\ DomNumbers(n, e, cur) = {cur} \cup DomNumbers(n, e, m)
  <2> HIDE DEF m
  <2> QED
    BY <1>1, <1>3, <1>11, DomThrough
<1>13. m \in Number
  BY <1>2, <1>3, <1>12
<1> HIDE DEF m
<1>14. DominatorsOf(root, edge)[preOrder2DFS[cur]]
         = {preOrder2DFS[cur]} \cup DominatorsOf(root, edge)[preOrder2DFS[m]]
  <2>1. DomNumbers(n, e, cur) = {cur} \cup DomNumbers(n, e, m)
    BY <1>12
  <2> QED
    BY <2>1, <1>13, DomEquation DEF n, e
<1> QED
  BY <1>12, <1>14 DEF m

-----------------------------------------------------------------------------
(* computeDomFrontier.                                                     *)

(* A set of fewer than two has one element at most.                        *)
LEMMA FewerThanTwo ==
  ASSUME NEW S, IsFiniteSet(S), ~(Cardinality(S) >= 2), NEW x \in S, NEW y \in S
  PROVE  x = y
<1> SUFFICES ASSUME x # y PROVE FALSE
  OBVIOUS
<1>1. IsFiniteSet(S \ {x}) /\ Cardinality(S \ {x}) = Cardinality(S) - 1
  BY FS_RemoveElement
<1>2. Cardinality(S) \in Nat /\ Cardinality(S \ {x}) \in Nat
  BY <1>1, FS_CardinalityType
<1>3. Cardinality(S \ {x}) = 0
  BY <1>1, <1>2
<1> QED
  BY <1>1, <1>3, FS_EmptySet

(* The walks up from the predecessors of a block find whose frontier it is in. *)
LEMMA RunnersRight ==
  ASSUME GraphInv, OrderInv, TreeInv, IdomInv, pc = "frontier", cur \in Node, NEW b \in Node
  PROVE  Cardinality(back[cur]) >= 2 /\ (\E p \in back[cur] : Order(b) \in Runners(p, cur))
           <=> cur \in FrontierOf(edge, DominatorsOf(root, edge), b)
<1> DEFINE n == Cardinality(Node)
           e == EdgesOf
           D == DominatorsOf(root, edge)
           P == preOrder2DFS
           w == Order(cur)
           M(i) == DomNumbers(n, e, i)
<1>1. PICK last \in [Number -> Number] : SearchTree(n, ParentOf, last, e)
  BY DEF TreeInv
<1>2. /\ n \in Nat \ {0} /\ Number = 1 .. n /\ Node = 1 .. n
      /\ \A i \in Number : P[i] \in Node /\ Order(P[i]) = i
      /\ \A c \in Node : Order(c) \in Number /\ P[Order(c)] = c
      /\ P[1] = root /\ Order(root) = 1
      /\ \A i, j \in Number : j \in EdgesOf[i] <=> P[i] \in back[P[j]]
  BY TreeFacts
<1>3. /\ idoms \in [Number -> Number]
      /\ \A i \in Number \ {1} : idoms[i] < i
  BY DEF IdomInv
<1>4. \A i \in Number \ {1} : M(i) = {i} \cup M(idoms[i])
  <2> SUFFICES ASSUME NEW i \in Number \ {1} PROVE M(i) = {i} \cup M(idoms[i])
    OBVIOUS
  <2>1. D[P[i]] = {P[i]} \cup D[P[idoms[i]]]
    BY DEF IdomInv
  <2> QED
    BY <2>1, <1>3, DomEquation
<1>5. \A i, d \in Number : P[d] \in D[P[i]] <=> d \in M(i)
  BY DomBridge
<1>6. \A i \in Number : M(i) \subseteq 1 .. i /\ i \in M(i)
  <2> HIDE DEF n, e
  <2> QED
    BY <1>1, <1>2, DomFacts
<1>7. \A i \in Number : TreePath[i] = M(i)
  <2>1. n + 1 \in Int /\ \A i \in Number : i < n + 1
    BY <1>2
  <2>2. KnownTo(n, e, n + 1)
    BY <2>1, <1>3, <1>4 DEF KnownTo
  <2> HIDE DEF n, e
  <2> QED
    BY <2>1, <2>2, <1>1, <1>2, TreePathIs
<1>8. back[cur] \subseteq Node /\ IsFiniteSet(back[cur])
  <2>1. back[cur] \subseteq Node /\ IsFiniteSet(1 .. n)
    <3>1. IsFiniteSet(1 .. n)
      BY <1>2, FS_Interval
    <3> QED
      BY <3>1 DEF GraphInv
  <2> QED
    BY <2>1, <1>2, FS_Subset
<1>9. cur \in FrontierOf(edge, D, b) <=> (\E p \in back[cur] : b \in D[p]) /\ b \notin D[cur] \ {cur}
  <2>1. DOMAIN edge = Node
    BY DEF Node
  <2>2. \A p \in Node : cur \in edge[p] <=> p \in back[cur]
    BY DEF GraphInv
  <2> HIDE DEF D
  <2> QED
    BY <2>1, <2>2, <1>8 DEF FrontierOf
<1>10. CASE cur = root
  <2>1. back[cur] = {}
    BY <1>10 DEF GraphInv
  <2> QED
    BY <2>1, <1>9
<1>11. CASE cur # root
  <2>1. w \in Number \ {1} /\ P[w] = cur /\ w \in 2 .. n /\ Order(b) \in Number /\ P[Order(b)] = b
    BY <1>2, <1>11
  <2>2. M(idoms[w]) = M(w) \ {w}
    <3>1. w \notin M(idoms[w])
      <4>1. idoms[w] \in Number /\ idoms[w] < w
        BY <2>1, <1>3
      <4>2. w \notin 1 .. idoms[w]
        BY <4>1, <2>1, <1>2
      <4> QED
        BY <4>1, <4>2, <1>6
    <3> QED
      BY <3>1, <2>1, <1>4
  <2>3. \A p \in back[cur] : Order(b) \in Runners(p, cur) <=> b \in D[p] /\ b \notin D[cur] \ {cur}
    <3> SUFFICES ASSUME NEW p \in back[cur]
                 PROVE  Order(b) \in Runners(p, cur) <=> b \in D[p] /\ b \notin D[cur] \ {cur}
      OBVIOUS
    <3>1. Order(p) \in Number /\ P[Order(p)] = p /\ idoms[w] \in Number
      BY <2>1, <1>2, <1>3, <1>8
    <3>2. Runners(p, cur) = M(Order(p)) \ M(idoms[w])
      BY <3>1, <1>7 DEF Runners
    <3>3. b \in D[p] <=> Order(b) \in M(Order(p))
      BY <3>1, <2>1, <1>5
    <3>4. b \in D[cur] <=> Order(b) \in M(w)
      BY <2>1, <1>5
    <3>5. b = cur <=> Order(b) = w
      BY <2>1
    <3> HIDE DEF D, M
    <3> QED
      BY <3>2, <3>3, <3>4, <3>5, <2>2
  <2>4. CASE Cardinality(back[cur]) >= 2
    BY <2>3, <2>4, <1>9
  <2>5. CASE ~(Cardinality(back[cur]) >= 2)
    <3> SUFFICES ASSUME NEW p \in back[cur], b \in D[p], b \notin D[cur] \ {cur} PROVE FALSE
      BY <2>5, <1>9
    <3>1. \A x \in back[cur] : x = p
      BY <2>5, <1>8, FewerThanTwo
    <3>2. Order(p) \in 1 .. n /\ P[Order(p)] = p
      BY <1>2, <1>8
    <3>3. \A x \in 1 .. n : w \in e[x] => x = Order(p)
      BY <3>1, <2>1, <1>2
    <3>4. Order(p) # w
      <4>1. ParentOf[w] \in 1 .. n /\ ParentOf[w] < w /\ w \in e[ParentOf[w]]
        BY <2>1, <1>1 DEF SearchTree
      <4> QED
        BY <4>1, <3>3, <2>1
    <3>5. M(w) = {w} \cup M(Order(p))
      <4> HIDE DEF n, e, w
      <4> QED
        BY <3>2, <3>3, <3>4, <2>1, <1>1, DomSingle
    <3>6. Order(b) \in M(Order(p)) /\ Order(b) \in M(w)
      BY <3>2, <3>5, <2>1, <1>2, <1>5
    <3>7. b \in D[cur]
      BY <3>6, <2>1, <1>5
    <3>8. b = cur
      BY <3>7
    <3>9. w \notin M(Order(p))
      <4>1. Order(p) = ParentOf[w] /\ ParentOf[w] < w
        <5>1. ParentOf[w] \in 1 .. n /\ ParentOf[w] < w /\ w \in e[ParentOf[w]]
          BY <2>1, <1>1 DEF SearchTree
        <5> QED
          BY <5>1, <3>3
      <4>2. w \notin 1 .. Order(p)
        BY <4>1, <3>2, <2>1, <1>2
      <4> QED
        BY <4>2, <3>2, <1>2, <1>6
    <3> QED
      BY <3>6, <3>8, <3>9
  <2> QED
    BY <2>4, <2>5
<1> QED
  BY <1>10, <1>11

-----------------------------------------------------------------------------
(* The steps.                                                              *)

(* A step that leaves the graph leaves what is known of it. *)
LEMMA GraphSame ==
  ASSUME GraphInv, UNCHANGED graph
  PROVE  GraphInv' /\ Node' = Node /\ Number' = Number
<1>1. root' = root /\ edge' = edge /\ left' = left /\ back' = back
  BY DEF graph
<1>2. Node' = Node
  BY <1>1 DEF Node
<1>3. Number' = Number
  BY <1>2 DEF Number
<1> QED
  BY <1>1, <1>2, <1>3 DEF GraphInv

(* So does one that leaves the numbers as well. *)
LEMMA NumbersSame ==
  ASSUME UNCHANGED <<graph, preOrder2DFS, parent>>
  PROVE  /\ root' = root /\ edge' = edge /\ left' = left /\ back' = back
         /\ Node' = Node /\ Number' = Number /\ Found' = Found
         /\ ParentOf' = ParentOf /\ EdgesOf' = EdgesOf
         /\ OrderInv => OrderInv'
<1>1. /\ root' = root /\ edge' = edge /\ left' = left /\ back' = back
      /\ preOrder2DFS' = preOrder2DFS /\ parent' = parent
  BY DEF graph
<1>2. Node' = Node
  BY <1>1 DEF Node
<1>3. Number' = Number
  BY <1>2 DEF Number
<1>4. Found' = Found
  BY <1>1 DEF Found
<1>5. ParentOf' = ParentOf
  BY <1>1 DEF ParentOf, Order
<1>6. EdgesOf' = EdgesOf
  BY <1>1 DEF EdgesOf, Order
<1>7. OrderInv => OrderInv'
  BY <1>1, <1>2 DEF OrderInv
<1> QED
  BY <1>1, <1>2, <1>3, <1>4, <1>5, <1>6, <1>7

(* And, once the search is over, what is known of its tree.                *)
LEMMA TreeSame ==
  ASSUME GraphInv, OrderInv, TreeInv, pc # "search", UNCHANGED <<graph, preOrder2DFS, parent>>
  PROVE  GraphInv' /\ OrderInv' /\ TreeInv'
<1>1. UNCHANGED graph /\ preOrder2DFS' = preOrder2DFS
  OBVIOUS
<1>2. GraphInv' /\ OrderInv'
  BY <1>1, GraphSame, NumbersSame
<1>3. /\ Node' = Node /\ Number' = Number /\ Found' = Found
      /\ ParentOf' = ParentOf /\ EdgesOf' = EdgesOf
  BY NumbersSame
<1>4. TreeInv'
  BY <1>1, <1>3 DEF TreeInv
<1> QED
  BY <1>2, <1>4

(* All of the invariant holds at the start.                                *)
LEMMA InitInv == Init => IInv
<1> SUFFICES ASSUME Init PROVE IInv
  OBVIOUS
<1>1. pc = "search"
  BY DEF Init
<1>2. GraphInv /\ OrderInv /\ SearchInv
  BY InitGraph, InitSearch
<1> QED
  BY <1>1, <1>2 DEF IInv, TreeInv, SdomInv, IdomInv, FrontierInv

(* search keeps the invariant, of which only the first parts speak of it.  *)
LEMMA SearchInvStep ==
  ASSUME IInv, Search \/ SearchReturn
  PROVE  IInv'
<1>1. pc = "search" /\ pc' = "search" /\ UNCHANGED graph
  BY DEF Search, SearchReturn
<1>2. GraphInv /\ OrderInv /\ SearchInv
  BY DEF IInv
<1>3. GraphInv'
  BY <1>1, <1>2, GraphSame
<1>4. OrderInv' /\ SearchInv'
  BY <1>2, SearchStep, ReturnStep
<1> QED
  BY <1>1, <1>3, <1>4 DEF IInv, TreeInv, SdomInv, IdomInv, FrontierInv

(* When the search is over its tree is complete, and no block is linked.   *)
LEMMA StartSdomStep ==
  ASSUME IInv, StartSdom
  PROVE  IInv'
<1> DEFINE n == Cardinality(Node)
<1>1. /\ pc = "search" /\ stack = <<>> /\ pc' = "sdom"
      /\ UNCHANGED <<graph, preOrder2DFS, parent>>
      /\ sdoms' = [i \in Number |-> i]
      /\ ancestors' = [i \in Number |-> None]
      /\ cur' = n /\ idoms' = idoms /\ domFrontier' = domFrontier
  BY DEF StartSdom
<1>2. GraphInv /\ OrderInv /\ SearchInv
  BY DEF IInv
<1>3. /\ Found = Node /\ Len(preOrder2DFS) = n
      /\ \E last \in [Number -> Number] : SearchTree(n, ParentOf, last, EdgesOf)
  BY <1>1, <1>2, SearchDone
<1>4. /\ Node' = Node /\ Number' = Number /\ Found' = Found
      /\ ParentOf' = ParentOf /\ EdgesOf' = EdgesOf
  BY <1>1, NumbersSame
<1>5. GraphInv' /\ OrderInv'
  BY <1>1, <1>2, GraphSame, NumbersSame
<1>6. TreeInv'
  BY <1>1, <1>3, <1>4 DEF TreeInv
<1>7. n \in Nat \ {0} /\ Number = 1 .. n
  BY <1>3 DEF SearchTree, Number
<1>8. SdomInv'
  <2>1. sdoms' \in [Number -> Number] /\ ancestors' \in [Number -> Number \cup {None}] /\ n \in Number
    BY <1>1, <1>7
  <2>2. idoms' = [i \in Number |-> 1] /\ domFrontier' = left'
    BY <1>1, <1>2 DEF SearchInv, graph
  <2>3. \A i \in Number : i =< cur' /\ sdoms'[i] = i /\ ancestors'[i] = None
    BY <1>1, <1>7
  <2> HIDE DEF n
  <2> QED
    BY <2>1, <2>2, <2>3, <1>1, <1>4 DEF SdomInv
<1> QED
  BY <1>1, <1>5, <1>6, <1>8 DEF IInv, SearchInv, IdomInv, FrontierInv

(* One turn of the loop of computeSdom puts the semidominator of cur in    *)
(* place and links cur to its parent.                                      *)
LEMMA ComputeSdomStep ==
  ASSUME IInv, ComputeSdom
  PROVE  IInv'
<1> DEFINE n == Cardinality(Node)
           m == Min({cur} \cup {Eval[Order(b)] : b \in back[preOrder2DFS[cur]]})
<1>1. /\ pc = "sdom" /\ cur > 1 /\ pc' = "sdom"
      /\ UNCHANGED <<graph, preOrder2DFS, parent>>
      /\ sdoms' = [sdoms EXCEPT ![cur] = m]
      /\ ancestors' = [ancestors EXCEPT ![cur] = Order(parent[preOrder2DFS[cur]])]
      /\ cur' = cur - 1 /\ idoms' = idoms /\ domFrontier' = domFrontier
  BY DEF ComputeSdom, Link
<1>2. GraphInv /\ OrderInv /\ TreeInv /\ SdomInv /\ pc # "search"
  BY <1>1 DEF IInv
<1>3. GraphInv' /\ OrderInv' /\ TreeInv'
  BY <1>1, <1>2, TreeSame
<1>4. Node' = Node /\ Number' = Number /\ ParentOf' = ParentOf /\ EdgesOf' = EdgesOf
  BY <1>1, NumbersSame
<1>5. n \in Nat \ {0} /\ Number = 1 .. n /\ Len(preOrder2DFS) = n
  BY <1>2, TreeFacts
<1>6. m = Semi(n, EdgesOf, cur) /\ m \in Number
  BY <1>1, <1>2, SdomValue
<1> HIDE DEF m
<1>7. /\ cur \in Number
      /\ sdoms \in [Number -> Number] /\ ancestors \in [Number -> Number \cup {None}]
      /\ \A i \in Number :
           IF i =< cur THEN sdoms[i] = i /\ ancestors[i] = None
           ELSE sdoms[i] = Semi(n, EdgesOf, i) /\ ancestors[i] = ParentOf[i]
      /\ idoms = [i \in Number |-> 1]
      /\ domFrontier = left
  BY <1>1, <1>2 DEF SdomInv
<1>8. cur \in 2 .. n /\ cur - 1 \in Number
  BY <1>1, <1>5, <1>7
<1>9. Order(parent[preOrder2DFS[cur]]) = ParentOf[cur] /\ ParentOf[cur] \in Number
  <2>1. PICK last \in [Number -> Number] : SearchTree(n, ParentOf, last, EdgesOf)
    BY <1>2 DEF TreeInv
  <2>2. ParentOf \in [2 .. n -> 1 .. n]
    BY <2>1 DEF SearchTree
  <2>3. ParentOf[cur] \in Number
    BY <2>2, <1>5, <1>8
  <2>4. ParentOf[cur] = Order(parent[preOrder2DFS[cur]])
    BY <1>5, <1>8 DEF ParentOf
  <2> QED
    BY <2>3, <2>4
<1>10. /\ sdoms' \in [Number -> Number] /\ ancestors' \in [Number -> Number \cup {None}]
  BY <1>1, <1>6, <1>7, <1>9
<1>11. \A i \in Number :
          IF i =< cur' THEN sdoms'[i] = i /\ ancestors'[i] = None
          ELSE sdoms'[i] = Semi(n, EdgesOf, i) /\ ancestors'[i] = ParentOf[i]
  <2> SUFFICES ASSUME NEW i \in Number
               PROVE  IF i =< cur' THEN sdoms'[i] = i /\ ancestors'[i] = None
                      ELSE sdoms'[i] = Semi(n, EdgesOf, i) /\ ancestors'[i] = ParentOf[i]
    OBVIOUS
  <2>1. i \in Int /\ cur \in Int
    BY <1>5, <1>7
  <2>2. CASE i = cur
    <3>1. ~(i =< cur')
      BY <2>1, <2>2, <1>1
    <3>2. sdoms'[i] = m /\ ancestors'[i] = ParentOf[i]
      BY <2>2, <1>1, <1>7, <1>9
    <3> QED
      BY <3>1, <3>2, <2>2, <1>6
  <2>3. CASE i # cur
    <3>1. i =< cur' <=> i =< cur
      BY <2>1, <2>3, <1>1
    <3>2. sdoms'[i] = sdoms[i] /\ ancestors'[i] = ancestors[i]
      BY <2>3, <1>1, <1>7
    <3> QED
      BY <3>1, <3>2, <1>7
  <2> QED
    BY <2>2, <2>3
<1>12. SdomInv'
  <2> HIDE DEF n
  <2>1. n' = n
    BY <1>4 DEF n
  <2> QED
    BY <2>1, <1>1, <1>4, <1>7, <1>8, <1>10, <1>11 DEF SdomInv, n, graph
<1> QED
  BY <1>1, <1>3, <1>12 DEF IInv, SearchInv, IdomInv, FrontierInv

(* Behind that loop all semidominators are right.                          *)
LEMMA StartIdomStep ==
  ASSUME IInv, StartIdom
  PROVE  IInv'
<1> DEFINE n == Cardinality(Node)
<1>1. /\ pc = "sdom" /\ cur = 1 /\ pc' = "idom"
      /\ UNCHANGED <<graph, preOrder2DFS, parent>>
      /\ idoms' = [idoms EXCEPT ![1] = 1]
      /\ cur' = 2 /\ sdoms' = sdoms /\ domFrontier' = domFrontier
  BY DEF StartIdom
<1>2. GraphInv /\ OrderInv /\ TreeInv /\ SdomInv /\ pc # "search"
  BY <1>1 DEF IInv
<1>3. GraphInv' /\ OrderInv' /\ TreeInv'
  BY <1>1, <1>2, TreeSame
<1>4. Node' = Node /\ Number' = Number /\ ParentOf' = ParentOf /\ EdgesOf' = EdgesOf
  BY <1>1, NumbersSame
<1>5. n \in Nat \ {0} /\ Number = 1 .. n
  BY <1>2, TreeFacts
<1>6. /\ sdoms \in [Number -> Number]
      /\ \A i \in Number \ {1} : sdoms[i] = Semi(n, EdgesOf, i)
      /\ idoms = [i \in Number |-> 1]
      /\ domFrontier = left
  <2>1. /\ sdoms \in [Number -> Number]
        /\ \A i \in Number : IF i =< cur THEN TRUE ELSE sdoms[i] = Semi(n, EdgesOf, i)
        /\ idoms = [i \in Number |-> 1]
        /\ domFrontier = left
    BY <1>1, <1>2 DEF SdomInv
  <2>2. \A i \in Number \ {1} : ~(i =< cur)
    BY <1>1, <1>5
  <2> QED
    BY <2>1, <2>2
<1>7. SdomInv'
  BY <1>1, <1>4, <1>6 DEF SdomInv
<1>8. idoms' \in [Number -> Number] /\ \A i \in Number \ {1} : idoms'[i] < i /\ ~(i < cur')
  <2>1. 1 \in Number /\ \A i \in Number \ {1} : 1 < i /\ ~(i < 2)
    BY <1>5
  <2> QED
    BY <2>1, <1>1, <1>6
<1>9. cur' \in 2 .. n + 1
  BY <1>1, <1>5
<1>10. IdomInv'
  BY <1>1, <1>4, <1>6, <1>8, <1>9 DEF IdomInv, graph
<1> QED
  BY <1>1, <1>3, <1>7, <1>10 DEF IInv, SearchInv, FrontierInv

(* One turn of computeIdom adds cur to the dominator tree.                 *)
LEMMA ComputeIdomStep ==
  ASSUME IInv, ComputeIdom
  PROVE  IInv'
<1> DEFINE n == Cardinality(Node)
           D == DominatorsOf(root, edge)
           P == preOrder2DFS
           m == LCA(Order(parent[preOrder2DFS[cur]]), sdoms[cur])
<1>1. /\ pc = "idom" /\ cur \in Number /\ pc' = "idom"
      /\ UNCHANGED <<graph, preOrder2DFS, parent>>
      /\ idoms' = [idoms EXCEPT ![cur] = m]
      /\ cur' = cur + 1 /\ sdoms' = sdoms /\ domFrontier' = domFrontier
  BY DEF ComputeIdom
<1>2. GraphInv /\ OrderInv /\ TreeInv /\ SdomInv /\ IdomInv /\ pc # "search"
  BY <1>1 DEF IInv
<1>3. GraphInv' /\ OrderInv' /\ TreeInv'
  BY <1>1, <1>2, TreeSame
<1>4. /\ Node' = Node /\ Number' = Number /\ EdgesOf' = EdgesOf
      /\ root' = root /\ edge' = edge /\ left' = left /\ P' = P
  BY <1>1, NumbersSame
<1>5. n \in Nat \ {0} /\ Number = 1 .. n
  BY <1>2, TreeFacts
<1>6. m \in 1 .. cur - 1 /\ D[P[cur]] = {P[cur]} \cup D[P[m]]
  BY <1>1, <1>2, IdomValue
<1> HIDE DEF m
<1>7. /\ idoms \in [Number -> Number]
      /\ \A i \in Number \ {1} : idoms[i] < i
      /\ \A i \in Number \ {1} : i < cur => D[P[i]] = {P[i]} \cup D[P[idoms[i]]]
      /\ cur \in 2 .. n + 1
      /\ \A i \in Number \ {1} : sdoms[i] = Semi(n, EdgesOf, i)
      /\ domFrontier = left
  BY <1>1, <1>2 DEF IdomInv
<1>8. cur \in Int /\ m \in Number /\ m < cur /\ cur + 1 \in 2 .. n + 1
  <2>1. cur \in Int /\ n \in Int /\ cur =< n /\ 2 =< cur
    BY <1>1, <1>5, <1>7
  <2>2. m \in Int /\ 1 =< m /\ m =< cur - 1
    BY <1>6, <2>1
  <2>3. m \in 1 .. n /\ m < cur /\ cur + 1 \in 2 .. n + 1
    BY <2>1, <2>2
  <2> QED
    BY <2>1, <2>3, <1>5
<1>9. SdomInv'
  <2>1. sdoms \in [Number -> Number]
    BY <1>1, <1>2 DEF SdomInv
  <2> QED
    BY <2>1, <1>1, <1>4 DEF SdomInv
<1>10. idoms' \in [Number -> Number]
  BY <1>1, <1>7, <1>8
<1>11. \A i \in Number \ {1} :
          /\ idoms'[i] < i
          /\ i < cur' => D[P[i]] = {P[i]} \cup D[P[idoms'[i]]]
  <2> SUFFICES ASSUME NEW i \in Number \ {1}
               PROVE  /\ idoms'[i] < i
                      /\ i < cur' => D[P[i]] = {P[i]} \cup D[P[idoms'[i]]]
    OBVIOUS
  <2> HIDE DEF D, P
  <2>1. CASE i = cur
    <3>1. idoms'[i] = m
      BY <2>1, <1>1, <1>7
    <3> QED
      BY <3>1, <2>1, <1>6, <1>8
  <2>2. CASE i # cur
    <3>1. idoms'[i] = idoms[i]
      BY <2>2, <1>1, <1>7
    <3>2. i \in Int
      BY <1>5
    <3>3. i < cur' => i < cur
      BY <3>2, <2>2, <1>1, <1>8
    <3> QED
      BY <3>1, <3>3, <1>7
  <2> QED
    BY <2>1, <2>2
<1>12. IdomInv'
  <2>1. D' = D /\ n' = n
    BY <1>4
  <2>2. cur' \in 2 .. n + 1
    BY <1>1, <1>8
  <2> QED
    BY <2>1, <2>2, <1>1, <1>4, <1>7, <1>10, <1>11 DEF IdomInv
<1> QED
  BY <1>1, <1>3, <1>9, <1>12 DEF IInv, SearchInv, FrontierInv

(* Behind it the tree is complete; the frontiers are as they were left.    *)
LEMMA StartFrontierStep ==
  ASSUME IInv, StartFrontier
  PROVE  IInv'
<1> DEFINE n == Cardinality(Node)
           D == DominatorsOf(root, edge)
           P == preOrder2DFS
<1>1. /\ pc = "idom" /\ cur \notin Number /\ pc' = "frontier"
      /\ UNCHANGED <<graph, preOrder2DFS, parent>>
      /\ cur' = 1 /\ sdoms' = sdoms /\ idoms' = idoms /\ domFrontier' = domFrontier
  BY DEF StartFrontier
<1>2. GraphInv /\ OrderInv /\ TreeInv /\ SdomInv /\ IdomInv /\ pc # "search"
  BY <1>1 DEF IInv
<1>3. GraphInv' /\ OrderInv' /\ TreeInv'
  BY <1>1, <1>2, TreeSame
<1>4. /\ Node' = Node /\ Number' = Number /\ EdgesOf' = EdgesOf
      /\ root' = root /\ edge' = edge /\ left' = left /\ P' = P
  BY <1>1, NumbersSame
<1>5. n \in Nat \ {0} /\ Number = 1 .. n /\ Node = 1 .. n
  BY <1>2, TreeFacts
<1>6. /\ idoms \in [Number -> Number]
      /\ \A i \in Number \ {1} : idoms[i] < i
      /\ \A i \in Number \ {1} : i < cur => D[P[i]] = {P[i]} \cup D[P[idoms[i]]]
      /\ cur \in 2 .. n + 1
      /\ domFrontier = left
  BY <1>1, <1>2 DEF IdomInv
<1>7. \A i \in Number : i < cur
  <2>1. cur = n + 1
    BY <1>1, <1>5, <1>6
  <2> QED
    BY <2>1, <1>5
<1>8. \A i \in Number \ {1} : D[P[i]] = {P[i]} \cup D[P[idoms[i]]]
  BY <1>6, <1>7
<1>9. SdomInv'
  <2>1. sdoms \in [Number -> Number]
    BY <1>1, <1>2 DEF SdomInv
  <2> QED
    BY <2>1, <1>1, <1>4 DEF SdomInv
<1>10. IdomInv'
  <2>1. D' = D
    BY <1>4
  <2> QED
    BY <2>1, <1>1, <1>4, <1>6, <1>8 DEF IdomInv
<1>11. FrontierInv'
  <2>1. cur' \in 1 .. n + 1 /\ \A c \in Node : ~(c < cur')
    BY <1>1, <1>5
  <2>2. \A b \in Node : {c \in FrontierOf(edge, D, b) : c < cur'} = {}
    <3>1. \A b \in Node : FrontierOf(edge, D, b) \subseteq Node
      BY DEF FrontierOf, Node
    <3> HIDE DEF D
    <3> QED
      BY <2>1, <3>1
  <2>3. domFrontier' = [b \in Node |-> left[b] \cup {c \in FrontierOf(edge, D, b) : c < cur'}]
    <3>1. left \in [Node -> SUBSET Node]
      BY <1>2 DEF GraphInv
    <3>2. left = [b \in Node |-> left[b] \cup {c \in FrontierOf(edge, D, b) : c < cur'}]
      BY <2>2, <3>1
    <3> QED
      BY <3>2, <1>1, <1>6
  <2>4. D' = D
    BY <1>4
  <2> QED
    BY <2>1, <2>3, <2>4, <1>1, <1>4 DEF FrontierInv
<1> QED
  BY <1>1, <1>3, <1>9, <1>10, <1>11 DEF IInv, SearchInv

(* One turn of computeDomFrontier puts cur in the frontiers it is in.      *)
LEMMA ComputeDomFrontierStep ==
  ASSUME IInv, ComputeDomFrontier
  PROVE  IInv'
<1> DEFINE n == Cardinality(Node)
           D == DominatorsOf(root, edge)
           P == preOrder2DFS
           F(b) == FrontierOf(edge, D, b)
           New(b) == IF Cardinality(back[cur]) >= 2 /\ (\E p \in back[cur] : Order(b) \in Runners(p, cur))
                     THEN {cur} ELSE {}
<1>1. /\ pc = "frontier" /\ cur \in Node /\ pc' = "frontier"
      /\ UNCHANGED <<graph, preOrder2DFS, parent>>
      /\ domFrontier' = [b \in Node |-> domFrontier[b] \cup New(b)]
      /\ cur' = cur + 1 /\ sdoms' = sdoms /\ idoms' = idoms
  BY DEF ComputeDomFrontier
<1>2. GraphInv /\ OrderInv /\ TreeInv /\ SdomInv /\ IdomInv /\ FrontierInv /\ pc # "search"
  BY <1>1 DEF IInv
<1>3. GraphInv' /\ OrderInv' /\ TreeInv'
  BY <1>1, <1>2, TreeSame
<1>4. /\ Node' = Node /\ Number' = Number /\ EdgesOf' = EdgesOf
      /\ root' = root /\ edge' = edge /\ left' = left /\ P' = P
  BY <1>1, NumbersSame
<1>5. n \in Nat \ {0} /\ Number = 1 .. n /\ Node = 1 .. n
  BY <1>2, TreeFacts
<1>6. \A b \in Node : New(b) = IF cur \in F(b) THEN {cur} ELSE {}
  BY <1>1, <1>2, RunnersRight
<1>7. cur \in 1 .. n + 1 /\ domFrontier = [b \in Node |-> left[b] \cup {c \in F(b) : c < cur}]
  BY <1>1, <1>2 DEF FrontierInv
<1>8. \A b \in Node : F(b) \subseteq Node
  BY DEF FrontierOf, Node
<1>9. SdomInv' /\ IdomInv'
  <2>1. sdoms' \in [Number -> Number]
    BY <1>1, <1>2 DEF SdomInv
  <2>2. /\ idoms \in [Number -> Number]
        /\ \A i \in Number \ {1} :
             idoms[i] < i /\ D[P[i]] = {P[i]} \cup D[P[idoms[i]]]
    BY <1>1, <1>2 DEF IdomInv
  <2>3. D' = D
    BY <1>4
  <2>4. SdomInv'
    BY <2>1, <1>1, <1>4 DEF SdomInv
  <2>5. IdomInv'
    BY <2>2, <2>3, <1>1, <1>4 DEF IdomInv
  <2> QED
    BY <2>4, <2>5
<1>10. FrontierInv'
  <2>1. cur' \in 1 .. n + 1
    BY <1>1, <1>5
  <2>2. \A b \in Node : domFrontier'[b] = left[b] \cup {c \in F(b) : c < cur'}
    <3> SUFFICES ASSUME NEW b \in Node PROVE domFrontier'[b] = left[b] \cup {c \in F(b) : c < cur'}
      OBVIOUS
    <3> HIDE DEF F, New
    <3>1. domFrontier'[b] = left[b] \cup {c \in F(b) : c < cur} \cup (IF cur \in F(b) THEN {cur} ELSE {})
      BY <1>1, <1>6, <1>7
    <3>2. \A c \in F(b) : c < cur' <=> c < cur \/ c = cur
      <4>1. cur \in Int /\ \A c \in F(b) : c \in Int
        BY <1>5, <1>7, <1>8
      <4> QED
        BY <4>1, <1>1
    <3> QED
      BY <3>1, <3>2
  <2>3. domFrontier' = [b \in Node |-> left[b] \cup {c \in F(b) : c < cur'}]
    <3> HIDE DEF F, New
    <3> QED
      BY <2>2, <1>1
  <2>4. D' = D
    BY <1>4
  <2> QED
    BY <2>1, <2>3, <2>4, <1>1, <1>4 DEF FrontierInv
<1> QED
  BY <1>1, <1>3, <1>9, <1>10 DEF IInv, SearchInv

(* Behind it no block is left.                                             *)
LEMMA EndFrontierStep ==
  ASSUME IInv, EndFrontier
  PROVE  IInv'
<1> DEFINE n == Cardinality(Node)
           D == DominatorsOf(root, edge)
           P == preOrder2DFS
           F(b) == FrontierOf(edge, D, b)
<1>1. /\ pc = "frontier" /\ cur \notin Node /\ pc' = "done"
      /\ UNCHANGED <<graph, preOrder2DFS, parent>>
      /\ sdoms' = sdoms /\ idoms' = idoms /\ domFrontier' = domFrontier
  BY DEF EndFrontier
<1>2. GraphInv /\ OrderInv /\ TreeInv /\ SdomInv /\ IdomInv /\ FrontierInv /\ pc # "search"
  BY <1>1 DEF IInv
<1>3. GraphInv' /\ OrderInv' /\ TreeInv'
  BY <1>1, <1>2, TreeSame
<1>4. /\ Node' = Node /\ Number' = Number /\ EdgesOf' = EdgesOf
      /\ root' = root /\ edge' = edge /\ left' = left /\ P' = P
  BY <1>1, NumbersSame
<1>5. n \in Nat \ {0} /\ Number = 1 .. n /\ Node = 1 .. n
  BY <1>2, TreeFacts
<1>6. cur \in 1 .. n + 1 /\ domFrontier = [b \in Node |-> left[b] \cup {c \in F(b) : c < cur}]
  BY <1>1, <1>2 DEF FrontierInv
<1>7. \A b \in Node : \A c \in F(b) : c < cur
  <2>1. \A b \in Node : F(b) \subseteq Node
    BY DEF FrontierOf, Node
  <2>2. cur = n + 1
    BY <1>1, <1>5, <1>6
  <2>3. \A c \in Node : c < cur
    BY <2>2, <1>5
  <2> HIDE DEF F
  <2> QED
    BY <2>1, <2>3
<1>8. D' = D
  BY <1>4
<1>9. SdomInv' /\ IdomInv'
  <2>1. sdoms' \in [Number -> Number]
    BY <1>1, <1>2 DEF SdomInv
  <2>2. /\ idoms \in [Number -> Number]
        /\ \A i \in Number \ {1} :
             idoms[i] < i /\ D[P[i]] = {P[i]} \cup D[P[idoms[i]]]
    BY <1>1, <1>2 DEF IdomInv
  <2>3. SdomInv'
    BY <2>1, <1>1, <1>4 DEF SdomInv
  <2>4. IdomInv'
    BY <2>2, <1>8, <1>1, <1>4 DEF IdomInv
  <2> QED
    BY <2>3, <2>4
<1>10. FrontierInv'
  <2>1. domFrontier = [b \in Node |-> left[b] \cup F(b)]
    <3>1. \A b \in Node : {c \in F(b) : c < cur} = F(b)
      BY <1>7
    <3> HIDE DEF F
    <3> QED
      BY <3>1, <1>6
  <2> QED
    BY <2>1, <1>8, <1>1, <1>4 DEF FrontierInv
<1> QED
  BY <1>1, <1>3, <1>9, <1>10 DEF IInv, SearchInv

(* Where nothing changes the invariant stays.                              *)
LEMMA StutterStep ==
  ASSUME IInv, UNCHANGED vars
  PROVE  IInv'
<1>1. /\ UNCHANGED <<graph, preOrder2DFS, parent>>
      /\ stack' = stack /\ sdoms' = sdoms /\ ancestors' = ancestors
      /\ idoms' = idoms /\ domFrontier' = domFrontier /\ cur' = cur /\ pc' = pc
  BY DEF vars
<1>2. /\ root' = root /\ edge' = edge /\ left' = left /\ back' = back
      /\ preOrder2DFS' = preOrder2DFS /\ parent' = parent
  BY <1>1 DEF graph
<1>3. /\ Node' = Node /\ Number' = Number /\ Found' = Found
      /\ ParentOf' = ParentOf /\ EdgesOf' = EdgesOf
  BY <1>1, NumbersSame
<1>4. GraphInv' /\ OrderInv'
  BY <1>1, GraphSame, NumbersSame DEF IInv
<1>5. SearchInv'
  <2>1. OnStack' = OnStack
    BY <1>1, <1>2 DEF OnStack
  <2>2. ASSUME NEW last, Spans(last) PROVE Spans(last)'
    <3>1. ASSUME NEW c PROVE Order(c)' = Order(c)
      BY <1>2 DEF Order
    <3> QED
      BY <2>1, <2>2, <3>1, <1>2, <1>3, Zenon DEF Spans
  <2>3. \A j \in 1 .. Len(stack) : Order(stack[j])' = Order(stack[j])
    BY <1>1, <1>2 DEF Order
  <2> QED
    BY <2>2, <2>3, <1>1, <1>2, <1>3 DEF IInv, SearchInv
<1>6. TreeInv'
  BY <1>1, <1>2, <1>3 DEF IInv, TreeInv
<1>7. SdomInv'
  BY <1>1, <1>2, <1>3 DEF IInv, SdomInv
<1>8. IdomInv'
  BY <1>1, <1>2, <1>3 DEF IInv, IdomInv
<1>9. FrontierInv'
  BY <1>1, <1>2, <1>3 DEF IInv, FrontierInv
<1> QED
  BY <1>1, <1>4, <1>5, <1>6, <1>7, <1>8, <1>9 DEF IInv

(* Every step keeps the invariant.                                         *)
LEMMA StepInv == IInv /\ [Next]_vars => IInv'
<1> SUFFICES ASSUME IInv, [Next]_vars PROVE IInv'
  OBVIOUS
<1>1. CASE Search
  BY <1>1, SearchInvStep
<1>2. CASE SearchReturn
  BY <1>2, SearchInvStep
<1>3. CASE StartSdom
  BY <1>3, StartSdomStep
<1>4. CASE ComputeSdom
  BY <1>4, ComputeSdomStep
<1>5. CASE StartIdom
  BY <1>5, StartIdomStep
<1>6. CASE ComputeIdom
  BY <1>6, ComputeIdomStep
<1>7. CASE StartFrontier
  BY <1>7, StartFrontierStep
<1>8. CASE ComputeDomFrontier
  BY <1>8, ComputeDomFrontierStep
<1>9. CASE EndFrontier
  BY <1>9, EndFrontierStep
<1>10. CASE UNCHANGED vars
  BY <1>10, StutterStep
<1> QED
  BY <1>1, <1>2, <1>3, <1>4, <1>5, <1>6, <1>7, <1>8, <1>9, <1>10 DEF Next

(* The loops of Function.cpp keep what they rely on, for every graph: the  *)
(* tree is that of a depth first search, above cur the semidominators are  *)
(* right, before it immediate dominators and what the frontiers got,       *)
(* whatever they held when a backward computation began.                   *)
THEOREM Invariant == Spec => []IInv
<1>1. Init => IInv
  BY InitInv
<1>2. IInv /\ [Next]_vars => IInv'
  BY StepInv
<1> QED
  BY <1>1, <1>2, PTL DEF Spec

(* The dominators of a block are itself and those of idoms: of a smaller   *)
(* number, hence of another block, which dominates itself.                 *)
LEMMA InvIdoms == IInv => IdomsRight
<1> SUFFICES ASSUME IInv, pc = "done", NEW i \in Number \ {1}
             PROVE  IsIdom(DominatorsOf(root, edge), preOrder2DFS[idoms[i]], preOrder2DFS[i])
  BY DEF IdomsRight
<1> DEFINE D == DominatorsOf(root, edge)
           P == preOrder2DFS
           M(k) == DomNumbers(Cardinality(Node), EdgesOf, k)
<1>1. GraphInv /\ OrderInv /\ TreeInv /\ IdomInv /\ pc # "search"
  BY DEF IInv
<1>2. /\ Number = 1 .. Cardinality(Node)
      /\ \A k \in Number : Order(P[k]) = k
  BY <1>1, TreeFacts
<1>3. /\ idoms \in [Number -> Number] /\ idoms[i] < i
      /\ D[P[i]] = {P[i]} \cup D[P[idoms[i]]]
  BY <1>1 DEF IdomInv
<1>4. idoms[i] \in Number /\ i \in Int
  BY <1>2, <1>3
<1>5. P[idoms[i]] # P[i]
  BY <1>2, <1>3, <1>4
<1>6. P[idoms[i]] \in D[P[idoms[i]]]
  <2>1. PICK last \in [Number -> Number] :
          SearchTree(Cardinality(Node), ParentOf, last, EdgesOf)
    BY <1>1 DEF TreeInv
  <2>2. idoms[i] \in M(idoms[i])
    BY <2>1, <1>2, <1>4, DomFacts
  <2> QED
    BY <2>2, <1>1, <1>4, DomBridge
<1> QED
  BY <1>3, <1>5, <1>6 DEF IsIdom

(* At the end the invariant says what the frontiers are.                   *)
LEMMA InvFrontier == IInv => FrontierRight
<1> SUFFICES ASSUME IInv, pc = "done", NEW b \in Node
             PROVE  domFrontier[b] = FrontierOf(edge, DominatorsOf(root, edge), b)
                                       \cup (IF root = Entry THEN {} ELSE left[b])
  BY DEF FrontierRight
<1> DEFINE D == DominatorsOf(root, edge)
<1>1. domFrontier = [x \in Node |-> left[x] \cup FrontierOf(edge, D, x)]
  BY DEF IInv, FrontierInv
<1>2. root = Entry => left[b] = {}
  BY DEF IInv, GraphInv
<1> HIDE DEF D
<1>3. domFrontier[b] = left[b] \cup FrontierOf(edge, D, b)
  BY <1>1
<1> QED
  BY <1>2, <1>3 DEF D

(* computeIdom finds the immediate dominator of every block but the entry, *)
(* or in reverse the exit, for every graph and every order of successors.  *)
THEOREM IdomsAreRight == Spec => []IdomsRight
BY Invariant, InvIdoms, PTL

(* computeDomFrontier adds a block to just the frontiers it belongs to: to *)
(* empty sets in the forward computation, and in a backward one to any     *)
(* that the computations before it left.                                   *)
THEOREM FrontiersAreRight == Spec => []FrontierRight
BY Invariant, InvFrontier, PTL
===============================================================================

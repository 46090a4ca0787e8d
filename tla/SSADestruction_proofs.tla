----------------------- MODULE SSADestruction_proofs -----------------------
(***************************************************************************)
(* Every edge keeps its target and gets exactly its own copies, for every  *)
(* function, also where both branches lead to one block, a block leads to  *)
(* itself, or edges are split while the list of predecessors is walked.    *)
(*                                                                         *)
(* The argument counts.  Times(l, b) is how often b is in l.  Both lists   *)
(* agree if p is in the list of b as often as b is in that of p; a split   *)
(* takes one from each side and adds one through the new block.  While the *)
(* walk is at cur, the predecessors left to visit are counted by the edges *)
(* that still lead to cur, so each is visited once for every edge.  A new  *)
(* block is on some edge, so there are never more of them than edges.      *)
(***************************************************************************)
EXTENDS SSADestruction, FiniteSetTheorems, SequenceTheorems, WellFoundedInduction, TLAPS

-----------------------------------------------------------------------------
(* Induction and recursion up to a bound.                                  *)

(* A nonempty set of numbers has a least one, which Min finds. *)
LEMMA MinFacts ==
  ASSUME NEW S \in SUBSET Nat, S # {}
  PROVE  Min(S) \in S /\ \A n \in S : Min(S) =< n
<1> DEFINE R == {p \in Nat \X Nat : p[1] < p[2]}
<1>1. IsWellFoundedOn(R, Nat)
  BY NatLessThanWellFounded DEF OpToRel
<1>2. ASSUME NEW m \in Nat, NEW n \in Nat, ~(<<n, m>> \in R) PROVE m =< n
  BY <1>2
<1> HIDE DEF R
<1>3. \E m \in S : \A n \in S : ~(<<n, m>> \in R)
  BY <1>1, WFMin
<1>4. \E m \in S : \A n \in S : m =< n
  BY <1>2, <1>3
<1> QED
  BY <1>4 DEF Min

(* Induction up to b, over the set of the numbers it has come to. *)
LEMMA Climb ==
  ASSUME NEW b \in Nat, NEW T, 0 \in T, \A k \in 0 .. b - 1 : k \in T => k + 1 \in T
  PROVE  0 .. b \subseteq T
<1> SUFFICES ASSUME (0 .. b) \ T # {} PROVE FALSE
  OBVIOUS
<1>1. PICK m \in (0 .. b) \ T : \A k \in (0 .. b) \ T : m =< k
  <2>1. (0 .. b) \ T \in SUBSET Nat
    OBVIOUS
  <2> QED
    BY <2>1, MinFacts
<1>2. m \in 1 .. b
  <2>1. m # 0
    BY <1>1
  <2> QED
    BY <1>1, <2>1
<1>3. m - 1 \in 0 .. b - 1 /\ m - 1 \in T /\ (m - 1) + 1 = m
  BY <1>1, <1>2
<1> QED
  BY <1>3, <1>1

(* Iteration from v by the functions of G. *)
Iterates(f, b, v, G) == \A k \in 0 .. b : f[k] = IF k = 0 THEN v ELSE G[k][f[k - 1]]

(* It is defined up to any bound. *)
LEMMA Iteration ==
  ASSUME NEW b \in Nat, NEW V, NEW v \in V, NEW G \in [1 .. b -> [V -> V]]
  PROVE  \E f \in [0 .. b -> V] : Iterates(f, b, v, G)
<1> DEFINE Upto(m, f) == \A k \in 0 .. b : k =< m => f[k] = IF k = 0 THEN v ELSE G[k][f[k - 1]]
           T == {m \in 0 .. b : \E f \in [0 .. b -> V] : Upto(m, f)}
<1>1. 0 \in T
  <2> DEFINE f == [k \in 0 .. b |-> v]
  <2>1. f \in [0 .. b -> V] /\ Upto(0, f)
    OBVIOUS
  <2> HIDE DEF f, Upto
  <2> QED
    BY <2>1
<1>2. ASSUME NEW m \in 0 .. b - 1, m \in T PROVE m + 1 \in T
  <2>1. PICK f \in [0 .. b -> V] : Upto(m, f)
    BY <1>2
  <2>2. m \in 0 .. b /\ m + 1 \in 1 .. b /\ m + 1 \in 0 .. b /\ (m + 1) - 1 = m
    OBVIOUS
  <2> DEFINE g == [f EXCEPT ![m + 1] = G[m + 1][f[m]]]
  <2>3. g \in [0 .. b -> V]
    BY <2>2
  <2>4. ASSUME NEW k \in 0 .. b, k =< m + 1 PROVE g[k] = IF k = 0 THEN v ELSE G[k][g[k - 1]]
    <3>1. CASE k = m + 1
      BY <3>1, <2>2
    <3>2. CASE k # m + 1
      <4>1. k =< m /\ (k # 0 => k - 1 \in 0 .. b /\ k - 1 # m + 1)
        BY <3>2, <2>4
      <4>2. g[k] = f[k] /\ (k # 0 => g[k - 1] = f[k - 1])
        BY <4>1, <3>2
      <4> HIDE DEF g
      <4> QED
        BY <4>1, <4>2, <2>1
    <3> QED
      BY <3>1, <3>2
  <2>5. Upto(m + 1, g)
    BY <2>4
  <2> HIDE DEF g, Upto
  <2> QED
    BY <2>2, <2>3, <2>5
<1>3. 0 .. b \subseteq T
  <2> HIDE DEF T
  <2> QED
    BY <1>1, <1>2, Climb
<1>4. b \in T
  <2>1. b \in 0 .. b
    OBVIOUS
  <2> HIDE DEF T
  <2> QED
    BY <2>1, <1>3
<1>5. PICK f \in [0 .. b -> V] : Upto(b, f)
  BY <1>4
<1>6. Iterates(f, b, v, G)
  BY <1>5 DEF Iterates
<1> QED
  BY <1>6

-----------------------------------------------------------------------------
(* How often a block is in a list.                                         *)

(* The places of b in a list are finitely many; none, if b is not in it. *)
LEMMA TimesFacts ==
  ASSUME NEW S, NEW l \in Seq(S), NEW b
  PROVE  /\ IsFiniteSet({k \in 1 .. Len(l) : l[k] = b})
         /\ Times(l, b) \in Nat
         /\ Times(l, b) = 0 <=> \A k \in 1 .. Len(l) : l[k] # b
<1> DEFINE K == {k \in 1 .. Len(l) : l[k] = b}
<1>1. Len(l) \in Nat
  OBVIOUS
<1>2. IsFiniteSet(1 .. Len(l))
  BY <1>1, FS_Interval
<1>3. IsFiniteSet(K)
  BY <1>2, FS_Subset
<1>4. Cardinality(K) \in Nat /\ (Cardinality(K) = 0 <=> K = {})
  <2> HIDE DEF K
  <2> QED
    BY <1>3, FS_CardinalityType, FS_EmptySet
<1> QED
  BY <1>3, <1>4 DEF Times

(* No block is in the empty list. *)
LEMMA TimesEmpty == \A b : Times(<<>>, b) = 0
<1> SUFFICES ASSUME NEW b PROVE Times(<<>>, b) = 0
  OBVIOUS
<1>1. {k \in 1 .. Len(<<>>) : <<>>[k] = b} = {}
  OBVIOUS
<1> QED
  BY <1>1, FS_EmptySet DEF Times

(* A list of one block holds that one once. *)
LEMMA TimesOne ==
  ASSUME NEW a, NEW b
  PROVE  Times(<<a>>, b) = IF a = b THEN 1 ELSE 0
<1>1. {k \in 1 .. Len(<<a>>) : <<a>>[k] = b} = IF a = b THEN {1} ELSE {}
  <2>1. Len(<<a>>) = 1 /\ <<a>>[1] = a
    OBVIOUS
  <2>2. 1 .. 1 = {1}
    OBVIOUS
  <2> QED
    BY <2>1, <2>2
<1> QED
  BY <1>1, FS_EmptySet, FS_Singleton DEF Times

(* A block is in two lists joined as often as in both together. *)
LEMMA TimesCat ==
  ASSUME NEW S, NEW l \in Seq(S), NEW m \in Seq(S), NEW b
  PROVE  Times(l \o m, b) = Times(l, b) + Times(m, b)
<1> DEFINE n == Len(l)
           A == {k \in 1 .. Len(l) : l[k] = b}
           B == {k \in 1 .. Len(m) : m[k] = b}
           C == {k \in n + 1 .. n + Len(m) : m[k - n] = b}
           D == {k \in 1 .. Len(l \o m) : (l \o m)[k] = b}
<1>1. n \in Nat /\ Len(m) \in Nat /\ Len(l \o m) = n + Len(m)
      /\ \A k \in 1 .. n + Len(m) : (l \o m)[k] = IF k <= n THEN l[k] ELSE m[k - n]
  BY ConcatProperties, LenProperties
<1>2. D = A \cup C
  <2>1. ASSUME NEW k PROVE k \in D <=> k \in A \cup C
    <3>1. CASE k \in 1 .. n
      <4>1. k \in 1 .. Len(l \o m) /\ (l \o m)[k] = l[k] /\ k \notin n + 1 .. n + Len(m)
        BY <3>1, <1>1
      <4> QED
        BY <4>1, <3>1
    <3>2. CASE k \in n + 1 .. n + Len(m)
      <4>1. k \in 1 .. Len(l \o m) /\ (l \o m)[k] = m[k - n] /\ k \notin 1 .. n
        BY <3>2, <1>1
      <4> QED
        BY <4>1, <3>2
    <3>3. CASE k \notin 1 .. n /\ k \notin n + 1 .. n + Len(m)
      <4>1. k \notin 1 .. Len(l \o m)
        BY <3>3, <1>1
      <4> QED
        BY <4>1, <3>3
    <3> QED
      BY <3>1, <3>2, <3>3
  <2> QED
    BY <2>1
<1>3. A \cap C = {}
  BY <1>1
<1>4. IsFiniteSet(A) /\ IsFiniteSet(B)
  BY TimesFacts
<1>5. IsFiniteSet(C) /\ Cardinality(C) = Cardinality(B)
  <2> DEFINE f == [k \in B |-> k + n]
  <2>1. f \in [B -> C] /\ (\A x, y \in B : f[x] = f[y] => x = y)
    BY <1>1
  <2>2. \A y \in C : \E x \in B : f[x] = y
    <3> SUFFICES ASSUME NEW y \in C PROVE \E x \in B : f[x] = y
      OBVIOUS
    <3>1. y - n \in B /\ f[y - n] = y
      BY <1>1
    <3> QED
      BY <3>1
  <2> HIDE DEF f, B, C
  <2>3. ExistsBijection(B, C)
    BY <2>1, <2>2 DEF ExistsBijection, Bijection, Injection, Surjection, IsInjective
  <2> QED
    BY <2>3, <1>4, FS_Bijection
<1>6. Cardinality(A \cup C) = Cardinality(A) + Cardinality(C)
  <2> HIDE DEF A, C
  <2>1. Cardinality(A \cap C) = 0
    BY <1>3, FS_EmptySet
  <2>2. Cardinality(A) \in Nat /\ Cardinality(C) \in Nat
    BY <1>4, <1>5, FS_CardinalityType
  <2>3. Cardinality(A \cup C) = Cardinality(A) + Cardinality(C) - Cardinality(A \cap C)
    BY <1>4, <1>5, FS_Union
  <2> QED
    BY <2>1, <2>2, <2>3
<1> QED
  BY <1>2, <1>5, <1>6 DEF Times

(* A list of nothing but c holds c at every place. *)
LEMMA TimesConst ==
  ASSUME NEW S, NEW l \in Seq(S), NEW c, \A k \in 1 .. Len(l) : l[k] = c, NEW b
  PROVE  Times(l, b) = IF c = b THEN Len(l) ELSE 0
<1>1. Len(l) \in Nat
  OBVIOUS
<1>2. {k \in 1 .. Len(l) : l[k] = b} = IF c = b THEN 1 .. Len(l) ELSE {}
  OBVIOUS
<1>3. Cardinality(1 .. Len(l)) = Len(l)
  BY <1>1, FS_Interval
<1> QED
  BY <1>2, <1>3, FS_EmptySet DEF Times

(* A list is what is before its i-th block, that block, and what is behind. *)
LEMMA CutAt ==
  ASSUME NEW S, NEW l \in Seq(S), NEW i \in 1 .. Len(l)
  PROVE  /\ SubSeq(l, 1, i - 1) \in Seq(S) /\ SubSeq(l, i + 1, Len(l)) \in Seq(S)
         /\ l = (SubSeq(l, 1, i - 1) \o <<l[i]>>) \o SubSeq(l, i + 1, Len(l))
<1> DEFINE a == SubSeq(l, 1, i - 1)
           c == SubSeq(l, i + 1, Len(l))
<1>1. Len(l) \in Nat /\ l[i] \in S /\ \A k \in 1 .. Len(l) : l[k] \in S
  OBVIOUS
<1>2. /\ a \in Seq(S) /\ Len(a) = i - 1 /\ \A k \in 1 .. i - 1 : a[k] = l[k]
  BY <1>1, SubSeqProperties
<1>3. /\ c \in Seq(S) /\ Len(c) = Len(l) - i /\ \A k \in 1 .. Len(l) - i : c[k] = l[k + i]
  <2>1. \A k \in i + 1 .. Len(l) : l[k] \in S
    BY <1>1
  <2>2. i + 1 \in Int /\ Len(l) \in Int
    BY <1>1
  <2>3. /\ c \in Seq(S) /\ Len(c) = (IF i + 1 =< Len(l) THEN Len(l) - (i + 1) + 1 ELSE 0)
        /\ \A k \in 1 .. Len(l) - (i + 1) + 1 : c[k] = l[(i + 1) + k - 1]
    BY <2>1, <2>2, SubSeqProperties
  <2>4. Len(c) = Len(l) - i
    BY <2>3, <1>1
  <2>5. ASSUME NEW k \in 1 .. Len(l) - i PROVE c[k] = l[k + i]
    <3>1. k \in 1 .. Len(l) - (i + 1) + 1 /\ (i + 1) + k - 1 = k + i
      BY <1>1
    <3> QED
      BY <3>1, <2>3
  <2> QED
    BY <2>3, <2>4, <2>5
<1> DEFINE m == (a \o <<l[i]>>) \o c
<1> HIDE DEF a, c
<1>4. <<l[i]>> \in Seq(S) /\ Len(<<l[i]>>) = 1 /\ <<l[i]>>[1] = l[i]
  BY <1>1
<1>5. /\ a \o <<l[i]>> \in Seq(S) /\ Len(a \o <<l[i]>>) = i
      /\ \A k \in 1 .. i : (a \o <<l[i]>>)[k] = l[k]
  <2>1. /\ a \o <<l[i]>> \in Seq(S) /\ Len(a \o <<l[i]>>) = Len(a) + 1
        /\ \A k \in 1 .. Len(a) + 1 : (a \o <<l[i]>>)[k] = IF k =< Len(a) THEN a[k] ELSE <<l[i]>>[k - Len(a)]
    BY <1>2, <1>4, ConcatProperties
  <2> QED
    BY <2>1, <1>1, <1>2, <1>4
<1>6. /\ m \in Seq(S) /\ Len(m) = Len(l)
      /\ \A k \in 1 .. Len(l) : m[k] = l[k]
  <2>1. /\ m \in Seq(S) /\ Len(m) = i + Len(c)
        /\ \A k \in 1 .. i + Len(c) : m[k] = IF k =< i THEN (a \o <<l[i]>>)[k] ELSE c[k - i]
    BY <1>3, <1>5, ConcatProperties
  <2>2. Len(m) = Len(l)
    BY <2>1, <1>1, <1>3
  <2>3. ASSUME NEW k \in 1 .. Len(l) PROVE m[k] = l[k]
    <3>1. CASE k =< i
      BY <3>1, <2>1, <1>3, <1>5, <1>1
    <3>2. CASE ~(k =< i)
      <4>1. k - i \in 1 .. Len(l) - i /\ (k - i) + i = k /\ k \in 1 .. i + Len(c)
        BY <3>2, <1>1, <1>3
      <4> QED
        BY <4>1, <3>2, <2>1, <1>3
    <3> QED
      BY <3>1, <3>2
  <2> QED
    BY <2>1, <2>2, <2>3
<1>7. l = m
  <2> HIDE DEF m
  <2> QED
    BY <1>6, SeqEqual
<1> QED
  BY <1>2, <1>3, <1>7 DEF a, c

(* removePred and removeSucc take out one e and nothing else. *)
LEMMA RemoveFirstFacts ==
  ASSUME NEW S, NEW l \in Seq(S), NEW e, \E i \in 1 .. Len(l) : l[i] = e
  PROVE  /\ RemoveFirst(l, e) \in Seq(S)
         /\ \A b : Times(RemoveFirst(l, e), b) = Times(l, b) - IF b = e THEN 1 ELSE 0
<1> DEFINE I == {i \in 1 .. Len(l) : l[i] = e}
           i == Min(I)
           a == SubSeq(l, 1, i - 1)
           c == SubSeq(l, i + 1, Len(l))
<1>1. i \in I
  <2>1. I \in SUBSET Nat /\ I # {}
    OBVIOUS
  <2> HIDE DEF I
  <2> QED
    BY <2>1, MinFacts
<1>2. SelectInSeq(l, LAMBDA v : v = e) = i
  BY DEF SelectInSeq
<1>3. RemoveFirst(l, e) = a \o c
  BY <1>2 DEF RemoveFirst, RemoveAt
<1> HIDE DEF i
<1>4. i \in 1 .. Len(l) /\ l[i] = e
  BY <1>1
<1>5. a \in Seq(S) /\ c \in Seq(S) /\ l = (a \o <<e>>) \o c
  BY <1>4, CutAt
<1> HIDE DEF a, c
<1>6. <<e>> \in Seq(S) /\ a \o <<e>> \in Seq(S) /\ a \o c \in Seq(S)
  <2>1. e \in S
    BY <1>4
  <2> QED
    BY <2>1, <1>5, ConcatProperties
<1>7. ASSUME NEW b PROVE Times(a \o c, b) = Times(l, b) - IF b = e THEN 1 ELSE 0
  <2>1. /\ Times(l, b) = Times(a \o <<e>>, b) + Times(c, b)
        /\ Times(a \o <<e>>, b) = Times(a, b) + Times(<<e>>, b)
        /\ Times(a \o c, b) = Times(a, b) + Times(c, b)
    BY <1>5, <1>6, TimesCat, ZenonT(60)
  <2>2. Times(<<e>>, b) = IF e = b THEN 1 ELSE 0
    BY TimesOne
  <2>3. Times(a, b) \in Nat /\ Times(c, b) \in Nat
    BY <1>5, TimesFacts
  <2> QED
    BY <2>1, <2>2, <2>3
<1> QED
  BY <1>3, <1>6, <1>7

(* Without its head a list holds the head once less. *)
LEMMA HeadTimes ==
  ASSUME NEW S, NEW l \in Seq(S), l # <<>>
  PROVE  /\ Head(l) \in S /\ Tail(l) \in Seq(S)
         /\ \A b : Times(Tail(l), b) = Times(l, b) - IF b = Head(l) THEN 1 ELSE 0
<1>1. Head(l) \in S /\ Tail(l) \in Seq(S) /\ l = <<Head(l)>> \o Tail(l)
  OBVIOUS
<1>2. ASSUME NEW b PROVE Times(Tail(l), b) = Times(l, b) - IF b = Head(l) THEN 1 ELSE 0
  <2>1. <<Head(l)>> \in Seq(S)
    BY <1>1
  <2>2. Times(<<Head(l)>> \o Tail(l), b) = Times(<<Head(l)>>, b) + Times(Tail(l), b)
    BY <1>1, <2>1, TimesCat
  <2>3. Times(<<Head(l)>>, b) = IF Head(l) = b THEN 1 ELSE 0
    BY TimesOne
  <2>4. Times(Tail(l), b) \in Nat
    BY <1>1, TimesFacts
  <2>5. Times(l, b) = Times(<<Head(l)>> \o Tail(l), b)
    BY <1>1, Zenon
  <2> QED
    BY <2>2, <2>3, <2>4, <2>5
<1> QED
  BY <1>1, <1>2

(* A list of two is one of one and another. *)
LEMMA Pair ==
  ASSUME NEW S, NEW x \in S, NEW y \in S
  PROVE  <<x>> \in Seq(S) /\ <<y>> \in Seq(S) /\ <<x>> \o <<y>> = <<x, y>>
<1>1. /\ <<x>> \in Seq(S) /\ Len(<<x>>) = 1 /\ <<x>>[1] = x
      /\ <<y>> \in Seq(S) /\ Len(<<y>>) = 1 /\ <<y>>[1] = y
  OBVIOUS
<1>2. /\ <<x>> \o <<y>> \in Seq(S) /\ Len(<<x>> \o <<y>>) = 2
      /\ (<<x>> \o <<y>>)[1] = x /\ (<<x>> \o <<y>>)[2] = y
  <2>1. /\ <<x>> \o <<y>> \in Seq(S) /\ Len(<<x>> \o <<y>>) = Len(<<x>>) + Len(<<y>>)
        /\ \A i \in 1 .. Len(<<x>>) + Len(<<y>>) :
             (<<x>> \o <<y>>)[i] = IF i <= Len(<<x>>) THEN <<x>>[i] ELSE <<y>>[i - Len(<<x>>)]
    BY <1>1, ConcatProperties
  <2> QED
    BY <1>1, <2>1
<1>3. <<x, y>> \in Seq(S) /\ Len(<<x, y>>) = 2 /\ <<x, y>>[1] = x /\ <<x, y>>[2] = y
  OBVIOUS
<1>4. \A k \in 1 .. 2 : k = 1 \/ k = 2
  OBVIOUS
<1>5. \A k \in 1 .. Len(<<x>> \o <<y>>) : (<<x>> \o <<y>>)[k] = <<x, y>>[k]
  BY <1>2, <1>3, <1>4
<1> QED
  BY <1>1, <1>2, <1>3, <1>5, SeqEqual

(* How often a block is in a list of two. *)
LEMMA TimesTwo ==
  ASSUME NEW S, NEW x \in S, NEW y \in S, NEW b
  PROVE  Times(<<x, y>>, b) = (IF x = b THEN 1 ELSE 0) + (IF y = b THEN 1 ELSE 0)
<1>1. <<x>> \in Seq(S) /\ <<y>> \in Seq(S) /\ <<x, y>> = <<x>> \o <<y>>
  BY Pair
<1>2. Times(<<x>> \o <<y>>, b) = Times(<<x>>, b) + Times(<<y>>, b)
  <2>1. <<x>> \in Seq(S) /\ <<y>> \in Seq(S)
    BY <1>1
  <2> QED
    BY <2>1, TimesCat
<1>3. Times(<<x>>, b) = (IF x = b THEN 1 ELSE 0) /\ Times(<<y>>, b) = (IF y = b THEN 1 ELSE 0)
  BY TimesOne
<1> QED
  BY <1>1, <1>2, <1>3

(* A list with two blocks is the list of these two. *)
LEMMA TwoOf ==
  ASSUME NEW S, NEW l \in Seq(S), Len(l) = 2
  PROVE  l = <<l[1], l[2]>> /\ l[1] \in S /\ l[2] \in S
<1>1. 1 \in 1 .. Len(l) /\ 2 \in 1 .. Len(l)
  OBVIOUS
<1>2. l[1] \in S /\ l[2] \in S
  BY <1>1, ElementOfSeq
<1> QED
  BY <1>2, SeqEqual

(* A list with one block is the list of that one. *)
LEMMA OneOf ==
  ASSUME NEW S, NEW l \in Seq(S), Len(l) = 1
  PROVE  l = <<l[1]>> /\ l[1] \in S
<1>1. l[1] \in S
  OBVIOUS
<1> QED
  BY <1>1, SeqEqual

(* In a list of two, taking old out and adding new does to the list of     *)
(* successors what setting a target does to the branch instruction: new    *)
(* belongs in front if the target of the taken branch was old.             *)
LEMMA ReplaceBoth ==
  ASSUME NEW S, NEW l \in Seq(S), Len(l) = 2, NEW old, old \in {l[1], l[2]}, NEW new \in S
  PROVE  /\ ReplaceSucc(l, old, new) = Retarget(l, old, new)
         /\ Retarget(l, old, new) = IF l[1] = old THEN <<new, l[2]>> ELSE <<l[1], new>>
<1>1. l = <<l[1], l[2]>> /\ l[1] \in S /\ l[2] \in S
  BY TwoOf
<1> DEFINE I == {i \in 1 .. Len(l) : l[i] = old}
           i == Min(I)
<1>2. i = IF l[1] = old THEN 1 ELSE 2
  <2>1. I \in SUBSET Nat /\ I # {}
    OBVIOUS
  <2>2. i \in I /\ \A k \in I : i =< k
    <3> HIDE DEF I
    <3> QED
      BY <2>1, MinFacts
  <2> HIDE DEF i
  <2>3. i \in 1 .. 2 /\ l[i] = old /\ \A k \in 1 .. 2 : l[k] = old => i =< k
    BY <2>2
  <2> QED
    BY <2>3
<1>3. SelectInSeq(l, LAMBDA v : v = old) = i
  BY DEF SelectInSeq
<1>4. RemoveFirst(l, old) = SubSeq(l, 1, i - 1) \o SubSeq(l, i + 1, 2)
  <2>1. \E k \in 1 .. Len(l) : l[k] = old
    OBVIOUS
  <2> QED
    BY <2>1, <1>3 DEF RemoveFirst, RemoveAt
<1> HIDE DEF i
<1>5. CASE l[1] = old
  <2>1. i = 1
    BY <1>2, <1>5
  <2>2. SubSeq(l, 1, 0) = <<>> /\ SubSeq(l, 2, 2) = <<l[2]>>
    <3>1. SubSeq(l, 1, 0) = <<>>
      BY SubSeqEmpty
    <3>2. SubSeq(l, 2, 2) \in Seq(S) /\ Len(SubSeq(l, 2, 2)) = 1 /\ SubSeq(l, 2, 2)[1] = l[2]
      <4>1. \A k \in 2 .. 2 : l[k] \in S
        BY <1>1
      <4> QED
        BY <4>1, SubSeqProperties
    <3>3. SubSeq(l, 2, 2) = <<l[2]>>
      BY <3>2, OneOf
    <3> QED
      BY <3>1, <3>3
  <2>3. RemoveFirst(l, old) = <<l[2]>>
    <3>1. <<>> \o <<l[2]>> = <<l[2]>>
      BY <1>1
    <3>2. RemoveFirst(l, old) = SubSeq(l, 1, 0) \o SubSeq(l, 2, 2)
      BY <1>4, <2>1
    <3> QED
      BY <3>1, <3>2, <2>2
  <2>4. <<new>> \o <<l[2]>> = <<new, l[2]>>
    BY <1>1, Pair
  <2> QED
    BY <1>5, <2>3, <2>4 DEF ReplaceSucc, Retarget
<1>6. CASE l[1] # old
  <2>1. i = 2
    BY <1>2, <1>6
  <2>2. SubSeq(l, 3, 2) = <<>> /\ SubSeq(l, 1, 1) = <<l[1]>>
    <3>1. SubSeq(l, 3, 2) = <<>>
      BY SubSeqEmpty
    <3>2. SubSeq(l, 1, 1) \in Seq(S) /\ Len(SubSeq(l, 1, 1)) = 1 /\ SubSeq(l, 1, 1)[1] = l[1]
      <4>1. \A k \in 1 .. 1 : l[k] \in S
        BY <1>1
      <4> QED
        BY <4>1, SubSeqProperties
    <3>3. SubSeq(l, 1, 1) = <<l[1]>>
      BY <3>2, OneOf
    <3> QED
      BY <3>1, <3>3
  <2>3. RemoveFirst(l, old) = <<l[1]>>
    <3>1. <<l[1]>> \o <<>> = <<l[1]>>
      BY <1>1
    <3>2. RemoveFirst(l, old) = SubSeq(l, 1, 1) \o SubSeq(l, 3, 2)
      BY <1>4, <2>1
    <3> QED
      BY <3>1, <3>2, <2>2
  <2>4. <<l[1]>> \o <<new>> = <<l[1], new>>
    BY <1>1, Pair
  <2> QED
    BY <1>6, <2>3, <2>4 DEF ReplaceSucc, Retarget
<1> QED
  BY <1>5, <1>6

(* The list of predecessors of b holds p as often as p has an edge to b. *)
LEMMA EdgeSourcesFacts ==
  ASSUME NEW sc \in [Block -> Seq(Block)], NEW b
  PROVE  /\ EdgeSources(sc, b) \in Seq(Block)
         /\ \A p \in Block : Times(EdgeSources(sc, b), p) = Times(sc[p], b)
<1> DEFINE V == Seq(Block)
           From(c) == [k \in 1 .. Times(sc[c], b) |-> c]
           G == [c \in 1 .. N |-> [l \in V |-> l \o From(c)]]
           upTo == CHOOSE upTo : upTo = [c \in 0 .. N |->
                     IF c = 0 THEN <<>> ELSE upTo[c - 1] \o From(c)]
<1>1. N \in Nat /\ N # 0 /\ 0 \in 0 .. N
  BY NAssumption
<1>2. ASSUME NEW c \in Block
      PROVE  /\ Times(sc[c], b) \in Nat /\ From(c) \in V
             /\ \A p \in Block : Times(From(c), p) = IF c = p THEN Times(sc[c], b) ELSE 0
  <2>1. Times(sc[c], b) \in Nat
    BY TimesFacts
  <2>2. From(c) \in V
    BY <2>1
  <2>3. ASSUME NEW p \in Block PROVE Times(From(c), p) = IF c = p THEN Times(sc[c], b) ELSE 0
    <3>1. /\ From(c) \in Seq(Block) /\ Len(From(c)) = Times(sc[c], b)
          /\ \A k \in 1 .. Len(From(c)) : From(c)[k] = c
      BY <2>1, <2>2
    <3> HIDE DEF From
    <3> QED
      BY <3>1, TimesConst
  <2> QED
    BY <2>1, <2>2, <2>3
<1>3. EdgeSources(sc, b) = upTo[N]
  BY DEF EdgeSources
<1>4. <<>> \in V /\ \A l, m \in V : l \o m \in V
  OBVIOUS
<1> HIDE DEF From
<1>14. ASSUME NEW l \in V, NEW m \in V, NEW p PROVE Times(l \o m, p) = Times(l, p) + Times(m, p)
  BY TimesCat
<1> HIDE DEF V
<1>5. PICK f \in [0 .. N -> V] : Iterates(f, N, <<>>, G)
  <2>1. G \in [1 .. N -> [V -> V]]
    <3>1. ASSUME NEW c \in 1 .. N, NEW l \in V PROVE l \o From(c) \in V
      BY <1>2, <1>4 DEF Block
    <3> QED
      BY <3>1
  <2>2. <<>> \in V /\ N \in Nat
    BY <1>1, <1>4
  <2> HIDE DEF G
  <2> QED
    BY <2>1, <2>2, Iteration
<1>6. \A c \in 0 .. N : f[c] = IF c = 0 THEN <<>> ELSE f[c - 1] \o From(c)
  <2>1. ASSUME NEW c \in 0 .. N, c # 0 PROVE f[c] = f[c - 1] \o From(c)
    <3>1. c \in 1 .. N /\ c - 1 \in 0 .. N
      BY <2>1, <1>1
    <3>2. f[c - 1] \in V
      BY <3>1
    <3>3. f[c] = G[c][f[c - 1]]
      BY <2>1, <1>5 DEF Iterates
    <3> QED
      BY <3>1, <3>2, <3>3
  <2>2. ASSUME NEW c \in 0 .. N, c = 0 PROVE f[c] = <<>>
    <3> HIDE DEF G
    <3> QED
      BY <2>2, <1>5 DEF Iterates
  <2> QED
    BY <2>1, <2>2
<1>7. f = [c \in 0 .. N |-> IF c = 0 THEN <<>> ELSE f[c - 1] \o From(c)]
  BY <1>6, Zenon
<1>8. upTo = [c \in 0 .. N |-> IF c = 0 THEN <<>> ELSE upTo[c - 1] \o From(c)]
  BY <1>7
<1> HIDE DEF upTo
<1>9. upTo[0] = <<>> /\ \A c \in 1 .. N : upTo[c] = upTo[c - 1] \o From(c)
  <2>1. \A c \in 0 .. N : upTo[c] = IF c = 0 THEN <<>> ELSE upTo[c - 1] \o From(c)
    BY <1>8, Zenon
  <2>2. 0 \in 0 .. N /\ \A c \in 1 .. N : c \in 0 .. N /\ c # 0
    BY <1>1
  <2> QED
    BY <2>1, <2>2, Zenon
<1> DEFINE Counts(c, l) == \A p \in Block : Times(l, p) = IF p =< c THEN Times(sc[p], b) ELSE 0
           T == {c \in 0 .. N : upTo[c] \in V /\ Counts(c, upTo[c])}
<1>10. 0 \in T
  <2>1. ASSUME NEW p \in Block PROVE ~(p =< 0) /\ Times(<<>>, p) = 0
    BY TimesEmpty, <1>1 DEF Block
  <2>2. Counts(0, <<>>)
    BY <2>1
  <2> HIDE DEF Counts
  <2> QED
    BY <1>1, <1>4, <1>9, <2>2
<1>11. ASSUME NEW c \in 0 .. N - 1, c \in T PROVE c + 1 \in T
  <2>1. c + 1 \in 1 .. N /\ c + 1 \in 0 .. N /\ (c + 1) - 1 = c /\ c + 1 \in Block
    BY <1>1 DEF Block
  <2>2. upTo[c + 1] = upTo[c] \o From(c + 1)
    BY <2>1, <1>9
  <2>3. upTo[c] \in V /\ From(c + 1) \in V
    BY <1>11, <1>2, <2>1
  <2>4. ASSUME NEW p \in Block
        PROVE  Times(upTo[c + 1], p) = IF p =< c + 1 THEN Times(sc[p], b) ELSE 0
    <3>1. Times(upTo[c + 1], p) = Times(upTo[c], p) + Times(From(c + 1), p)
      BY <2>2, <2>3, <1>14
    <3>2. Times(From(c + 1), p) = IF c + 1 = p THEN Times(sc[c + 1], b) ELSE 0
      BY <2>1, <1>2
    <3>3. Times(upTo[c], p) = IF p =< c THEN Times(sc[p], b) ELSE 0
      BY <1>11
    <3>4. Times(sc[p], b) \in Nat
      BY <1>2
    <3>5. p \in Int /\ c \in Int
      BY <1>1 DEF Block
    <3> HIDE DEF T
    <3> QED
      BY <3>1, <3>2, <3>3, <3>4, <3>5
  <2>5. upTo[c + 1] \in V
    BY <2>2, <2>3, <1>4
  <2> QED
    BY <2>1, <2>4, <2>5
<1>12. N \in T
  <2>1. 0 .. N \subseteq T
    <3> HIDE DEF T
    <3> QED
      BY <1>1, <1>10, <1>11, Climb
  <2>2. N \in 0 .. N
    BY <1>1
  <2> HIDE DEF T
  <2> QED
    BY <2>1, <2>2
<1>13. \A p \in Block : p =< N
  BY <1>1 DEF Block
<1> QED
  BY <1>3, <1>12, <1>13 DEF V

-----------------------------------------------------------------------------
(* The order of copies.                                                    *)

(* What is in two lists joined, and how many. *)
LEMMA SetFacts ==
  ASSUME NEW S, NEW l \in Seq(S), NEW m \in Seq(S)
  PROVE  /\ ToSet(l) = {l[k] : k \in 1 .. Len(l)} /\ Len(l) \in Nat
         /\ l \o m \in Seq(S) /\ Len(l \o m) = Len(l) + Len(m)
         /\ ToSet(l \o m) = ToSet(l) \cup ToSet(m)
<1>1. ToSet(l) = {l[k] : k \in 1 .. Len(l)} /\ ToSet(m) = {m[k] : k \in 1 .. Len(m)}
  BY LenProperties DEF ToSet
<1>2. /\ l \o m \in Seq(S) /\ Len(l \o m) = Len(l) + Len(m) /\ Len(l) \in Nat /\ Len(m) \in Nat
      /\ \A k \in 1 .. Len(l) + Len(m) : (l \o m)[k] = IF k =< Len(l) THEN l[k] ELSE m[k - Len(l)]
  BY ConcatProperties, LenProperties
<1>3. ToSet(l \o m) = {(l \o m)[k] : k \in 1 .. Len(l) + Len(m)}
  BY <1>2, LenProperties DEF ToSet
<1>4. ASSUME NEW x \in ToSet(l \o m) PROVE x \in ToSet(l) \cup ToSet(m)
  <2>1. PICK k \in 1 .. Len(l) + Len(m) : x = (l \o m)[k]
    BY <1>3
  <2>2. CASE k =< Len(l)
    BY <2>1, <2>2, <1>1, <1>2
  <2>3. CASE ~(k =< Len(l))
    <3>1. k - Len(l) \in 1 .. Len(m)
      BY <2>3, <1>2
    <3> QED
      BY <3>1, <2>1, <2>3, <1>1, <1>2
  <2> QED
    BY <2>2, <2>3
<1>5. ASSUME NEW x \in ToSet(l) PROVE x \in ToSet(l \o m)
  <2>1. PICK k \in 1 .. Len(l) : x = l[k]
    BY <1>1
  <2>2. k \in 1 .. Len(l) + Len(m) /\ (l \o m)[k] = x
    BY <2>1, <1>2
  <2> QED
    BY <2>2, <1>3
<1>6. ASSUME NEW x \in ToSet(m) PROVE x \in ToSet(l \o m)
  <2>1. PICK k \in 1 .. Len(m) : x = m[k]
    BY <1>1
  <2>2. k + Len(l) \in 1 .. Len(l) + Len(m) /\ ~(k + Len(l) =< Len(l)) /\ (k + Len(l)) - Len(l) = k
    BY <1>2
  <2>3. (l \o m)[k + Len(l)] = x
    BY <2>1, <2>2, <1>2
  <2> QED
    BY <2>2, <2>3, <1>3
<1> QED
  BY <1>1, <1>2, <1>4, <1>5, <1>6

(* What is in a list of one. *)
LEMMA SetOfOne ==
  ASSUME NEW S, NEW x \in S
  PROVE  <<x>> \in Seq(S) /\ Len(<<x>>) = 1 /\ ToSet(<<x>>) = {x}
<1>1. <<x>> \in Seq(S) /\ Len(<<x>>) = 1 /\ <<x>>[1] = x
  OBVIOUS
<1>2. ToSet(<<x>>) = {<<x>>[k] : k \in 1 .. Len(<<x>>)}
  BY <1>1, LenProperties DEF ToSet
<1>3. 1 .. 1 = {1}
  OBVIOUS
<1> QED
  BY <1>1, <1>2, <1>3

(* What is in the empty list. *)
LEMMA SetOfNone == ToSet(<<>>) = {} /\ Len(<<>>) = 0
BY DEF ToSet

(* Inserting x anywhere adds x and nothing else. *)
LEMMA InsertFacts ==
  ASSUME NEW S, NEW l \in Seq(S), NEW i \in 1 .. Len(l) + 1, NEW x \in S
  PROVE  /\ InsertAt(l, i, x) \in Seq(S) /\ Len(InsertAt(l, i, x)) = Len(l) + 1
         /\ ToSet(InsertAt(l, i, x)) = ToSet(l) \cup {x}
<1> DEFINE a == SubSeq(l, 1, i - 1)
           c == SubSeq(l, i, Len(l))
<1>1. Len(l) \in Nat /\ \A k \in 1 .. Len(l) : l[k] \in S
  OBVIOUS
<1>2. a \in Seq(S)
  <2>1. \A k \in 1 .. i - 1 : l[k] \in S
    BY <1>1
  <2> QED
    BY <2>1, SubSeqProperties
<1>3. c \in Seq(S)
  <2>1. \A k \in i .. Len(l) : l[k] \in S
    BY <1>1, SMTT(30)
  <2> QED
    BY <2>1, <1>1, SubSeqProperties
<1>4. l = a \o c
  <2>1. SubSeq(l, 1, i - 1) \o SubSeq(l, (i - 1) + 1, Len(l)) = SubSeq(l, 1, Len(l))
    <3>1. 1 \in 1 .. Len(l) + 1 /\ i - 1 \in 1 - 1 .. Len(l) /\ Len(l) \in i - 1 .. Len(l)
      BY <1>1
    <3> QED
      BY <3>1, ConcatAdjacentSubSeq
  <2>2. (i - 1) + 1 = i /\ SubSeq(l, 1, Len(l)) = l
    BY SubSeqFull
  <2> QED
    BY <2>1, <2>2
<1>5. InsertAt(l, i, x) = (a \o <<x>>) \o c
  BY DEF InsertAt
<1> HIDE DEF a, c
<1>6. Len(l) = Len(a) + Len(c) /\ ToSet(l) = ToSet(a) \cup ToSet(c) /\ Len(a) \in Nat /\ Len(c) \in Nat
  BY <1>2, <1>3, <1>4, SetFacts
<1> DEFINE o == <<x>>
<1>7. o \in Seq(S) /\ Len(o) = 1 /\ ToSet(o) = {x}
  BY SetOfOne
<1> HIDE DEF o
<1>8. /\ a \o o \in Seq(S) /\ Len(a \o o) = Len(a) + 1
      /\ ToSet(a \o o) = ToSet(a) \cup {x}
  <2>1. a \in Seq(S) /\ o \in Seq(S)
    BY <1>2, <1>7
  <2>2. /\ a \o o \in Seq(S) /\ Len(a \o o) = Len(a) + Len(o)
        /\ ToSet(a \o o) = ToSet(a) \cup ToSet(o)
    BY <2>1, SetFacts
  <2> QED
    BY <2>2, <1>7
<1>9. /\ (a \o o) \o c \in Seq(S) /\ Len((a \o o) \o c) = Len(a \o o) + Len(c)
      /\ ToSet((a \o o) \o c) = ToSet(a \o o) \cup ToSet(c)
  <2> DEFINE d == a \o o
  <2>1. d \in Seq(S) /\ c \in Seq(S)
    BY <1>3, <1>8
  <2> HIDE DEF d
  <2>2. d \o c \in Seq(S) /\ Len(d \o c) = Len(d) + Len(c) /\ ToSet(d \o c) = ToSet(d) \cup ToSet(c)
    BY <2>1, SetFacts
  <2> QED
    BY <2>2 DEF d
<1>10. Len(l) + 1 = Len(a) + 1 + Len(c)
  BY <1>6
<1>11. InsertAt(l, i, x) = (a \o o) \o c
  BY <1>5 DEF o
<1> QED
  BY <1>6, <1>8, <1>9, <1>10, <1>11

(* Appending x adds x and nothing else. *)
LEMMA AppendSet ==
  ASSUME NEW S, NEW l \in Seq(S), NEW x \in S
  PROVE  /\ Append(l, x) \in Seq(S) /\ Len(Append(l, x)) = Len(l) + 1
         /\ ToSet(Append(l, x)) = ToSet(l) \cup {x}
<1> DEFINE m == Append(l, x)
<1>1. /\ m \in Seq(S) /\ Len(m) = Len(l) + 1 /\ Len(l) \in Nat
      /\ \A k \in 1 .. Len(l) : m[k] = l[k]
      /\ m[Len(l) + 1] = x
  BY AppendProperties, LenProperties
<1> HIDE DEF m
<1>2. ToSet(l) = {l[k] : k \in 1 .. Len(l)}
  BY LenProperties DEF ToSet
<1>3. ToSet(m) = {m[k] : k \in 1 .. Len(l) + 1}
  BY <1>1, LenProperties DEF ToSet
<1>4. ASSUME NEW y \in ToSet(m) PROVE y \in ToSet(l) \cup {x}
  <2>1. PICK k \in 1 .. Len(l) + 1 : y = m[k]
    BY <1>3
  <2>2. k \in 1 .. Len(l) \/ k = Len(l) + 1
    BY <1>1
  <2> QED
    BY <2>1, <2>2, <1>1, <1>2
<1>5. ASSUME NEW y \in ToSet(l) \cup {x} PROVE y \in ToSet(m)
  <2>1. CASE y \in ToSet(l)
    <3>1. PICK k \in 1 .. Len(l) : y = l[k]
      BY <2>1, <1>2
    <3>2. k \in 1 .. Len(l) + 1
      BY <1>1
    <3> QED
      BY <3>1, <3>2, <1>1, <1>3
  <2>2. CASE y = x
    <3>1. Len(l) + 1 \in 1 .. Len(l) + 1
      BY <1>1
    <3> QED
      BY <3>1, <2>2, <1>1, <1>3
  <2> QED
    BY <1>5, <2>1, <2>2
<1> QED
  BY <1>1, <1>4, <1>5 DEF m

(* What Reading finds in the first n copies. *)
Selects(u, s, D) ==
  /\ u[0] = <<>>
  /\ \A n \in 1 .. Len(s) : u[n] = IF s[n].src \in D THEN Append(u[n - 1], s[n]) ELSE u[n - 1]
  /\ Reading(s, D) = u[Len(s)]

(* The function in the definition of Reading exists: it is iterated from   *)
(* the empty list, up to the number of copies.                             *)
LEMMA ReadingDef ==
  ASSUME NEW S, NEW s \in Seq(S), NEW D
  PROVE  \E u : Selects(u, s, D)
<1> DEFINE V == Seq(S)
           L == Len(s)
           G == [n \in 1 .. L |-> [l \in V |-> IF s[n].src \in D THEN Append(l, s[n]) ELSE l]]
           upTo == CHOOSE upTo : upTo = [n \in 0 .. L |->
                     IF n = 0 THEN <<>>
                     ELSE IF s[n].src \in D THEN Append(upTo[n - 1], s[n]) ELSE upTo[n - 1]]
<1>1. L \in Nat /\ 0 \in 0 .. L /\ \A n \in 1 .. L : s[n] \in S
  BY ElementOfSeq
<1>2. Reading(s, D) = upTo[L]
  BY DEF Reading
<1>3. <<>> \in V /\ \A l \in V : \A x \in S : Append(l, x) \in V
  OBVIOUS
<1> HIDE DEF V, L
<1>4. PICK f \in [0 .. L -> V] : Iterates(f, L, <<>>, G)
  <2>1. G \in [1 .. L -> [V -> V]]
    <3>1. ASSUME NEW n \in 1 .. L, NEW l \in V
          PROVE (IF s[n].src \in D THEN Append(l, s[n]) ELSE l) \in V
      BY <1>1, <1>3
    <3> QED
      BY <3>1
  <2>2. <<>> \in V /\ L \in Nat
    BY <1>1, <1>3
  <2> HIDE DEF G
  <2> QED
    BY <2>1, <2>2, Iteration
<1>5. \A n \in 0 .. L : f[n] = IF n = 0 THEN <<>>
        ELSE IF s[n].src \in D THEN Append(f[n - 1], s[n]) ELSE f[n - 1]
  <2>1. ASSUME NEW n \in 0 .. L, n # 0
        PROVE  f[n] = IF s[n].src \in D THEN Append(f[n - 1], s[n]) ELSE f[n - 1]
    <3>1. n \in 1 .. L /\ n - 1 \in 0 .. L
      BY <2>1, <1>1
    <3>2. f[n - 1] \in V
      BY <3>1
    <3>3. f[n] = G[n][f[n - 1]]
      BY <2>1, <1>4 DEF Iterates
    <3> QED
      BY <3>1, <3>2, <3>3
  <2>2. ASSUME NEW n \in 0 .. L, n = 0 PROVE f[n] = <<>>
    <3> HIDE DEF G
    <3> QED
      BY <2>2, <1>4 DEF Iterates
  <2> QED
    BY <2>1, <2>2
<1>6. f = [n \in 0 .. L |-> IF n = 0 THEN <<>>
        ELSE IF s[n].src \in D THEN Append(f[n - 1], s[n]) ELSE f[n - 1]]
  BY <1>5
<1>7. upTo = [n \in 0 .. L |-> IF n = 0 THEN <<>>
        ELSE IF s[n].src \in D THEN Append(upTo[n - 1], s[n]) ELSE upTo[n - 1]]
  BY <1>6
<1> HIDE DEF upTo
<1>8. \A n \in 0 .. L : upTo[n] = IF n = 0 THEN <<>>
        ELSE IF s[n].src \in D THEN Append(upTo[n - 1], s[n]) ELSE upTo[n - 1]
  BY <1>7, Zenon
<1>9. \A n \in 1 .. L : n \in 0 .. L /\ n # 0
  BY <1>1
<1>10. upTo[0] = <<>>
  BY <1>1, <1>8, Zenon
<1>11. \A n \in 1 .. L : upTo[n] = IF s[n].src \in D THEN Append(upTo[n - 1], s[n]) ELSE upTo[n - 1]
  BY <1>8, <1>9, Zenon
<1> QED
  BY <1>2, <1>10, <1>11 DEF Selects, L

(* The copies of s that read one of D and those that read none are those of s. *)
LEMMA ReadingSplit ==
  ASSUME NEW s \in Seq(Copy), NEW D
  PROVE  /\ Reading(s, Value \ D) \in Seq(Copy) /\ Reading(s, D) \in Seq(Copy)
         /\ Len(Reading(s, Value \ D)) + Len(Reading(s, D)) = Len(s)
         /\ ToSet(Reading(s, Value \ D)) \cup ToSet(Reading(s, D)) = ToSet(s)
<1>1. PICK u : Selects(u, s, Value \ D)
  BY ReadingDef
<1>2. PICK w : Selects(w, s, D)
  BY ReadingDef
<1> DEFINE Upto(n) == {s[k] : k \in 1 .. n}
           Parts(n) == /\ u[n] \in Seq(Copy) /\ w[n] \in Seq(Copy)
                       /\ Len(u[n]) + Len(w[n]) = n
                       /\ ToSet(u[n]) \cup ToSet(w[n]) = Upto(n)
           T == {n \in 0 .. Len(s) : Parts(n)}
<1>3. Len(s) \in Nat /\ 0 \in 0 .. Len(s) /\ Len(s) \in 0 .. Len(s)
  OBVIOUS
<1>4. 0 \in T
  <2>1. u[0] = <<>> /\ w[0] = <<>>
    BY <1>1, <1>2 DEF Selects
  <2>2. Upto(0) = {}
    OBVIOUS
  <2> HIDE DEF Upto
  <2>3. Parts(0)
    BY <2>1, <2>2, SetOfNone
  <2> HIDE DEF Parts
  <2> QED
    BY <1>3, <2>3
<1>5. ASSUME NEW n, n \in 0 .. Len(s) - 1, n \in T PROVE n + 1 \in T
  <2> DEFINE m == n + 1
  <2>1. n \in Nat /\ m \in 1 .. Len(s) /\ m \in 0 .. Len(s) /\ m - 1 = n /\ m = n + 1
    BY <1>3, <1>5
  <2> HIDE DEF m
  <2> DEFINE x == s[m]
  <2>2. x \in Copy /\ x.src \in Value
    <3>1. x \in Copy
      BY <2>1, ElementOfSeq
    <3> HIDE DEF x
    <3> QED
      BY <3>1 DEF Copy
  <2>3. Parts(n)
    BY <1>5
  <2>4. Upto(m) = Upto(n) \cup {x}
    <3>1. \A k : k \in 1 .. m <=> k \in 1 .. n \/ k = m
      BY <2>1
    <3> QED
      BY <3>1
  <2>5. /\ u[m] = IF x.src \in Value \ D THEN Append(u[n], x) ELSE u[n]
        /\ w[m] = IF x.src \in D THEN Append(w[n], x) ELSE w[n]
    BY <1>1, <1>2, <2>1 DEF Selects
  <2> HIDE DEF x, Upto
  <2>6. /\ u[n] \in Seq(Copy) /\ w[n] \in Seq(Copy) /\ Len(u[n]) \in Nat /\ Len(w[n]) \in Nat
        /\ Len(u[n]) + Len(w[n]) = n /\ ToSet(u[n]) \cup ToSet(w[n]) = Upto(n)
    BY <2>3, LenProperties
  <2>7. CASE x.src \in D
    <3>1. u[m] = u[n] /\ w[m] = Append(w[n], x)
      BY <2>5, <2>7
    <3>2. w[m] \in Seq(Copy) /\ Len(w[m]) = Len(w[n]) + 1 /\ ToSet(w[m]) = ToSet(w[n]) \cup {x}
      BY <2>2, <2>6, <3>1, AppendSet
    <3>3. Len(u[m]) + Len(w[m]) = m
      <4>1. Len(w[m]) = Len(w[n]) + 1 /\ Len(u[m]) = Len(u[n])
        BY <3>1, <3>2
      <4>2. Len(u[n]) \in Nat /\ Len(w[n]) \in Nat /\ Len(u[n]) + Len(w[n]) = n
        BY <2>6
      <4>3. n \in Nat /\ m = n + 1
        BY <2>1
      <4> DEFINE a == Len(u[n])
                 b == Len(w[n])
                 c == Len(u[m])
                 d == Len(w[m])
      <4>4. c = a /\ d = b + 1 /\ a \in Nat /\ b \in Nat /\ a + b = n
        BY <4>1, <4>2
      <4> HIDE DEF a, b, c, d
      <4>5. c + d = m
        BY <4>3, <4>4
      <4> QED
        BY <4>5 DEF c, d
    <3>4. ToSet(u[m]) \cup ToSet(w[m]) = Upto(m)
      BY <2>4, <2>6, <3>1, <3>2
    <3>5. Parts(m)
      BY <2>6, <3>1, <3>2, <3>3, <3>4
    <3> HIDE DEF Parts
    <3> QED
      BY <2>1, <3>5
  <2>8. CASE x.src \notin D
    <3>1. w[m] = w[n] /\ u[m] = Append(u[n], x)
      BY <2>2, <2>5, <2>8
    <3>2. u[m] \in Seq(Copy) /\ Len(u[m]) = Len(u[n]) + 1 /\ ToSet(u[m]) = ToSet(u[n]) \cup {x}
      BY <2>2, <2>6, <3>1, AppendSet
    <3>3. Len(u[m]) + Len(w[m]) = m
      <4>1. Len(u[m]) = Len(u[n]) + 1 /\ Len(w[m]) = Len(w[n])
        BY <3>1, <3>2
      <4>2. Len(u[n]) \in Nat /\ Len(w[n]) \in Nat /\ Len(u[n]) + Len(w[n]) = n
        BY <2>6
      <4>3. n \in Nat /\ m = n + 1
        BY <2>1
      <4> DEFINE a == Len(u[n])
                 b == Len(w[n])
                 c == Len(u[m])
                 d == Len(w[m])
      <4>4. c = a + 1 /\ d = b /\ a \in Nat /\ b \in Nat /\ a + b = n
        BY <4>1, <4>2
      <4> HIDE DEF a, b, c, d
      <4>5. c + d = m
        BY <4>3, <4>4
      <4> QED
        BY <4>5 DEF c, d
    <3>4. ToSet(u[m]) \cup ToSet(w[m]) = Upto(m)
      BY <2>4, <2>6, <3>1, <3>2
    <3>5. Parts(m)
      BY <2>6, <3>1, <3>2, <3>3, <3>4
    <3> HIDE DEF Parts
    <3> QED
      BY <2>1, <3>5
  <2> QED
    BY <2>7, <2>8
<1>6. Parts(Len(s))
  <2>1. 0 .. Len(s) \subseteq T
    <3> HIDE DEF T
    <3> QED
      BY <1>3, <1>4, <1>5, Climb
  <2> HIDE DEF Parts
  <2> QED
    BY <2>1, <1>3
<1>7. ToSet(s) = Upto(Len(s))
  BY LenProperties DEF ToSet
<1>8. Reading(s, Value \ D) = u[Len(s)] /\ Reading(s, D) = w[Len(s)]
  BY <1>1, <1>2 DEF Selects
<1> HIDE DEF Upto
<1> QED
  BY <1>6, <1>7, <1>8

(* Placing a copy loses none. *)
LEMMA PlacedFacts ==
  ASSUME temp \in Seq(Copy), NEW c \in Copy
  PROVE  /\ Placed(c) \in Seq(Copy) /\ Len(Placed(c)) = Len(temp) + 1
         /\ ToSet(Placed(c)) = ToSet(temp) \cup {c}
<1>1. CASE c.def \in {temp[k].src : k \in 1 .. Len(temp)}
  <2> DEFINE I == {k \in 1 .. Len(temp) : temp[k].src = c.def}
  <2>1. I \in SUBSET Nat /\ I # {}
    BY <1>1
  <2>2. SelectInSeq(temp, LAMBDA t : t.src = c.def) = Min(I)
    BY <2>1 DEF SelectInSeq
  <2>3. Min(I) \in I
    <3> HIDE DEF I
    <3> QED
      BY <2>1, MinFacts
  <2>4. Min(I) + 1 \in 1 .. Len(temp) + 1
    <3>1. Min(I) \in 1 .. Len(temp) /\ Len(temp) \in Nat
      BY <2>3, LenProperties
    <3> QED
      BY <3>1
  <2>5. Placed(c) = InsertAt(temp, Min(I) + 1, c)
    BY <1>1, <2>2 DEF Placed
  <2> HIDE DEF I
  <2> QED
    BY <2>4, <2>5, InsertFacts
<1>2. CASE c.def \notin {temp[k].src : k \in 1 .. Len(temp)}
  <2> DEFINE o == <<c>>
  <2>1. o \in Seq(Copy) /\ Len(o) = 1 /\ ToSet(o) = {c}
    BY SetOfOne
  <2>2. Placed(c) = o \o temp
    BY <1>2 DEF Placed
  <2> HIDE DEF o
  <2>3. o \o temp \in Seq(Copy) /\ Len(o \o temp) = Len(o) + Len(temp)
        /\ ToSet(o \o temp) = ToSet(o) \cup ToSet(temp) /\ Len(o) \in Nat
    BY <2>1, SetFacts, SMTT(30)
  <2>4. Len(temp) \in Nat
    BY LenProperties
  <2> QED
    BY <2>1, <2>2, <2>3, <2>4
<1> QED
  BY <1>1, <1>2

-----------------------------------------------------------------------------
(* The blocks and edges of the function.                                   *)

(* The blocks of the function and those that split an edge are numbers. *)
LEMMA BlockFacts ==
  /\ N \in Nat /\ N # 0
  /\ \A n : n \in Block <=> n \in Nat /\ 1 =< n /\ n =< N
  /\ \A n : n \in AnyBlock <=> n \in Nat /\ 1 =< n /\ n =< N + 2 * N
  /\ Block \subseteq AnyBlock
  /\ Seq(Block) \subseteq Seq(AnyBlock)
<1>1. N \in Nat /\ N # 0 /\ 2 * N \in Nat /\ N =< N + 2 * N
  BY NAssumption
<1>2. /\ \A n : n \in Block <=> n \in Nat /\ 1 =< n /\ n =< N
      /\ \A n : n \in AnyBlock <=> n \in Nat /\ 1 =< n /\ n =< N + 2 * N
  BY <1>1 DEF Block, AnyBlock, MaxSucc
<1>3. Block \subseteq AnyBlock
  BY <1>1, <1>2
<1>4. Seq(Block) \subseteq Seq(AnyBlock)
  BY <1>3
<1> QED
  BY <1>1, <1>2, <1>3, <1>4

(* What the assumption on the inputs says of one of them. *)
LEMMA InputFacts ==
  ASSUME NEW in \in Inputs
  PROVE  /\ in.succ \in [Block -> Seq(Block)]
         /\ in.phis \in [Block -> Seq([def : Var, src : [Block -> Value]])]
         /\ \A p \in Block : /\ in.succ[p] \in Seq(Block) /\ Len(in.succ[p]) \in 0 .. 2
                             /\ \A k \in 1 .. Len(in.succ[p]) : in.succ[p][k] \in Block
<1>1. /\ in.succ \in [Block -> Seq(Block)]
      /\ \A b \in Block : Len(in.succ[b]) =< MaxSucc
      /\ in.phis \in [Block -> Seq([def : Var, src : [Block -> Value]])]
  BY InputsAssumption
<1>2. ASSUME NEW p \in Block
      PROVE  /\ in.succ[p] \in Seq(Block) /\ Len(in.succ[p]) \in 0 .. 2
             /\ \A k \in 1 .. Len(in.succ[p]) : in.succ[p][k] \in Block
  <2>1. in.succ[p] \in Seq(Block)
    BY <1>1
  <2>2. Len(in.succ[p]) \in 0 .. 2
    <3>1. Len(in.succ[p]) \in Nat /\ Len(in.succ[p]) =< 2
      BY <1>1, <2>1 DEF MaxSucc
    <3>2. \A n : n \in Nat /\ n =< 2 => n \in 0 .. 2
      OBVIOUS
    <3> QED
      BY <3>1, <3>2, Zenon
  <2>3. \A k \in 1 .. Len(in.succ[p]) : in.succ[p][k] \in Block
    BY <2>1, ElementOfSeq
  <2> QED
    BY <2>1, <2>2, <2>3
<1> QED
  BY <1>1, <1>2

(* The copies of an edge are copies, and none if the block has no phis. *)
LEMMA PhiCopiesFacts ==
  ASSUME input \in Inputs, NEW p \in Block, NEW b \in Block
  PROVE  /\ PhiCopies(p, b) \in Seq(Copy)
         /\ input.phis[b] = <<>> => PhiCopies(p, b) = <<>>
<1> DEFINE l == input.phis[b]
           Phi == [def : Var, src : [Block -> Value]]
<1>1. l \in Seq(Phi)
  BY InputFacts
<1> HIDE DEF l, Phi
<1>2. Len(l) \in Nat /\ \A n \in 1 .. Len(l) : l[n] \in Phi
  BY <1>1, LenProperties, ElementOfSeq
<1>3. \A n \in 1 .. Len(l) : CopyOf(l[n].def, l[n].src[p]) \in Copy
  BY <1>2 DEF CopyOf, Copy, Phi
<1>4. PhiCopies(p, b) = [n \in 1 .. Len(l) |-> CopyOf(l[n].def, l[n].src[p])]
  BY DEF PhiCopies, l
<1>5. PhiCopies(p, b) \in Seq(Copy) /\ Len(PhiCopies(p, b)) = Len(l)
  BY <1>2, <1>3, <1>4
<1>6. ASSUME l = <<>> PROVE PhiCopies(p, b) = <<>>
  <2>1. Len(PhiCopies(p, b)) = 0
    BY <1>5, <1>6
  <2> QED
    BY <1>5, <2>1, EmptySeq
<1> QED
  BY <1>5, <1>6 DEF l

(* The edges of a block of the function. *)
LEMMA EdgeFacts ==
  ASSUME TypeInv, GraphInv, NEW p \in Block
  PROVE  /\ succ[p] \in Seq(AnyBlock) /\ Len(succ[p]) \in 0 .. 2
         /\ \A k \in 1 .. Len(succ[p]) : /\ succ[p][k] \in AnyBlock
                                         /\ input.succ[p][k] \in Block
                                         /\ EdgeLeads(p, k)
<1>1. succ[p] \in Seq(AnyBlock) /\ Len(succ[p]) = Len(input.succ[p]) /\ input \in Inputs
  BY BlockFacts DEF TypeInv, GraphInv
<1>2. Len(succ[p]) \in 0 .. 2
  BY <1>1, InputFacts
<1>3. ASSUME NEW k \in 1 .. Len(succ[p])
      PROVE  succ[p][k] \in AnyBlock /\ input.succ[p][k] \in Block /\ EdgeLeads(p, k)
  <2>1. succ[p][k] \in AnyBlock
    BY <1>1, ElementOfSeq
  <2>2. input.succ[p][k] \in Block
    BY <1>1, InputFacts
  <2> QED
    BY <2>1, <2>2 DEF GraphInv
<1> QED
  BY <1>1, <1>2, <1>3

(* A block with one successor keeps it, and its edge is not split. *)
LEMMA OnlyEdge ==
  ASSUME TypeInv, GraphInv, WalkInv, NEW p \in Block, Len(succ[p]) = 1
  PROVE  succ[p] = <<input.succ[p][1]>> /\ succ[p][1] = input.succ[p][1] /\ input.succ[p][1] \in Block
<1>1. 1 \in 1 .. Len(succ[p])
  OBVIOUS
<1>2. succ[p] \in Seq(AnyBlock) /\ EdgeLeads(p, 1) /\ Walked(p, 1) /\ input.succ[p][1] \in Block
  BY <1>1, EdgeFacts DEF WalkInv
<1>3. succ[p][1] = input.succ[p][1]
  BY <1>2 DEF EdgeLeads, Walked
<1> QED
  BY <1>2, <1>3, OneOf

(* At first no edge is split, no copy is taken and every phi is in place.  *)
LEMMA InitIInv == Init => IInv
<1> SUFFICES ASSUME Init PROVE IInv
  OBVIOUS
<1> USE BlockFacts
<1>1. input \in Inputs /\ nblocks = N /\ cur = 1 /\ pc = "block"
  BY DEF Init
<1>2. input.succ \in [Block -> Seq(Block)]
  BY <1>1, InputFacts
<1>3. \A b \in Block : /\ EdgeSources(input.succ, b) \in Seq(Block)
                       /\ \A p \in Block : Times(EdgeSources(input.succ, b), p) = Times(input.succ[p], b)
  BY <1>2, EdgeSourcesFacts
<1>4. \A b \in AnyBlock : /\ succ[b] = IF b \in Block THEN input.succ[b] ELSE <<>>
                          /\ pred[b] = IF b \in Block THEN EdgeSources(input.succ, b) ELSE <<>>
                          /\ copyInss[b] = <<>>
  BY DEF Init
<1>5. TypeInv
  <2>1. succ \in [AnyBlock -> Seq(AnyBlock)]
    <3>1. \A b \in AnyBlock : (IF b \in Block THEN input.succ[b] ELSE <<>>) \in Seq(AnyBlock)
      BY <1>2
    <3> QED
      BY <3>1 DEF Init
  <2>2. pred \in [AnyBlock -> Seq(AnyBlock)]
    <3>1. \A b \in AnyBlock : (IF b \in Block THEN EdgeSources(input.succ, b) ELSE <<>>) \in Seq(AnyBlock)
      BY <1>3
    <3> QED
      BY <3>1 DEF Init
  <2>3. copyInss \in [AnyBlock -> Seq(Copy)] /\ code \in [AnyBlock -> Seq(Copy)]
    BY DEF Init
  <2>4. nblocks \in N .. N + MaxSucc * N /\ cur \in 1 .. N + 1
    BY <1>1 DEF MaxSucc
  <2>5. phis = [b \in Block |-> IF b < cur THEN <<>> ELSE input.phis[b]]
    <3>1. \A b \in Block : ~(b < cur)
      BY <1>1
    <3>2. phis = input.phis /\ input.phis \in [Block -> Seq([def : Var, src : [Block -> Value]])]
      BY <1>1, InputFacts DEF Init
    <3> QED
      BY <3>1, <3>2
  <2> QED
    BY <1>1, <2>1, <2>2, <2>3, <2>4, <2>5 DEF TypeInv
<1>6. ListsAgree
  <2>1. succ = branch
    BY DEF Init
  <2>2. ASSUME NEW p \in AnyBlock, NEW b \in AnyBlock PROVE Times(succ[p], b) = Times(pred[b], p)
    <3>1. CASE p \in Block /\ b \in Block
      BY <3>1, <1>3, <1>4
    <3>2. CASE p \in Block /\ b \notin Block
      <4>1. input.succ[p] \in Seq(Block) /\ succ[p] = input.succ[p] /\ pred[b] = <<>>
        BY <3>2, <1>2, <1>4
      <4>2. \A k \in 1 .. Len(input.succ[p]) : input.succ[p][k] # b
        BY <3>2, <4>1, ElementOfSeq
      <4>3. Times(input.succ[p], b) = 0
        BY <4>1, <4>2, TimesFacts
      <4> QED
        BY <4>1, <4>3, TimesEmpty
    <3>3. CASE p \notin Block /\ b \in Block
      <4> DEFINE l == EdgeSources(input.succ, b)
      <4>1. l \in Seq(Block) /\ pred[b] = l /\ succ[p] = <<>>
        BY <3>3, <1>3, <1>4
      <4> HIDE DEF l
      <4>2. \A k \in 1 .. Len(l) : l[k] # p
        BY <3>3, <4>1, ElementOfSeq
      <4>3. Times(l, p) = 0
        BY <4>1, <4>2, TimesFacts
      <4> QED
        BY <4>1, <4>3, TimesEmpty
    <3>4. CASE p \notin Block /\ b \notin Block
      BY <3>4, <1>4, TimesEmpty
    <3> QED
      BY <3>1, <3>2, <3>3, <3>4
  <2> QED
    BY <2>1, <2>2 DEF ListsAgree
<1>7. ASSUME NEW p \in Block, NEW k \in 1 .. Len(succ[p])
      PROVE  succ[p][k] = input.succ[p][k] /\ succ[p][k] \in Block /\ ~Split(p, k) /\ ~(succ[p][k] < cur)
  <2>1. succ[p] = input.succ[p] /\ succ[p] \in Seq(Block)
    BY <1>2, <1>4
  <2>2. succ[p][k] \in Block
    BY <2>1, ElementOfSeq
  <2> QED
    BY <1>1, <2>1, <2>2 DEF Split
<1>8. GraphInv
  <2>1. \A p \in Block : Len(succ[p]) = Len(input.succ[p])
    BY <1>4
  <2>2. \A p \in Block : \A k \in 1 .. Len(succ[p]) : EdgeLeads(p, k)
    BY <1>7 DEF EdgeLeads
  <2>3. \A q \in N + 1 .. nblocks : OnSomeEdge(q)
    BY <1>1
  <2>4. \A q \in AnyBlock : q > nblocks => NoEdges(q)
    BY <1>1, <1>4 DEF NoEdges
  <2> QED
    BY <2>1, <2>2, <2>3, <2>4 DEF GraphInv
<1>9. WalkInv
  <2>1. ASSUME NEW p \in Block PROVE Collected(p)
    <3>1. CASE Len(succ[p]) = 1
      <4>1. 1 \in 1 .. Len(succ[p])
        BY <3>1
      <4>2. ~(input.succ[p][1] < cur)
        BY <4>1, <1>7
      <4> QED
        BY <4>2, <1>1, <1>4 DEF Collected, Taken
    <3>2. CASE Len(succ[p]) # 1
      BY <3>2, <1>4 DEF Collected
    <3> QED
      BY <3>1, <3>2
  <2>2. \A p \in Block : \A k \in 1 .. Len(succ[p]) : Walked(p, k)
    BY <1>7 DEF Walked
  <2> QED
    BY <1>1, <2>1, <2>2 DEF WalkInv
<1>10. OrderInv
  BY <1>1 DEF OrderInv, Init
<1> QED
  BY <1>5, <1>6, <1>8, <1>9, <1>10 DEF IInv

-----------------------------------------------------------------------------
(* Steps of the walk.                                                      *)

(* Steps that leave the graph as it is. *)
LEMMA GraphKept ==
  ASSUME ListsAgree, GraphInv, UNCHANGED <<input, succ, pred, branch, nblocks, copyInss>>
  PROVE  ListsAgree' /\ GraphInv'
<1>1. ListsAgree'
  BY DEF ListsAgree
<1>2. /\ \A p \in Block : Len(succ[p]) = Len(input.succ[p])
      /\ \A p \in Block : \A k \in 1 .. Len(succ[p]) : EdgeLeads(p, k)
      /\ \A q \in N + 1 .. nblocks : OnSomeEdge(q)
      /\ \A q \in AnyBlock : q > nblocks => NoEdges(q)
  BY DEF GraphInv
<1>3. \A p, k : EdgeLeads(p, k)' <=> EdgeLeads(p, k)
  BY DEF EdgeLeads, Split
<1>4. \A q : (OnSomeEdge(q)' <=> OnSomeEdge(q)) /\ (NoEdges(q)' <=> NoEdges(q))
  BY DEF OnSomeEdge, NoEdges
<1>5. GraphInv'
  BY <1>2, <1>3, <1>4 DEF GraphInv
<1> QED
  BY <1>1, <1>5

(* A block without phis is passed over.  Its edges have no copies, so all  *)
(* of them count as taken.                                                 *)
LEMMA SkipStep == IInv /\ SkipBlock => IInv'
<1> SUFFICES ASSUME IInv, SkipBlock PROVE IInv'
  OBVIOUS
<1> USE BlockFacts
<1>1. /\ TypeInv /\ ListsAgree /\ GraphInv /\ WalkInv /\ OrderInv
      /\ pc = "block" /\ cur \in Block /\ phis[cur] = <<>> /\ cur' = cur + 1
      /\ UNCHANGED <<input, phis, succ, pred, branch, nblocks, preds, copyInss, pending, block, ins, temp, code, pc>>
  BY DEF IInv, SkipBlock, graph
<1>2. /\ input \in Inputs /\ input.phis[cur] = <<>>
      /\ phis = [b \in Block |-> IF b < cur THEN <<>> ELSE input.phis[b]]
  BY <1>1 DEF TypeInv
<1>3. \A n \in AnyBlock : n < cur' <=> n < cur \/ n = cur
  BY <1>1
<1>4. TypeInv'
  <2>1. cur' \in 1 .. N + 1
    BY <1>1
  <2>2. phis' = [b \in Block |-> IF b < cur' THEN <<>> ELSE input.phis[b]]
    <3>1. \A b \in Block : (IF b < cur' THEN <<>> ELSE input.phis[b]) = IF b < cur THEN <<>> ELSE input.phis[b]
      BY <1>2, <1>3
    <3> QED
      BY <1>1, <1>2, <3>1
  <2> QED
    BY <1>1, <2>1, <2>2 DEF TypeInv
<1>5. ListsAgree' /\ GraphInv'
  BY <1>1, GraphKept
<1>6. WalkInv'
  <2>1. ASSUME NEW p \in Block PROVE Collected(p)'
    <3>1. CASE Len(succ[p]) = 1
      <4> DEFINE b == input.succ[p][1]
      <4>1. b \in Block
        BY <1>1, <3>1, OnlyEdge
      <4>2. copyInss[p] = IF b < cur THEN PhiCopies(p, b) ELSE <<>>
        BY <1>1, <3>1 DEF WalkInv, Collected, Taken
      <4>3. b = cur => PhiCopies(p, b) = <<>>
        BY <1>2, <4>1, PhiCopiesFacts
      <4>4. copyInss[p] = IF b < cur' THEN PhiCopies(p, b) ELSE <<>>
        BY <1>3, <4>1, <4>2, <4>3
      <4> QED
        BY <1>1, <3>1, <4>4 DEF Collected, Taken, PhiCopies
    <3>2. CASE Len(succ[p]) # 1
      BY <1>1, <3>2, SMTT(30) DEF Collected, WalkInv
    <3> QED
      BY <3>1, <3>2, Zenon
  <2>2. ASSUME NEW p \in Block, NEW k \in 1 .. Len(succ[p]) PROVE Walked(p, k)'
    <3>1. Walked(p, k) /\ succ[p][k] \in AnyBlock /\ input.succ[p][k] \in Block
      BY <1>1, EdgeFacts DEF WalkInv
    <3>2. Split(p, k) => /\ Len(succ[p]) # 1 /\ input.succ[p][k] < cur'
                         /\ copyInss[succ[p][k]] = PhiCopies(p, input.succ[p][k])
      BY <1>1, <1>3, <3>1 DEF Walked
    <3>3. Len(succ[p]) # 1 /\ succ[p][k] < cur' => input.phis[succ[p][k]] = <<>>
      BY <1>2, <1>3, <3>1 DEF Walked
    <3> QED
      BY <1>1, <3>2, <3>3 DEF Walked, Split, PhiCopies
  <2> QED
    BY <1>1, <2>1, <2>2 DEF WalkInv
<1>7. OrderInv'
  BY <1>1 DEF OrderInv
<1> QED
  BY <1>4, <1>5, <1>6, <1>7 DEF IInv

(* The blocks in the list of predecessors of cur are those of the function *)
(* while none of their edges is split.                                     *)
LEMMA BeginStep == IInv /\ BeginBlock => IInv'
<1> SUFFICES ASSUME IInv, BeginBlock PROVE IInv'
  OBVIOUS
<1> USE BlockFacts
<1>1. /\ TypeInv /\ ListsAgree /\ GraphInv /\ WalkInv /\ OrderInv
      /\ pc = "block" /\ cur \in Block /\ preds' = pred[cur] /\ pc' = "preds"
      /\ UNCHANGED <<input, phis, succ, pred, branch, nblocks, cur, copyInss, pending, block, ins, temp, code>>
  BY DEF IInv, BeginBlock, graph
<1>2. \A p \in AnyBlock : Times(preds', p) = Times(succ[p], cur)
  BY <1>1 DEF ListsAgree
<1>3. TypeInv'
  BY <1>1 DEF TypeInv
<1>4. ListsAgree' /\ GraphInv'
  BY <1>1, GraphKept
<1>5. preds' \in Seq(Block)
  <2>1. preds' \in Seq(AnyBlock)
    BY <1>1 DEF TypeInv
  <2>2. ASSUME NEW i \in 1 .. Len(preds') PROVE preds'[i] \in Block
    <3> DEFINE q == preds'[i]
    <3>1. q \in AnyBlock
      BY <2>1, ElementOfSeq
    <3>2. Times(preds', q) # 0
      BY <2>1, TimesFacts
    <3> HIDE DEF q
    <3>3. Times(succ[q], cur) # 0
      BY <1>2, <3>1, <3>2
    <3>4. CASE q > nblocks
      <4>1. succ[q] = <<>>
        BY <1>1, <3>1, <3>4 DEF GraphInv, NoEdges
      <4> QED
        BY <3>3, <4>1, TimesEmpty
    <3>5. CASE q > N /\ q =< nblocks
      <4>1. q \in N + 1 .. nblocks
        BY <3>1, <3>5, <1>1 DEF TypeInv
      <4>2. PICK p \in Block : \E k \in 1 .. Len(succ[p]) : succ[p][k] = q
        BY <1>1, <4>1 DEF GraphInv, OnSomeEdge
      <4>6. PICK k \in 1 .. Len(succ[p]) : succ[p][k] = q
        BY <4>2
      <4>3. EdgeLeads(p, k) /\ Walked(p, k) /\ input.succ[p][k] \in Block
        BY <1>1, EdgeFacts DEF WalkInv
      <4>4. succ[q] = <<input.succ[p][k]>> /\ input.succ[p][k] < cur
        BY <1>1, <3>5, <4>6, <4>3 DEF EdgeLeads, Walked, Split
      <4>5. Times(<<input.succ[p][k]>>, cur) = 0
        BY <1>1, <4>3, <4>4, TimesOne
      <4> QED
        BY <3>3, <4>4, <4>5
    <3>6. CASE q =< N
      BY <3>1, <3>6 DEF q
    <3> QED
      BY <3>1, <3>4, <3>5, <3>6, <1>1 DEF TypeInv
  <2> QED
    BY <2>1, <2>2
<1>6. WalkInv'
  <2>1. ASSUME NEW p \in Block PROVE Collected(p)'
    <3>1. CASE Len(succ[p]) = 1
      <4> DEFINE b == input.succ[p][1]
      <4>1. b \in Block /\ succ[p] = <<b>>
        BY <1>1, <3>1, OnlyEdge
      <4>2. copyInss[p] = IF b < cur THEN PhiCopies(p, b) ELSE <<>>
        BY <1>1, <3>1 DEF WalkInv, Collected, Taken
      <4> HIDE DEF b
      <4>3. b = cur => Times(preds', p) = 1
        BY <1>2, <4>1, TimesOne
      <4>4. ~(b = cur /\ Times(preds', p) = 0)
        BY <4>3
      <4> QED
        BY <1>1, <3>1, <4>2, <4>4 DEF Collected, Taken, PhiCopies, b
    <3>2. CASE Len(succ[p]) # 1
      BY <1>1, <3>2 DEF Collected, WalkInv
    <3> QED
      BY <3>1, <3>2
  <2>2. ASSUME NEW p \in Block, NEW k \in 1 .. Len(succ[p]) PROVE Walked(p, k)'
    <3>1. Walked(p, k)
      BY <1>1 DEF WalkInv
    <3> QED
      BY <1>1, <3>1 DEF Walked, Split, PhiCopies
  <2>3. ASSUME NEW p \in Block PROVE Left(p)'
    <3>1. Times(preds', p) = Times(succ[p], cur) /\ Times(preds', p) \in Nat
      BY <1>2, <1>5, TimesFacts
    <3> QED
      BY <1>1, <3>1 DEF Left
  <2> QED
    BY <1>1, <1>5, <2>1, <2>2, <2>3, Zenon DEF WalkInv
<1>7. OrderInv'
  BY <1>1 DEF OrderInv
<1> QED
  BY <1>3, <1>4, <1>6, <1>7 DEF IInv

(* The head of the list of predecessors, while the phis of cur are taken. *)
LEMMA HeadFacts ==
  ASSUME IInv, pc = "preds", preds # <<>>
  PROVE  /\ cur \in Block /\ Head(preds) \in Block /\ Tail(preds) \in Seq(Block)
         /\ Times(preds, Head(preds)) \in Nat /\ Times(preds, Head(preds)) # 0
         /\ \A p : Times(Tail(preds), p) = Times(preds, p) - IF p = Head(preds) THEN 1 ELSE 0
         /\ CopiesFrom(Head(preds)) = PhiCopies(Head(preds), cur)
<1> USE BlockFacts
<1>1. preds \in Seq(Block) /\ cur \in Block
  BY DEF IInv, WalkInv
<1>2. /\ Head(preds) \in Block /\ Tail(preds) \in Seq(Block)
      /\ \A p : Times(Tail(preds), p) = Times(preds, p) - IF p = Head(preds) THEN 1 ELSE 0
  BY <1>1, HeadTimes
<1>3. Times(preds, Head(preds)) \in Nat /\ Times(preds, Head(preds)) # 0
  <2>1. Len(preds) # 0 /\ Head(preds) = preds[1] /\ Len(preds) \in Nat
    BY <1>1
  <2>2. 1 \in 1 .. Len(preds)
    BY <2>1
  <2> QED
    BY <1>1, <2>1, <2>2, TimesFacts
<1>4. phis[cur] = input.phis[cur]
  <2>1. phis = [b \in Block |-> IF b < cur THEN <<>> ELSE input.phis[b]]
    BY DEF IInv, TypeInv
  <2> QED
    BY <1>1, <2>1
<1>5. CopiesFrom(Head(preds)) = PhiCopies(Head(preds), cur)
  BY <1>4 DEF CopiesFrom, PhiCopies
<1> QED
  BY <1>1, <1>2, <1>3, <1>5

(* A predecessor with one successor gets the copies at its end: its edge   *)
(* to cur is the only one it has.                                          *)
LEMMA CollectStep == IInv /\ CollectCopies => IInv'
<1> SUFFICES ASSUME IInv, CollectCopies PROVE IInv'
  OBVIOUS
<1> USE BlockFacts
<1> DEFINE h == Head(preds)
<1>1. /\ TypeInv /\ ListsAgree /\ GraphInv /\ WalkInv /\ OrderInv
      /\ pc = "preds" /\ preds # <<>> /\ Len(succ[h]) = 1
      /\ copyInss' = [copyInss EXCEPT ![h] = @ \o CopiesFrom(h)] /\ preds' = Tail(preds)
      /\ UNCHANGED <<input, phis, succ, pred, branch, nblocks, cur, pending, block, ins, temp, code, pc>>
  BY DEF IInv, CollectCopies, graph
<1>2. /\ cur \in Block /\ h \in Block /\ preds' \in Seq(Block)
      /\ Times(preds, h) \in Nat /\ Times(preds, h) # 0
      /\ \A p : Times(preds', p) = Times(preds, p) - IF p = h THEN 1 ELSE 0
      /\ CopiesFrom(h) = PhiCopies(h, cur)
  BY <1>1, HeadFacts
<1> HIDE DEF h
<1>3. /\ input \in Inputs /\ copyInss \in [AnyBlock -> Seq(Copy)] /\ nblocks \in Nat /\ N =< nblocks
  BY <1>1 DEF TypeInv, MaxSucc
<1>4. \A p : Times(preds, p) \in Nat
  <2>1. preds \in Seq(Block)
    BY <1>1 DEF WalkInv
  <2> QED
    BY <2>1, TimesFacts
<1>5. /\ Times(preds, h) = 1 /\ Times(preds', h) = 0 /\ input.succ[h][1] = cur
      /\ Times(succ[h], cur) = 1
  <2>1. succ[h] = <<input.succ[h][1]>> /\ Left(h)
    BY <1>1, <1>2, OnlyEdge DEF WalkInv
  <2>2. Times(succ[h], cur) = IF input.succ[h][1] = cur THEN 1 ELSE 0
    BY <2>1, TimesOne
  <2>3. Times(preds, h) =< Times(succ[h], cur)
    BY <1>1, <2>1 DEF Left
  <2> QED
    BY <1>2, <2>2, <2>3
<1>6. copyInss[h] = <<>>
  <2>1. Collected(h)
    BY <1>1, <1>2 DEF WalkInv
  <2>2. ~Taken(h, cur)
    BY <1>2 DEF Taken
  <2> QED
    BY <1>5, <2>1, <2>2 DEF Collected
<1>7. PhiCopies(h, cur) \in Seq(Copy)
  BY <1>2, <1>3, PhiCopiesFacts
<1>8. copyInss' = [copyInss EXCEPT ![h] = PhiCopies(h, cur)]
  <2> DEFINE s == PhiCopies(h, cur)
  <2>1. <<>> \o s = s
    <3> HIDE DEF s
    <3> QED
      BY <1>7 DEF s
  <2> HIDE DEF s
  <2> QED
    BY <1>1, <1>2, <1>6, <2>1 DEF s
<1>9. /\ copyInss' \in [AnyBlock -> Seq(Copy)] /\ copyInss'[h] = PhiCopies(h, cur)
      /\ \A q \in AnyBlock : q # h => copyInss'[q] = copyInss[q]
  BY <1>2, <1>3, <1>7, <1>8
<1>10. TypeInv'
  BY <1>1, <1>9 DEF TypeInv
<1>11. ListsAgree'
  BY <1>1 DEF ListsAgree
<1>12. GraphInv'
  <2>1. /\ \A p \in Block : Len(succ[p]) = Len(input.succ[p])
        /\ \A p \in Block : \A k \in 1 .. Len(succ[p]) : EdgeLeads(p, k)
        /\ \A q \in N + 1 .. nblocks : OnSomeEdge(q)
    BY <1>1 DEF GraphInv
  <2>2. \A p, k : EdgeLeads(p, k)' <=> EdgeLeads(p, k)
    BY <1>1 DEF EdgeLeads, Split
  <2>3. \A q : OnSomeEdge(q)' <=> OnSomeEdge(q)
    BY <1>1 DEF OnSomeEdge
  <2>4. ASSUME NEW q \in AnyBlock, q > nblocks PROVE NoEdges(q)'
    <3>1. NoEdges(q)
      BY <1>1, <2>4 DEF GraphInv
    <3>2. q # h
      BY <1>2, <1>3, <2>4
    <3> QED
      BY <1>1, <1>9, <3>1, <3>2 DEF NoEdges
  <2> QED
    BY <1>1, <2>1, <2>2, <2>3, <2>4 DEF GraphInv
<1>13. WalkInv'
  <2>1. ASSUME NEW p \in Block PROVE Collected(p)'
    <3>1. CASE p = h
      BY <1>1, <1>5, <1>9, <3>1, ZenonT(60) DEF Collected, Taken, PhiCopies
    <3>2. CASE p # h
      <4>1. Times(preds', p) = Times(preds, p) /\ copyInss'[p] = copyInss[p]
        BY <1>2, <1>4, <1>9, <3>2
      <4>2. Collected(p)
        BY <1>1 DEF WalkInv
      <4> QED
        BY <1>1, <4>1, <4>2 DEF Collected, Taken, PhiCopies
    <3> QED
      BY <3>1, <3>2
  <2>2. ASSUME NEW p \in Block, NEW k \in 1 .. Len(succ[p]) PROVE Walked(p, k)'
    <3>1. Walked(p, k) /\ succ[p][k] \in AnyBlock
      BY <1>1, EdgeFacts DEF WalkInv
    <3>2. Split(p, k) => copyInss'[succ[p][k]] = copyInss[succ[p][k]]
      BY <1>2, <1>9, <3>1 DEF Split
    <3> QED
      BY <1>1, <3>1, <3>2 DEF Walked, Split, PhiCopies
  <2>3. ASSUME NEW p \in Block PROVE Left(p)'
    <3>1. CASE p = h
      BY <1>1, <1>5, <3>1 DEF Left
    <3>2. CASE p # h
      <4>1. Times(preds', p) = Times(preds, p)
        BY <1>2, <1>4, <3>2
      <4>2. Left(p)
        BY <1>1 DEF WalkInv
      <4> QED
        BY <1>1, <4>1, <4>2 DEF Left
    <3> QED
      BY <3>1, <3>2
  <2> QED
    BY <1>1, <1>2, <2>1, <2>2, <2>3 DEF WalkInv
<1>14. OrderInv'
  BY <1>1 DEF OrderInv
<1> QED
  BY <1>10, <1>11, <1>12, <1>13, <1>14 DEF IInv

(* When the list of predecessors is done, every edge to cur has its copies *)
(* and the phis may go.                                                    *)
LEMMA RemoveStep == IInv /\ RemovePhis => IInv'
<1> SUFFICES ASSUME IInv, RemovePhis PROVE IInv'
  OBVIOUS
<1> USE BlockFacts
<1>1. /\ TypeInv /\ ListsAgree /\ GraphInv /\ WalkInv /\ OrderInv
      /\ pc = "preds" /\ preds = <<>> /\ cur' = cur + 1 /\ pc' = "block"
      /\ phis' = [phis EXCEPT ![cur] = <<>>]
      /\ UNCHANGED <<input, succ, pred, branch, nblocks, preds, copyInss, pending, block, ins, temp, code>>
  BY DEF IInv, RemovePhis, graph
<1>2. cur \in Block /\ input \in Inputs /\ \A p : Times(preds, p) = 0
  BY <1>1, TimesEmpty DEF WalkInv, TypeInv
<1>3. \A n \in AnyBlock : n < cur' <=> n < cur \/ n = cur
  BY <1>1, <1>2
<1>4. TypeInv'
  <2>1. cur' \in 1 .. N + 1
    BY <1>1, <1>2
  <2>2. phis' = [b \in Block |-> IF b < cur' THEN <<>> ELSE input.phis[b]]
    <3>1. phis = [b \in Block |-> IF b < cur THEN <<>> ELSE input.phis[b]]
      BY <1>1 DEF TypeInv
    <3>2. \A b \in Block : phis'[b] = IF b < cur' THEN <<>> ELSE input.phis[b]
      BY <1>1, <1>2, <1>3, <3>1
    <3>3. phis' = [b \in Block |-> phis'[b]]
      BY <1>1, <3>1, Zenon
    <3> QED
      BY <3>2, <3>3
  <2> QED
    BY <1>1, <2>1, <2>2 DEF TypeInv
<1>5. ListsAgree' /\ GraphInv'
  BY <1>1, GraphKept
<1>6. WalkInv'
  <2>1. ASSUME NEW p \in Block PROVE Collected(p)'
    <3>1. CASE Len(succ[p]) = 1
      <4> DEFINE b == input.succ[p][1]
      <4>1. b \in Block
        BY <1>1, <3>1, OnlyEdge
      <4>2. copyInss[p] = IF b < cur \/ b = cur THEN PhiCopies(p, b) ELSE <<>>
        BY <1>1, <1>2, <3>1 DEF WalkInv, Collected, Taken
      <4>3. copyInss[p] = IF b < cur' THEN PhiCopies(p, b) ELSE <<>>
        BY <1>3, <4>1, <4>2
      <4> QED
        BY <1>1, <3>1, <4>3 DEF Collected, Taken, PhiCopies
    <3>2. CASE Len(succ[p]) # 1
      BY <1>1, <3>2, SMTT(30) DEF Collected, WalkInv
    <3> QED
      BY <3>1, <3>2
  <2>2. ASSUME NEW p \in Block, NEW k \in 1 .. Len(succ[p]) PROVE Walked(p, k)'
    <3>1. Walked(p, k) /\ Left(p) /\ succ[p] \in Seq(AnyBlock)
          /\ succ[p][k] \in AnyBlock /\ input.succ[p][k] \in Block
      BY <1>1, EdgeFacts DEF WalkInv
    <3>2. Split(p, k) => /\ Len(succ[p]) # 1 /\ input.succ[p][k] < cur'
                         /\ copyInss[succ[p][k]] = PhiCopies(p, input.succ[p][k])
      BY <1>1, <1>3, <3>1 DEF Walked
    <3>3. Len(succ[p]) # 1 => succ[p][k] # cur
      <4>1. Len(succ[p]) # 1 => Times(succ[p], cur) = 0
        BY <1>2, <3>1 DEF Left
      <4> QED
        BY <3>1, <4>1, TimesFacts
    <3>4. Len(succ[p]) # 1 /\ succ[p][k] < cur' => input.phis[succ[p][k]] = <<>>
      BY <1>3, <3>1, <3>3 DEF Walked
    <3> QED
      BY <1>1, <3>2, <3>4 DEF Walked, Split, PhiCopies
  <2> QED
    BY <1>1, <2>1, <2>2 DEF WalkInv
<1>7. OrderInv'
  BY <1>1 DEF OrderInv
<1> QED
  BY <1>4, <1>5, <1>6, <1>7 DEF IInv

-----------------------------------------------------------------------------
(* Splitting an edge.                                                      *)

(* Every new block is on an edge of its own, so as long as the j-th edge   *)
(* of p has none there is room for another.                                *)
LEMMA RoomForOne ==
  ASSUME IInv, NEW p \in Block, NEW j \in 1 .. Len(succ[p]), ~Split(p, j)
  PROVE  nblocks + 1 \in AnyBlock
<1> USE BlockFacts
<1>1. TypeInv /\ GraphInv /\ nblocks \in Nat /\ N =< nblocks
  <2>1. TypeInv /\ GraphInv
    BY DEF IInv
  <2>2. nblocks \in N .. N + 2 * N
    BY <2>1 DEF TypeInv, MaxSucc
  <2> QED
    BY <2>1, <2>2
<1> DEFINE New == N + 1 .. nblocks
           Places == Block \X (1 .. 2)
           Rest == Places \ {<<p, j>>}
           At(x, q) == x[2] \in 1 .. Len(succ[x[1]]) /\ succ[x[1]][x[2]] = q
           f == [q \in New |-> CHOOSE x \in Rest : At(x, q)]
<1>2. \A q \in New : \E x \in Rest : At(x, q)
  <2> SUFFICES ASSUME NEW q \in New PROVE \E x \in Rest : At(x, q)
    OBVIOUS
  <2>1. PICK r \in Block : \E k \in 1 .. Len(succ[r]) : succ[r][k] = q
    BY <1>1 DEF GraphInv, OnSomeEdge
  <2>2. PICK k \in 1 .. Len(succ[r]) : succ[r][k] = q
    BY <2>1
  <2>3. k \in 1 .. 2
    <3>1. Len(succ[r]) \in 0 .. 2
      BY <1>1, EdgeFacts
    <3>2. \A n \in 0 .. 2 : k \in 1 .. n => k \in 1 .. 2
      OBVIOUS
    <3> QED
      BY <3>1, <3>2
  <2>4. <<r, k>> # <<p, j>>
    BY <1>1, <2>2 DEF Split
  <2>5. <<r, k>> \in Rest
    BY <2>3, <2>4
  <2>6. At(<<r, k>>, q)
    BY <2>2, SMTT(30)
  <2> QED
    BY <2>5, <2>6
<1>3. \A q \in New : f[q] \in Rest /\ At(f[q], q)
  <2> SUFFICES ASSUME NEW q \in New PROVE f[q] \in Rest /\ At(f[q], q)
    OBVIOUS
  <2>1. f[q] = CHOOSE x \in Rest : At(x, q)
    OBVIOUS
  <2>2. \E x \in Rest : At(x, q)
    BY <1>2
  <2> HIDE DEF f, Rest, At, New
  <2> QED
    BY <2>1, <2>2
<1>4. f \in [New -> Rest] /\ \A q, r \in New : f[q] = f[r] => q = r
  <2>1. \A q, r \in New : f[q] = f[r] => q = r
    BY <1>3
  <2>2. f = [q \in New |-> f[q]]
    OBVIOUS
  <2> HIDE DEF f, Rest, At, New
  <2> QED
    BY <1>3, <2>1, <2>2, SMTT(30)
<1>5. IsFiniteSet(Places) /\ Cardinality(Places) = N * 2
  <2>1. IsFiniteSet(Block) /\ Cardinality(Block) = N
    <3>1. 1 \in Int /\ N \in Int /\ Block = 1 .. N
      BY DEF Block
    <3>2. IsFiniteSet(1 .. N) /\ Cardinality(1 .. N) = IF 1 > N THEN 0 ELSE N - 1 + 1
      BY <3>1, FS_Interval
    <3> QED
      BY <3>1, <3>2
  <2>2. IsFiniteSet(1 .. 2) /\ Cardinality(1 .. 2) = 2
    <3>1. 1 \in Int /\ 2 \in Int
      OBVIOUS
    <3>2. IsFiniteSet(1 .. 2) /\ Cardinality(1 .. 2) = IF 1 > 2 THEN 0 ELSE 2 - 1 + 1
      BY <3>1, FS_Interval
    <3> QED
      BY <3>2
  <2> QED
    BY <2>1, <2>2, FS_Product
<1>6. <<p, j>> \in Places
  BY <1>1, EdgeFacts, SMTT(30)
<1>7. IsFiniteSet(Rest) /\ Cardinality(Rest) = N * 2 - 1
  <2> HIDE DEF Places
  <2>1. IsFiniteSet(Rest) /\ Cardinality(Rest) = Cardinality(Places) - 1
    BY <1>5, <1>6, FS_RemoveElement
  <2> QED
    BY <2>1, <1>5
<1>8. Cardinality(New) = nblocks - N
  <2>1. Cardinality(N + 1 .. nblocks) = IF N + 1 =< nblocks THEN nblocks - (N + 1) + 1 ELSE 0
    <3>1. N + 1 \in Int /\ nblocks \in Int
      BY <1>1
    <3> QED
      BY <3>1, FS_Interval
  <2> QED
    BY <2>1, <1>1
<1>9. Cardinality(New) =< Cardinality(Rest)
  <2> HIDE DEF New, Rest, f
  <2>1. f \in Injection(New, Rest)
    BY <1>4 DEF Injection, IsInjective
  <2> QED
    BY <2>1, <1>7, FS_Injection
<1>10. nblocks - N =< N * 2 - 1
  <2> HIDE DEF New, Rest
  <2> QED
    BY <1>7, <1>8, <1>9
<1> QED
  BY <1>1, <1>10

(* The edge that is split: the first or the second to cur, of two. *)
LEMMA SplitEdgeFacts ==
  ASSUME IInv, SplitEdge, NEW p, p = Head(preds), NEW j, j = IF succ[p][1] = cur THEN 1 ELSE 2
  PROVE  /\ p \in Block /\ cur \in Block /\ pc = "preds" /\ preds' = Tail(preds) /\ preds' \in Seq(Block)
         /\ \A r : Times(preds', r) = Times(preds, r) - IF r = p THEN 1 ELSE 0
         /\ succ[p] \in Seq(AnyBlock) /\ Len(succ[p]) = 2 /\ j \in 1 .. 2 /\ succ[p][j] = cur
         /\ input.succ[p][j] = cur /\ ~Split(p, j)
         /\ Times(preds, p) = Times(succ[p], cur) /\ Times(pred[cur], p) # 0
         /\ nblocks \in Nat /\ nblocks + 1 \in AnyBlock /\ N =< nblocks
         /\ nblocks + 1 # p /\ nblocks + 1 # cur /\ NoEdges(nblocks + 1)
<1> USE BlockFacts
<1>1. /\ TypeInv /\ ListsAgree /\ GraphInv /\ WalkInv
      /\ pc = "preds" /\ preds # <<>> /\ Len(succ[p]) # 1 /\ preds' = Tail(preds)
  BY DEF IInv, SplitEdge
<1>2. /\ cur \in Block /\ p \in Block /\ preds' \in Seq(Block)
      /\ Times(preds, p) \in Nat /\ Times(preds, p) # 0
      /\ \A r : Times(preds', r) = Times(preds, r) - IF r = p THEN 1 ELSE 0
  BY <1>1, HeadFacts
<1>3. Times(preds, p) = Times(succ[p], cur) /\ Times(succ[p], cur) = Times(pred[cur], p)
  BY <1>1, <1>2 DEF WalkInv, Left, ListsAgree
<1>4. /\ succ[p] \in Seq(AnyBlock) /\ Len(succ[p]) \in 0 .. 2
      /\ \A k \in 1 .. Len(succ[p]) : EdgeLeads(p, k)
  BY <1>1, <1>2, EdgeFacts
<1>5. PICK k \in 1 .. Len(succ[p]) : succ[p][k] = cur
  BY <1>2, <1>3, <1>4, TimesFacts
<1>6. Len(succ[p]) = 2
  BY <1>1, <1>4, <1>5
<1>7. j \in 1 .. 2 /\ succ[p][j] = cur
  <2>1. k = 1 \/ k = 2
    BY <1>5, <1>6
  <2> QED
    BY <1>5, <2>1
<1>8. ~Split(p, j) /\ input.succ[p][j] = cur
  <2>1. ~Split(p, j) /\ EdgeLeads(p, j)
    BY <1>2, <1>4, <1>6, <1>7 DEF Split
  <2> QED
    BY <2>1, <1>7 DEF EdgeLeads
<1>9. nblocks \in Nat /\ nblocks + 1 \in AnyBlock /\ N =< nblocks
  <2>1. nblocks \in Nat /\ N =< nblocks
    BY <1>1 DEF TypeInv, MaxSucc
  <2>2. j \in 1 .. Len(succ[p])
    BY <1>6, <1>7
  <2>3. nblocks + 1 \in AnyBlock
    BY <1>2, <1>8, <2>2, RoomForOne
  <2> QED
    BY <2>1, <2>3
<1>10. nblocks + 1 # p /\ nblocks + 1 # cur
  BY <1>2, <1>9
<1>11. NoEdges(nblocks + 1)
  <2>1. nblocks + 1 > nblocks
    BY <1>9
  <2> QED
    BY <2>1, <1>1, <1>9 DEF GraphInv
<1> QED
  BY <1>1, <1>2, <1>3, <1>4, <1>6, <1>7, <1>8, <1>9, <1>10, <1>11

(* The lists after a split: the new block is between p and cur. *)
LEMMA SplitLists ==
  ASSUME IInv, SplitEdge, NEW p, p = Head(preds), NEW j, j = (IF succ[p][1] = cur THEN 1 ELSE 2),
         NEW new, new = nblocks + 1
  PROVE  /\ succ' \in [AnyBlock -> Seq(AnyBlock)] /\ branch' = succ'
         /\ succ'[new] = <<cur>>
         /\ Len(succ'[p]) = 2 /\ succ'[p][j] = new /\ \A k \in 1 .. 2 : k # j => succ'[p][k] = succ[p][k]
         /\ \A b : Times(succ'[p], b) = Times(succ[p], b) + (IF b = new THEN 1 ELSE 0) - (IF b = cur THEN 1 ELSE 0)
         /\ \A a \in AnyBlock : a # new /\ a # p => succ'[a] = succ[a]
<1>1. /\ p \in Block /\ cur \in Block /\ succ[p] \in Seq(AnyBlock) /\ Len(succ[p]) = 2
      /\ j \in 1 .. 2 /\ succ[p][j] = cur /\ new \in AnyBlock /\ new # p /\ new # cur
  BY SplitEdgeFacts
<1>2. /\ succ' = [succ EXCEPT ![new] = <<cur>>, ![p] = ReplaceSucc(@, cur, new)]
      /\ branch' = [branch EXCEPT ![new] = <<cur>>, ![p] = Retarget(@, cur, new)]
  BY DEF SplitEdge
<1>3. succ \in [AnyBlock -> Seq(AnyBlock)] /\ succ = branch
  BY DEF IInv, TypeInv, ListsAgree
<1> DEFINE l == succ[p]
           m == IF l[1] = cur THEN <<new, l[2]>> ELSE <<l[1], new>>
<1>4. cur \in {l[1], l[2]}
  BY <1>1
<1>5. ReplaceSucc(l, cur, new) = m /\ Retarget(l, cur, new) = m
  <2>1. l \in Seq(AnyBlock) /\ Len(l) = 2 /\ new \in AnyBlock
    BY <1>1
  <2> HIDE DEF l
  <2> QED
    BY <2>1, <1>4, ReplaceBoth
<1>6. l = <<l[1], l[2]>> /\ l[1] \in AnyBlock /\ l[2] \in AnyBlock
  BY <1>1, TwoOf
<1>7. m \in Seq(AnyBlock) /\ Len(m) = 2 /\ m[j] = new /\ \A k \in 1 .. 2 : k # j => m[k] = l[k]
  <2>1. CASE l[1] = cur
    <3>1. m = <<new, l[2]>> /\ j = 1
      BY <2>1
    <3>2. \A k \in 1 .. 2 : k # 1 => k = 2
      OBVIOUS
    <3> HIDE DEF m, l
    <3> QED
      BY <3>1, <3>2, <1>1, <1>6
  <2>2. CASE l[1] # cur
    <3>1. m = <<l[1], new>> /\ j = 2
      BY <2>2
    <3>2. \A k \in 1 .. 2 : k # 2 => k = 1
      OBVIOUS
    <3> HIDE DEF m, l
    <3> QED
      BY <3>1, <3>2, <1>1, <1>6
  <2> QED
    BY <2>1, <2>2
<1>8. \A b : Times(m, b) = Times(l, b) + (IF b = new THEN 1 ELSE 0) - (IF b = cur THEN 1 ELSE 0)
  <2> SUFFICES ASSUME NEW b
               PROVE  Times(m, b) = Times(l, b) + (IF b = new THEN 1 ELSE 0) - (IF b = cur THEN 1 ELSE 0)
    OBVIOUS
  <2> HIDE DEF l
  <2>1. Times(<<l[1], l[2]>>, b) = (IF l[1] = b THEN 1 ELSE 0) + (IF l[2] = b THEN 1 ELSE 0)
    BY <1>6, TimesTwo
  <2> DEFINE two(x, y) == Times(<<x, y>>, b) = (IF x = b THEN 1 ELSE 0) + (IF y = b THEN 1 ELSE 0)
  <2>4. \A x, y \in AnyBlock : two(x, y)
    BY TimesTwo
  <2> HIDE DEF two
  <2>5. new \in AnyBlock /\ two(new, l[2]) /\ two(l[1], new)
    BY <1>1, <1>6, <2>4
  <2> USE DEF l, two
  <2>2. CASE l[1] = cur
    <3>1. Times(<<new, l[2]>>, b) = (IF new = b THEN 1 ELSE 0) + (IF l[2] = b THEN 1 ELSE 0)
      BY <2>5
    <3>2. Times(m, b) = (IF new = b THEN 1 ELSE 0) + (IF l[2] = b THEN 1 ELSE 0)
      BY <2>2, <3>1
    <3>3. Times(l, b) = (IF cur = b THEN 1 ELSE 0) + (IF l[2] = b THEN 1 ELSE 0)
      BY <1>6, <2>1, <2>2, Zenon
    <3> HIDE DEF m, l
    <3> QED
      BY <3>2, <3>3
  <2>3. CASE l[1] # cur
    <3>1. Times(<<l[1], new>>, b) = (IF l[1] = b THEN 1 ELSE 0) + (IF new = b THEN 1 ELSE 0)
      BY <2>5
    <3>2. Times(m, b) = (IF l[1] = b THEN 1 ELSE 0) + (IF new = b THEN 1 ELSE 0)
      BY <2>3, <3>1
    <3>3. Times(l, b) = (IF l[1] = b THEN 1 ELSE 0) + (IF cur = b THEN 1 ELSE 0)
      <4>1. l[2] = cur
        BY <1>4, <2>3
      <4> QED
        BY <1>6, <2>1, <4>1, Zenon
    <3> HIDE DEF m, l
    <3> QED
      BY <3>2, <3>3
  <2> QED
    BY <2>2, <2>3
<1> HIDE DEF m
<1>9. /\ succ' = [succ EXCEPT ![new] = <<cur>>, ![p] = m]
      /\ branch' = [succ EXCEPT ![new] = <<cur>>, ![p] = m]
  <2>1. p \in AnyBlock /\ new # p
    BY <1>1, BlockFacts
  <2>2. \A q : [succ EXCEPT ![new] = q][p] = l
    BY <1>3, <2>1
  <2> QED
    BY <1>2, <1>3, <1>5, <2>1, <2>2
<1>10. <<cur>> \in Seq(AnyBlock)
  BY <1>1
<1>11. /\ succ' \in [AnyBlock -> Seq(AnyBlock)] /\ branch' = succ'
       /\ succ'[new] = <<cur>> /\ succ'[p] = m
       /\ \A a \in AnyBlock : a # new /\ a # p => succ'[a] = succ[a]
  BY <1>1, <1>3, <1>7, <1>9, <1>10, BlockFacts
<1> QED
  BY <1>7, <1>8, <1>11

(* And the lists of predecessors: new has p, and cur has new in place of   *)
(* one p.                                                                  *)
LEMMA SplitPreds ==
  ASSUME IInv, SplitEdge, NEW p, p = Head(preds), NEW new, new = nblocks + 1
  PROVE  /\ pred' \in [AnyBlock -> Seq(AnyBlock)]
         /\ pred'[new] = <<p>>
         /\ \A a : Times(pred'[cur], a) = Times(pred[cur], a) + (IF a = new THEN 1 ELSE 0) - (IF a = p THEN 1 ELSE 0)
         /\ \A b \in AnyBlock : b # new /\ b # cur => pred'[b] = pred[b]
<1> USE BlockFacts
<1> DEFINE j == IF succ[p][1] = cur THEN 1 ELSE 2
<1>1. /\ p \in Block /\ cur \in Block /\ new \in AnyBlock /\ new # p /\ new # cur
      /\ Times(pred[cur], p) # 0
  BY SplitEdgeFacts
<1>2. pred' = [pred EXCEPT ![cur] = RemoveFirst(@ \o <<new>>, p), ![new] = <<p>>]
  BY DEF SplitEdge
<1>3. pred \in [AnyBlock -> Seq(AnyBlock)]
  BY DEF IInv, TypeInv
<1> DEFINE l == pred[cur]
           o == <<new>>
<1>4. l \in Seq(AnyBlock) /\ o \in Seq(AnyBlock) /\ <<p>> \in Seq(AnyBlock)
  BY <1>1, <1>3
<1>5. \A b : Times(o, b) = IF b = new THEN 1 ELSE 0
  BY TimesOne
<1>6. pred' = [pred EXCEPT ![cur] = RemoveFirst(l \o o, p), ![new] = <<p>>]
  BY <1>1, <1>2, <1>3
<1> HIDE DEF l, o
<1>7. l \o o \in Seq(AnyBlock) /\ \A b : Times(l \o o, b) = Times(l, b) + Times(o, b)
  <2>1. l \o o \in Seq(AnyBlock)
    BY <1>4
  <2>2. \A b : Times(l \o o, b) = Times(l, b) + Times(o, b)
    BY <1>4, TimesCat
  <2> QED
    BY <2>1, <2>2
<1> DEFINE m == l \o o
<1>8. \E i \in 1 .. Len(m) : m[i] = p
  <2>1. Times(m, p) # 0
    <3>1. Times(m, p) = Times(l, p)
      <4>1. Times(l, p) \in Nat /\ Times(o, p) = 0
        BY <1>1, <1>4, <1>5, TimesFacts
      <4> QED
        BY <4>1, <1>7
    <3> QED
      BY <3>1, <1>1 DEF l
  <2>2. m \in Seq(AnyBlock)
    BY <1>7
  <2> HIDE DEF m
  <2> QED
    BY <2>1, <2>2, TimesFacts
<1>9. m \in Seq(AnyBlock) /\ \A b : Times(m, b) = Times(l, b) + (IF b = new THEN 1 ELSE 0)
  BY <1>5, <1>7
<1> HIDE DEF m
<1>10. /\ RemoveFirst(m, p) \in Seq(AnyBlock)
       /\ \A a : Times(RemoveFirst(m, p), a) = Times(m, a) - IF a = p THEN 1 ELSE 0
  BY <1>8, <1>9, RemoveFirstFacts
<1>11. pred' = [pred EXCEPT ![cur] = RemoveFirst(m, p), ![new] = <<p>>]
  BY <1>6 DEF m
<1>12. /\ pred' \in [AnyBlock -> Seq(AnyBlock)] /\ pred'[new] = <<p>> /\ pred'[cur] = RemoveFirst(m, p)
       /\ \A b \in AnyBlock : b # new /\ b # cur => pred'[b] = pred[b]
  BY <1>1, <1>3, <1>4, <1>10, <1>11
<1>13. ASSUME NEW a
       PROVE  Times(pred'[cur], a) = Times(l, a) + (IF a = new THEN 1 ELSE 0) - (IF a = p THEN 1 ELSE 0)
  <2>1. Times(pred'[cur], a) = Times(m, a) - IF a = p THEN 1 ELSE 0
    BY <1>10, <1>12
  <2>2. Times(m, a) = Times(l, a) + (IF a = new THEN 1 ELSE 0) /\ Times(l, a) \in Nat
    BY <1>4, <1>9, TimesFacts
  <2> QED
    BY <2>1, <2>2
<1> QED
  BY <1>12, <1>13 DEF l

(* Splitting an edge: p has a new block in place of one cur, cur has it in *)
(* place of one p, and the copies of the edge are in it.                   *)
LEMMA SplitStep == IInv /\ SplitEdge => IInv'
<1> SUFFICES ASSUME IInv, SplitEdge PROVE IInv'
  OBVIOUS
<1> USE BlockFacts
<1> DEFINE p   == Head(preds)
           new == nblocks + 1
           j   == IF succ[p][1] = cur THEN 1 ELSE 2
<1>1. /\ TypeInv /\ ListsAgree /\ GraphInv /\ WalkInv /\ OrderInv /\ input \in Inputs
      /\ nblocks' = new /\ copyInss' = [copyInss EXCEPT ![new] = CopiesFrom(p)]
      /\ UNCHANGED <<input, phis, cur, pending, block, ins, temp, code, pc>>
  BY DEF IInv, SplitEdge, TypeInv
<1>2. /\ p \in Block /\ cur \in Block /\ pc = "preds" /\ preds' \in Seq(Block)
      /\ \A r : Times(preds', r) = Times(preds, r) - IF r = p THEN 1 ELSE 0
  BY SplitEdgeFacts
<1>3. /\ Len(succ[p]) = 2 /\ j \in 1 .. 2 /\ succ[p][j] = cur
      /\ input.succ[p][j] = cur /\ ~Split(p, j) /\ Times(preds, p) = Times(succ[p], cur)
  BY SplitEdgeFacts
<1>4. /\ nblocks \in Nat /\ new \in AnyBlock /\ N =< nblocks /\ new # p /\ new # cur
      /\ succ[new] = <<>> /\ pred[new] = <<>> /\ copyInss[new] = <<>>
  BY SplitEdgeFacts DEF NoEdges
<1>5. /\ succ' \in [AnyBlock -> Seq(AnyBlock)] /\ branch' = succ'
      /\ succ'[new] = <<cur>>
      /\ Len(succ'[p]) = 2 /\ succ'[p][j] = new /\ \A k \in 1 .. 2 : k # j => succ'[p][k] = succ[p][k]
      /\ \A a \in AnyBlock : a # new /\ a # p => succ'[a] = succ[a]
  BY SplitLists
<1>6. \A b : Times(succ'[p], b) = Times(succ[p], b) + (IF b = new THEN 1 ELSE 0) - (IF b = cur THEN 1 ELSE 0)
  BY SplitLists
<1>7. /\ pred' \in [AnyBlock -> Seq(AnyBlock)] /\ pred'[new] = <<p>>
      /\ \A b \in AnyBlock : b # new /\ b # cur => pred'[b] = pred[b]
  BY SplitPreds
<1>8. \A a : Times(pred'[cur], a) = Times(pred[cur], a) + (IF a = new THEN 1 ELSE 0) - (IF a = p THEN 1 ELSE 0)
  BY SplitPreds
<1>9. CopiesFrom(p) = PhiCopies(p, cur) /\ PhiCopies(p, cur) \in Seq(Copy)
  <2>1. preds # <<>>
    BY DEF SplitEdge
  <2> QED
    BY <1>1, <1>2, <2>1, HeadFacts, PhiCopiesFacts
<1> HIDE DEF p, new, j
<1>10. /\ copyInss' \in [AnyBlock -> Seq(Copy)] /\ copyInss'[new] = PhiCopies(p, cur)
       /\ \A a \in AnyBlock : a # new => copyInss'[a] = copyInss[a]
  <2>1. copyInss \in [AnyBlock -> Seq(Copy)]
    BY <1>1 DEF TypeInv
  <2> QED
    BY <1>1, <1>4, <1>9, <2>1
<1>11. nblocks' \in N .. N + 2 * N /\ nblocks' = nblocks + 1 /\ new = nblocks + 1
  <2>1. new = nblocks + 1
    BY DEF new
  <2> QED
    BY <1>1, <1>4, <2>1
(* Elsewhere the lists of successors are as they were. *)
<1>12. ASSUME NEW a \in Block
       PROVE  /\ Len(succ'[a]) = Len(succ[a]) /\ a # new
              /\ \A k \in 1 .. Len(succ[a]) : a # p \/ k # j => succ'[a][k] = succ[a][k]
  <2>1. a \in AnyBlock /\ a # new
    BY <1>4, <1>11
  <2>2. CASE a = p
    BY <1>3, <1>5, <2>1, <2>2
  <2>3. CASE a # p
    <3>1. succ'[a] = succ[a]
      BY <1>5, <2>1, <2>3
    <3> QED
      BY <2>1, <2>3, <3>1
  <2> QED
    BY <2>2, <2>3
<1>13. TypeInv'
  BY <1>1, <1>5, <1>7, <1>10, <1>11 DEF TypeInv, MaxSucc
<1>14. ListsAgree'
  <2>1. ASSUME NEW a \in AnyBlock, NEW b \in AnyBlock PROVE Times(succ'[a], b) = Times(pred'[b], a)
    <3>1. /\ Times(succ[a], b) = Times(pred[b], a) /\ Times(succ[a], b) \in Nat
      <4>1. succ[a] \in Seq(AnyBlock)
        BY <1>1 DEF TypeInv
      <4> QED
        BY <1>1, <4>1, TimesFacts DEF ListsAgree
    <3>2. Times(succ'[a], b) = IF a = new THEN (IF b = cur THEN 1 ELSE 0)
                               ELSE IF a = p THEN Times(succ[a], b) + (IF b = new THEN 1 ELSE 0) - (IF b = cur THEN 1 ELSE 0)
                               ELSE Times(succ[a], b)
      <4>1. Times(<<cur>>, b) = IF b = cur THEN 1 ELSE 0
        BY TimesOne
      <4> QED
        BY <1>4, <1>5, <1>6, <4>1
    <3>3. Times(pred'[b], a) = IF b = new THEN (IF a = p THEN 1 ELSE 0)
                               ELSE IF b = cur THEN Times(pred[b], a) + (IF a = new THEN 1 ELSE 0) - (IF a = p THEN 1 ELSE 0)
                               ELSE Times(pred[b], a)
      <4>1. Times(<<p>>, a) = IF a = p THEN 1 ELSE 0
        BY TimesOne
      <4> QED
        BY <1>4, <1>7, <1>8, <4>1
    <3>4. (a = new \/ b = new) => Times(succ[a], b) = 0
      <4>1. a = new => Times(succ[a], b) = 0
        BY <1>4, TimesEmpty
      <4>2. b = new => Times(pred[b], a) = 0
        BY <1>4, TimesEmpty
      <4> QED
        BY <3>1, <4>1, <4>2
    <3> QED
      BY <1>4, <3>1, <3>2, <3>3, <3>4
  <2> QED
    BY <1>5, <2>1 DEF ListsAgree
<1>15. ASSUME NEW a \in Block, NEW k \in 1 .. Len(succ[a])
       PROVE  /\ succ[a][k] \in AnyBlock /\ EdgeLeads(a, k) /\ Walked(a, k)
              /\ a = p /\ k = j => Split(a, k)' /\ succ'[a][k] = new /\ input.succ[a][k] = cur
              /\ a # p \/ k # j => /\ succ'[a][k] = succ[a][k] /\ (Split(a, k)' <=> Split(a, k))
                                   /\ Split(a, k) => succ[a][k] # new /\ succ[a][k] # p
                                                     /\ succ[a][k] =< nblocks
                                                     /\ succ[succ[a][k]] = <<input.succ[a][k]>>
  <2>1. succ[a][k] \in AnyBlock /\ EdgeLeads(a, k) /\ Walked(a, k)
    BY <1>1, EdgeFacts DEF WalkInv
  <2>2. ASSUME a = p, k = j PROVE Split(a, k)' /\ succ'[a][k] = new /\ input.succ[a][k] = cur
    BY <1>3, <1>4, <1>5, <1>11, <2>2 DEF Split
  <2>3. ASSUME a # p \/ k # j
        PROVE  /\ succ'[a][k] = succ[a][k] /\ (Split(a, k)' <=> Split(a, k))
               /\ Split(a, k) => succ[a][k] # new /\ succ[a][k] # p
                                 /\ succ[a][k] =< nblocks
                                 /\ succ[succ[a][k]] = <<input.succ[a][k]>>
    <3>1. succ'[a][k] = succ[a][k]
      BY <1>12, <2>3
    <3>2. Split(a, k) => succ[a][k] =< nblocks /\ succ[succ[a][k]] = <<input.succ[a][k]>>
      BY <2>1 DEF EdgeLeads
    <3>3. Split(a, k) => succ[a][k] # new /\ succ[a][k] # p
      BY <1>2, <1>4, <1>11, <2>1, <3>2 DEF Split
    <3> QED
      BY <3>1, <3>2, <3>3 DEF Split
  <2> QED
    BY <2>1, <2>2, <2>3
<1>16. GraphInv'
  <2>1. \A a \in Block : Len(succ'[a]) = Len(input'.succ[a])
    BY <1>1, <1>12 DEF GraphInv
  <2>2. ASSUME NEW a \in Block, NEW k \in 1 .. Len(succ'[a]) PROVE EdgeLeads(a, k)'
    <3>1. k \in 1 .. Len(succ[a])
      BY <1>12
    <3>2. CASE a = p /\ k = j
      <4>1. Split(a, k)' /\ succ'[a][k] = new /\ input.succ[a][k] = cur
        BY <1>15, <3>1, <3>2
      <4>2. succ'[new] = <<cur>> /\ new =< nblocks'
        BY <1>4, <1>5, <1>11
      <4>3. succ'[a][k] =< nblocks' /\ succ'[succ'[a][k]] = <<input.succ[a][k]>>
        BY <4>1, <4>2, Zenon
      <4> QED
        BY <1>1, <4>1, <4>3 DEF EdgeLeads
    <3>3. CASE a # p \/ k # j
      <4>1. /\ succ'[a][k] = succ[a][k] /\ (Split(a, k)' <=> Split(a, k)) /\ succ[a][k] \in AnyBlock
            /\ EdgeLeads(a, k)
            /\ Split(a, k) => succ[a][k] # new /\ succ[a][k] # p
                              /\ succ[a][k] =< nblocks
                              /\ succ[succ[a][k]] = <<input.succ[a][k]>>
        BY <1>15, <3>1, <3>3
      <4>2. Split(a, k) => succ'[succ[a][k]] = succ[succ[a][k]] /\ succ[a][k] =< nblocks'
        <5> DEFINE q == succ[a][k]
        <5>1. q \in AnyBlock
          BY <4>1
        <5>2. Split(a, k) => q # new /\ q # p /\ q =< nblocks
          BY <4>1
        <5> HIDE DEF q
        <5>3. Split(a, k) => succ'[q] = succ[q]
          BY <1>5, <5>1, <5>2
        <5>4. Split(a, k) => q =< nblocks'
          BY <1>4, <1>11, <5>1, <5>2
        <5> QED
          BY <5>3, <5>4 DEF q
      <4> QED
        BY <1>1, <4>1, <4>2 DEF EdgeLeads
    <3> QED
      BY <3>2, <3>3
  <2>3. ASSUME NEW q \in N + 1 .. nblocks' PROVE OnSomeEdge(q)'
    <3>1. CASE q = new
      <4>1. j \in 1 .. Len(succ'[p])
        BY <1>3, <1>5
      <4> QED
        BY <1>2, <1>5, <3>1, <4>1 DEF OnSomeEdge
    <3>2. CASE q # new
      <4>1. q \in N + 1 .. nblocks
        BY <1>4, <1>11, <3>2
      <4>2. PICK a \in Block : \E k \in 1 .. Len(succ[a]) : succ[a][k] = q
        BY <1>1, <4>1 DEF GraphInv, OnSomeEdge
      <4>3. PICK k \in 1 .. Len(succ[a]) : succ[a][k] = q
        BY <4>2
      <4>4. a # p \/ k # j
        BY <1>2, <1>3, <4>1, <4>3
      <4>5. succ'[a][k] = q /\ k \in 1 .. Len(succ'[a])
        BY <1>12, <4>3, <4>4
      <4> QED
        BY <4>5 DEF OnSomeEdge
    <3> QED
      BY <3>1, <3>2
  <2>4. ASSUME NEW q \in AnyBlock, q > nblocks' PROVE NoEdges(q)'
    <3>1. q > nblocks /\ q # new /\ q # p /\ q # cur
      BY <1>2, <1>4, <1>11, <2>4
    <3>2. NoEdges(q)
      BY <1>1, <3>1 DEF GraphInv
    <3> QED
      BY <1>5, <1>7, <1>10, <3>1, <3>2 DEF NoEdges
  <2> QED
    BY <2>1, <2>2, <2>3, <2>4 DEF GraphInv
<1>17. \A r : Times(preds, r) \in Nat
  <2>1. preds \in Seq(Block)
    BY <1>1, <1>2 DEF WalkInv
  <2> QED
    BY <2>1, TimesFacts
<1>18. WalkInv'
  <2>1. ASSUME NEW a \in Block PROVE Collected(a)'
    <3>1. Collected(a) /\ copyInss'[a] = copyInss[a] /\ Len(succ'[a]) = Len(succ[a])
      BY <1>1, <1>10, <1>12 DEF WalkInv
    <3>2. a # p => Times(preds', a) = Times(preds, a)
      BY <1>2, <1>17
    <3>3. a = p => Len(succ[a]) # 1
      <4>1. Len(succ[p]) # 1
        BY <1>3
      <4> QED
        BY <4>1, Zenon
    <3> QED
      BY <1>1, <3>1, <3>2, <3>3 DEF Collected, Taken, PhiCopies
  <2>2. ASSUME NEW a \in Block, NEW k \in 1 .. Len(succ'[a]) PROVE Walked(a, k)'
    <3>1. k \in 1 .. Len(succ[a]) /\ Len(succ'[a]) = Len(succ[a])
      BY <1>12
    <3>2. CASE a = p /\ k = j
      <4>1. succ'[a][k] = new /\ input.succ[a][k] = cur /\ Len(succ[a]) # 1
        BY <1>15, <1>3, <3>1, <3>2, SMTT(30)
      <4>2. ~(new < cur)
        BY <1>2, <1>4, <1>11
      <4> QED
        BY <1>1, <1>2, <1>10, <3>1, <3>2, <4>1, <4>2 DEF Walked, PhiCopies
    <3>3. CASE a # p \/ k # j
      <4>1. /\ succ'[a][k] = succ[a][k] /\ (Split(a, k)' <=> Split(a, k)) /\ succ[a][k] \in AnyBlock
            /\ Walked(a, k)
            /\ Split(a, k) => succ[a][k] # new
        BY <1>15, <3>1, <3>3
      <4>2. Split(a, k) => copyInss'[succ[a][k]] = copyInss[succ[a][k]]
        BY <1>10, <4>1
      <4> QED
        BY <1>1, <3>1, <4>1, <4>2 DEF Walked, PhiCopies
    <3> QED
      BY <3>2, <3>3
  <2>3. ASSUME NEW a \in Block PROVE Left(a)'
    <3>1. Left(a) /\ Len(succ'[a]) = Len(succ[a])
      BY <1>1, <1>2, <1>12 DEF WalkInv
    <3>2. CASE a = p
      <4>1. Times(preds', a) = Times(preds, a) - 1 /\ Times(succ'[a], cur) = Times(succ[a], cur) - 1
        <5>1. Times(succ'[a], cur) = Times(succ[a], cur) + 0 - 1
          BY <1>4, <1>6, <3>2
        <5>2. Times(succ[a], cur) \in Nat
          BY <1>3, <1>17, <3>2
        <5> QED
          BY <1>2, <3>2, <5>1, <5>2
      <4>2. Len(succ[a]) # 1 /\ Times(preds, a) = Times(succ[a], cur)
        <5>1. Len(succ[p]) # 1 /\ Times(preds, p) = Times(succ[p], cur)
          BY <1>3
        <5> QED
          BY <3>2, <5>1, Zenon
      <4>3. Times(preds', a) = Times(succ'[a], cur)
        BY <4>1, <4>2
      <4> QED
        BY <1>1, <3>1, <4>2, <4>3 DEF Left
    <3>3. CASE a # p
      <4>1. succ'[a] = succ[a]
        BY <1>5, <1>12, <3>3
      <4>2. Times(preds', a) = Times(preds, a)
        BY <1>2, <1>17, <3>3
      <4> QED
        BY <1>1, <3>1, <4>1, <4>2 DEF Left
    <3> QED
      BY <3>2, <3>3
  <2> QED
    BY <1>1, <1>2, <2>1, <2>2, <2>3, Zenon DEF WalkInv
<1>19. OrderInv'
  BY <1>1, <1>2 DEF OrderInv
<1> QED
  BY <1>13, <1>14, <1>16, <1>18, <1>19 DEF IInv

-----------------------------------------------------------------------------
(* The order of the copies, and the end.                                   *)

(* Steps after the walk. *)
LEMMA WalkKept ==
  ASSUME TypeInv, ListsAgree, GraphInv, WalkInv, cur = N + 1, pc # "preds", pc' # "preds",
         pc' \in {"block", "preds", "next", "place", "done"},
         UNCHANGED <<input, phis, graph, cur, preds, copyInss>>, code' \in [AnyBlock -> Seq(Copy)]
  PROVE  TypeInv' /\ ListsAgree' /\ GraphInv' /\ WalkInv'
<1>1. UNCHANGED <<input, phis, succ, pred, branch, nblocks, cur, copyInss>>
  BY DEF graph
<1>2. TypeInv'
  BY <1>1 DEF TypeInv
<1>3. ListsAgree' /\ GraphInv'
  BY <1>1, GraphKept, Zenon
<1>4. \A p \in Block : Collected(p)'
  BY <1>1, ZenonT(60) DEF WalkInv, Collected, Taken, PhiCopies
<1>5. ASSUME NEW p \in Block, NEW k \in 1 .. Len(succ[p]) PROVE Walked(p, k)'
  <2>1. Walked(p, k)
    BY DEF WalkInv
  <2> QED
    BY <1>1, <2>1 DEF Walked, Split, PhiCopies
<1>6. WalkInv'
  BY <1>1, <1>4, <1>5 DEF WalkInv
<1> QED
  BY <1>2, <1>3, <1>6

(* The walk is over when the order begins. *)
LEMMA CurAtEnd ==
  ASSUME IInv, pc \in {"next", "place", "done"} \/ (pc = "block" /\ cur \notin Block)
  PROVE  cur = N + 1 /\ pc # "preds"
<1>1. cur \in 1 .. N + 1
  BY DEF IInv, TypeInv
<1> QED
  BY <1>1, BlockFacts DEF IInv, WalkInv

(* Before the order begins no block is done. *)
LEMMA StartStep == IInv /\ StartOrder => IInv'
<1> SUFFICES ASSUME IInv, StartOrder PROVE IInv'
  OBVIOUS
<1>1. /\ TypeInv /\ ListsAgree /\ GraphInv /\ WalkInv /\ OrderInv
      /\ pc = "block" /\ cur \notin Block /\ pc' = "next"
      /\ pending' = {b \in AnyBlock : copyInss[b] # <<>>}
      /\ UNCHANGED <<input, phis, graph, cur, preds, copyInss, code>>
  BY DEF IInv, StartOrder
<1>2. cur = N + 1
  BY <1>1, CurAtEnd
<1>3. TypeInv' /\ ListsAgree' /\ GraphInv' /\ WalkInv'
  BY <1>1, <1>2, WalkKept DEF TypeInv
<1>4. ASSUME NEW b \in AnyBlock, b \notin pending' PROVE SameCopies(code[b], copyInss[b])
  <2>1. copyInss[b] = <<>> /\ code[b] = <<>>
    BY <1>1, <1>4 DEF OrderInv
  <2> QED
    BY <2>1 DEF SameCopies
<1>5. OrderInv'
  BY <1>1, <1>4 DEF OrderInv, SameCopies
<1> QED
  BY <1>3, <1>5 DEF IInv

(* The copies that read what no other defines come first; those left to    *)
(* place are the others.                                                   *)
LEMMA OrderStep == \A b \in AnyBlock : IInv /\ OrderBlock(b) => IInv'
<1> SUFFICES ASSUME NEW b \in AnyBlock, IInv, OrderBlock(b) PROVE IInv'
  OBVIOUS
<1> DEFINE s == copyInss[b]
           D == Defs(copyInss[b])
<1>1. /\ TypeInv /\ ListsAgree /\ GraphInv /\ WalkInv /\ OrderInv
      /\ pc = "next" /\ pending' = pending \ {b} /\ block' = b /\ pc' = "place"
      /\ temp' = Reading(s, Value \ D) /\ ins' = Reading(s, D)
      /\ UNCHANGED <<input, phis, graph, cur, preds, copyInss, code>>
  BY DEF IInv, OrderBlock
<1>2. cur = N + 1
  BY <1>1, CurAtEnd
<1>3. TypeInv' /\ ListsAgree' /\ GraphInv' /\ WalkInv'
  BY <1>1, <1>2, WalkKept DEF TypeInv
<1>4. s \in Seq(Copy)
  BY <1>1 DEF TypeInv
<1> HIDE DEF s, D
<1>5. /\ temp' \in Seq(Copy) /\ ins' \in Seq(Copy)
      /\ Len(temp') + Len(ins') = Len(s) /\ ToSet(temp') \cup ToSet(ins') = ToSet(s)
  BY <1>1, <1>4, ReadingSplit
<1>6. Len(temp' \o ins') = Len(temp') + Len(ins') /\ ToSet(temp' \o ins') = ToSet(temp') \cup ToSet(ins')
  BY <1>5, SetFacts
<1>7. Placing'
  <2>1. SameCopies(temp' \o ins', s)
    BY <1>5, <1>6 DEF SameCopies
  <2>2. copyInss'[block'] = s
    BY <1>1 DEF s
  <2>3. SameCopies(temp \o ins, copyInss[block])'
    BY <2>1, <2>2 DEF SameCopies
  <2> QED
    BY <1>1, <1>5, <2>3 DEF Placing
<1>8. ASSUME NEW a \in AnyBlock, a \notin pending', a # b PROVE SameCopies(code[a], copyInss[a])
  BY <1>1, <1>8 DEF OrderInv
<1>9. OrderInv'
  BY <1>1, <1>7, <1>8 DEF OrderInv, SameCopies
<1> QED
  BY <1>3, <1>9 DEF IInv

(* Placing a copy keeps those placed and left the copies of the block. *)
LEMMA PlaceStep == IInv /\ PlaceCopy => IInv'
<1> SUFFICES ASSUME IInv, PlaceCopy PROVE IInv'
  OBVIOUS
<1> DEFINE c == Head(ins)
<1>1. /\ TypeInv /\ ListsAgree /\ GraphInv /\ WalkInv /\ OrderInv
      /\ pc = "place" /\ ins # <<>> /\ temp' = Placed(c) /\ ins' = Tail(ins)
      /\ UNCHANGED <<input, phis, graph, cur, preds, copyInss, pending, block, code, pc>>
  BY DEF IInv, PlaceCopy
<1>2. cur = N + 1
  BY <1>1, CurAtEnd
<1>3. TypeInv' /\ ListsAgree' /\ GraphInv' /\ WalkInv'
  BY <1>1, <1>2, WalkKept DEF TypeInv
<1>4. /\ temp \in Seq(Copy) /\ ins \in Seq(Copy) /\ block \in AnyBlock
      /\ SameCopies(temp \o ins, copyInss[block])
  BY <1>1 DEF OrderInv, Placing
<1>5. c \in Copy /\ ins' \in Seq(Copy) /\ ins = <<c>> \o ins'
  BY <1>1, <1>4
<1> HIDE DEF c
<1>6. temp' \in Seq(Copy) /\ Len(temp') = Len(temp) + 1 /\ ToSet(temp') = ToSet(temp) \cup {c}
  BY <1>1, <1>4, <1>5, PlacedFacts
<1>7. Len(ins) = 1 + Len(ins') /\ ToSet(ins) = {c} \cup ToSet(ins') /\ Len(ins') \in Nat
  <2> DEFINE o == <<c>>
  <2>1. o \in Seq(Copy) /\ Len(o) = 1 /\ ToSet(o) = {c}
    BY <1>5, SetOfOne
  <2>2. ins = o \o ins'
    BY <1>5
  <2> HIDE DEF o
  <2>3. Len(o \o ins') = Len(o) + Len(ins') /\ ToSet(o \o ins') = ToSet(o) \cup ToSet(ins')
    <3>1. o \in Seq(Copy) /\ ins' \in Seq(Copy)
      BY <1>5, <2>1
    <3> QED
      BY <3>1, SetFacts
  <2> QED
    BY <1>5, <2>1, <2>2, <2>3
<1>8. /\ Len(temp \o ins) = Len(temp) + Len(ins) /\ ToSet(temp \o ins) = ToSet(temp) \cup ToSet(ins)
      /\ Len(temp) \in Nat
  BY <1>4, SetFacts
<1>9. Len(temp' \o ins') = Len(temp') + Len(ins') /\ ToSet(temp' \o ins') = ToSet(temp') \cup ToSet(ins')
  <2>1. temp' \in Seq(Copy) /\ ins' \in Seq(Copy)
    BY <1>5, <1>6
  <2> QED
    BY <2>1, SetFacts
<1>10. Placing'
  <2>1. Len(temp' \o ins') = Len(temp \o ins)
    BY <1>6, <1>7, <1>8, <1>9
  <2>2. ToSet(temp' \o ins') = ToSet(temp \o ins)
    BY <1>6, <1>7, <1>8, <1>9
  <2>3. SameCopies(temp \o ins, copyInss[block])'
    BY <1>1, <1>4, <2>1, <2>2 DEF SameCopies
  <2> QED
    BY <1>1, <1>4, <1>5, <1>6, <2>3 DEF Placing
<1>11. OrderInv'
  BY <1>1, <1>10 DEF OrderInv, SameCopies
<1> QED
  BY <1>3, <1>11 DEF IInv

(* When all are placed, the block has its copies. *)
LEMMA InsertStep == IInv /\ InsertCopies => IInv'
<1> SUFFICES ASSUME IInv, InsertCopies PROVE IInv'
  OBVIOUS
<1>1. /\ TypeInv /\ ListsAgree /\ GraphInv /\ WalkInv /\ OrderInv
      /\ pc = "place" /\ ins = <<>> /\ pc' = "next" /\ code' = [code EXCEPT ![block] = temp]
      /\ UNCHANGED <<input, phis, graph, cur, preds, copyInss, pending>>
  BY DEF IInv, InsertCopies
<1>2. cur = N + 1
  BY <1>1, CurAtEnd
<1>3. /\ temp \in Seq(Copy) /\ block \in AnyBlock /\ SameCopies(temp \o ins, copyInss[block])
  BY <1>1 DEF OrderInv, Placing
<1>4. temp \o ins = temp
  BY <1>1, <1>3
<1>5. /\ code' \in [AnyBlock -> Seq(Copy)] /\ code'[block] = temp
      /\ \A a \in AnyBlock : a # block => code'[a] = code[a]
  BY <1>1, <1>3 DEF TypeInv
<1>6. TypeInv' /\ ListsAgree' /\ GraphInv' /\ WalkInv'
  BY <1>1, <1>2, <1>5, WalkKept
<1>7. ASSUME NEW a \in AnyBlock, a \notin pending PROVE SameCopies(code'[a], copyInss[a])
  <2>1. CASE a = block
    BY <1>3, <1>4, <1>5, <2>1
  <2>2. CASE a # block
    BY <1>1, <1>5, <1>7, <2>2 DEF OrderInv
  <2> QED
    BY <2>1, <2>2
<1>8. OrderInv'
  BY <1>1, <1>7 DEF OrderInv, SameCopies
<1> QED
  BY <1>6, <1>8 DEF IInv

(* When no block is left, every block has its copies. *)
LEMMA FinishStep == IInv /\ Finish => IInv'
<1> SUFFICES ASSUME IInv, Finish PROVE IInv'
  OBVIOUS
<1>1. /\ TypeInv /\ ListsAgree /\ GraphInv /\ WalkInv /\ OrderInv
      /\ pc = "next" /\ pending = {} /\ pc' = "done"
      /\ UNCHANGED <<input, phis, graph, cur, preds, copyInss, pending, code>>
  BY DEF IInv, Finish
<1>2. cur = N + 1
  BY <1>1, CurAtEnd
<1>3. TypeInv' /\ ListsAgree' /\ GraphInv' /\ WalkInv'
  BY <1>1, <1>2, WalkKept DEF TypeInv
<1>4. OrderInv'
  BY <1>1 DEF OrderInv, SameCopies
<1> QED
  BY <1>3, <1>4 DEF IInv

(* A step that changes nothing. *)
LEMMA StutterStep == IInv /\ UNCHANGED vars => IInv'
<1> SUFFICES ASSUME IInv, UNCHANGED vars PROVE IInv'
  OBVIOUS
<1>1. UNCHANGED <<input, phis, succ, pred, branch, nblocks, cur, preds, copyInss, pending, block, ins, temp, code, pc>>
  BY DEF vars, graph
<1>2. TypeInv' /\ OrderInv'
  BY <1>1, Zenon DEF IInv, TypeInv, OrderInv, Placing, SameCopies
<1>3. ListsAgree' /\ GraphInv'
  BY <1>1, GraphKept DEF IInv
<1>4. \A p \in Block : Collected(p)' /\ (Left(p)' <=> Left(p))
  BY <1>1, ZenonT(60) DEF IInv, WalkInv, Collected, Taken, PhiCopies, Left
<1>5. ASSUME NEW p \in Block, NEW k \in 1 .. Len(succ[p]) PROVE Walked(p, k)'
  <2>1. Walked(p, k)
    BY DEF IInv, WalkInv
  <2> QED
    BY <1>1, <2>1 DEF Walked, Split, PhiCopies
<1>6. WalkInv'
  BY <1>1, <1>4, <1>5 DEF IInv, WalkInv
<1> QED
  BY <1>2, <1>3, <1>6 DEF IInv

(* What IInv says of a run that has ended. *)
LEMMA IInvEdgesKept == IInv => EdgesKept
<1> SUFFICES ASSUME IInv PROVE EdgesKept
  OBVIOUS
<1> USE BlockFacts
<1>1. TypeInv /\ ListsAgree /\ GraphInv /\ WalkInv /\ OrderInv
  BY DEF IInv
<1>2. ASSUME pc = "done", NEW p \in Block, NEW k \in 1 .. Len(input.succ[p])
      PROVE  LET b == input.succ[p][k] IN
               /\ EndOf(p, k) = b
               /\ Len(OnEdge(p, k)) = Len(PhiCopies(p, b))
               /\ ToSet(OnEdge(p, k)) = ToSet(PhiCopies(p, b))
  <2> DEFINE b == input.succ[p][k]
             q == succ[p][k]
  <2>1. Len(succ[p]) = Len(input.succ[p]) /\ k \in 1 .. Len(succ[p])
    BY <1>1 DEF GraphInv
  <2>2. /\ q \in AnyBlock /\ b \in Block /\ EdgeLeads(p, k) /\ Walked(p, k) /\ Collected(p)
    BY <1>1, <2>1, EdgeFacts DEF WalkInv
  <2>3. cur = N + 1 /\ pending = {} /\ input \in Inputs
    BY <1>1, <1>2 DEF WalkInv, OrderInv, TypeInv
  <2>4. \A a \in AnyBlock : SameCopies(code[a], copyInss[a]) /\ code[a] \in Seq(Copy)
    BY <1>1, <1>2, <2>3 DEF OrderInv, TypeInv
  <2>5. Through(p, k) = q
    BY <1>1 DEF Through, ListsAgree
  <2>6. PhiCopies(p, b) \in Seq(Copy) /\ (input.phis[b] = <<>> => PhiCopies(p, b) = <<>>)
    BY <2>2, <2>3, PhiCopiesFacts
  <2>7. Len(code[p]) \in Nat /\ (copyInss[p] = <<>> => code[p] = <<>>)
    <3>1. code[p] \in Seq(Copy) /\ SameCopies(code[p], copyInss[p])
      BY <2>4
    <3>2. ASSUME copyInss[p] = <<>> PROVE code[p] = <<>>
      <4>1. Len(code[p]) = 0
        BY <3>1, <3>2 DEF SameCopies
      <4> QED
        BY <3>1, <4>1, EmptySeq
    <3> QED
      BY <3>1, <3>2
  <2>8. CASE q > N
    <3>1. /\ succ[q] = <<b>> /\ Len(succ[p]) # 1 /\ copyInss[q] = PhiCopies(p, b)
      BY <2>2, <2>8 DEF Split, EdgeLeads, Walked
    <3>2. EndOf(p, k) = b
      BY <1>1, <2>5, <2>8, <3>1 DEF EndOf, ListsAgree
    <3>3. copyInss[p] = <<>>
      BY <2>2, <3>1 DEF Collected
    <3>4. OnEdge(p, k) = <<>> \o code[q]
      BY <2>5, <2>7, <2>8, <3>3 DEF OnEdge
    <3>5. <<>> \o code[q] = code[q]
      BY <2>2, <2>4
    <3>6. SameCopies(code[q], PhiCopies(p, b))
      BY <2>2, <2>4, <3>1
    <3> QED
      BY <3>2, <3>4, <3>5, <3>6 DEF SameCopies
  <2>9. CASE ~(q > N)
    <3>1. q = b
      BY <2>2, <2>9 DEF Split, EdgeLeads
    <3>2. EndOf(p, k) = b
      BY <2>5, <2>9, <3>1 DEF EndOf
    <3>3. OnEdge(p, k) = code[p]
      <4>1. OnEdge(p, k) = code[p] \o <<>>
        BY <2>5, <2>9 DEF OnEdge
      <4> QED
        BY <2>4, <4>1
    <3>4. copyInss[p] = PhiCopies(p, b)
      <4>1. CASE Len(succ[p]) = 1
        <5>1. k = 1
          BY <2>1, <4>1
        <5>2. b < cur
          BY <2>2, <2>3
        <5> QED
          BY <2>2, <4>1, <5>1, <5>2 DEF Collected, Taken
      <4>2. CASE Len(succ[p]) # 1
        <5>1. q < cur
          BY <2>2, <2>3, <3>1
        <5>2. input.phis[b] = <<>>
          BY <2>2, <3>1, <4>2, <5>1 DEF Walked
        <5> QED
          BY <2>2, <2>6, <4>2, <5>2 DEF Collected
      <4> QED
        BY <4>1, <4>2
    <3>5. SameCopies(code[p], PhiCopies(p, b))
      BY <2>4, <3>4
    <3> QED
      BY <3>2, <3>3, <3>5 DEF SameCopies
  <2> QED
    BY <2>8, <2>9
<1> QED
  BY <1>1, <1>2 DEF EdgesKept

(* For every number of blocks and every set of functions whose blocks have *)
(* at most two successors, the invariant holds in every state of the pass. *)
THEOREM Invariant == Spec => []IInv
<1>1. IInv /\ [Next]_vars => IInv'
  BY SkipStep, BeginStep, CollectStep, SplitStep, RemoveStep, StartStep, OrderStep,
     PlaceStep, InsertStep, FinishStep, StutterStep DEF Next
<1> QED
  BY <1>1, InitIInv, PTL DEF Spec

(* When SSADestruction::pass is through, every edge of the function leads  *)
(* where it led and carries exactly the copies of its phis, in the block   *)
(* itself if it has one successor and in a block of its own otherwise, and *)
(* branch instructions and both edge lists agree.                          *)
THEOREM EveryEdgeKept == Spec => []EdgesKept
BY Invariant, IInvEdgesKept, PTL
=============================================================================

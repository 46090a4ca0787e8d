--------------------------- MODULE ColorGraph_proofs ---------------------------
(***************************************************************************)
(* Proofs about one round of the colouring allocator, on every             *)
(* interference graph and for any number of registers: interfering webs    *)
(* never share a register, bound webs keep theirs, pruning takes every web *)
(* once, and only webs that were chosen by cost are spilled.               *)
(***************************************************************************)
EXTENDS ColorGraph, FiniteSetTheorems, TLAPS

(* Colours are numbers, and NoColor is not one of them. *)
LEMMA ColorFacts ==
  /\ NoColor \notin Color
  /\ IntColor \subseteq Color /\ FloatColor \subseteq Color
  /\ Symbol \subseteq Web
  /\ \A c \in Color : c \notin FloatColor => c \in IntColor
  /\ Color = Symbol
  BY CountAssumption DEF NoColor, Color, IntColor, FloatColor, Symbol, Web, NColors

(* Sets of webs are finite. *)
LEMMA WebFinite ==
  /\ IsFiniteSet(Web) /\ Cardinality(Web) = NWebs
  /\ \A S \in SUBSET Web : IsFiniteSet(S) /\ Cardinality(S) \in Nat
<1>1. IsFiniteSet(Web) /\ Cardinality(Web) = NWebs
  BY FS_Interval, CountAssumption DEF Web
<1> QED
  BY <1>1, FS_Subset, FS_CardinalityType

(* Ascending(S) enumerates S: the rank of an element of S, the number of   *)
(* the smaller ones, is different for every element, so that every number  *)
(* below the size of S is the rank of one.                                 *)
LEMMA AscendingFacts ==
  ASSUME NEW S \in SUBSET Web
  PROVE  /\ DOMAIN Ascending(S) = 1 .. Cardinality(S)
         /\ \A k \in 1 .. Cardinality(S) : Ascending(S)[k] \in S
         /\ \A w \in S : \E k \in 1 .. Cardinality(S) : Ascending(S)[k] = w
         /\ \A j, k \in 1 .. Cardinality(S) : Ascending(S)[j] = Ascending(S)[k] => j = k
<1> DEFINE n       == Cardinality(S)
           less(w) == {x \in S : x < w}
           rank    == [w \in S |-> Cardinality(less(w)) + 1]
<1>1. IsFiniteSet(S) /\ n \in Nat /\ S \subseteq Int
  BY WebFinite DEF Web
<1>2. ASSUME NEW w \in S
      PROVE  /\ IsFiniteSet(less(w)) /\ Cardinality(less(w)) \in Nat
             /\ Cardinality(less(w)) < n
  <2>1. less(w) \in SUBSET S /\ w \notin less(w)
    BY <1>1
  <2>2. IsFiniteSet(less(w)) /\ Cardinality(less(w)) =< n /\ Cardinality(less(w)) # n
    BY <1>1, <2>1, FS_Subset
  <2> QED
    BY <1>1, <2>2, FS_CardinalityType
<1>3. rank \in [S -> 1 .. n]
  <2>1. \A w \in S : Cardinality(less(w)) + 1 \in 1 .. n
    BY <1>1, <1>2
  <2> HIDE DEF less, n
  <2> QED
    BY <2>1
<1>4. ASSUME NEW v \in S, NEW w \in S, v < w
      PROVE  rank[v] # rank[w]
  <2>1. \A x \in S : x < v => x < w
    BY <1>1, <1>4
  <2>2. v \in Int /\ ~(v < v)
    BY <1>1
  <2>3. less(v) \subseteq less(w) /\ v \in less(w) /\ v \notin less(v)
    BY <2>1, <2>2, <1>4
  <2>4. Cardinality(less(v)) # Cardinality(less(w))
    BY <1>2, <2>3, FS_Subset
  <2> QED
    BY <1>2, <2>4
<1>5. \A v, w \in S : rank[v] = rank[w] => v = w
  BY <1>1, <1>4
<1>6. rank \in Injection(S, 1 .. n)
  BY <1>3, <1>5 DEF Injection, IsInjective
<1>7. IsFiniteSet(1 .. n) /\ Cardinality(1 .. n) = n
  BY <1>1, FS_Interval
<1>8. rank \in Surjection(S, 1 .. n)
  BY <1>6, <1>7, FS_Injection
<1>9. ASSUME NEW k \in 1 .. n
      PROVE  Ascending(S)[k] \in S /\ rank[Ascending(S)[k]] = k
  <2>1. PICK w \in S : rank[w] = k
    BY <1>8 DEF Surjection
  <2>2. Cardinality({x \in S : x < w}) = k - 1
    BY <2>1, <1>2
  <2>3. Ascending(S)[k] = CHOOSE v \in S : Cardinality({x \in S : x < v}) = k - 1
    BY DEF Ascending, Ranked
  <2>4. Ascending(S)[k] \in S /\ Cardinality({x \in S : x < Ascending(S)[k]}) = k - 1
    BY <2>2, <2>3
  <2> QED
    BY <2>4, <1>1
<1>10. ASSUME NEW w \in S PROVE rank[w] \in 1 .. n /\ Ascending(S)[rank[w]] = w
  BY <1>3, <1>5, <1>9
<1>11. DOMAIN Ascending(S) = 1 .. n
  BY DEF Ascending
<1> HIDE DEF rank, n
<1> QED
  BY <1>9, <1>10, <1>11 DEF n

(* So does the list read backwards.                                        *)
LEMMA ReversedFacts ==
  ASSUME NEW S \in SUBSET Web
  PROVE  LET s == Reversed(Ascending(S)) IN
         /\ s \in Seq(S)
         /\ \A w \in S : \E k \in 1 .. Len(s) : s[k] = w
         /\ \A j, k \in 1 .. Len(s) : s[j] = s[k] => j = k
<1> DEFINE a == Ascending(S)
           n == Cardinality(S)
           s == Reversed(a)
<1>1. n \in Nat
  BY WebFinite
<1>2. /\ \A k \in 1 .. n : a[k] \in S
      /\ \A w \in S : \E k \in 1 .. n : a[k] = w
      /\ \A j, k \in 1 .. n : a[j] = a[k] => j = k
  BY AscendingFacts
<1>3. a = [k \in 1 .. n |-> a[k]]
  BY DEF Ascending
<1> HIDE DEF a, n
<1>4. a \in Seq(S) /\ Len(a) = n
  BY <1>1, <1>2, <1>3
<1>5. s = [k \in 1 .. n |-> a[n + 1 - k]]
  BY <1>4 DEF Reversed
<1>6. \A k \in 1 .. n : n + 1 - k \in 1 .. n /\ n + 1 - (n + 1 - k) = k
  BY <1>1
<1> HIDE DEF s
<1>7. s \in Seq(S) /\ Len(s) = n
  BY <1>1, <1>2, <1>5, <1>6
<1>8. ASSUME NEW w \in S PROVE \E k \in 1 .. n : s[k] = w
  <2>1. PICK k \in 1 .. n : a[k] = w
    BY <1>2
  <2> QED
    BY <2>1, <1>5, <1>6
<1>9. ASSUME NEW j \in 1 .. n, NEW k \in 1 .. n, s[j] = s[k] PROVE j = k
  <2>1. n + 1 - j = n + 1 - k
    BY <1>9, <1>2, <1>5, <1>6
  <2> QED
    BY <2>1, <1>1
<1> QED
  BY <1>7, <1>8, <1>9 DEF s, a

(* What Prune puts on the stack: the webs it leaves without neighbours, in *)
(* some order, and below them the web that is pruned.                      *)
LEMMA PruneFacts ==
  ASSUME NEW w \in Web, stk \in Seq(Web), list \in [Web -> SUBSET Web], Prune(w)
  PROVE  \E m \in Nat \ {0} :
           /\ stk' \in Seq(Web) /\ Len(stk') = m + Len(stk)
           /\ \A k \in 1 .. Len(stk) : stk'[m + k] = stk[k]
           /\ stk'[m] = w
           /\ \A k \in 1 .. m - 1 : stk'[k] \in Emptied(w)
           /\ \A x \in Emptied(w) : \E k \in 1 .. m - 1 : stk'[k] = x
           /\ \A j, k \in 1 .. m - 1 : stk'[j] = stk'[k] => j = k
<1> DEFINE E == Reversed(Ascending(Emptied(w)))
<1>1. Emptied(w) \in SUBSET Web
  BY DEF Emptied
<1>2. /\ E \in Seq(Emptied(w))
      /\ \A x \in Emptied(w) : \E k \in 1 .. Len(E) : E[k] = x
      /\ \A j, k \in 1 .. Len(E) : E[j] = E[k] => j = k
  BY <1>1, ReversedFacts
<1>3. stk' = E \o <<w>> \o stk
  BY DEF Prune
<1> HIDE DEF E
<1>4. E \in Seq(Web) /\ Len(E) \in Nat /\ Len(stk) \in Nat
  BY <1>1, <1>2
<1>5. /\ stk' \in Seq(Web) /\ Len(stk') = Len(E) + 1 + Len(stk)
      /\ \A k \in 1 .. Len(E) : stk'[k] = E[k]
      /\ stk'[Len(E) + 1] = w
      /\ \A k \in 1 .. Len(stk) : stk'[Len(E) + 1 + k] = stk[k]
  BY <1>3, <1>4
<1> DEFINE m == Len(E) + 1
<1>6. m \in Nat \ {0} /\ m - 1 = Len(E)
  BY <1>4
<1>7. \A k \in 1 .. Len(E) : E[k] \in Emptied(w)
  BY <1>2
<1>8. /\ \A k \in 1 .. m - 1 : stk'[k] \in Emptied(w)
      /\ \A x \in Emptied(w) : \E k \in 1 .. m - 1 : stk'[k] = x
      /\ \A j, k \in 1 .. m - 1 : stk'[j] = stk'[k] => j = k
  BY <1>2, <1>5, <1>6, <1>7
<1>9. /\ stk' \in Seq(Web) /\ Len(stk') = m + Len(stk)
      /\ \A k \in 1 .. Len(stk) : stk'[m + k] = stk[k]
      /\ stk'[m] = w
  BY <1>5
<1> HIDE DEF m
<1> QED
  BY <1>6, <1>8, <1>9

-----------------------------------------------------------------------------
(* The graph makeWebs and makeMatrix leave is loop free and symmetric, its *)
(* presets are a proper colouring, and bound webs have no other choice.    *)
LEMMA GraphInit == Init => GraphInv /\ BoundInv /\ ProperColoring
<1> SUFFICES ASSUME Init PROVE GraphInv /\ BoundInv /\ ProperColoring
  OBVIOUS
<1>1. PICK p \in Bound :
        /\ preset = [w \in Web |-> IF w \in Symbol THEN w ELSE p[w]]
        /\ \E f \in SUBSET {w \in Web \ Symbol : p[w] = NoColor} :
             /\ fpu = FloatColor \cup f \cup {w \in Web \ Symbol : p[w] \in FloatColor}
             /\ \E R \in SUBSET RangeEdges(p) :
                  LET E == R \cup RegisterEdges(p, fpu)
                  IN  matrix = [w \in Web |-> {x \in Web : <<w, x>> \in E \/ <<x, w>> \in E}]
  BY DEF Init
<1>2. PICK f \in SUBSET {w \in Web \ Symbol : p[w] = NoColor}, R \in SUBSET RangeEdges(p) :
        /\ fpu = FloatColor \cup f \cup {w \in Web \ Symbol : p[w] \in FloatColor}
        /\ matrix = [w \in Web |-> {x \in Web : \/ <<w, x>> \in R \cup RegisterEdges(p, fpu)
                                                \/ <<x, w>> \in R \cup RegisterEdges(p, fpu)}]
  BY <1>1
<1>3. p \in [Web \ Symbol -> (Color \ FBlocked) \cup {NoColor}]
  BY BoundAssumption
<1>4. ASSUME NEW w \in Web, NEW x \in Web, <<w, x>> \in R
      PROVE  /\ w \notin Symbol /\ x \notin Symbol /\ w # x
             /\ p[w] # NoColor => p[w] # p[x]
  BY <1>4, <1>2 DEF RangeEdges, Web
<1>5. ASSUME NEW w \in Web, NEW x \in Web, <<w, x>> \in RegisterEdges(p, fpu)
      PROVE  /\ w # x /\ w \in Symbol
             /\ x \in Symbol \/ (x \notin Symbol /\ p[x] # w)
  <2>1. CASE w \in Symbol /\ x \in Symbol /\ w # x
    BY <2>1
  <2>2. CASE w \in Symbol /\ x \notin Symbol /\ p[x] \notin {NoColor, w}
    BY <2>2
  <2>3. CASE w \in FBlocked /\ x \notin Symbol /\ x \in fpu
    BY <2>3, <1>3, ColorFacts, BlockedAssumption
  <2> QED
    BY <1>5, <2>1, <2>2, <2>3 DEF RegisterEdges
<1>6. ASSUME NEW w \in Web, NEW x \in matrix[w]
      PROVE  x \in Web /\ w # x /\ (preset[w] # NoColor => preset[w] # preset[x])
  <2>1. x \in Web
    BY <1>2
  <2>2. \/ <<w, x>> \in R \/ <<x, w>> \in R
        \/ <<w, x>> \in RegisterEdges(p, fpu) \/ <<x, w>> \in RegisterEdges(p, fpu)
    BY <1>2
  <2> QED
    BY <2>1, <2>2, <1>1, <1>4, <1>5
<1>7. \A w, x \in Web : x \in matrix[w] => w \in matrix[x]
  BY <1>2
<1>8. matrix \in [Web -> SUBSET Web]
  BY <1>2
<1>9. preset \in [Web -> Color \cup {NoColor}] /\ rreg = preset
  BY <1>1, <1>3, ColorFacts DEF Init
<1>10. list \in [Web -> SUBSET Web] /\ pc = "list"
  BY DEF Init
<1>11. ASSUME NEW w \in Web, preset[w] # NoColor PROVE preset[w] \in ColorsOf(w)
  <2>1. CASE w \in Symbol
    <3>1. w \in fpu <=> w \in FloatColor
      BY <2>1, <1>2
    <3> QED
      BY <2>1, <3>1, <1>1, ColorFacts DEF ColorsOf
  <2>2. CASE w \notin Symbol
    <3>1. w \in fpu <=> p[w] \in FloatColor
      BY <2>2, <1>2, <1>1, <1>11, ColorFacts
    <3> QED
      BY <2>2, <3>1, <1>1, <1>9, <1>11, ColorFacts DEF ColorsOf
  <2> QED
    BY <2>1, <2>2
<1>12. GraphInv
  BY <1>6, <1>7, <1>8, <1>9, <1>10 DEF GraphInv
<1>13. ProperColoring
  BY <1>6, <1>9, <1>11 DEF ProperColoring
<1>14. ASSUME NEW w \in Web \ Virtual, NEW c \in ColorsOf(w) \ {preset[w]}
       PROVE  c \in matrix[w]
  <2>1. c \in Color /\ c \in Web /\ c \in Symbol
    BY ColorFacts DEF ColorsOf
  <2>2. CASE w \in Symbol
    <3>1. <<w, c>> \in RegisterEdges(p, fpu)
      BY <2>1, <2>2, <1>1 DEF RegisterEdges
    <3> QED
      BY <2>1, <3>1, <1>2
  <2>3. CASE w \notin Symbol
    <3>1. p[w] # NoColor /\ p[w] # c
      BY <2>3, <1>1 DEF Virtual
    <3>2. <<c, w>> \in RegisterEdges(p, fpu)
      BY <2>1, <2>3, <3>1 DEF RegisterEdges
    <3> QED
      BY <2>1, <3>2, <1>2
  <2> QED
    BY <2>2, <2>3
<1>15. BoundInv
  BY <1>1, <1>9, <1>14, ColorFacts DEF BoundInv
<1> QED
  BY <1>12, <1>13, <1>15

(* Only Assign changes a colour, to one that no neighbour has. *)
LEMMA GraphStep ==
  ASSUME GraphInv, ProperColoring, [Next]_vars
  PROVE  GraphInv' /\ ProperColoring'
<1> USE DEF input
<1>1. CASE MakeList
  <2>1. /\ list' = [w \in Web |-> list[w] \cup matrix[w]] /\ removeList' = list'
        /\ matrix' = matrix /\ rreg' = rreg /\ fpu' = fpu
    BY <1>1 DEF MakeList
  <2>2. list' \in [Web -> SUBSET Web] /\ \A w \in Web : matrix[w] \subseteq list'[w]
    BY <2>1 DEF GraphInv
  <2> QED
    BY <2>1, <2>2 DEF GraphInv, ProperColoring, ColorsOf
<1>2. ASSUME NEW w \in Web, Prune(w), pc # "list",
             UNCHANGED <<matrix, fpu, removeList, rreg>>
      PROVE  GraphInv' /\ ProperColoring'
  <2>1. list' \in [Web -> SUBSET Web]
    BY <1>2 DEF Prune, GraphInv
  <2> QED
    BY <1>2, <2>1 DEF GraphInv, ProperColoring, ColorsOf
<1>3. CASE PruneLow
  BY <1>2, <1>3 DEF PruneLow
<1>4. CASE PruneCheapest
  <2>1. PICK w \in Candidates : Prune(w)
    BY <1>4 DEF PruneCheapest
  <2> QED
    BY <1>2, <1>4, <2>1 DEF PruneCheapest, Candidates
<1>5. CASE Assign
  <2>1. /\ pc = "assign" /\ pc' = pc /\ matrix' = matrix /\ fpu' = fpu /\ list' = list
        /\ removeList' = removeList
    BY <1>5 DEF Assign
  <2> DEFINE r == Head(stk)
  <2>2. PICK c \in FreeColors(r) : rreg' = [rreg EXCEPT ![r] = c]
    BY <1>5 DEF Assign
  <2>3. c \in ColorsOf(r) /\ c \in Color /\ c # NoColor /\ \A x \in removeList[r] : rreg[x] # c
    BY <2>2, ColorFacts DEF FreeColors, ColorsOf
  <2>4. rreg' \in [Web -> Color \cup {NoColor}]
    BY <2>2, <2>3 DEF GraphInv
  <2>5. \A w \in Web : rreg'[w] = IF w = r THEN c ELSE rreg[w]
    BY <2>2 DEF GraphInv
  <2>6. ASSUME NEW w \in Web, NEW x \in matrix[w], rreg'[w] # NoColor, rreg'[x] # NoColor
        PROVE  rreg'[w] # rreg'[x]
    <3>1. x \in Web /\ x # w /\ w \in matrix[x]
      BY DEF GraphInv
    <3>2. CASE w = r
      BY <3>1, <3>2, <2>1, <2>3, <2>5 DEF GraphInv
    <3>3. CASE x = r
      BY <3>1, <3>3, <2>1, <2>3, <2>5 DEF GraphInv
    <3>4. CASE w # r /\ x # r
      BY <3>1, <3>4, <2>5, <2>6 DEF ProperColoring
    <3> QED
      BY <3>2, <3>3, <3>4
  <2>7. \A w \in Web : rreg'[w] # NoColor => rreg'[w] \in ColorsOf(w)
    BY <2>3, <2>5 DEF ProperColoring
  <2>8. ProperColoring'
    BY <2>1, <2>6, <2>7 DEF ProperColoring, ColorsOf
  <2> QED
    BY <2>1, <2>4, <2>8 DEF GraphInv
<1>6. CASE PushIsolated \/ KeepHigh \/ PruneRound \/ StartAssign \/ Spill \/ Finish
  <2>1. /\ UNCHANGED <<matrix, fpu, list, removeList, rreg>> /\ pc # "list"
    BY <1>6 DEF PushIsolated, KeepHigh, PruneRound, StartAssign, Spill, Finish
  <2> QED
    BY <2>1 DEF GraphInv, ProperColoring, ColorsOf
<1>7. CASE UNCHANGED vars
  BY <1>7 DEF vars, GraphInv, ProperColoring, ColorsOf
<1> QED
  BY <1>1, <1>3, <1>4, <1>5, <1>6, <1>7 DEF Next


-----------------------------------------------------------------------------
(* The graph and the presets never change. *)
LEMMA InputKept ==
  ASSUME [Next]_vars
  PROVE  /\ matrix' = matrix /\ fpu' = fpu /\ preset' = preset /\ Virtual' = Virtual
         /\ \A w : ColorsOf(w)' = ColorsOf(w)
<1>1. UNCHANGED input
  BY DEF Next, vars, MakeList, PushIsolated, PruneLow, KeepHigh, PruneRound, PruneCheapest,
         StartAssign, Assign, Spill, Finish
<1> QED
  BY <1>1 DEF input, Virtual, ColorsOf

(* A stack without repetitions is as long as the set of its elements. *)
LEMMA StackSize ==
  ASSUME NEW s \in Seq(Web), \A j, k \in 1 .. Len(s) : s[j] = s[k] => j = k
  PROVE  Cardinality({s[k] : k \in 1 .. Len(s)}) = Len(s)
<1> DEFINE f == [k \in 1 .. Len(s) |-> s[k]]
           R == {s[k] : k \in 1 .. Len(s)}
<1>1. f \in Injection(1 .. Len(s), R) /\ f \in Surjection(1 .. Len(s), R)
  BY DEF Injection, IsInjective, Surjection
<1>2. Len(s) \in Nat /\ IsFiniteSet(1 .. Len(s)) /\ Cardinality(1 .. Len(s)) = Len(s)
  BY FS_Interval
<1> QED
  BY <1>1, <1>2, FS_Surjection

(* StackInv holds initially, and every step keeps it.                      *)
LEMMA StackInit == Init => StackInv
<1> SUFFICES ASSUME Init PROVE StackInv
  OBVIOUS
<1>1. stk = <<>> /\ pc = "list" /\ list = [w \in Web |-> {}]
  BY DEF Init
<1> QED
  BY <1>1 DEF StackInv

(* A web and those that lose their last neighbour with it go on the stack; *)
(* whatever stays keeps one.                                               *)
LEMMA StackPrune ==
  ASSUME GraphInv, StackInv, NEW w \in Web, list[w] # {}, pc \in {"prune", "candidates"}, Prune(w),
         UNCHANGED <<matrix, removeList, pc>>
  PROVE  StackInv' /\ OnStack' = OnStack \cup {w} \cup Emptied(w)
<1>1. stk \in Seq(Web) /\ list \in [Web -> SUBSET Web] /\ matrix \in [Web -> SUBSET Web]
  BY DEF StackInv, GraphInv
<1>2. PICK m \in Nat \ {0} :
           /\ stk' \in Seq(Web) /\ Len(stk') = m + Len(stk)
           /\ \A k \in 1 .. Len(stk) : stk'[m + k] = stk[k]
           /\ stk'[m] = w
           /\ \A k \in 1 .. m - 1 : stk'[k] \in Emptied(w)
           /\ \A x \in Emptied(w) : \E k \in 1 .. m - 1 : stk'[k] = x
           /\ \A j, k \in 1 .. m - 1 : stk'[j] = stk'[k] => j = k
  BY <1>1, PruneFacts
<1>3. Len(stk) \in Nat
  BY <1>1
<1>4. ASSUME NEW k \in 1 .. Len(stk')
      PROVE  \/ k \in 1 .. m - 1
             \/ k = m
             \/ k - m \in 1 .. Len(stk) /\ stk'[k] = stk[k - m]
  <2>1. k \in Nat /\ (k < m \/ k = m \/ k > m)
    BY <1>2, <1>3
  <2>2. CASE k > m
    <3>1. k - m \in 1 .. Len(stk) /\ m + (k - m) = k
      BY <2>1, <2>2, <1>2, <1>3
    <3> QED
      BY <3>1, <1>2
  <2> QED
    BY <2>1, <2>2, <1>2
<1>5. /\ \A x \in OnStack : list[x] = {}
      /\ \A x \in Web \ OnStack : list[x] # {} /\ list[x] = matrix[x] \ OnStack
  BY DEF StackInv
<1>6. w \notin OnStack
  BY <1>5
<1>7. Emptied(w) \subseteq Web \ OnStack /\ w \notin Emptied(w)
  BY <1>1, <1>5, <1>6 DEF Emptied, GraphInv
<1>8. OnStack' = OnStack \cup {w} \cup Emptied(w)
  <2>1. ASSUME NEW k \in 1 .. Len(stk') PROVE stk'[k] \in OnStack \cup {w} \cup Emptied(w)
    BY <1>4, <1>2 DEF OnStack
  <2>2. ASSUME NEW k \in 1 .. Len(stk) PROVE \E j \in 1 .. Len(stk') : stk'[j] = stk[k]
    <3>1. m + k \in 1 .. Len(stk')
      BY <1>2, <1>3
    <3> QED
      BY <3>1, <1>2
  <2>3. m \in 1 .. Len(stk') /\ 1 .. m - 1 \subseteq 1 .. Len(stk')
    BY <1>2, <1>3
  <2>4. OnStack' \subseteq OnStack \cup {w} \cup Emptied(w)
    BY <2>1 DEF OnStack
  <2>5. OnStack \subseteq OnStack'
    BY <2>2 DEF OnStack
  <2>6. w \in OnStack' /\ Emptied(w) \subseteq OnStack'
    BY <2>3, <1>2 DEF OnStack
  <2> QED
    BY <2>4, <2>5, <2>6
<1>9. ASSUME NEW j \in 1 .. Len(stk'), NEW k \in 1 .. Len(stk'), stk'[j] = stk'[k] PROVE j = k
  <2>1. \A i \in 1 .. Len(stk) : stk[i] \in OnStack
    BY DEF OnStack
  <2>2. CASE j \in 1 .. m - 1
    BY <2>1, <2>2, <1>2, <1>4, <1>6, <1>7, <1>9
  <2>3. CASE j = m
    BY <2>1, <2>3, <1>2, <1>4, <1>6, <1>7, <1>9
  <2>4. CASE j - m \in 1 .. Len(stk) /\ stk'[j] = stk[j - m]
    <3>1. k - m \in 1 .. Len(stk) /\ stk'[k] = stk[k - m]
      BY <2>1, <2>4, <1>2, <1>4, <1>6, <1>7, <1>9
    <3>2. j - m = k - m
      BY <2>4, <3>1, <1>9 DEF StackInv
    <3> QED
      BY <3>2, <1>2, <1>3
  <2> QED
    BY <2>2, <2>3, <2>4, <1>4
<1>10. list' = [x \in Web |-> IF x = w THEN {} ELSE list[x] \ {w}]
  BY DEF Prune
<1>11. ASSUME NEW x \in OnStack' PROVE list'[x] = {}
  <2>1. x \in Web
    BY <1>8, <1>7, <1>1, <1>11 DEF OnStack
  <2> QED
    BY <2>1, <1>5, <1>8, <1>10, <1>11 DEF Emptied
<1>12. ASSUME NEW x \in Web \ OnStack' PROVE list'[x] # {} /\ list'[x] = matrix[x] \ OnStack'
  <2>1. x \notin OnStack /\ x # w /\ x \notin Emptied(w)
    BY <1>8, <1>12
  <2>2. list'[x] = (matrix[x] \ OnStack) \ {w}
    BY <2>1, <1>5, <1>10
  <2>3. ASSUME NEW y \in Emptied(w) PROVE y \notin matrix[x]
    <3>1. y \in Web \ OnStack /\ list[y] = {w} /\ list[y] = matrix[y] \ OnStack
      BY <1>5, <1>7 DEF Emptied
    <3>2. x \notin matrix[y]
      BY <2>1, <3>1
    <3> QED
      BY <3>1, <3>2 DEF GraphInv
  <2>4. ASSUME list'[x] = {} PROVE FALSE
    <3>1. list[x] = {w}
      BY <2>1, <2>4, <1>5, <1>10
    <3>2. w \in matrix[x]
      BY <2>1, <3>1, <1>5
    <3>3. x \in matrix[w]
      BY <3>2 DEF GraphInv
    <3>4. x \in list[w]
      BY <2>1, <3>3, <1>5, <1>6
    <3> QED
      BY <2>1, <3>1, <3>4 DEF Emptied
  <2> QED
    BY <2>2, <2>3, <2>4, <1>8
<1> QED
  BY <1>2, <1>8, <1>9, <1>11, <1>12 DEF StackInv

(* The other actions leave the stack alone, or fill, pop or empty it.      *)
LEMMA StackStep ==
  ASSUME GraphInv, StackInv, [Next]_vars
  PROVE  StackInv'
<1>0. matrix' = matrix
  BY InputKept
<1>1. CASE MakeList
  <2>1. /\ list' = [w \in Web |-> list[w] \cup matrix[w]] /\ removeList' = list'
        /\ stk' = stk /\ pc = "list" /\ pc' = "isolated"
    BY <1>1 DEF MakeList
  <2>2. list' = matrix
    BY <2>1 DEF StackInv, GraphInv
  <2> QED
    BY <2>1, <2>2, <1>0 DEF StackInv
<1>2. CASE PushIsolated
  <2> DEFINE S == {w \in Web : list[w] = {}}
  <2>1. /\ stk' = Reversed(Ascending(S)) /\ pc = "isolated" /\ pc' = "prune"
        /\ list' = list /\ removeList' = removeList
    BY <1>2 DEF PushIsolated
  <2>2. /\ stk' \in Seq(S)
        /\ \A w \in S : \E k \in 1 .. Len(stk') : stk'[k] = w
        /\ \A j, k \in 1 .. Len(stk') : stk'[j] = stk'[k] => j = k
    BY <2>1, ReversedFacts
  <2>3. stk' \in Seq(Web) /\ OnStack' = S
    <3>1. \A k \in 1 .. Len(stk') : stk'[k] \in S
      BY <2>2
    <3>2. stk' \in Seq(Web)
      BY <2>2
    <3> QED
      BY <3>1, <3>2, <2>2 DEF OnStack
  <2>4. list = matrix
    BY <2>1 DEF StackInv
  <2>5. \A w \in Web : matrix[w] \cap S = {}
    BY <2>4 DEF GraphInv
  <2>6. /\ \A w \in S : list[w] = {}
        /\ \A w \in Web \ S : list[w] # {} /\ list[w] = matrix[w] \ S
    BY <2>4, <2>5
  <2>7. removeList = matrix
    BY <2>1 DEF StackInv
  <2> HIDE DEF S
  <2> QED
    BY <2>1, <2>2, <2>3, <2>6, <2>7, <1>0 DEF StackInv
<1>3. CASE PruneLow
  BY <1>3, <1>0, StackPrune DEF PruneLow, LowDegree
<1>4. CASE PruneCheapest
  <2>1. PICK w \in Candidates : Prune(w)
    BY <1>4 DEF PruneCheapest
  <2> QED
    BY <2>1, <1>4, <1>0, StackPrune DEF PruneCheapest, Candidates
<1>5. CASE StartAssign
  <2>1. /\ pc = "candidates" /\ pc' = "assign" /\ Len(stk) >= NWebs
        /\ UNCHANGED <<list, removeList, stk>>
    BY <1>5 DEF StartAssign
  <2>2. stk \in Seq(Web) /\ OnStack \subseteq Web
    BY DEF StackInv, OnStack
  <2>3. Cardinality(OnStack) = Len(stk)
    BY StackSize DEF StackInv, OnStack
  <2>4. Cardinality(OnStack) =< NWebs /\ (Cardinality(OnStack) = NWebs => OnStack = Web)
    BY <2>2, WebFinite, FS_Subset
  <2>5. OnStack = Web
    BY <2>1, <2>2, <2>3, <2>4, CountAssumption
  <2> QED
    BY <2>1, <2>5, <1>0 DEF StackInv
<1>6. CASE Assign \/ Spill
  <2>1. /\ stk' = Tail(stk) /\ stk # <<>> /\ pc = "assign" /\ pc' = pc /\ UNCHANGED <<list, removeList>>
    BY <1>6 DEF Assign, Spill
  <2>2. stk \in Seq(Web)
    BY DEF StackInv
  <2>3. /\ stk' \in Seq(Web) /\ Len(stk') = Len(stk) - 1
        /\ \A k \in 1 .. Len(stk') : stk'[k] = stk[k + 1] /\ k + 1 \in 1 .. Len(stk)
    BY <2>1, <2>2
  <2>4. ASSUME NEW j \in 1 .. Len(stk'), NEW k \in 1 .. Len(stk'), stk'[j] = stk'[k] PROVE j = k
    <3>1. j + 1 = k + 1
      BY <2>3, <2>4 DEF StackInv
    <3> QED
      BY <3>1
  <2> QED
    BY <2>1, <2>3, <2>4, <1>0 DEF StackInv
<1>7. CASE KeepHigh \/ PruneRound \/ Finish \/ UNCHANGED vars
  <2>1. UNCHANGED <<list, removeList, stk>>
    BY <1>7 DEF KeepHigh, PruneRound, Finish, vars
  <2>2. \/ pc' = pc
        \/ pc = "prune" /\ pc' = "candidates"
        \/ pc = "assign" /\ pc' \in {"modifyCode", "genSpillCode"}
    BY <1>7 DEF KeepHigh, PruneRound, Finish, vars
  <2>3. OnStack' = OnStack
    BY <2>1 DEF OnStack
  <2>4. CASE pc' = pc
    BY <2>1, <2>3, <2>4, <1>0 DEF StackInv
  <2>5. CASE pc = "prune" /\ pc' = "candidates"
    BY <2>1, <2>3, <2>5, <1>0 DEF StackInv
  <2>6. CASE pc = "assign" /\ pc' \in {"modifyCode", "genSpillCode"}
    BY <2>1, <2>3, <2>6, <1>0 DEF StackInv
  <2> QED
    BY <2>2, <2>4, <2>5, <2>6
<1> QED
  BY <1>1, <1>2, <1>3, <1>4, <1>5, <1>6, <1>7 DEF Next

(* A web whose turn has come is not on the stack any more. *)
LEMMA TailFacts ==
  ASSUME StackInv, stk # <<>>, stk' = Tail(stk)
  PROVE  /\ Head(stk) \in Web /\ Head(stk) = stk[1] /\ 1 \in 1 .. Len(stk)
         /\ Head(stk) \in OnStack /\ Head(stk) \notin OnStack' /\ OnStack' \subseteq OnStack
         /\ Len(stk) \in Nat /\ Len(stk') = Len(stk) - 1
         /\ \A k \in 1 .. Len(stk') : k + 1 \in 1 .. Len(stk) /\ stk'[k] = stk[k + 1]
<1>1. stk \in Seq(Web)
  BY DEF StackInv
<1>2. /\ Head(stk) \in Web /\ Head(stk) = stk[1] /\ 1 \in 1 .. Len(stk)
      /\ Len(stk) \in Nat /\ Len(stk') = Len(stk) - 1
      /\ \A k \in 1 .. Len(stk') : k + 1 \in 1 .. Len(stk) /\ stk'[k] = stk[k + 1]
  BY <1>1
<1>3. ASSUME NEW k \in 1 .. Len(stk') PROVE stk'[k] # Head(stk) /\ stk'[k] \in OnStack
  <2>1. k + 1 # 1
    BY <1>2
  <2> QED
    BY <2>1, <1>2 DEF StackInv, OnStack
<1> QED
  BY <1>2, <1>3 DEF OnStack

(* Every step keeps ColorInv: a colour goes to the web at the top only.    *)
LEMMA ColorStep ==
  ASSUME GraphInv, StackInv, ColorInv, [Next]_vars
  PROVE  ColorInv'
<1>0. preset' = preset /\ Virtual' = Virtual /\ StackInv'
  BY InputKept, StackStep
<1>1. CASE Assign \/ Spill
  <2>1. /\ stk # <<>> /\ stk' = Tail(stk) /\ pc = "assign" /\ pc' = pc
        /\ \A w \in Web : w # Head(stk) => rreg'[w] = rreg[w]
    BY <1>1 DEF Assign, Spill, GraphInv
  <2>2. \A w \in OnStack' : w \in OnStack /\ w \in Web /\ w # Head(stk)
    BY <2>1, TailFacts DEF OnStack, StackInv
  <2> QED
    BY <2>1, <2>2, <1>0 DEF ColorInv
<1>2. CASE ~(Assign \/ Spill)
  <2>1. rreg' = rreg /\ spill' = spill
    BY <1>2 DEF Next, vars, MakeList, PushIsolated, PruneLow, KeepHigh, PruneRound, PruneCheapest,
         StartAssign, Finish
  <2>2. CASE pc \in {"list", "isolated", "prune", "candidates"}
    <3>1. rreg' = preset'
      BY <2>1, <2>2, <1>0 DEF ColorInv
    <3>2. \A w \in Virtual : preset[w] = NoColor
      BY DEF Virtual
    <3> QED
      BY <3>1, <3>2, <2>1, <2>2, <1>0 DEF ColorInv
  <2>3. CASE pc \in {"assign", "modifyCode", "genSpillCode"}
    <3>1. stk' = stk /\ pc' \in {"assign", "modifyCode", "genSpillCode"}
      BY <1>2, <2>3 DEF Next, vars, MakeList, PushIsolated, PruneLow, KeepHigh, PruneRound,
           PruneCheapest, StartAssign, Finish
    <3> QED
      BY <3>1, <2>1, <1>0 DEF ColorInv, OnStack
  <2> QED
    BY <2>2, <2>3 DEF StackInv
<1> QED
  BY <1>1, <1>2

-----------------------------------------------------------------------------
(* A bound web finds its own register free and no other one. *)
LEMMA PresetStep ==
  ASSUME GraphInv, BoundInv, StackInv, ProperColoring, PresetKept, [Next]_vars
  PROVE  BoundInv' /\ PresetKept'
<1>0. /\ matrix' = matrix /\ preset' = preset /\ Virtual' = Virtual
      /\ \A w : ColorsOf(w)' = ColorsOf(w)
  BY InputKept
<1>1. BoundInv'
  BY <1>0 DEF BoundInv
<1>2. ASSUME NEW w \in Web \ Virtual, removeList = matrix PROVE FreeColors(w) = {preset[w]}
  <2>1. rreg[w] = preset[w] /\ preset[w] # NoColor /\ preset[w] \in ColorsOf(w)
    BY DEF PresetKept, ProperColoring, Virtual
  <2>2. \A x \in matrix[w] : rreg[x] # preset[w]
    <3>1. \A x \in matrix[w] : rreg[x] # NoColor => rreg[w] # rreg[x]
      BY <2>1 DEF ProperColoring
    <3> QED
      BY <2>1, <3>1
  <2>3. ASSUME NEW c \in ColorsOf(w) \ {preset[w]} PROVE c \in matrix[w] /\ rreg[c] = c
    <3>1. c \in Color /\ c \in Web /\ c \in matrix[w] /\ preset[c] = c
      BY ColorFacts DEF BoundInv, ColorsOf
    <3>2. c # NoColor
      BY <3>1, ColorFacts
    <3> QED
      BY <3>1, <3>2 DEF PresetKept, Virtual
  <2> QED
    BY <1>2, <2>1, <2>2, <2>3 DEF FreeColors
<1>3. CASE Assign
  <2>1. Head(stk) \in Web /\ removeList = matrix
    BY <1>3, TailFacts DEF Assign, StackInv
  <2>2. PICK c \in FreeColors(Head(stk)) : rreg' = [rreg EXCEPT ![Head(stk)] = c]
    BY <1>3 DEF Assign
  <2>3. spill' = spill
    BY <1>3 DEF Assign
  <2>4. Head(stk) \notin Virtual => c = preset[Head(stk)]
    BY <2>1, <2>2, <1>2
  <2> QED
    BY <2>2, <2>3, <2>4, <1>0, <1>1 DEF PresetKept, GraphInv
<1>4. CASE Spill
  <2>1. Head(stk) \in Web /\ removeList = matrix
    BY <1>4, TailFacts DEF Spill, StackInv
  <2>2. rreg' = rreg /\ spill' = spill \cup {Head(stk)} /\ FreeColors(Head(stk)) = {}
    BY <1>4 DEF Spill
  <2>3. Head(stk) \in Virtual
    BY <2>1, <2>2, <1>2
  <2> QED
    BY <2>2, <2>3, <1>0, <1>1 DEF PresetKept
<1>5. CASE ~(Assign \/ Spill)
  <2>1. rreg' = rreg /\ spill' = spill
    BY <1>5 DEF Next, vars, MakeList, PushIsolated, PruneLow, KeepHigh, PruneRound, PruneCheapest,
         StartAssign, Finish
  <2> QED
    BY <2>1, <1>0, <1>1 DEF PresetKept
<1> QED
  BY <1>3, <1>4, <1>5

-----------------------------------------------------------------------------
(* Pruning w keeps the counts of the webs below it, and gives w the count  *)
(* of its list if nothing below it can have a colour.                      *)
LEMMA LowPrune ==
  ASSUME GraphInv, StackInv, LowInv, NEW w \in Web, list[w] # {}, pc \in {"prune", "candidates"},
         Prune(w), UNCHANGED <<matrix, fpu, preset, removeList>>,
         pc' = pc,
         \/ lowDegree' = lowDegree /\ pc = "candidates"
         \/ lowDegree' = lowDegree \cup {w} /\ pc = "prune" /\ w \in Virtual
            /\ Cardinality(list[w]) < Cardinality(ColorsOf(w))
  PROVE  LowInv'
<1>0. Virtual' = Virtual /\ \A x : ColorsOf(x)' = ColorsOf(x)
  BY DEF Virtual, ColorsOf
<1>1. stk \in Seq(Web) /\ list \in [Web -> SUBSET Web] /\ matrix \in [Web -> SUBSET Web]
  BY DEF StackInv, GraphInv
<1>2. PICK m \in Nat \ {0} :
           /\ stk' \in Seq(Web) /\ Len(stk') = m + Len(stk)
           /\ \A k \in 1 .. Len(stk) : stk'[m + k] = stk[k]
           /\ stk'[m] = w
           /\ \A k \in 1 .. m - 1 : stk'[k] \in Emptied(w)
  BY <1>1, PruneFacts
<1>3. Len(stk) \in Nat /\ Len(stk') \in Nat
  BY <1>1, <1>2
<1>4. StackInv' /\ OnStack' = OnStack \cup {w} \cup Emptied(w)
  BY StackPrune
<1>5. /\ \A x \in OnStack : list[x] = {}
      /\ \A x \in Web \ OnStack : list[x] # {} /\ list[x] = matrix[x] \ OnStack
  BY DEF StackInv
<1>6. w \notin OnStack /\ \A x \in Emptied(w) : x \in Web \ OnStack /\ x # w /\ list[x] = {w}
  BY <1>1, <1>5 DEF Emptied, GraphInv
<1>7. lowDegree' \subseteq Virtual' /\ lowDegree' \subseteq OnStack'
  BY <1>0, <1>4 DEF LowInv
<1>8. ASSUME NEW x \in OnStack' \ Virtual, pc = "prune" PROVE matrix[x] \subseteq OnStack'
  <2>1. w \in Virtual
    BY <1>8
  <2>2. CASE x \in OnStack
    BY <2>2, <1>4, <1>8 DEF LowInv
  <2>3. CASE x \in Emptied(w)
    <3>1. matrix[x] \ OnStack = {w}
      BY <2>3, <1>5, <1>6
    <3> QED
      BY <3>1, <1>4
  <2> QED
    BY <2>1, <2>2, <2>3, <1>4, <1>8
<1>9. ASSUME NEW k \in 1 .. Len(stk), k + m \in 1 .. Len(stk')
      PROVE  Blockers(k + m)' = Blockers(k)
  <2>1. ASSUME NEW x PROVE (\E j \in k + m + 1 .. Len(stk') : stk'[j] = x)
                           <=> (\E j \in k + 1 .. Len(stk) : stk[j] = x)
    <3>1. ASSUME NEW j \in k + m + 1 .. Len(stk'), stk'[j] = x
          PROVE  \E i \in k + 1 .. Len(stk) : stk[i] = x
      <4>1. j - m \in k + 1 .. Len(stk) /\ j - m \in 1 .. Len(stk) /\ m + (j - m) = j
        BY <1>2, <1>3
      <4> QED
        BY <4>1, <3>1, <1>2
    <3>2. ASSUME NEW j \in k + 1 .. Len(stk), stk[j] = x
          PROVE  \E i \in k + m + 1 .. Len(stk') : stk'[i] = x
      <4>1. m + j \in k + m + 1 .. Len(stk') /\ j \in 1 .. Len(stk)
        BY <1>2, <1>3
      <4> QED
        BY <4>1, <3>2, <1>2
    <3> QED
      BY <3>1, <3>2
  <2>2. stk'[k + m] = stk[k]
    BY <1>2
  <2> QED
    BY <2>1, <2>2, <1>0 DEF Blockers
<1>10. Blockers(m)' = matrix[w] \ (Virtual \cap OnStack)
  <2>1. ASSUME NEW x PROVE (\E j \in m + 1 .. Len(stk') : stk'[j] = x) <=> x \in OnStack
    <3>1. ASSUME NEW j \in m + 1 .. Len(stk'), stk'[j] = x PROVE x \in OnStack
      <4>1. j - m \in 1 .. Len(stk) /\ m + (j - m) = j
        BY <1>2, <1>3
      <4> QED
        BY <4>1, <3>1, <1>2 DEF OnStack
    <3>2. ASSUME NEW j \in 1 .. Len(stk), stk[j] = x PROVE \E i \in m + 1 .. Len(stk') : stk'[i] = x
      <4>1. m + j \in m + 1 .. Len(stk')
        BY <1>2, <1>3
      <4> QED
        BY <4>1, <3>2, <1>2
    <3> QED
      BY <3>1, <3>2 DEF OnStack
  <2> QED
    BY <2>1, <1>0, <1>2 DEF Blockers
<1>11. ASSUME NEW k \in 1 .. Len(stk'), stk'[k] \in lowDegree'
       PROVE  Cardinality(Blockers(k)') < Cardinality(ColorsOf(stk'[k]))
  <2>1. CASE k \in 1 .. m - 1
    <3>1. stk'[k] \in Emptied(w)
      BY <2>1, <1>2
    <3>2. stk'[k] \notin lowDegree'
      BY <3>1, <1>6 DEF LowInv
    <3> QED
      BY <3>2, <1>11
  <2>2. CASE k = m
    <3>1. pc = "prune" /\ w \in Virtual /\ Cardinality(list[w]) < Cardinality(ColorsOf(w))
      BY <2>2, <1>2, <1>6, <1>11 DEF LowInv
    <3>2. ASSUME NEW x \in matrix[w], x \in OnStack PROVE x \in Virtual
      <4>1. w \in matrix[x] /\ x \in Web
        BY <1>1, <3>2 DEF GraphInv
      <4> QED
        BY <4>1, <3>1, <3>2, <1>6 DEF LowInv
    <3>3. Blockers(m)' = list[w]
      BY <3>2, <1>5, <1>6, <1>10
    <3> QED
      BY <3>1, <3>3, <2>2, <1>2
  <2>3. CASE k > m
    <3>1. k - m \in 1 .. Len(stk) /\ (k - m) + m = k /\ m + (k - m) = k
      BY <2>3, <1>2, <1>3
    <3>2. stk'[k] = stk[k - m] /\ Blockers(k)' = Blockers(k - m)
      BY <3>1, <1>2, <1>9
    <3>3. stk[k - m] \in OnStack
      BY <3>1 DEF OnStack
    <3>4. stk[k - m] \in lowDegree
      BY <3>2, <3>3, <1>6, <1>11
    <3> QED
      BY <3>1, <3>2, <3>4 DEF LowInv
  <2> QED
    BY <2>1, <2>2, <2>3, <1>2
<1>12. ASSUME NEW k \in 1 .. Len(stk') PROVE ColorsOf(stk[k])' = ColorsOf(stk'[k])
  BY DEF ColorsOf
<1> QED
  BY <1>0, <1>7, <1>8, <1>11, <1>12 DEF LowInv

(* Every step keeps LowInv: a bound web is not below the neighbours it     *)
(* blocks.                                                                 *)
LEMMA LowStep ==
  ASSUME GraphInv, StackInv, ColorInv, LowInv, [Next]_vars
  PROVE  LowInv'
<1>0. /\ matrix' = matrix /\ fpu' = fpu /\ preset' = preset /\ Virtual' = Virtual
      /\ \A w : ColorsOf(w)' = ColorsOf(w)
  BY InputKept
<1>1. CASE PruneLow
  <2>1. /\ LowDegree(cur) /\ Prune(cur) /\ cur \in Web /\ lowDegree' = lowDegree \cup {cur}
        /\ pc = "prune" /\ pc' = pc /\ removeList' = removeList
    BY <1>1 DEF PruneLow
  <2>2. cur \in Virtual
    BY <2>1 DEF LowDegree, ColorInv, Virtual
  <2> QED
    BY <2>1, <2>2, <1>0, LowPrune DEF LowDegree
<1>2. CASE PruneCheapest
  <2>1. PICK w \in Candidates : Prune(w)
    BY <1>2 DEF PruneCheapest
  <2>2. /\ pc = "candidates" /\ pc' = pc /\ removeList' = removeList /\ lowDegree' = lowDegree
    BY <1>2 DEF PruneCheapest
  <2> QED
    BY <2>1, <2>2, <1>0, LowPrune DEF Candidates
<1>3. CASE MakeList \/ PushIsolated
  <2>1. lowDegree = {} /\ lowDegree' = {} /\ pc' \in {"isolated", "prune"}
    BY <1>3 DEF MakeList, PushIsolated, LowInv
  <2>2. CASE MakeList
    BY <2>1, <2>2 DEF MakeList, LowInv
  <2>3. CASE PushIsolated
    <3> DEFINE S == {w \in Web : list[w] = {}}
    <3>1. stk' = Reversed(Ascending(S)) /\ list = matrix
      BY <2>3 DEF PushIsolated, StackInv
    <3>c. stk' \in Seq(S)
      BY <3>1, ReversedFacts
    <3> HIDE DEF S
    <3>2. \A k \in 1 .. Len(stk') : stk'[k] \in S
      BY <3>c
    <3>3. \A w \in OnStack' : matrix[w] = {}
      BY <3>1, <3>2 DEF OnStack, S
    <3> QED
      BY <2>1, <3>3, <1>0 DEF LowInv
  <2> QED
    BY <1>3, <2>2, <2>3
<1>4. CASE Assign \/ Spill
  <2>1. stk # <<>> /\ stk' = Tail(stk) /\ lowDegree' = lowDegree /\ pc = "assign" /\ pc' = pc
    BY <1>4 DEF Assign, Spill
  <2>2. ASSUME NEW k \in 1 .. Len(stk') PROVE Blockers(k)' = Blockers(k + 1)
    <3>1. /\ Len(stk) \in Nat /\ Len(stk') = Len(stk) - 1
          /\ \A j \in 1 .. Len(stk') : j + 1 \in 1 .. Len(stk) /\ stk'[j] = stk[j + 1]
      BY <2>1, TailFacts
    <3>2. ASSUME NEW x PROVE (\E j \in k + 1 .. Len(stk') : stk'[j] = x)
                             <=> (\E j \in k + 1 + 1 .. Len(stk) : stk[j] = x)
      <4>1. ASSUME NEW j \in k + 1 .. Len(stk'), stk'[j] = x
            PROVE  \E i \in k + 1 + 1 .. Len(stk) : stk[i] = x
        <5>1. j \in 1 .. Len(stk') /\ j + 1 \in k + 1 + 1 .. Len(stk)
          BY <3>1
        <5> QED
          BY <5>1, <4>1, <3>1
      <4>2. ASSUME NEW j \in k + 1 + 1 .. Len(stk), stk[j] = x
            PROVE  \E i \in k + 1 .. Len(stk') : stk'[i] = x
        <5>1. j - 1 \in k + 1 .. Len(stk') /\ j - 1 \in 1 .. Len(stk') /\ (j - 1) + 1 = j
          BY <3>1
        <5> QED
          BY <5>1, <4>2, <3>1
      <4> QED
        BY <4>1, <4>2
    <3> QED
      BY <3>1, <3>2, <1>0 DEF Blockers
  <2>3. \A k \in 1 .. Len(stk') : k + 1 \in 1 .. Len(stk) /\ stk'[k] = stk[k + 1]
    BY <2>1, TailFacts
  <2>4. ASSUME NEW k \in 1 .. Len(stk'), stk'[k] \in lowDegree'
        PROVE  Cardinality(Blockers(k)') < Cardinality(ColorsOf(stk[k])')
    <3>1. ColorsOf(stk[k])' = ColorsOf(stk[k + 1])
      BY <2>3, <1>0 DEF ColorsOf
    <3> QED
      BY <3>1, <2>1, <2>2, <2>3, <2>4 DEF LowInv
  <2> QED
    BY <2>1, <2>4, <1>0 DEF LowInv
<1>5. CASE KeepHigh \/ PruneRound \/ StartAssign \/ Finish \/ UNCHANGED vars
  <2>1. stk' = stk /\ lowDegree' = lowDegree
    BY <1>5 DEF KeepHigh, PruneRound, StartAssign, Finish, vars
  <2>2. \/ pc' = pc
        \/ pc = "prune" /\ pc' = "candidates"
        \/ pc' \in {"assign", "modifyCode", "genSpillCode"}
    BY <1>5 DEF KeepHigh, PruneRound, StartAssign, Finish, vars
  <2>3. \A k : Blockers(k)' = Blockers(k) /\ ColorsOf(stk[k])' = ColorsOf(stk[k])
    BY <2>1, <1>0 DEF Blockers, ColorsOf
  <2>4. OnStack' = OnStack
    BY <2>1 DEF OnStack
  <2> QED
    BY <2>1, <2>2, <2>3, <2>4, <1>0 DEF LowInv
<1> QED
  BY <1>1, <1>2, <1>3, <1>4, <1>5 DEF Next

(* Fewer neighbours with a colour than colours: one is free. *)
LEMMA LowFree ==
  ASSUME GraphInv, StackInv, ColorInv, LowInv, stk # <<>>, pc = "assign", Head(stk) \in lowDegree
  PROVE  FreeColors(Head(stk)) # {}
<1> DEFINE r == Head(stk)
           C == ColorsOf(r)
           B == Blockers(1)
<1>1. /\ stk \in Seq(Web) /\ r \in Web /\ r = stk[1] /\ 1 \in 1 .. Len(stk)
      /\ \A k \in 2 .. Len(stk) : stk[k] \in OnStack
      /\ removeList = matrix
  BY DEF StackInv, OnStack
<1>2. Cardinality(B) < Cardinality(C)
  BY <1>1 DEF LowInv
<1>3. B \in SUBSET Web /\ C \in SUBSET Web
  BY <1>1, ColorFacts DEF Blockers, GraphInv, ColorsOf
<1> SUFFICES ASSUME FreeColors(r) = {} PROVE FALSE
  OBVIOUS
<1>4. ASSUME NEW c \in C PROVE \E x \in B : rreg[x] = c
  <2>1. PICK x \in matrix[r] : rreg[x] = c
    BY <1>1 DEF FreeColors
  <2>2. rreg[x] # NoColor
    BY <2>1, ColorFacts DEF ColorsOf
  <2>3. \A k \in 1 + 1 .. Len(stk) : stk[k] = x => x \notin Virtual
    BY <1>1, <2>2 DEF ColorInv
  <2> QED
    BY <1>1, <2>1, <2>3 DEF Blockers
<1> HIDE DEF r, C, B
<1> DEFINE T == {x \in B : rreg[x] \in C}
           f == [x \in T |-> rreg[x]]
<1>5. f \in Surjection(T, C)
  BY <1>4 DEF Surjection
<1>6. T \in SUBSET Web /\ T \in SUBSET B
  BY <1>3
<1> HIDE DEF T, f
<1>7. Cardinality(C) =< Cardinality(T)
  BY <1>5, <1>6, WebFinite, FS_Surjection
<1>8. Cardinality(T) =< Cardinality(B)
  BY <1>3, <1>6, WebFinite, FS_Subset
<1> QED
  BY <1>2, <1>3, <1>6, <1>7, <1>8, WebFinite

(* So no web of low degree is spilled.                                     *)
LEMMA CandidatesStep ==
  ASSUME GraphInv, StackInv, ColorInv, LowInv, OnlyCandidatesSpill, [Next]_vars
  PROVE  OnlyCandidatesSpill'
<1>1. CASE Spill
  <2>1. Head(stk) \notin lowDegree
    BY <1>1, LowFree DEF Spill
  <2> QED
    BY <2>1, <1>1 DEF Spill, OnlyCandidatesSpill
<1>2. CASE PruneLow
  BY <1>2 DEF PruneLow, OnlyCandidatesSpill, ColorInv
<1>3. CASE ~(Spill \/ PruneLow)
  <2>1. spill' = spill /\ lowDegree' = lowDegree
    BY <1>3 DEF Next, vars, MakeList, PushIsolated, KeepHigh, PruneRound, PruneCheapest,
         StartAssign, Assign, Finish
  <2> QED
    BY <2>1 DEF OnlyCandidatesSpill
<1> QED
  BY <1>1, <1>2, <1>3

-----------------------------------------------------------------------------
(* The inductive invariant.                                                *)
LEMMA InvInit == Init => IInv
<1> SUFFICES ASSUME Init PROVE IInv
  OBVIOUS
<1>1. stk = <<>> /\ pc = "list" /\ rreg = preset /\ spill = {} /\ lowDegree = {}
  BY DEF Init
<1>2. ColorInv /\ LowInv /\ PresetKept /\ OnlyCandidatesSpill
  BY <1>1 DEF ColorInv, LowInv, PresetKept, OnlyCandidatesSpill, OnStack
<1> QED
  BY <1>2, GraphInit, StackInit DEF IInv

(* It holds in every reachable state.                                      *)
LEMMA Invariance == Spec => []IInv
<1>1. IInv /\ [Next]_vars => IInv'
  BY GraphStep, StackStep, ColorStep, PresetStep, LowStep, CandidatesStep DEF IInv
<1> QED
  BY InvInit, <1>1, PTL DEF Spec

(* Two interfering webs never have one register. *)
THEOREM ColoringCorrect == Spec => []ProperColoring
  BY Invariance, PTL DEF IInv

(* A web bound to a register comes out with that register. *)
THEOREM BindingsKept == Spec => []PresetKept
  BY Invariance, PTL DEF IInv

(* Nothing is spilled that was pruned for its low degree. *)
THEOREM SpillsJustified == Spec => []OnlyCandidatesSpill
  BY Invariance, PTL DEF IInv

(* The stack holds the webs that are pruned, each once, and in the end all. *)
THEOREM PruningComplete == Spec => []PrunedOnce
<1>1. IInv => PrunedOnce
  <2> SUFFICES ASSUME IInv PROVE PrunedOnce
    OBVIOUS
  <2>1. StackInv
    BY DEF IInv
  <2>2. stk \in Seq(Web) /\ OnStack \subseteq Web
    BY <2>1 DEF StackInv, OnStack
  <2>3. Cardinality(OnStack) = Len(stk)
    BY <2>1, StackSize DEF StackInv, OnStack
  <2>4. CASE pc \in {"prune", "candidates"}
    <3>1. OnStack = {w \in Web : list[w] = {}}
      BY <2>1, <2>2, <2>4 DEF StackInv
    <3> QED
      BY <2>3, <2>4, <3>1 DEF PrunedOnce, OnStack
  <2>5. CASE pc \notin {"prune", "candidates"}
    BY <2>1, <2>5 DEF PrunedOnce, StackInv
  <2> QED
    BY <2>4, <2>5
<1> QED
  BY Invariance, <1>1, PTL
=============================================================================

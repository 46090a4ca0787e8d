---------------------------- MODULE DeadCode_proofs ----------------------------
(***************************************************************************)
(* Proofs about dead code elimination, for every number of blocks, every   *)
(* control flow graph and every function: it deletes nothing that is used, *)
(* keeps what is essential, redirects a branch to where every path from it *)
(* led first, keeps the predecessors of the phis it keeps and never looks  *)
(* into a block it has deleted.  All of that holds whatever blocks the     *)
(* frontiers name when the pass begins: Init gives them the frontiers of   *)
(* Mem2reg or any member of Stale.                                         *)
(*                                                                         *)
(* The invariant IInv has two halves: the graph as it is (EdgesInv,        *)
(* ShapeInv, ExitsInv) and how it differs from the graph when marking      *)
(* began (WasInv, SettledInv).  MarkInv joins the rounds: what was marked  *)
(* in one bounds what can be marked in the next.                           *)
(***************************************************************************)
EXTENDS DeadCode, FiniteSetTheorems, TLAPS

-----------------------------------------------------------------------------
(* Paths, postdominators and the first marked blocks after a branch.       *)
(* Paths are met only through the sets they generate: Reaching(e, S, A) is *)
(* the least set that holds S and what leads into it, outside A, so a claim*)
(* about every path is proved by naming a closed set.                      *)

Edges == [Block -> SUBSET Block]

(* Reaching(e, S, A) holds S, is closed, and is the least such set.        *)
LEMMA ReachingFacts ==
  ASSUME NEW e \in Edges, NEW S \in SUBSET Block, NEW A \in SUBSET Block
  PROVE  /\ Reaching(e, S, A) \subseteq Block \ A
         /\ S \ A \subseteq Reaching(e, S, A)
         /\ \A c \in Block \ A : e[c] \cap Reaching(e, S, A) # {} => c \in Reaching(e, S, A)
  BY DEF Reaching, Edges

LEMMA ReachingLeast ==
  ASSUME NEW e \in Edges, NEW S, NEW A, NEW R \in SUBSET (Block \ A), S \ A \subseteq R,
         \A c \in Block \ A : e[c] \cap R # {} => c \in R
  PROVE  Reaching(e, S, A) \subseteq R
  BY DEF Reaching

(* A block that reaches S is in S or has a successor that reaches S.       *)
LEMMA ReachingStep ==
  ASSUME NEW e \in Edges, NEW S \in SUBSET Block, NEW A \in SUBSET Block, NEW b \in Reaching(e, S, A)
  PROVE  b \in S \/ e[b] \cap Reaching(e, S, A) # {}
<1> DEFINE X == Reaching(e, S, A)
           R == {c \in X : c \in S \/ e[c] \cap X # {}}
<1>1. /\ X \subseteq Block \ A /\ S \ A \subseteq X
      /\ \A c \in Block \ A : e[c] \cap X # {} => c \in X
  BY ReachingFacts
<1>2. R \in SUBSET (Block \ A) /\ S \ A \subseteq R
      /\ \A c \in Block \ A : e[c] \cap R # {} => c \in R
  BY <1>1
<1> HIDE DEF R, X
<1>3. Reaching(e, S, A) \subseteq R
  BY <1>2, ReachingLeast
<1> QED
  BY <1>3 DEF R, X

(* The more is avoided, the less reaches S.                                *)
LEMMA ReachingMonotone ==
  ASSUME NEW e \in Edges, NEW S \in SUBSET Block,
         NEW A \in SUBSET Block, NEW B \in SUBSET Block, A \subseteq B
  PROVE  Reaching(e, S, B) \subseteq Reaching(e, S, A)
<1> DEFINE R == Reaching(e, S, A) \ B
<1>1. /\ Reaching(e, S, A) \subseteq Block \ A
      /\ S \ A \subseteq Reaching(e, S, A)
      /\ \A c \in Block \ A : e[c] \cap Reaching(e, S, A) # {} => c \in Reaching(e, S, A)
  BY ReachingFacts
<1>2. /\ R \in SUBSET (Block \ B) /\ S \ B \subseteq R
      /\ \A c \in Block \ B : e[c] \cap R # {} => c \in R
  BY <1>1
<1> HIDE DEF R
<1>3. Reaching(e, S, B) \subseteq R
  BY <1>2, ReachingLeast
<1> QED
  BY <1>3 DEF R

-----------------------------------------------------------------------------
(* Postdominators: a graph e on the blocks B, from all of which an exit    *)
(* in X is reached, with its postdominators pd.                            *)
Flow(e, X, B, pd) ==
  /\ e \in Edges /\ B \in SUBSET Block /\ X \in SUBSET B
  /\ \A b \in Block : e[b] \subseteq B /\ (b \notin B => e[b] = {})
  /\ \A b \in X : e[b] = {}
  /\ \A b \in B : b \in Reaching(e, X, {})
  /\ pd = [b \in Block |-> {x \in B : b \notin Reaching(e, X, {x})}]

(* A block postdominates itself, and what postdominates it properly        *)
(* postdominates its successors; with one successor, the converse holds.   *)
LEMMA PostDomFacts ==
  ASSUME NEW e, NEW X, NEW B, NEW pd, Flow(e, X, B, pd)
  PROVE  /\ \A b \in B : b \in pd[b]
         /\ \A b \in Block : pd[b] \subseteq B
         /\ \A c \in B : \A d \in e[c] : \A m \in pd[c] \ {c} : m \in pd[d]
         /\ \A c \in B : \A d \in e[c] : e[c] = {d} => pd[d] \subseteq pd[c]
<1>1. /\ e \in Edges /\ B \in SUBSET Block /\ X \in SUBSET Block /\ \A b \in X : e[b] = {}
      /\ \A b \in Block : e[b] \subseteq B
      /\ \A b \in Block : pd[b] = {x \in B : b \notin Reaching(e, X, {x})}
  BY DEF Flow
<1>2. ASSUME NEW b \in B PROVE b \in pd[b]
  <2>1. {b} \in SUBSET Block
    BY <1>1
  <2>2. b \notin Reaching(e, X, {b})
    BY <1>1, <2>1, ReachingFacts
  <2> QED
    BY <1>1, <2>2
<1>3. ASSUME NEW c \in B, NEW d \in e[c], NEW m \in pd[c] \ {c} PROVE m \in pd[d]
  <2>1. m \in B /\ c \notin Reaching(e, X, {m})
    BY <1>1, <1>3
  <2>2. c \in Block \ {m} /\ {m} \in SUBSET Block
    BY <1>1, <1>3, <2>1
  <2>3. d \notin Reaching(e, X, {m})
    BY <1>1, <1>3, <2>1, <2>2, ReachingFacts
  <2> QED
    BY <1>1, <2>1, <2>3
<1>4. ASSUME NEW c \in B, NEW d \in e[c], e[c] = {d}, NEW k \in pd[d] PROVE k \in pd[c]
  <2>1. k \in B /\ d \notin Reaching(e, X, {k}) /\ d \in Block /\ c \notin X
    BY <1>1, <1>4
  <2>2. c \notin Reaching(e, X, {k})
    BY <1>1, <1>4, <2>1, ReachingStep
  <2> QED
    BY <1>1, <2>1, <2>2
<1>5. \A b \in Block : pd[b] \subseteq B
  BY <1>1
<1> QED
  BY <1>2, <1>3, <1>4, <1>5

(* Two blocks do not postdominate each other.                              *)
LEMMA PostDomAntisymmetric ==
  ASSUME NEW e, NEW X, NEW B, NEW pd, Flow(e, X, B, pd),
         NEW x \in B, NEW m \in pd[x], x \in pd[m]
  PROVE  x = m
<1> SUFFICES ASSUME x # m PROVE FALSE
  OBVIOUS
<1>1. /\ e \in Edges /\ B \in SUBSET Block /\ X \in SUBSET Block
      /\ m \in B /\ x \in Block /\ m \in Block
      /\ x \notin Reaching(e, X, {m}) /\ m \notin Reaching(e, X, {x})
      /\ x \in Reaching(e, X, {})
  BY DEF Flow
<1> DEFINE Rx == Reaching(e, X, {x})
           Rm == Reaching(e, X, {m})
<1>2. /\ Rx \subseteq Block \ {x} /\ X \ {x} \subseteq Rx
      /\ \A c \in Block \ {x} : e[c] \cap Rx # {} => c \in Rx
  BY <1>1, ReachingFacts
<1>3. /\ Rm \subseteq Block \ {m} /\ X \ {m} \subseteq Rm
      /\ \A c \in Block \ {m} : e[c] \cap Rm # {} => c \in Rm
  BY <1>1, ReachingFacts
<1>4. Rx \subseteq Rm
  <2> DEFINE R == Rx \cap Rm
  <2>1. X \ {x} \subseteq R
    BY <1>1, <1>2, <1>3
  <2>2. R \in SUBSET (Block \ {x}) /\ \A c \in Block \ {x} : e[c] \cap R # {} => c \in R
    BY <1>1, <1>2, <1>3
  <2> HIDE DEF R, Rx
  <2>3. Reaching(e, X, {x}) \subseteq R
    BY <2>1, <2>2, <1>1, ReachingLeast
  <2> QED
    BY <2>3 DEF R, Rx
<1>5. /\ Rx \in SUBSET (Block \ {}) /\ X \ {} \subseteq Rx
      /\ \A c \in Block \ {} : e[c] \cap Rx # {} => c \in Rx
  BY <1>1, <1>2, <1>3, <1>4
<1> HIDE DEF Rx
<1>6. Reaching(e, X, {}) \subseteq Rx
  BY <1>5, <1>1, ReachingLeast
<1> QED
  BY <1>6, <1>1, <1>2

(* Giving blocks one of their proper postdominators as only successor      *)
(* leaves no block without a way to an exit: on a way that the new edges   *)
(* cut, the first block after the last one cut off would have that         *)
(* postdominator behind it and not before it.                              *)
LEMMA RedirectedReachExits ==
  ASSUME NEW e, NEW X, NEW B, NEW pd, Flow(e, X, B, pd), NEW f \in Edges,
         \A b \in Block : f[b] \subseteq B,
         \A b \in B : f[b] = e[b] \/ \E m \in pd[b] \ {b} : f[b] = {m}
  PROVE  \A b \in B : b \in Reaching(f, X, {})
<1> DEFINE R == Reaching(f, X, {})
           Q == B \ R
           W == Reaching(e, X, Q)
<1>1. /\ e \in Edges /\ B \in SUBSET Block /\ X \in SUBSET Block /\ X \in SUBSET B
      /\ \A b \in B : b \in Reaching(e, X, {})
      /\ \A b \in Block : e[b] \subseteq B /\ (b \notin B => e[b] = {})
      /\ \A b \in Block : pd[b] = {x \in B : b \notin Reaching(e, X, {x})}
  BY DEF Flow
<1>2. /\ X \subseteq R /\ R \subseteq Block
      /\ \A c \in Block : f[c] \cap R # {} => c \in R
  BY <1>1, ReachingFacts
<1>3. Q \in SUBSET Block /\ X \cap Q = {}
  BY <1>1, <1>2
<1>4. /\ W \subseteq Block \ Q /\ X \ Q \subseteq W
      /\ \A c \in Block \ Q : e[c] \cap W # {} => c \in W
  BY <1>1, <1>3, ReachingFacts
<1> SUFFICES ASSUME Q # {} PROVE FALSE
  OBVIOUS
<1>5. \A q \in Q : f[q] \subseteq Q
  BY <1>1, <1>2
<1> HIDE DEF R, Q, W
<1>6. \E q \in Q : e[q] \cap W # {}
  <2> SUFFICES ASSUME \A q \in Q : e[q] \cap W = {} PROVE FALSE
    OBVIOUS
  <2>1. /\ W \in SUBSET (Block \ {}) /\ X \ {} \subseteq W
        /\ \A c \in Block \ {} : e[c] \cap W # {} => c \in W
    BY <1>3, <1>4
  <2>2. Reaching(e, X, {}) \subseteq W
    BY <2>1, <1>1, ReachingLeast
  <2> QED
    BY <2>2, <1>1, <1>4 DEF Q
<1>7. PICK q \in Q : e[q] \cap W # {}
  BY <1>6
<1>8. PICK s \in e[q] : s \in W
  BY <1>7
<1>9. q \in B /\ f[q] # e[q]
  BY <1>4, <1>5, <1>8 DEF Q
<1>10. PICK m \in pd[q] \ {q} : f[q] = {m}
  BY <1>9
<1>11. m \in Q /\ {m} \in SUBSET Block /\ {m} \subseteq Q
  BY <1>3, <1>5, <1>10
<1>12. m \in pd[s]
  BY <1>8, <1>9, <1>10, PostDomFacts
<1>13. s \notin Reaching(e, X, {m})
  BY <1>1, <1>8, <1>9, <1>12
<1>14. W \subseteq Reaching(e, X, {m})
  BY <1>1, <1>3, <1>11, ReachingMonotone DEF W
<1> QED
  BY <1>8, <1>13, <1>14

(* Blocks that nothing leads to can be deleted: what reaches S still does. *)
LEMMA DeletedReach ==
  ASSUME NEW e \in Edges, NEW U \in SUBSET Block, NEW S \in SUBSET Block,
         \A c \in Block : e[c] \cap U = {},
         NEW f \in Edges, \A b \in Block \ U : f[b] = e[b]
  PROVE  Reaching(e, S, {}) \ U \subseteq Reaching(f, S \ U, {})
<1> DEFINE X == Reaching(f, S \ U, {})
           R == U \cup X
<1>1. /\ X \subseteq Block /\ S \ U \subseteq X
      /\ \A c \in Block : f[c] \cap X # {} => c \in X
  BY ReachingFacts
<1>2. /\ R \in SUBSET (Block \ {}) /\ S \ {} \subseteq R
      /\ \A c \in Block \ {} : e[c] \cap R # {} => c \in R
  BY <1>1
<1> HIDE DEF R, X
<1>3. Reaching(e, S, {}) \subseteq R
  BY <1>2, ReachingLeast
<1> QED
  BY <1>3 DEF R, X

-----------------------------------------------------------------------------
(* The paths from a branch before any marked block.                        *)
LEMMA ThroughFacts ==
  ASSUME was \in Edges, NEW b \in Block
  PROVE  /\ b \in Through(b) /\ Through(b) \subseteq Block
         /\ \A c \in Through(b) : c = b \/ c \notin bmark
         /\ \A c \in Through(b) : \A d \in was[c] \ bmark : d \in Through(b)
<1> DEFINE back == [c \in Block |-> IF c \in bmark THEN {} ELSE {d \in Block : c \in was[d]}]
           X == Reaching(back, {b}, {})
<1>1. back \in Edges /\ {b} \in SUBSET Block
  BY DEF Edges
<1>2. \A c \in Block : back[c] = IF c \in bmark THEN {} ELSE {d \in Block : c \in was[d]}
  OBVIOUS
<1>3. X = Through(b)
  BY DEF Through
<1> HIDE DEF back
<1>4. /\ b \in X /\ X \subseteq Block
      /\ \A c \in Block : back[c] \cap X # {} => c \in X
  BY <1>1, ReachingFacts
<1>5. ASSUME NEW c \in X PROVE c = b \/ c \notin bmark
  <2>1. c \in {b} \/ back[c] \cap X # {}
    BY <1>1, ReachingStep, Zenon
  <2> QED
    BY <2>1, <1>2, <1>4
<1>6. ASSUME NEW c \in X, NEW d \in was[c] \ bmark PROVE d \in X
  <2>1. d \in Block /\ c \in back[d]
    BY <1>2, <1>4, <1>6 DEF Edges
  <2> QED
    BY <2>1, <1>4
<1> HIDE DEF X
<1> QED
  BY <1>3, <1>4, <1>5, <1>6

(* What holds of b and passes from a block to an unmarked successor holds  *)
(* of every block on these paths.                                          *)
LEMMA ThroughLeast ==
  ASSUME was \in Edges, NEW b \in Block, NEW R \in SUBSET Block, b \in R,
         \A c \in R : \A d \in was[c] \ bmark : d \in R
  PROVE  Through(b) \subseteq R
<1> DEFINE back == [c \in Block |-> IF c \in bmark THEN {} ELSE {d \in Block : c \in was[d]}]
<1>1. back \in Edges
  BY DEF Edges
<1>2. \A c \in Block \ {} : back[c] \cap R # {} => c \in R
  OBVIOUS
<1>3. R \in SUBSET (Block \ {}) /\ {b} \ {} \subseteq R
  OBVIOUS
<1> HIDE DEF back
<1>4. Reaching(back, {b}, {}) \subseteq R
  BY <1>1, <1>2, <1>3, ReachingLeast
<1> QED
  BY <1>4 DEF Through, back

(* Marking has followed control dependences: a branch on which a marked    *)
(* block depends is marked.                                                *)
FrontierMarked ==
  /\ \A k \in bmark : k \in blocks /\ \A c \in WasFrontier(k) : T(c) \in mark
  /\ \A c \in Block : T(c) \in mark => c \in bmark

(* A branch that is going to be redirected: nothing needs it.              *)
Unneeded(b) == b \in blocks /\ T(b) \notin mark /\ Several(was[b])

(* What is marked and postdominates a successor of a block on these paths  *)
(* postdominates the block, properly.                                      *)
LEMMA MarkedPostDom ==
  ASSUME NEW X, Flow(was, X, blocks, pdom), FrontierMarked, NEW b, Unneeded(b),
         NEW c \in blocks, c = b \/ c \notin bmark, NEW d \in was[c], NEW k \in bmark, k \in pdom[d]
  PROVE  k \in pdom[c] \ {c}
<1>1. was \in Edges /\ blocks \in SUBSET Block
  BY DEF Flow
<1>2. T(c) \notin mark
  BY <1>1 DEF Unneeded, FrontierMarked
<1>3. CASE Several(was[c])
  BY <1>2, <1>3 DEF FrontierMarked, WasFrontier
<1>4. CASE ~Several(was[c])
  <2>1. was[c] = {d}
    BY <1>4 DEF Several
  <2>2. c # b
    BY <1>4 DEF Unneeded
  <2>3. pdom[d] \subseteq pdom[c]
    BY <2>1, PostDomFacts
  <2> QED
    BY <2>2, <2>3
<1> QED
  BY <1>3, <1>4

(* So a marked block that is entered first is the nearest marked           *)
(* postdominator of the branch:                                            *)
LEMMA FirstMarkedIsNearest ==
  ASSUME NEW X, Flow(was, X, blocks, pdom), FrontierMarked, NEW b, Unneeded(b)
  PROVE  FirstMarked(b) \subseteq MarkBranch(b)
<1>1. /\ was \in Edges /\ blocks \in SUBSET Block /\ b \in blocks /\ b \in Block
      /\ \A c \in Block : was[c] \subseteq blocks
  BY DEF Flow, Unneeded
<1> SUFFICES ASSUME NEW k \in FirstMarked(b) PROVE k \in MarkBranch(b)
  OBVIOUS
<1>2. PICK c \in Through(b) : k \in was[c] /\ k \in bmark
  BY DEF FirstMarked
<1>3. /\ Through(b) \subseteq blocks
      /\ \A x \in Through(b) : x = b \/ x \notin bmark
      /\ \A x \in Through(b) : \A d \in was[x] \ bmark : d \in Through(b)
  <2>1. /\ \A x \in Through(b) : x = b \/ x \notin bmark
        /\ \A x \in Through(b) : \A d \in was[x] \ bmark : d \in Through(b)
    BY <1>1, ThroughFacts
  <2>2. Through(b) \subseteq blocks
    BY <1>1, ThroughLeast
  <2> QED
    BY <2>1, <2>2
<1>4. k \in blocks /\ k \in pdom[k]
  BY <1>1, <1>2, <1>3, PostDomFacts
<1>5. k \in pdom[b] \ {b}
  <2> SUFFICES ASSUME k \notin pdom[b] \ {b} PROVE FALSE
    OBVIOUS
  <2> DEFINE N0 == {x \in Through(b) : k \notin pdom[x] \ {x}}
  <2>1. b \in N0
    BY <1>1, ThroughFacts
  <2>2. ASSUME NEW x \in N0, NEW d \in was[x] \ bmark PROVE d \in N0
    <3>1. x \in blocks /\ d \in Through(b) /\ (x = b \/ x \notin bmark)
      BY <1>3
    <3>2. k \in pdom[d] => k \in pdom[x] \ {x}
      BY <1>2, <2>2, <3>1, MarkedPostDom
    <3> QED
      BY <3>1, <3>2
  <2>3. N0 \in SUBSET Block
    BY <1>1, <1>3
  <2> HIDE DEF N0
  <2>4. Through(b) \subseteq N0
    BY <1>1, <2>1, <2>2, <2>3, ThroughLeast
  <2>5. k \in pdom[c] \ {c}
    BY <1>2, <1>3, <1>4, MarkedPostDom
  <2> QED
    BY <2>4, <2>5, <1>2 DEF N0
<1>6. ASSUME NEW a \in pdom[b] \ {b}, a \in bmark PROVE a \in pdom[k]
  <2> DEFINE R == {x \in Through(b) : a \in pdom[x]}
  <2>1. b \in R
    BY <1>1, <1>6, ThroughFacts
  <2>2. ASSUME NEW x \in R, NEW d \in was[x] PROVE a \in pdom[d]
    <3>1. x \in blocks /\ x # a
      BY <1>3, <1>6, <2>2
    <3> QED
      BY <3>1, <2>2, PostDomFacts
  <2>3. \A x \in R : \A d \in was[x] \ bmark : d \in R
    BY <2>2, <1>3
  <2>4. R \in SUBSET Block
    BY <1>1, <1>3
  <2> HIDE DEF R
  <2>5. Through(b) \subseteq R
    BY <1>1, <2>1, <2>3, <2>4, ThroughLeast
  <2> QED
    BY <2>2, <2>5, <1>2
<1> QED
  BY <1>2, <1>5, <1>6 DEF MarkBranch

(* there is one if the branch has any marked postdominator, or if every    *)
(* exit is marked;                                                         *)
LEMMA FirstMarkedExists ==
  ASSUME NEW X, Flow(was, X, blocks, pdom), NEW b, Unneeded(b),
         MarkBranch(b) # {} \/ X \subseteq bmark
  PROVE  FirstMarked(b) # {}
<1>1. /\ was \in Edges /\ blocks \in SUBSET Block /\ X \in SUBSET Block /\ b \in Block
      /\ b \in Reaching(was, X, {}) /\ b \notin X
      /\ \A c \in Block : was[c] \subseteq Block
  BY DEF Flow, Unneeded, Several
<1> SUFFICES ASSUME FirstMarked(b) = {} PROVE FALSE
  OBVIOUS
<1>2. /\ b \in Through(b) /\ Through(b) \subseteq Block
      /\ \A c \in Through(b) : c = b \/ c \notin bmark
      /\ \A c \in Through(b) : \A d \in was[c] \ bmark : d \in Through(b)
  BY <1>1, ThroughFacts
<1>3. \A c \in Through(b) : was[c] \subseteq Through(b)
  BY <1>2 DEF FirstMarked
<1>4. CASE X \subseteq bmark
  <2> DEFINE R == Block \ Through(b)
  <2>1. /\ R \in SUBSET (Block \ {}) /\ X \ {} \subseteq R
        /\ \A c \in Block \ {} : was[c] \cap R # {} => c \in R
    BY <1>1, <1>2, <1>3, <1>4
  <2> HIDE DEF R
  <2>2. Reaching(was, X, {}) \subseteq R
    BY <2>1, <1>1, ReachingLeast
  <2> QED
    BY <2>2, <1>1, <1>2 DEF R
<1>5. CASE MarkBranch(b) # {}
  <2>1. PICK m \in pdom[b] \ {b} : m \in bmark
    BY <1>5 DEF MarkBranch
  <2>2. m \notin Through(b) /\ m \in Block /\ b \notin Reaching(was, X, {m})
    BY <2>1, <1>1, <1>2 DEF Flow
  <2> DEFINE A == Reaching(was, X, {m})
             R == {c \in Block : c \in Through(b) => c \in A}
  <2>3. /\ A \subseteq Block \ {m} /\ X \ {m} \subseteq A
        /\ \A c \in Block \ {m} : was[c] \cap A # {} => c \in A
    BY <2>2, <1>1, ReachingFacts
  <2> HIDE DEF A
  <2>4. /\ R \in SUBSET (Block \ {}) /\ X \ {} \subseteq R
        /\ \A c \in Block \ {} : was[c] \cap R # {} => c \in R
    BY <2>2, <2>3, <1>1, <1>2, <1>3
  <2> HIDE DEF R
  <2>5. Reaching(was, X, {}) \subseteq R
    BY <2>4, <1>1, ReachingLeast
  <2> QED
    BY <2>5, <2>2, <1>1, <1>2 DEF R, A
<1> QED
  BY <1>4, <1>5

(* and there is only one.                                                  *)
LEMMA NearestUnique ==
  ASSUME NEW X, Flow(was, X, blocks, pdom), NEW b \in Block,
         NEW m \in MarkBranch(b), NEW k \in MarkBranch(b)
  PROVE  m = k
<1>1. m \in pdom[k] /\ k \in pdom[m]
  BY DEF MarkBranch
<1>2. m \in pdom[b] /\ pdom[b] \subseteq blocks
  BY PostDomFacts DEF MarkBranch
<1> QED
  BY <1>1, <1>2, PostDomAntisymmetric

(* Every path from a branch that is redirected leads where it is           *)
(* redirected to, before any other marked block.                           *)
LEMMA RedirectGoesFirst ==
  ASSUME NEW X, Flow(was, X, blocks, pdom), FrontierMarked, NEW b, Unneeded(b),
         NEW m \in MarkBranch(b)
  PROVE  FirstMarked(b) = {m}
<1>1. b \in Block
  BY DEF Unneeded, Flow
<1>2. FirstMarked(b) # {}
  BY FirstMarkedExists
<1>3. FirstMarked(b) \subseteq MarkBranch(b)
  BY FirstMarkedIsNearest
<1>4. \A k \in MarkBranch(b) : k = m
  BY <1>1, NearestUnique
<1> QED
  BY <1>2, <1>3, <1>4

(* A block that returns and is not marked is on no such path of a branch   *)
(* with a marked postdominator.                                            *)
LEMMA ReturnNotThrough ==
  ASSUME NEW X, Flow(was, X, blocks, pdom), NEW h \in X, h \notin bmark,
         NEW q \in Block, NEW m \in pdom[q] \ {q}, m \in bmark
  PROVE  h \notin Through(q)
<1> DEFINE A == Reaching(was, X, {m})
           R == {c \in Through(q) : c \notin A}
<1>1. /\ was \in Edges /\ X \in SUBSET Block /\ {m} \in SUBSET Block
      /\ q \notin A /\ h \in X \ {m}
  <2>1. X \in SUBSET Block /\ was \in Edges /\ pdom[q] \in SUBSET Block /\ q \notin A
    BY DEF Flow
  <2> QED
    BY <2>1
<1>2. /\ X \ {m} \subseteq A
      /\ \A c \in Block \ {m} : was[c] \cap A # {} => c \in A
  <2> DEFINE B == {m}
  <2>1. B \in SUBSET Block
    BY <1>1
  <2> HIDE DEF B
  <2>2. /\ X \ B \subseteq Reaching(was, X, B)
        /\ \A c \in Block \ B : was[c] \cap Reaching(was, X, B) # {} => c \in Reaching(was, X, B)
    BY <1>1, <2>1, ReachingFacts
  <2> QED
    BY <2>2 DEF B
<1>3. h \in A
  BY <1>1, <1>2
<1>4. /\ q \in Through(q) /\ Through(q) \subseteq Block
      /\ \A c \in Through(q) : c = q \/ c \notin bmark
      /\ \A c \in Through(q) : \A d \in was[c] \ bmark : d \in Through(q)
  BY <1>1, ThroughFacts
<1> HIDE DEF A
<1>5. \A c \in R : \A d \in was[c] \ bmark : d \in R
  <2> SUFFICES ASSUME NEW c \in R, NEW d \in was[c] \ bmark PROVE d \in R
    OBVIOUS
  <2>1. c \in Block \ {m}
    BY <1>4
  <2>2. d \notin A
    BY <2>1, <1>2
  <2> QED
    BY <2>2, <1>4
<1>6. R \in SUBSET Block /\ q \in R
  BY <1>1, <1>4
<1> HIDE DEF R
<1>7. Through(q) \subseteq R
  BY <1>1, <1>5, <1>6, ThroughLeast
<1> QED
  BY <1>3, <1>7 DEF R

(* Where the blocks lead after redirecting, a block that could be reached  *)
(* from the entry still can if it is on no path that is cut before the     *)
(* marked block that comes first on it: that is where the cut block leads  *)
(* now.                                                                    *)
LEMMA RedirectedFromEntry ==
  ASSUME was \in Edges, NEW f \in Edges, NEW h \in Block, FromEntry(was, h),
         \A q \in Block \ {h} :
           \/ f[q] = was[q]
           \/ /\ h \notin Through(q)
              /\ \E m \in Block : f[q] = {m} /\ FirstMarked(q) = {m}
  PROVE  FromEntry(f, h)
<1> DEFINE S == {h}
           R == Reaching(f, S, {})
           Q == Block \ R
           Z == Reaching(was, S, Q)
<1> SUFFICES ASSUME Entry \notin R PROVE FALSE
  BY DEF FromEntry
<1>1. /\ h \in R /\ R \subseteq Block
      /\ \A c \in Block : f[c] \cap R # {} => c \in R
  BY ReachingFacts
<1>2. Entry \in Reaching(was, S, {}) /\ S \in SUBSET Block
  BY DEF FromEntry
<1>3. Entry \in Block
  BY NAssumption DEF Entry, Block
<1>4. Q \in SUBSET Block /\ h \notin Q /\ Entry \in Q
  BY <1>1, <1>3
<1>5. \A q \in Q : f[q] \subseteq Q
  BY <1>1 DEF Edges
<1> HIDE DEF R, Q
<1>6. /\ Z \subseteq Block \ Q /\ h \in Z
      /\ \A c \in Block \ Q : was[c] \cap Z # {} => c \in Z
  BY <1>4, ReachingFacts
<1>7. \E q \in Q : was[q] \cap Z # {}
  <2> SUFFICES ASSUME \A q \in Q : was[q] \cap Z = {} PROVE FALSE
    OBVIOUS
  <2>1. /\ Z \in SUBSET (Block \ {}) /\ S \ {} \subseteq Z
        /\ \A c \in Block \ {} : was[c] \cap Z # {} => c \in Z
    BY <1>6
  <2> HIDE DEF S, Z
  <2>2. Reaching(was, S, {}) \subseteq Z
    BY <2>1, ReachingLeast
  <2> QED
    BY <2>2, <1>2, <1>4, <1>6
<1>8. PICK q \in Q : was[q] \cap Z # {}
  BY <1>7
<1>9. PICK s \in was[q] : s \in Z
  BY <1>8
<1>10. q \in Block \ {h} /\ f[q] # was[q]
  BY <1>4, <1>5, <1>6, <1>9
<1>11. h \notin Through(q) /\ \E m \in Block : f[q] = {m} /\ FirstMarked(q) = {m}
  BY <1>10
<1>11a. PICK m \in Block : f[q] = {m} /\ FirstMarked(q) = {m}
  BY <1>11
<1>12. m \in Q
  BY <1>5, <1>11a
<1>13. /\ q \in Through(q)
       /\ \A c \in Through(q) : c = q \/ c \notin bmark
       /\ \A c \in Through(q) : \A d \in was[c] \ bmark : d \in Through(q)
       /\ \A c \in Through(q) : \A d \in was[c] \cap bmark : d = m
  <2>1. \A c \in Through(q) : \A d \in was[c] \cap bmark : d \in FirstMarked(q)
    BY DEF FirstMarked
  <2> QED
    BY <2>1, <1>10, <1>11a, ThroughFacts
<1>14. Z \cap Through(q) = {}
  <2> DEFINE Y == Z \ Through(q)
  <2>1. h \in Y
    BY <1>6, <1>11
  <2>2. ASSUME NEW c \in Block \ Q, was[c] \cap Y # {} PROVE c \in Y
    <3>1. PICK d \in was[c] : d \in Z /\ d \notin Through(q)
      BY <2>2
    <3>2. d \notin was[c] \cap bmark \/ c \notin Through(q)
      BY <3>1, <1>6, <1>12, <1>13
    <3>3. c \notin Through(q)
      BY <3>1, <3>2, <1>13
    <3> QED
      BY <3>1, <3>3, <2>2, <1>6
  <2>3. Y \in SUBSET (Block \ Q) /\ S \ Q \subseteq Y
    BY <2>1, <1>6
  <2> HIDE DEF Y, S, Z
  <2>4. Reaching(was, S, Q) \subseteq Y
    BY <2>2, <2>3, ReachingLeast
  <2> QED
    BY <2>4 DEF Y, Z
<1>15. s \in Through(q) \/ s = m
  BY <1>9, <1>13
<1> QED
  BY <1>6, <1>9, <1>12, <1>14, <1>15

-----------------------------------------------------------------------------
(* The three sorts of instructions do not overlap. *)
LEMMA Sorts ==
  /\ \A b \in Block : T(b) \in Term /\ J(b) \in Jump /\ T(b)[2] = b /\ J(b)[2] = b
  /\ \A i \in Term : i[2] \in Block /\ i = T(i[2])
  /\ \A i \in Jump : i[2] \in Block /\ i = J(i[2])
  /\ \A i \in Term : i \notin Jump /\ i \notin Value
  /\ \A i \in Jump : i \notin Value
<1>1. \A b \in Block : T(b)[2] = b /\ J(b)[2] = b
  BY DEF T, J
<1>2. \A b, c : T(b) # J(c)
  BY DEF T, J
<1> QED
  BY <1>1, <1>2, ValueAssumption DEF Term, Jump

(* The operators of the model stay within its types.                       *)
LEMMA HomeType ==
  ASSUME TypeOK, NEW i \in Ins
  PROVE  HomeOf(i) \in Block
  BY Sorts DEF HomeOf, TypeOK, FunctionType, Ins

(* The last instruction of a block is an instruction.                      *)
LEMMA LastType ==
  ASSUME NEW b \in Block
  PROVE  Last(b) \in Ins
  BY Sorts DEF Last, Ins

(* What marking an instruction needs are instructions.                     *)
LEMMA NeedsType ==
  ASSUME TypeOK, NEW i \in Ins
  PROVE  Needs(i) \subseteq Ins
<1>1. HomeOf(i) \in Block
  BY HomeType
<1>2. OperandDefs(i) \subseteq Ins
  BY DEF OperandDefs, TypeOK
<1>3. BranchUsers(i) \subseteq Ins
  BY DEF BranchUsers, TypeOK
<1>4. ControlBranches(HomeOf(i)) \subseteq Ins
  BY <1>1, LastType DEF ControlBranches, TypeOK
<1>5. PhiBranches(HomeOf(i)) \subseteq Ins
  BY <1>1, LastType DEF PhiBranches, TypeOK
<1> QED
  BY <1>2, <1>3, <1>4, <1>5 DEF Needs

(* The essential instructions are instructions.                            *)
LEMMA EssentialType == TypeOK => Essential \subseteq Ins
  BY DEF Essential, TypeOK, FunctionType, Ins

-----------------------------------------------------------------------------
(* Initially every variable has its type.                                  *)
LEMMA TypeInit == Init => TypeOK
<1> SUFFICES ASSUME Init PROVE TypeOK
  OBVIOUS
<1>1. /\ succ \in [Block -> SUBSET Block] /\ pred \in [Block -> SUBSET Block]
      /\ was \in [Block -> SUBSET Block] /\ phiSrc \in [Block -> SUBSET Block]
  BY GraphsAssumption DEF Init
<1>2. kind \in [Block -> {"ret", "uncond", "cond"}]
  BY DEF Init
<1>3. fn \in FunctionType /\ operands \in [Ins -> SUBSET Value]
  BY FunctionsAssumption DEF Init, FunctionType
<1>4. domFrontier \in [Block -> SUBSET Block]
  <2>1. PICK dom : domFrontier \in {[b \in Block |-> ForwardFrontier(dom, b)]} \cup Stale(succ)
    BY DEF Init
  <2>2. \A b : ForwardFrontier(dom, b) \subseteq Block
    BY DEF ForwardFrontier
  <2>3. Stale(succ) \subseteq [Block -> SUBSET Block]
    BY StaleAssumption DEF Init
  <2> QED
    BY <2>1, <2>2, <2>3
<1>4a. pdom \in [Block -> SUBSET Block] /\ target \in [Block -> SUBSET Block]
  BY <1>1 DEF Init
<1>5. /\ blocks \subseteq Block /\ ins \subseteq Ins
      /\ mark \subseteq Ins /\ bmark \subseteq Block /\ worklist \subseteq Ins /\ temp \subseteq Ins
      /\ pc \in {"adjust", "worklist", "remove", "readjust", "done"}
  BY DEF Init, Ins
<1>6. cur \in 1 .. N + 1
  BY NAssumption DEF Init
<1>7. again \in BOOLEAN /\ gaveUp \in BOOLEAN
  BY Zenon DEF Init
<1> QED
  BY <1>1, <1>2, <1>3, <1>4, <1>4a, <1>5, <1>6, <1>7 DEF TypeOK

(* Every step keeps the types.                                             *)
LEMMA TypeStep ==
  ASSUME TypeOK, [Next]_vars
  PROVE  TypeOK'
<1> USE DEF TypeOK, input, cfg, marks
<1>a. cur \in Nat /\ N \in Nat /\ Block = 1 .. N
  BY NAssumption DEF Block
<1>1. CASE DeleteUnused
  <2>1. succ' \in [Block -> SUBSET Block] /\ pred' \in [Block -> SUBSET Block]
    BY <1>1 DEF DeleteUnused
  <2> QED
    BY <1>1, <2>1 DEF DeleteUnused
<1>2. CASE StartMark
  <2>1. /\ Essential \cap ins \subseteq Ins
        /\ {HomeOf(i) : i \in Essential \cap ins} \subseteq Block
    BY EssentialType, HomeType
  <2>2. mark' \subseteq Ins /\ worklist' \subseteq Ins /\ bmark' \subseteq Block
    BY <1>2, <2>1 DEF StartMark
  <2>3. pdom' \in [Block -> SUBSET Block]
    BY <1>2 DEF StartMark, PostDom
  <2>4. \A b \in Block : ReverseFrontier(pdom', b) \subseteq Block
    BY DEF ReverseFrontier
  <2>5. domFrontier' \in [Block -> SUBSET Block]
    BY <1>2, <2>4 DEF StartMark
  <2> QED
    BY <1>2, <2>2, <2>3, <2>5 DEF StartMark
<1>3. ASSUME NEW i \in Ins, MarkOne(i) PROVE TypeOK'
  <2>1. Needs(i) \subseteq Ins
    BY NeedsType
  <2>2. mark' \subseteq Ins /\ worklist' \subseteq Ins
    BY <1>3, <2>1 DEF MarkOne
  <2>3. {HomeOf(n) : n \in Needs(i) \ mark} \subseteq Block
    BY <2>1, HomeType
  <2>4. bmark' \subseteq Block
    BY <1>3, <2>3 DEF MarkOne
  <2> QED
    BY <1>3, <2>2, <2>4 DEF MarkOne
<1>4. CASE StartRemove
  BY <1>4, <1>a DEF StartRemove
<1>5. CASE CollectBlock
  <2>1. \A b : Collected(b) \subseteq Ins
    BY DEF Collected
  <2>2. temp' \subseteq Ins
    BY <1>5, <2>1 DEF CollectBlock
  <2>3. operands' \in [Ins -> SUBSET Value]
    BY <1>5 DEF CollectBlock
  <2>4. cur' \in 1 .. N + 1
    BY <1>5, <1>a DEF CollectBlock
  <2> QED
    BY <1>5, <2>2, <2>3, <2>4 DEF CollectBlock
<1>6. CASE RedirectBlock
  <2>1. \A b : Collected(b) \subseteq Ins
    BY DEF Collected
  <2>2. cur \in Block
    BY <1>6 DEF RedirectBlock
  <2>3. PICK m \in MarkBranch(cur) :
          /\ succ' = [succ EXCEPT ![cur] = {m}]
          /\ pred' = [b \in Block |-> IF b = m THEN pred[b] \cup {cur} ELSE pred[b] \ {cur}]
    BY <1>6 DEF RedirectBlock
  <2>4. m \in Block
    BY <2>2 DEF MarkBranch
  <2>5. succ' \in [Block -> SUBSET Block] /\ pred' \in [Block -> SUBSET Block]
    BY <2>2, <2>3, <2>4
  <2>6. ins' \subseteq Ins /\ temp' \subseteq Ins
    BY <1>6, <2>1, <2>2, Sorts DEF RedirectBlock, Ins
  <2>7. cur' \in 1 .. N + 1
    BY <1>6, <2>2, <1>a DEF RedirectBlock
  <2> QED
    BY <1>6, <2>5, <2>6, <2>7 DEF RedirectBlock
<1>7. CASE GiveUp
  <2>1. again' \in BOOLEAN /\ gaveUp' \in BOOLEAN
    BY <1>7, Zenon DEF GiveUp
  <2> QED
    BY <1>7, <2>1 DEF GiveUp
<1>8. CASE Sweep
  <2>1. again' \in BOOLEAN
    BY <1>8, Zenon DEF Sweep
  <2> QED
    BY <1>8, <2>1 DEF Sweep
<1>9. CASE EndRound
  BY <1>9 DEF EndRound
<1>10. CASE UNCHANGED vars
  BY <1>10 DEF vars
<1> QED
  BY <1>1, <1>2, <1>3, <1>4, <1>5, <1>6, <1>7, <1>8, <1>9, <1>10 DEF Next

(* Every variable keeps its type: marking and the two edge lists stay      *)
(* within the function.                                                    *)
THEOREM TypeCorrect == Spec => []TypeOK
<1>1. TypeOK /\ [Next]_vars => TypeOK'
  BY TypeStep
<1> QED
  BY TypeInit, <1>1, PTL DEF Spec

-----------------------------------------------------------------------------
(* The instructions stay those of the blocks that are left. *)
LEMMA InsStep ==
  ASSUME TypeOK, InsInv, [Next]_vars
  PROVE  InsInv'
<1>a. ASSUME UNCHANGED input PROVE /\ \A i : HomeOf(i)' = HomeOf(i)
                                   /\ kind' = kind
  BY <1>a DEF HomeOf, input
<1>b. kind' = kind /\ \A i : HomeOf(i)' = HomeOf(i)
  BY <1>a DEF Next, vars, input, DeleteUnused, StartMark, MarkOne, StartRemove, CollectBlock,
              RedirectBlock, GiveUp, Sweep, EndRound
<1>1. CASE DeleteUnused
  BY <1>1, <1>b DEF DeleteUnused, InsInv, TypeOK
<1>2. CASE CollectBlock
  <2>1. /\ ins' = ins /\ blocks' = blocks
        /\ operands' = [operands EXCEPT ![T(cur)] =
                          IF cur \in Exits /\ T(cur) \notin mark THEN {} ELSE @]
    BY <1>2 DEF CollectBlock, cfg
  <2>2. \A i \in Ins : operands[i] = {} => operands'[i] = {}
    BY <2>1 DEF TypeOK
  <2> QED
    BY <2>1, <2>2, <1>b DEF InsInv
<1>3. CASE RedirectBlock
  <2>1. /\ ins' = ins \cup {J(cur)} /\ blocks' = blocks /\ operands' = operands
        /\ cur \in blocks /\ kind[cur] = "cond"
    BY <1>3 DEF RedirectBlock, DeadBranch
  <2>2. HomeOf(J(cur)) = cur
    BY <2>1, Sorts DEF HomeOf, TypeOK
  <2>3. \A b \in Block : J(b) = J(cur) => b = cur
    BY DEF J
  <2> QED
    BY <2>1, <2>2, <2>3, <1>b DEF InsInv
<1>4. CASE Sweep
  BY <1>4, <1>b DEF Sweep, cfg, InsInv
<1>5. CASE StartMark \/ (\E i \in Ins : MarkOne(i)) \/ StartRemove \/ GiveUp \/ EndRound
  BY <1>5, <1>b DEF StartMark, MarkOne, StartRemove, GiveUp, EndRound, cfg, InsInv
<1>6. CASE UNCHANGED vars
  BY <1>6, <1>b DEF vars, cfg, InsInv
<1> QED
  BY <1>1, <1>2, <1>3, <1>4, <1>5, <1>6 DEF Next

(* Marking one instruction puts what it needs on the worklist; the steps   *)
(* of remove() only take operands away and only add jumps.                 *)
LEMMA ClosedStep ==
  ASSUME TypeOK, InsInv, ClosedInv, [Next]_vars
  PROVE  ClosedInv'
<1>1. CASE DeleteUnused \/ GiveUp \/ Sweep \/ EndRound
  <2>1. /\ mark' = mark /\ worklist' = worklist /\ pc' \notin {"worklist", "remove"}
    BY <1>1 DEF DeleteUnused, GiveUp, Sweep, EndRound, marks
  <2> QED
    BY <2>1 DEF ClosedInv
<1>2. CASE StartMark
  <2>1. mark' = worklist' /\ pc' = "worklist"
    BY <1>2 DEF StartMark
  <2> QED
    BY <2>1 DEF ClosedInv
<1>3. ASSUME NEW i \in Ins, MarkOne(i) PROVE ClosedInv'
  <2>1. /\ i \in worklist /\ pc' = "worklist" /\ pc = "worklist"
        /\ ins' = ins /\ operands' = operands
        /\ mark' = mark \cup Needs(i)
        /\ worklist' = (worklist \ {i}) \cup (Needs(i) \ mark)
    BY <1>3 DEF MarkOne
  <2>2. operands[i] \cap ins \subseteq Needs(i)
    BY DEF Needs, OperandDefs
  <2>3. ASSUME NEW k \in mark' \ worklist'
        PROVE  operands[k] \cap ins \subseteq mark'
    <3>1. CASE k = i
      BY <3>1, <2>1, <2>2
    <3>2. CASE k # i
      <4>1. k \in mark \ worklist
        BY <3>2, <2>1 DEF ClosedInv
      <4> QED
        BY <4>1, <2>1 DEF ClosedInv
    <3> QED
      BY <3>1, <3>2
  <2> QED
    BY <2>1, <2>3 DEF ClosedInv
<1>4. CASE StartRemove
  BY <1>4 DEF StartRemove, ClosedInv, marks
<1>5. CASE CollectBlock
  <2>1. /\ mark' = mark /\ worklist' = worklist /\ ins' = ins /\ pc = "remove" /\ pc' = pc
    BY <1>5 DEF CollectBlock, marks
  <2>2. \A i \in Ins : operands'[i] \subseteq operands[i]
    BY <1>5 DEF CollectBlock, TypeOK
  <2> QED
    BY <2>1, <2>2 DEF ClosedInv, TypeOK
<1>6. CASE RedirectBlock
  <2>1. /\ mark' = mark /\ worklist' = worklist /\ ins' = ins \cup {J(cur)}
        /\ operands' = operands /\ pc = "remove" /\ pc' = pc /\ cur \in Block
    BY <1>6 DEF RedirectBlock, marks, TypeOK
  <2>2. J(cur) \notin Value
    BY <2>1, Sorts
  <2> QED
    BY <2>1, <2>2 DEF ClosedInv, TypeOK
<1>7. CASE UNCHANGED vars
  BY <1>7 DEF vars, marks, ClosedInv
<1> QED
  BY <1>1, <1>2, <1>3, <1>4, <1>5, <1>6, <1>7 DEF Next

(* What remove() has passed is marked, collected or without operands. *)
LEMMA RemoveStep ==
  ASSUME TypeOK, InsInv, RemoveInv, [Next]_vars
  PROVE  RemoveInv'
<1>a. \A i : HomeOf(i)' = HomeOf(i)
  BY DEF Next, vars, input, DeleteUnused, StartMark, MarkOne, StartRemove, CollectBlock,
         RedirectBlock, GiveUp, Sweep, EndRound, HomeOf
<1>b. /\ \A i \in ins : HomeOf(i) \in Block
      /\ cur \in Nat /\ Block \subseteq Nat
  BY HomeType, NAssumption DEF TypeOK, Block
<1>1. CASE DeleteUnused \/ StartMark \/ (\E i \in Ins : MarkOne(i)) \/ GiveUp \/ Sweep \/ EndRound
  <2>1. pc' # "remove"
    BY <1>1 DEF DeleteUnused, StartMark, MarkOne, GiveUp, Sweep, EndRound
  <2> QED
    BY <2>1 DEF RemoveInv
<1>2. CASE StartRemove
  <2>1. temp' = {} /\ cur' = 1 /\ ins' = ins
    BY <1>2 DEF StartRemove
  <2>2. \A b \in Block : ~(b < 1)
    BY NAssumption DEF Block
  <2> QED
    BY <2>1, <2>2, <1>a, <1>b DEF RemoveInv
<1>3. CASE CollectBlock
  <2>1. /\ pc = "remove" /\ mark' = mark /\ ins' = ins /\ cur' = cur + 1 /\ cur \in Block
        /\ temp' = temp \cup (IF cur \in blocks THEN Collected(cur) ELSE {})
        /\ operands' = [operands EXCEPT ![T(cur)] =
                          IF cur \in Exits /\ T(cur) \notin mark THEN {} ELSE @]
        /\ cur \in blocks => ~DeadBranch(cur)
    BY <1>3 DEF CollectBlock, marks
  <2>2. \A i \in Ins : operands'[i] \subseteq operands[i]
    BY <2>1 DEF TypeOK
  <2>3. temp' \subseteq ins' /\ temp' \cap mark = {}
    BY <2>1 DEF RemoveInv, Collected
  <2>4. ASSUME NEW i \in ins, HomeOf(i) = cur
        PROVE  i \in mark \/ i \in temp' \/ operands'[i] = {}
    <3>1. cur \in blocks /\ i \in Ins
      BY <2>4 DEF InsInv, TypeOK
    <3>2. CASE i \in Value
      BY <3>1, <3>2, <2>1, <2>4 DEF Collected
    <3>3. CASE i \in Jump
      BY <3>1, <3>3, <2>2, Sorts DEF InsInv
    <3>4. CASE i \in Term
      <4>1. i = T(cur) /\ i[2] = cur
        BY <3>4, <2>4, Sorts DEF HomeOf
      <4>2. CASE kind[cur] = "uncond"
        BY <4>1, <4>2, <3>1, <3>4, <2>2, Sorts DEF InsInv
      <4>3. CASE kind[cur] = "cond"
        BY <4>1, <4>3, <3>1, <2>1, <2>4 DEF DeadBranch
      <4>4. CASE kind[cur] = "ret"
        <5>1. cur \in Exits
          BY <4>4, <3>1, <2>1 DEF Exits, Last, InsInv
        <5> QED
          BY <5>1, <4>1, <2>1, <3>1 DEF TypeOK
      <4> QED
        BY <4>2, <4>3, <4>4, <2>1 DEF TypeOK
    <3> QED
      BY <3>1, <3>2, <3>3, <3>4 DEF Ins
  <2>5. ASSUME NEW i \in ins, HomeOf(i) < cur + 1
        PROVE  i \in mark \/ i \in temp' \/ operands'[i] = {}
    <3>0. HomeOf(i) \in Nat
      BY <1>b
    <3>1. HomeOf(i) < cur \/ HomeOf(i) = cur
      BY <2>5, <3>0, <1>b
    <3>2. CASE HomeOf(i) < cur
      BY <3>2, <2>1, <2>2 DEF RemoveInv, TypeOK
    <3> QED
      BY <3>1, <3>2, <2>4
  <2> QED
    BY <2>1, <2>3, <2>5, <1>a DEF RemoveInv
<1>4. CASE RedirectBlock
  <2>1. /\ pc = "remove" /\ mark' = mark /\ ins' = ins \cup {J(cur)} /\ cur' = cur + 1
        /\ cur \in Block /\ temp' = temp \cup Collected(cur) /\ operands' = operands
        /\ kind[cur] = "cond"
    BY <1>4 DEF RedirectBlock, marks, DeadBranch, TypeOK
  <2>2. temp' \subseteq ins' /\ temp' \cap mark = {}
    BY <2>1 DEF RemoveInv, Collected
  <2>3. operands[J(cur)] = {}
    BY <2>1, Sorts DEF InsInv, Ins
  <2>4. ASSUME NEW i \in ins, HomeOf(i) = cur
        PROVE  i \in mark \/ i \in temp' \/ operands[i] = {}
    <3>1. CASE i \in Value \/ i \in Term
      BY <3>1, <2>1, <2>4 DEF Collected
    <3>2. CASE i \in Jump
      BY <3>2, Sorts DEF InsInv, TypeOK
    <3> QED
      BY <3>1, <3>2 DEF Ins, TypeOK
  <2>5. ASSUME NEW i \in ins', HomeOf(i) < cur + 1
        PROVE  i \in mark \/ i \in temp' \/ operands[i] = {}
    <3>1. CASE i = J(cur)
      BY <3>1, <2>3
    <3>2. CASE i \in ins
      <4>0. HomeOf(i) \in Nat
        BY <3>2, <1>b
      <4>1. HomeOf(i) < cur \/ HomeOf(i) = cur
        BY <2>5, <4>0, <1>b
      <4> QED
        BY <4>1, <3>2, <2>4, <2>1 DEF RemoveInv
    <3> QED
      BY <3>1, <3>2, <2>1
  <2> QED
    BY <2>1, <2>2, <2>5, <1>a DEF RemoveInv
<1>5. CASE UNCHANGED vars
  BY <1>5, <1>a DEF vars, marks, RemoveInv
<1> QED
  BY <1>1, <1>2, <1>3, <1>4, <1>5 DEF Next

-----------------------------------------------------------------------------
(* How many successors a block has.                                        *)
LEMMA Counting ==
  ASSUME NEW S \in SUBSET Block
  PROVE  /\ Cardinality(S) >= 2 <=> Several(S)
         /\ Cardinality(S) = 1 <=> Single(S)
         /\ Cardinality(S) \in Nat
<1>1. IsFiniteSet(Block)
  BY FS_Interval, NAssumption DEF Block
<1>2. IsFiniteSet(S) /\ Cardinality(S) \in Nat
  BY <1>1, FS_Subset, FS_CardinalityType
<1>3. Cardinality(S) = 0 <=> S = {}
  BY <1>2, FS_EmptySet
<1>4. Cardinality(S) = 1 <=> Single(S)
  BY <1>2, FS_Singleton DEF Single
<1>5. Several(S) <=> S # {} /\ ~Single(S)
  BY DEF Several, Single
<1> QED
  BY <1>2, <1>3, <1>4, <1>5

(* No set has one element and several.                                     *)
LEMMA Disjoint == \A S : ~(Single(S) /\ Several(S))
  BY DEF Single, Several

(* What a step never changes. *)
LEMMA InputKept ==
  ASSUME [Next]_vars
  PROVE  /\ fn' = fn /\ phiSrc' = phiSrc /\ kind' = kind /\ target' = target
         /\ Essential' = Essential
         /\ \A i : HomeOf(i)' = HomeOf(i) /\ IsBranch(i)' = IsBranch(i)
<1>1. UNCHANGED input
  BY DEF Next, vars, DeleteUnused, StartMark, MarkOne, StartRemove, CollectBlock,
         RedirectBlock, GiveUp, Sweep, EndRound
<1> QED
  BY <1>1 DEF input, Essential, HomeOf, IsBranch

(* The exits are the blocks that end with a return.                        *)
LEMMA ExitsAre ==
  ASSUME InsInv, TypeOK
  PROVE  Exits = {b \in blocks : kind[b] = "ret"}
<1>1. \A b \in blocks : kind[b] = "ret" => J(b) \notin ins
  BY DEF InsInv, TypeOK
<1> QED
  BY <1>1 DEF Exits, Last

(* The same, after a step.                                                 *)
LEMMA ExitsAreNext ==
  ASSUME InsInv', TypeOK'
  PROVE  Exits' = {b \in blocks' : kind'[b] = "ret"}
<1>1. \A b \in blocks' : kind'[b] = "ret" => J(b) \notin ins'
  BY DEF InsInv, TypeOK
<1> QED
  BY <1>1 DEF Exits, Last

(* The edges, as the other lemmas want them. *)
LEMMA EdgesType ==
  ASSUME TypeOK
  PROVE  succ \in Edges /\ was \in Edges /\ blocks \in SUBSET Block
  BY DEF TypeOK, Edges

(* Blocks that can be reached from the entry are not unused.               *)
LEMMA ReachedHasPred ==
  ASSUME TypeOK, pred = [b \in Block |-> {c \in Block : b \in succ[c]}],
         NEW h \in Block, FromEntry(succ, h), h # Entry
  PROVE  pred[h] # {}
<1> SUFFICES ASSUME pred[h] = {} PROVE FALSE
  OBVIOUS
<1> DEFINE S == {h}
<1>1. \A c \in Block : h \notin succ[c]
  OBVIOUS
<1>2. /\ S \in SUBSET (Block \ {}) /\ S \ {} \subseteq S
      /\ \A c \in Block \ {} : succ[c] \cap S # {} => c \in S
  BY <1>1
<1>3. Reaching(succ, S, {}) \subseteq S
  <2> HIDE DEF S
  <2> QED
    BY <1>2, EdgesType, ReachingLeast
<1> QED
  BY <1>3 DEF FromEntry

(* So adjustBlock does not delete them.                                    *)
LEMMA ReachedIsUsed ==
  ASSUME TypeOK, EdgesInv, NEW h \in Block, FromEntry(succ, h)
  PROVE  h \notin Unused
  BY ReachedHasPred DEF Unused, EdgesInv

-----------------------------------------------------------------------------
(* What redirects to, among the blocks that are left.                      *)
LEMMA RedirectTo ==
  ASSUME TypeOK, WasInv, RedirectBlock
  PROVE  \E m \in MarkBranch(cur) :
           /\ m \in blocks /\ m \in pdom[cur] \ {cur} /\ cur \in Block
           /\ succ' = [succ EXCEPT ![cur] = {m}]
           /\ pred' = [b \in Block |-> IF b = m THEN pred[b] \cup {cur} ELSE pred[b] \ {cur}]
<1>1. cur \in Block /\ pc = "remove"
  BY DEF RedirectBlock, TypeOK
<1>2. \A m \in MarkBranch(cur) : m \in pdom[cur] \ {cur}
  BY DEF MarkBranch
<1>3. \A m \in pdom[cur] : m \in blocks
  <2>1. pdom = [b \in Block |-> {x \in blocks : b \notin Reaching(was, Exits, {x})}]
    BY <1>1 DEF WasInv
  <2>2. pdom[cur] = {x \in blocks : cur \notin Reaching(was, Exits, {x})}
    BY <2>1, <1>1
  <2> QED
    BY <2>2
<1> QED
  BY <1>1, <1>2, <1>3 DEF RedirectBlock

(* Both edge lists are kept alike, and name no deleted block.              *)
LEMMA EdgesStep ==
  ASSUME TypeOK, EdgesInv, WasInv, [Next]_vars
  PROVE  EdgesInv'
<1>1. CASE DeleteUnused
  <2>1. /\ pc' = pc /\ pc = "readjust" /\ blocks' = blocks \ Unused
        /\ pred' = [b \in Block |-> pred[b] \ Unused]
        /\ succ' = [b \in Block |-> IF b \in Unused THEN {} ELSE succ[b]]
    BY <1>1 DEF DeleteUnused, EdgesInv
  <2>2. \A b \in Unused : b # Entry /\ \A c \in Block : b \notin succ[c]
    BY DEF Unused, EdgesInv, TypeOK
  <2>3. pred' = [b \in Block |-> {c \in Block : b \in succ'[c]}]
    BY <2>1 DEF EdgesInv
  <2>4. \A b \in Block : succ'[b] \subseteq blocks' /\ (b \notin blocks' => succ'[b] = {})
    BY <2>1, <2>2 DEF EdgesInv, TypeOK
  <2> QED
    BY <2>1, <2>2, <2>3, <2>4 DEF EdgesInv
<1>2. CASE RedirectBlock
  <2>1. PICK m \in blocks :
          /\ cur \in Block /\ m \in Block
          /\ succ' = [succ EXCEPT ![cur] = {m}]
          /\ pred' = [b \in Block |-> IF b = m THEN pred[b] \cup {cur} ELSE pred[b] \ {cur}]
    BY <1>2, RedirectTo DEF TypeOK
  <2>2. /\ blocks' = blocks /\ pc' = "remove" /\ cur \in blocks
    BY <1>2 DEF RedirectBlock
  <2>3. \A b \in Block : succ'[b] = IF b = cur THEN {m} ELSE succ[b]
    BY <2>1 DEF TypeOK
  <2>4. pred' = [b \in Block |-> {c \in Block : b \in succ'[c]}]
    BY <2>1, <2>3 DEF EdgesInv
  <2> QED
    BY <2>1, <2>2, <2>3, <2>4 DEF EdgesInv
<1>3. CASE EndRound
  <2>1. Unused' = Unused /\ Unused = {} /\ UNCHANGED cfg
    BY <1>3 DEF EndRound, cfg, Unused
  <2> QED
    BY <2>1 DEF EdgesInv, cfg
<1>4. CASE UNCHANGED <<cfg, pc>> \/ (UNCHANGED cfg /\ pc' # "adjust")
  <2>1. Unused' = Unused
    BY <1>4 DEF cfg, Unused
  <2> QED
    BY <1>4, <2>1 DEF EdgesInv, cfg
<1> QED
  BY <1>1, <1>2, <1>3, <1>4 DEF Next, vars, StartMark, MarkOne, StartRemove, CollectBlock, GiveUp, Sweep

(* The successors of a block are those of the terminator it ends with.     *)
LEMMA ShapeStep ==
  ASSUME TypeOK, InsInv, EdgesInv, ShapeInv, WasInv, [Next]_vars
  PROVE  ShapeInv'
<1>k. kind' = kind
  BY InputKept
<1>n. cur \in Nat /\ Block \subseteq Nat
  BY NAssumption DEF TypeOK, Block
<1>h. \A b \in Block : /\ HomeOf(T(b)) = b /\ HomeOf(J(b)) = b
                       /\ T(b) \notin Value /\ J(b) \notin Value /\ J(b) \in Jump
                       /\ J(b) \notin Term /\ T(b) \in Term
                       /\ \A c \in Block : (T(b) = T(c) \/ J(b) = J(c)) => b = c
  <2>1. \A b, c \in Block : (T(b) = T(c) \/ J(b) = J(c)) => b = c
    BY Sorts
  <2> QED
    BY <2>1, Sorts DEF HomeOf
<1>b. blocks \subseteq Block
  BY DEF TypeOK
<1>1. CASE DeleteUnused
  <2>1. /\ pc' = pc /\ pc = "readjust" /\ blocks' = blocks \ Unused /\ temp' = temp /\ temp = {}
        /\ gaveUp' = gaveUp /\ again' = again
        /\ ins' = {i \in ins : HomeOf(i) \notin Unused}
        /\ succ' = [b \in Block |-> IF b \in Unused THEN {} ELSE succ[b]]
    BY <1>1 DEF DeleteUnused, EdgesInv, ShapeInv
  <2>2. \A b \in blocks' : /\ b \in blocks /\ b \in Block /\ succ'[b] = succ[b]
                           /\ J(b) \in ins' <=> J(b) \in ins
                           /\ T(b) \in ins' <=> T(b) \in ins
    BY <2>1, <1>b, <1>h
  <2> QED
    BY <2>1, <2>2, <1>k DEF ShapeInv
<1>2. CASE CollectBlock
  <2>1. /\ pc' = pc /\ pc = "remove" /\ UNCHANGED cfg /\ ins' = ins /\ UNCHANGED <<again, gaveUp>>
        /\ temp' = temp \cup (IF cur \in blocks THEN Collected(cur) ELSE {})
        /\ cur' = cur + 1 /\ (cur \in blocks => ~DeadBranch(cur)) /\ cur \in Block
    BY <1>2 DEF CollectBlock
  <2>2. cur \in blocks => \A b \in Block : T(b) \notin Collected(cur) /\ J(b) \notin Collected(cur)
    <3> SUFFICES ASSUME cur \in blocks, NEW b \in Block
                 PROVE  T(b) \notin Collected(cur) /\ J(b) \notin Collected(cur)
      OBVIOUS
    <3>1. T(b) \in Collected(cur) => b = cur /\ T(cur) \in ins \ mark /\ kind[cur] = "cond"
      BY <1>h DEF Collected
    <3> QED
      BY <3>1, <2>1, <1>h DEF Collected, DeadBranch
  <2>3. \A b \in Block : T(b) \in temp' <=> T(b) \in temp
    BY <2>1, <2>2
  <2>4. temp' \cap Jump = {}
    BY <2>1, <2>2, <1>h, Sorts DEF ShapeInv
  <2>5. \A b \in Block : b < cur => b < cur'
    BY <2>1, <1>n
  <2> QED
    BY <2>1, <2>3, <2>4, <2>5, <1>k, <1>b DEF ShapeInv, cfg
<1>3. CASE RedirectBlock
  <2>1. PICK m \in blocks : succ' = [succ EXCEPT ![cur] = {m}]
    BY <1>3, RedirectTo
  <2>2. /\ pc' = pc /\ pc = "remove" /\ blocks' = blocks /\ UNCHANGED <<again, gaveUp>>
        /\ temp' = temp \cup Collected(cur) /\ ins' = ins \cup {J(cur)}
        /\ cur' = cur + 1 /\ cur \in blocks /\ cur \in Block
        /\ kind[cur] = "cond" /\ T(cur) \in ins \ mark
    BY <1>3 DEF RedirectBlock, DeadBranch, TypeOK
  <2>3. /\ T(cur) \in Collected(cur)
        /\ \A b \in Block : J(b) \notin Collected(cur) /\ (T(b) \in Collected(cur) => b = cur)
    BY <2>2, <1>h DEF Collected
  <2>4. temp' \cap Jump = {}
    BY <2>2, <2>3, <1>h, Sorts DEF ShapeInv
  <2>5. \A b \in Block : /\ b < cur => b < cur'
                         /\ cur < cur'
    BY <2>2, <1>n
  <2>6. \A b \in Block : T(b) \in temp' => J(b) \in ins' /\ b < cur'
    BY <2>2, <2>3, <2>5 DEF ShapeInv
  <2>7. \A b \in blocks : IF b = cur THEN J(b) \in ins' /\ T(b) \in temp' /\ succ'[b] = {m}
                          ELSE /\ J(b) \in ins' <=> J(b) \in ins
                               /\ T(b) \in ins' <=> T(b) \in ins
                               /\ succ'[b] = succ[b]
    BY <2>1, <2>2, <2>3, <1>h, <1>b DEF TypeOK
  <2>8. Single(succ'[cur])
    BY <2>2, <2>7 DEF Single
  <2>9. ~gaveUp
    BY <2>2 DEF ShapeInv
  <2>10. \A b \in blocks :
       IF J(b) \in ins'
       THEN Single(succ'[b]) /\ (T(b) \in ins' => T(b) \in temp')
       ELSE /\ T(b) \in ins'
            /\ kind[b] = "ret" => succ'[b] = {}
            /\ kind[b] = "uncond" => Single(succ'[b])
            /\ kind[b] = "cond" => Several(succ'[b])
    BY <2>2, <2>7, <2>8, <2>9 DEF ShapeInv
  <2> QED
    BY <2>2, <2>4, <2>6, <2>9, <2>10, <1>k DEF ShapeInv
<1>4. CASE Sweep
  <2>1. /\ pc = "remove" /\ pc' = "readjust" /\ ins' = ins \ temp /\ temp' = {} /\ UNCHANGED cfg
        /\ gaveUp' = gaveUp
    BY <1>4 DEF Sweep
  <2>2. ~gaveUp
    BY <2>1 DEF ShapeInv
  <2>3. \A b \in Block : J(b) \notin temp
    BY <1>h DEF ShapeInv
  <2> QED
    BY <2>1, <2>2, <2>3, <1>k, <1>b DEF ShapeInv, cfg
<1>5. CASE GiveUp
  <2>1. /\ pc' = "readjust" /\ again' = FALSE /\ gaveUp' = TRUE /\ temp' = {} /\ UNCHANGED cfg
        /\ ins' = ins
    BY <1>5 DEF GiveUp
  <2> QED
    BY <2>1, <1>k DEF ShapeInv, cfg
<1>6. CASE StartMark \/ (\E i \in Ins : MarkOne(i)) \/ StartRemove \/ EndRound
  <2>1. UNCHANGED cfg /\ ins' = ins /\ gaveUp' = gaveUp /\ again' = again
        /\ temp = {} /\ temp' = {} /\ pc # "remove"
        /\ (gaveUp => pc = "readjust" /\ pc' = "done")
    BY <1>6 DEF StartMark, MarkOne, StartRemove, EndRound, ShapeInv
  <2> QED
    BY <2>1, <1>k DEF ShapeInv, cfg
<1>7. CASE UNCHANGED vars
  <2>1. UNCHANGED <<cfg, ins, gaveUp, again, temp, pc, cur>>
    BY <1>7 DEF vars
  <2> QED
    BY <2>1, <1>k DEF ShapeInv, cfg
<1> QED
  BY <1>1, <1>2, <1>3, <1>4, <1>5, <1>6, <1>7 DEF Next

-----------------------------------------------------------------------------
(* The homes of the terminators.                                           *)
LEMMA Homes ==
  \A b \in Block : /\ HomeOf(T(b)) = b /\ HomeOf(J(b)) = b
                   /\ T(b) \in Term /\ T(b) \notin Value /\ T(b) \notin Jump
                   /\ J(b) \in Jump /\ J(b) \notin Value /\ J(b) \notin Term
                   /\ T(b) \in Ins /\ J(b) \in Ins
  BY Sorts DEF HomeOf, Ins

(* The graph that was, with its postdominators, is as the lemmas about     *)
(* paths want it.                                                          *)
LEMMA FlowWas ==
  ASSUME TypeOK, WasInv, pc \in {"worklist", "remove"}
  PROVE  Flow(was, Exits, blocks, pdom)
<1>1. was \in Edges /\ blocks \in SUBSET Block
  BY EdgesType
<1>2. Exits \in SUBSET blocks /\ \A b \in Exits : kind[b] = "ret" /\ b \in blocks
  BY DEF Exits
<1>3. /\ \A b \in Block : was[b] \subseteq blocks /\ (b \notin blocks => was[b] = {})
      /\ \A b \in blocks : kind[b] = "ret" => was[b] = {}
      /\ \A b \in blocks : b \in Reaching(was, Exits, {})
      /\ pdom = [b \in Block |-> {x \in blocks : b \notin Reaching(was, Exits, {x})}]
  BY DEF WasInv
<1> HIDE DEF Exits, Reaching
<1> QED
  BY <1>1, <1>2, <1>3 DEF Flow

(* Marking never marks a jump that replaced a branch, so that a branch it  *)
(* needs is the terminator the block had.                                  *)
LEMMA NeededBranch ==
  ASSUME MarkInv, NEW i \in mark, Needs(i) \subseteq mark, NEW c \in Block,
         c \in domFrontier[HomeOf(i)] \/
         (c \in phiSrc[HomeOf(i)] /\ \E p \in fn.phi \cap ins : fn.home[p] = HomeOf(i)),
         J(c) \in ins \/ kind[c] # "ret"
  PROVE  T(c) \in mark /\ J(c) \notin ins
<1>1. IsBranch(Last(c))
  BY Homes, Sorts DEF IsBranch, Last
<1>2. Last(c) \in Needs(i)
  BY <1>1 DEF Needs, ControlBranches, PhiBranches
<1>3. Last(c) \in mark /\ J(c) \notin mark
  BY <1>2, Homes DEF MarkInv
<1> QED
  BY <1>3 DEF Last

(* When remove() runs, the branches on which marked blocks depend are      *)
(* marked.                                                                 *)
LEMMA FrontierHolds ==
  ASSUME TypeOK, ClosedInv, MarkInv, WasInv, pc = "remove"
  PROVE  FrontierMarked
<1>1. bmark = {HomeOf(i) : i \in mark} /\ \A i \in mark : Needs(i) \subseteq mark
  BY DEF MarkInv, ClosedInv
<1>2. ASSUME NEW k \in bmark, NEW c \in WasFrontier(k) PROVE T(c) \in mark
  <2>1. PICK i \in mark : HomeOf(i) = k
    BY <1>1
  <2>2. k \in Block /\ c \in blocks /\ c \in Block /\ Several(was[c])
    BY DEF TypeOK, WasFrontier
  <2>3. c \in domFrontier[k] /\ kind[c] = "cond"
    <3>1. WasFrontier(k) \subseteq domFrontier[k]
      BY <2>2 DEF WasInv
    <3>2. kind[c] = "cond"
      BY <2>2 DEF WasInv
    <3> QED
      BY <3>1, <3>2
  <2> QED
    BY <1>1, <2>1, <2>2, <2>3, NeededBranch
<1>3. \A k \in bmark : k \in blocks
  <2>1. \A i \in mark : HomeOf(i) \in blocks
    BY DEF WasInv
  <2> QED
    BY <1>1, <2>1
<1>4. ASSUME NEW c \in Block, T(c) \in mark PROVE c \in bmark
  <2>1. HomeOf(T(c)) = c
    BY Homes
  <2> QED
    BY <1>1, <1>4, <2>1
<1> QED
  BY <1>2, <1>3, <1>4 DEF FrontierMarked

(* A dead branch is still as it was, and has several successors.           *)
LEMMA DeadIsUnneeded ==
  ASSUME TypeOK, ShapeInv, WasInv, pc = "remove", cur \in blocks, DeadBranch(cur)
  PROVE  Unneeded(cur) /\ J(cur) \notin ins
<1>1. cur \in Nat /\ cur \in Block /\ kind[cur] = "cond" /\ T(cur) \in ins \ mark /\ ~gaveUp
  BY NAssumption DEF TypeOK, DeadBranch, Block, ShapeInv
<1>2. J(cur) \notin ins
  <2> SUFFICES ASSUME J(cur) \in ins PROVE FALSE
    OBVIOUS
  <2>1. T(cur) \in temp
    BY <1>1 DEF ShapeInv
  <2>2. cur < cur
    BY <2>1, <1>1 DEF ShapeInv
  <2> QED
    BY <2>2, <1>1
<1>3. Several(succ[cur])
  BY <1>1, <1>2 DEF ShapeInv
<1>4. succ[cur] = was[cur]
  <2>1. succ[cur] = was[cur] \/ Redirected(cur)
    BY DEF WasInv
  <2> QED
    BY <2>1, <1>2 DEF Redirected
<1> QED
  BY <1>1, <1>2, <1>3, <1>4 DEF Unneeded

-----------------------------------------------------------------------------
(* Deleting unused blocks and redirecting leave every block a way to a     *)
(* return.                                                                 *)
LEMMA ExitsStep ==
  ASSUME TypeOK, InsInv, TypeOK', InsInv', EdgesInv, WasInv, ExitsInv, [Next]_vars
  PROVE  ExitsInv'
<1>k. kind' = kind
  BY InputKept
<1>x. /\ Exits = {b \in blocks : kind[b] = "ret"}
      /\ Exits' = {b \in blocks' : kind'[b] = "ret"}
  BY ExitsAre, ExitsAreNext
<1>t. /\ succ \in Edges /\ succ' \in Edges /\ was \in Edges
      /\ blocks \in SUBSET Block /\ Exits \in SUBSET Block
  BY EdgesType, <1>x DEF TypeOK, Edges
<1>1. CASE DeleteUnused
  <2>1. /\ blocks' = blocks \ Unused
        /\ succ' = [b \in Block |-> IF b \in Unused THEN {} ELSE succ[b]]
    BY <1>1 DEF DeleteUnused
  <2>2. Unused \in SUBSET Block /\ \A c \in Block : succ[c] \cap Unused = {}
    BY <1>t DEF Unused, EdgesInv
  <2>3. \A b \in Block \ Unused : succ'[b] = succ[b]
    BY <2>1
  <2>4. Exits' = Exits \ Unused
    BY <2>1, <1>k, <1>x
  <2> DEFINE U == Unused
             X == Exits
             f == succ'
  <2>5. Reaching(succ, X, {}) \ U \subseteq Reaching(f, X \ U, {})
    <3>1. /\ U \in SUBSET Block /\ X \in SUBSET Block /\ f \in Edges
          /\ \A c \in Block : succ[c] \cap U = {} /\ \A b \in Block \ U : f[b] = succ[b]
      BY <1>t, <2>2, <2>3
    <3> HIDE DEF U, X, f
    <3> QED
      BY <1>t, <3>1, DeletedReach
  <2>6. \A b \in blocks' : b \in Reaching(succ, Exits, {}) \ Unused
    BY <2>1 DEF ExitsInv
  <2>7. Reaching(succ, Exits, {})' = Reaching(f, Exits \ U, {})
    BY <2>4 DEF Reaching
  <2> QED
    BY <2>5, <2>6, <2>7 DEF ExitsInv
<1>2. CASE RedirectBlock
  <2>1. PICK m \in MarkBranch(cur) :
          /\ m \in blocks /\ m \in pdom[cur] \ {cur} /\ cur \in Block
          /\ succ' = [succ EXCEPT ![cur] = {m}]
    BY <1>2, RedirectTo
  <2>2. pc = "remove" /\ blocks' = blocks
    BY <1>2 DEF RedirectBlock
  <2>3. Flow(was, Exits, blocks, pdom)
    BY <2>2, FlowWas
  <2>4. \A b \in Block : succ'[b] = IF b = cur THEN {m} ELSE succ[b]
    BY <2>1 DEF TypeOK
  <2>5. \A b \in Block : succ'[b] \subseteq blocks
    BY <2>1, <2>4 DEF EdgesInv
  <2>6. ASSUME NEW b \in blocks PROVE succ'[b] = was[b] \/ \E k \in pdom[b] \ {b} : succ'[b] = {k}
    <3>1. succ[b] = was[b] \/ Redirected(b)
      BY <2>2 DEF WasInv
    <3>2. succ[b] = was[b] \/ \E k \in pdom[b] \ {b} : succ[b] = {k}
      BY <3>1 DEF Redirected
    <3> QED
      BY <3>2, <2>1, <2>4, <1>t
  <2>7. \A b \in blocks : b \in Reaching(succ', Exits, {})
    <3> DEFINE X == Exits
               f == succ'
    <3>1. Flow(was, X, blocks, pdom) /\ f \in Edges
      BY <2>3, <1>t
    <3>2. /\ \A b \in Block : f[b] \subseteq blocks
          /\ \A b \in blocks : f[b] = was[b] \/ \E k \in pdom[b] \ {b} : f[b] = {k}
      BY <2>5, <2>6
    <3> HIDE DEF X, f
    <3>3. \A b \in blocks : b \in Reaching(f, X, {})
      BY <3>1, <3>2, RedirectedReachExits
    <3> QED
      BY <3>3 DEF X, f
  <2>8. Exits' = Exits
    BY <2>2, <1>k, <1>x
  <2>9. Reaching(succ, Exits, {})' = Reaching(succ', Exits, {})
    BY <2>8 DEF Reaching
  <2> QED
    BY <2>2, <2>7, <2>9 DEF ExitsInv
<1>3. CASE UNCHANGED cfg
  <2>1. Exits' = Exits /\ succ' = succ /\ blocks' = blocks
    BY <1>3, <1>k, <1>x DEF cfg
  <2>2. Reaching(succ, Exits, {})' = Reaching(succ, Exits, {})
    BY <2>1 DEF Reaching
  <2> QED
    BY <2>1, <2>2 DEF ExitsInv
<1> QED
  BY <1>1, <1>2, <1>3 DEF Next, vars, StartMark, MarkOne, StartRemove, CollectBlock, GiveUp, Sweep, EndRound

-----------------------------------------------------------------------------
(* Marking.                                                                *)

(* What an instruction needs depends on this only. *)
LEMMA NeedsKept ==
  ASSUME [Next]_vars, UNCHANGED <<operands, cfg, ins, domFrontier>>
  PROVE  \A i : Needs(i)' = Needs(i)
<1>1. /\ fn' = fn /\ phiSrc' = phiSrc /\ kind' = kind /\ \A i : HomeOf(i)' = HomeOf(i)
      /\ \A i : IsBranch(i)' = IsBranch(i)
  BY InputKept
<1>2. \A b : Last(b)' = Last(b)
  BY DEF Last
<1>3. \A i : OperandDefs(i)' = OperandDefs(i)
  BY DEF OperandDefs
<1>4. \A i : BranchUsers(i)' = BranchUsers(i)
  BY <1>1 DEF BranchUsers, cfg
<1>5. \A b : ControlBranches(b)' = ControlBranches(b) /\ PhiBranches(b)' = PhiBranches(b)
  BY <1>1, <1>2 DEF ControlBranches, PhiBranches
<1> QED
  BY <1>1, <1>3, <1>4, <1>5 DEF Needs

(* While nothing but the marks changes, what is enough stays enough.       *)
LEMMA EnoughKept ==
  ASSUME [Next]_vars, UNCHANGED <<operands, cfg, ins, domFrontier>>, NEW M, Enough(M)
  PROVE  Enough(M)'
<1>1. \A i : Needs(i)' = Needs(i) /\ HomeOf(i)' = HomeOf(i)
  BY NeedsKept, InputKept
<1>2. Essential' = Essential
  BY InputKept
<1> HIDE DEF Needs, HomeOf, Essential
<1>3. succ' = succ /\ blocks' = blocks
  BY DEF cfg
<1>4. \A h : FromEntry(succ, h)' <=> FromEntry(succ, h)
  BY <1>3 DEF FromEntry, Reaching
<1> QED
  BY <1>1, <1>2, <1>3, <1>4 DEF Enough

(* The frontiers that are added when marking begins are those of branches  *)
(* that are left, which M holds.                                           *)
LEMMA EnoughStart ==
  ASSUME TypeOK, ShapeInv, StartMark, NEW M, Enough(M)
  PROVE  Enough(M)'
<1>1. /\ UNCHANGED <<operands, cfg, ins>>
      /\ domFrontier' = [b \in Block |-> domFrontier[b] \cup ReverseFrontier(pdom', b)]
      /\ pdom' = PostDom
  BY DEF StartMark
<1>2. /\ fn' = fn /\ phiSrc' = phiSrc /\ kind' = kind /\ \A i : HomeOf(i)' = HomeOf(i)
      /\ \A i : IsBranch(i)' = IsBranch(i)
      /\ Essential' = Essential
  BY InputKept DEF Next
<1>3. \A b : Last(b)' = Last(b)
  BY <1>1 DEF Last
<1>4. \A i : OperandDefs(i)' = OperandDefs(i)
  BY <1>1 DEF OperandDefs
<1>5. \A i : BranchUsers(i)' = BranchUsers(i)
  BY <1>1, <1>2 DEF BranchUsers, cfg
<1>6. \A b : PhiBranches(b)' = PhiBranches(b)
  BY <1>1, <1>2, <1>3 DEF PhiBranches
<1>7. ASSUME NEW h \in Block, NEW c \in ReverseFrontier(pdom', h) PROVE Last(c) \in M
  <2>1. c \in blocks /\ Cardinality(succ[c]) >= 2 /\ succ[c] \in SUBSET Block
    BY DEF ReverseFrontier, TypeOK
  <2>2. Several(succ[c])
    BY <2>1, Counting
  <2>3. J(c) \notin ins
    BY <2>1, <2>2, Disjoint DEF ShapeInv
  <2> QED
    BY <2>1, <2>2, <2>3 DEF Enough, Last
<1>8. ASSUME NEW i \in M PROVE Needs(i)' \subseteq M
  <2>1. HomeOf(i) \in Block
    BY DEF Enough, TypeOK
  <2>2. domFrontier'[HomeOf(i)] = domFrontier[HomeOf(i)] \cup ReverseFrontier(pdom', HomeOf(i))
    BY <1>1, <2>1
  <2>3. ControlBranches(HomeOf(i))' \subseteq ControlBranches(HomeOf(i)) \cup M
    BY <2>1, <2>2, <1>2, <1>3, <1>7 DEF ControlBranches
  <2>4. Needs(i) \subseteq M
    BY DEF Enough
  <2> QED
    BY <2>3, <2>4, <1>2, <1>4, <1>5, <1>6 DEF Needs
<1>9. succ' = succ /\ blocks' = blocks
  BY <1>1 DEF cfg
<1>10. \A h : FromEntry(succ, h)' <=> FromEntry(succ, h)
  BY <1>9 DEF FromEntry, Reaching
<1> QED
  BY <1>2, <1>8, <1>9, <1>10 DEF Enough

(* Removing takes away operands, instructions that are not marked, blocks  *)
(* that cannot be reached, and adds jumps: what a marked instruction needs *)
(* remains what it needed.                                                 *)
LEMMA NeedsFewer ==
  ASSUME TypeOK, ClosedInv, MarkInv, [Next]_vars, domFrontier' = domFrontier, mark' = mark,
         NEW i \in mark, Needs(i) \subseteq mark,
         blocks' \subseteq blocks,
         \A j \in Ins : operands'[j] \subseteq operands[j],
         ins' \cap (Value \cup Term) \subseteq ins,
         \A c \in Block : J(c) \in ins' /\ J(c) \notin ins => T(c) \notin mark /\ kind[c] # "ret"
  PROVE  Needs(i)' \subseteq mark
<1>1. /\ fn' = fn /\ phiSrc' = phiSrc /\ kind' = kind /\ \A j : HomeOf(j)' = HomeOf(j)
      /\ \A j : IsBranch(j)' = IsBranch(j)
  BY InputKept
<1>2. mark \subseteq Ins /\ i \in Ins /\ HomeOf(i) \in Block /\ fn.phi \subseteq Value
  BY HomeType DEF TypeOK, FunctionType
<1>3. OperandDefs(i)' \subseteq OperandDefs(i)
  BY <1>2 DEF OperandDefs, TypeOK
<1>4. BranchUsers(i)' \subseteq BranchUsers(i)
  <2>1. \A b \in blocks' : b \in Block /\ T(b) \in Term /\ T(b) \in Ins
    BY Homes DEF TypeOK
  <2> QED
    BY <2>1, <1>1 DEF BranchUsers
<1>5. ASSUME NEW c \in Block,
             c \in domFrontier[HomeOf(i)] \/
             (c \in phiSrc[HomeOf(i)] /\ \E p \in fn.phi \cap ins : fn.home[p] = HomeOf(i)),
             IsBranch(Last(c)')
      PROVE  Last(c)' \in mark
  <2>1. J(c) \in ins \/ kind[c] # "ret"
    <3>1. CASE J(c) \in ins'
      BY <3>1
    <3>2. CASE J(c) \notin ins'
      BY <3>2, <1>5, Homes, Sorts DEF Last, IsBranch
    <3> QED
      BY <3>1, <3>2
  <2>2. T(c) \in mark /\ J(c) \notin ins
    BY <2>1, <1>5, NeededBranch
  <2> QED
    BY <2>2 DEF Last
<1>6. ControlBranches(HomeOf(i))' \subseteq mark
  <2>1. domFrontier[HomeOf(i)] \subseteq Block
    BY <1>2 DEF TypeOK
  <2>2. ControlBranches(HomeOf(i))' = {j \in {Last(c)' : c \in domFrontier[HomeOf(i)]} : IsBranch(j)}
    BY <1>1 DEF ControlBranches
  <2> QED
    BY <2>1, <2>2, <1>5
<1>7. PhiBranches(HomeOf(i))' \subseteq mark
  <2>1. phiSrc[HomeOf(i)] \subseteq Block
    BY <1>2 DEF TypeOK
  <2>2. PhiBranches(HomeOf(i))' = IF \E p \in fn.phi \cap ins' : fn.home[p] = HomeOf(i)
                                  THEN {j \in {Last(c)' : c \in phiSrc[HomeOf(i)]} : IsBranch(j)}
                                  ELSE {}
    BY <1>1 DEF PhiBranches
  <2>3. (\E p \in fn.phi \cap ins' : fn.home[p] = HomeOf(i))
          => \E p \in fn.phi \cap ins : fn.home[p] = HomeOf(i)
    BY <1>2
  <2> QED
    BY <2>1, <2>2, <2>3, <1>5
<1> QED
  BY <1>1, <1>3, <1>4, <1>6, <1>7 DEF Needs


-----------------------------------------------------------------------------
(* Where a dead branch is redirected to: the marked block that every path  *)
(* from it enters first.                                                   *)
LEMMA RedirectWhere ==
  ASSUME TypeOK, ClosedInv, ShapeInv, MarkInv, WasInv, RedirectBlock
  PROVE  \E m \in blocks :
           /\ m \in pdom[cur] \ {cur} /\ m \in Block /\ cur \in Block
           /\ succ' = [succ EXCEPT ![cur] = {m}]
           /\ pred' = [b \in Block |-> IF b = m THEN pred[b] \cup {cur} ELSE pred[b] \ {cur}]
           /\ FirstMarked(cur) = {m}
           /\ kind[cur] = "cond" /\ T(cur) \in ins \ mark /\ J(cur) \notin ins
           /\ cur \in blocks /\ Several(was[cur])
<1>1. pc = "remove" /\ cur \in blocks /\ DeadBranch(cur)
  BY DEF RedirectBlock
<1>2. Unneeded(cur) /\ J(cur) \notin ins
  BY <1>1, DeadIsUnneeded
<1>3. PICK m \in MarkBranch(cur) :
        /\ m \in blocks /\ m \in pdom[cur] \ {cur} /\ cur \in Block
        /\ succ' = [succ EXCEPT ![cur] = {m}]
        /\ pred' = [b \in Block |-> IF b = m THEN pred[b] \cup {cur} ELSE pred[b] \ {cur}]
  BY RedirectTo
<1>4. Flow(was, Exits, blocks, pdom)
  BY <1>1, FlowWas
<1>5. FrontierMarked
  BY <1>1, FrontierHolds
<1>6. FirstMarked(cur) = {m}
  <2> DEFINE X == Exits
  <2>1. Flow(was, X, blocks, pdom)
    BY <1>4
  <2> HIDE DEF X
  <2> QED
    BY <2>1, <1>2, <1>5, RedirectGoesFirst
<1> QED
  BY <1>1, <1>2, <1>3, <1>6 DEF DeadBranch, Unneeded, TypeOK

(* What is in reach of the entry depends on the edges only.                *)
LEMMA FromEntryKept ==
  ASSUME succ' = succ
  PROVE  \A h : FromEntry(succ, h)' <=> FromEntry(succ, h)
  BY DEF FromEntry, Reaching

(* How the graph differs from the one that was after one more redirection. *)
LEMMA RedirectedGraph ==
  ASSUME TypeOK, ClosedInv, EdgesInv, ShapeInv, MarkInv, WasInv, RedirectBlock, NEW q \in Block
  PROVE  \/ succ'[q] = was[q]
         \/ \E k \in pdom[q] \ {q} : k \in Block /\ succ'[q] = {k} /\ FirstMarked(q) = {k}
<1>1. pc = "remove"
  BY DEF RedirectBlock
<1>2. PICK m \in blocks :
        /\ m \in pdom[cur] \ {cur} /\ m \in Block /\ cur \in Block
        /\ succ' = [succ EXCEPT ![cur] = {m}]
        /\ FirstMarked(cur) = {m}
  BY RedirectWhere
<1>3. CASE q = cur
  BY <1>2, <1>3 DEF TypeOK
<1>4. CASE q # cur /\ q \notin blocks
  <2>1. succ'[q] = succ[q]
    BY <1>2, <1>4 DEF TypeOK
  <2>2. succ[q] = {} /\ was[q] = {}
    BY <1>1, <1>4 DEF EdgesInv, WasInv
  <2> QED
    BY <2>1, <2>2
<1>5. CASE q # cur /\ q \in blocks
  <2>1. succ'[q] = succ[q]
    BY <1>2, <1>5 DEF TypeOK
  <2>2. succ[q] = was[q] \/ Redirected(q)
    BY <1>1, <1>5 DEF WasInv
  <2> QED
    BY <2>1, <2>2 DEF Redirected, TypeOK
<1> QED
  BY <1>3, <1>4, <1>5

(* What deleting blocks leaves in reach of the entry.                      *)
LEMMA DeleteKeepsReach ==
  ASSUME TypeOK, TypeOK', EdgesInv, DeleteUnused, NEW h \in Block, FromEntry(succ, h)
  PROVE  h \notin Unused /\ FromEntry(succ', h)
<1> DEFINE f == succ'
           S == {h}
           U == Unused
<1>1. h \notin Unused
  BY ReachedIsUsed
<1>2. succ \in Edges /\ U \in SUBSET Block /\ S \in SUBSET Block /\ f \in Edges
  BY DEF TypeOK, Edges, Unused
<1>3. \A c \in Block : succ[c] \cap U = {}
  BY DEF Unused, EdgesInv, TypeOK
<1>4. \A b \in Block \ U : f[b] = succ[b]
  BY DEF DeleteUnused
<1>5. S \ U = S /\ Entry \notin U
  BY <1>1 DEF Unused
<1>6. Entry \in Reaching(succ, S, {})
  BY DEF FromEntry
<1> HIDE DEF f, S, U
<1>7. Reaching(succ, S, {}) \ U \subseteq Reaching(f, S \ U, {})
  BY <1>2, <1>3, <1>4, DeletedReach
<1>8. Entry \in Reaching(f, S, {})
  BY <1>5, <1>6, <1>7
<1> QED
  BY <1>1, <1>8 DEF f, S, FromEntry

(* Nothing essential is lost, and a marked instruction stays reachable.    *)
LEMMA MarkStep ==
  ASSUME TypeOK, TypeOK', InsInv, ClosedInv, RemoveInv, EdgesInv, ShapeInv, MarkInv, WasInv,
         SettledInv, [Next]_vars
  PROVE  MarkInv'
<1>i. /\ fn' = fn /\ phiSrc' = phiSrc /\ kind' = kind /\ Essential' = Essential
      /\ \A i : HomeOf(i)' = HomeOf(i)
  BY InputKept
<1>e. Essential \subseteq ins /\ mark \subseteq Value \cup Term /\ bmark = {HomeOf(i) : i \in mark}
  BY DEF MarkInv
<1> HIDE DEF Essential, HomeOf, Needs
<1>1. CASE StartMark
  <2>1. /\ mark' = Essential /\ worklist' = Essential /\ bmark' = {HomeOf(i) : i \in Essential}
        /\ pc' = "worklist" /\ pc = "adjust" /\ ins' = ins
    BY <1>1, <1>e DEF StartMark
  <2>2. PICK M \in SUBSET (Value \cup Term) : Enough(M)
    BY <2>1 DEF MarkInv
  <2>3. Enough(M)'
    BY <1>1, <2>2, EnoughStart
  <2>4. Essential \subseteq M
    BY <2>2 DEF Enough
  <2> QED
    BY <2>1, <2>3, <2>4, <1>e, <1>i DEF MarkInv
<1>2. ASSUME NEW i \in Ins, MarkOne(i) PROVE MarkInv'
  <2>1. /\ i \in worklist /\ pc' = "worklist" /\ pc = "worklist" /\ ins' = ins
        /\ UNCHANGED <<operands, cfg, ins, domFrontier>>
        /\ mark' = mark \cup Needs(i)
        /\ bmark' = bmark \cup {HomeOf(n) : n \in Needs(i) \ mark}
        /\ worklist' = (worklist \ {i}) \cup (Needs(i) \ mark)
    BY <1>2 DEF MarkOne
  <2>2. PICK M \in SUBSET (Value \cup Term) : Enough(M) /\ mark \subseteq M
    BY <2>1 DEF MarkInv
  <2>3. Enough(M)'
    BY <2>1, <2>2, EnoughKept
  <2>4. i \in mark
    BY <2>1 DEF ClosedInv
  <2>5. mark' \subseteq M
    BY <2>1, <2>2, <2>4 DEF Enough
  <2>6. \A j : Needs(j)' = Needs(j)
    BY <2>1, NeedsKept
  <2>7. \A j \in mark \ worklist : Needs(j) \subseteq mark
    BY <2>1 DEF MarkInv
  <2>8. \A j \in mark' \ worklist' : Needs(j)' \subseteq mark'
    BY <2>1, <2>6, <2>7
  <2>9. bmark' = {HomeOf(j)' : j \in mark'}
    BY <2>1, <1>e, <1>i
  <2>10. Essential \subseteq mark
    BY <2>1 DEF MarkInv
  <2> QED
    BY <2>1, <2>2, <2>3, <2>5, <2>8, <2>9, <2>10, <1>e, <1>i DEF MarkInv
<1>3. CASE StartRemove
  <2>1. /\ pc = "worklist" /\ pc' = "remove" /\ worklist = {} /\ UNCHANGED <<mark, bmark, worklist>>
        /\ UNCHANGED <<operands, cfg, ins, domFrontier>>
    BY <1>3 DEF StartRemove, marks
  <2>2. succ' = succ /\ blocks' = blocks
    BY <2>1 DEF cfg
  <2>3. \A j : Needs(j)' = Needs(j)
    BY <2>1, NeedsKept
  <2>4. succ = was
    <3>1. \A b \in Block : succ[b] = was[b]
      BY <2>1 DEF WasInv, EdgesInv
    <3> QED
      BY <3>1 DEF TypeOK
  <2>5. \A i \in mark : HomeOf(i) \in blocks /\ FromEntry(succ, HomeOf(i))
    BY <2>1, <2>4 DEF WasInv
  <2>6. \A h : FromEntry(succ, h)' <=> FromEntry(succ, h)
    BY <2>2, FromEntryKept
  <2>7. Essential \subseteq mark /\ \A j \in mark \ worklist : Needs(j) \subseteq mark
    BY <2>1 DEF MarkInv
  <2> QED
    BY <2>1, <2>2, <2>3, <2>5, <2>6, <2>7, <1>e, <1>i DEF MarkInv
<1>r. CASE CollectBlock \/ RedirectBlock \/ GiveUp \/ Sweep \/ DeleteUnused
  <2>1. /\ UNCHANGED <<mark, bmark, worklist, domFrontier>>
        /\ pc \in {"remove", "readjust"} /\ pc' \in {"remove", "readjust"}
    BY <1>r DEF CollectBlock, RedirectBlock, GiveUp, Sweep, DeleteUnused, marks, EdgesInv
  <2>2. worklist = {}
    BY <2>1 DEF ClosedInv, MarkInv
  <2>3. /\ Essential \subseteq mark /\ \A j \in mark : Needs(j) \subseteq mark
        /\ \A i \in mark : HomeOf(i) \in blocks /\ FromEntry(succ, HomeOf(i))
    BY <2>1, <2>2 DEF MarkInv
  <2>4. SUFFICES /\ \A j \in mark : Needs(j)' \subseteq mark
                 /\ \A i \in mark : HomeOf(i) \in blocks' /\ FromEntry(succ, HomeOf(i))'
                 /\ Essential \subseteq ins'
    BY <2>1, <2>2, <2>3, <2>4, <1>e, <1>i DEF MarkInv
  <2>a. CASE CollectBlock
    <3>1. /\ UNCHANGED cfg /\ ins' = ins /\ cur \in Block
          /\ operands' = [operands EXCEPT ![T(cur)] =
                          IF cur \in Exits /\ T(cur) \notin mark THEN {} ELSE @]
      BY <2>a DEF CollectBlock
    <3>2. \A j \in Ins : operands'[j] \subseteq operands[j]
      BY <3>1 DEF TypeOK
    <3>3. succ' = succ /\ blocks' = blocks
      BY <3>1 DEF cfg
    <3>4. \A j \in mark : Needs(j)' \subseteq mark
      BY <2>1, <2>3, <3>1, <3>2, <3>3, NeedsFewer
    <3>5. \A h : FromEntry(succ, h)' <=> FromEntry(succ, h)
      BY <3>3, FromEntryKept
    <3> QED
      BY <2>3, <3>1, <3>3, <3>4, <3>5, <1>e, <1>i
  <2>b. CASE RedirectBlock
    <3>1. /\ blocks' = blocks /\ operands' = operands /\ ins' = ins \cup {J(cur)} /\ pc = "remove"
      BY <2>b DEF RedirectBlock
    <3>2. PICK m \in blocks :
           /\ m \in pdom[cur] \ {cur} /\ m \in Block /\ cur \in Block
           /\ succ' = [succ EXCEPT ![cur] = {m}]
           /\ FirstMarked(cur) = {m}
           /\ kind[cur] = "cond" /\ T(cur) \in ins \ mark /\ J(cur) \notin ins
      BY <2>b, RedirectWhere
    <3>3. \A c \in Block : J(c) \in ins' /\ J(c) \notin ins => c = cur
      BY <3>1, <3>2 DEF J
    <3>4. ins' \cap (Value \cup Term) \subseteq ins
      BY <3>1, <3>2, Homes
    <3>5. \A c \in Block : J(c) \in ins' /\ J(c) \notin ins => T(c) \notin mark /\ kind[c] # "ret"
      BY <3>2, <3>3
    <3>6. \A j \in mark : Needs(j)' \subseteq mark
      BY <2>1, <2>3, <3>1, <3>4, <3>5, NeedsFewer
    <3>7. \A q \in Block : \/ succ'[q] = was[q]
                           \/ \E k \in Block : succ'[q] = {k} /\ FirstMarked(q) = {k}
      BY <2>b, RedirectedGraph
    <3>8. ASSUME NEW i \in mark PROVE HomeOf(i) \in blocks' /\ FromEntry(succ, HomeOf(i))'
      <4> DEFINE f == succ'
                 h == HomeOf(i)
      <4>1. h \in bmark /\ h \in blocks /\ h \in Block /\ FromEntry(was, h)
        BY <3>1, <1>e DEF WasInv, TypeOK
      <4>2. was \in Edges /\ f \in Edges
        BY DEF TypeOK, Edges
      <4>3. \A q \in Block : f[q] = was[q] \/ \E k \in Block : f[q] = {k} /\ FirstMarked(q) = {k}
        BY <3>7
      <4>3a. \A q \in Block \ {h} : h \notin Through(q)
        BY <4>1, <4>2, ThroughFacts
      <4> HIDE DEF f, h
      <4>4. FromEntry(f, h)
        BY <4>1, <4>2, <4>3, <4>3a, RedirectedFromEntry
      <4>5. FromEntry(succ', HomeOf(i))
        BY <4>4 DEF f, h
      <4>6. FromEntry(succ, HomeOf(i))' <=> FromEntry(succ', HomeOf(i))
        BY <1>i DEF FromEntry, Reaching
      <4> QED
        BY <4>1, <4>5, <4>6, <3>1 DEF h
    <3> QED
      BY <3>1, <3>6, <3>8, <1>e
  <2>c. CASE GiveUp
    <3>1. UNCHANGED <<operands, cfg, ins, domFrontier>> /\ succ' = succ /\ blocks' = blocks /\ ins' = ins
      BY <2>c, <2>1 DEF GiveUp, cfg
    <3>2. \A j : Needs(j)' = Needs(j)
      BY <3>1, NeedsKept
    <3>3. \A h : FromEntry(succ, h)' <=> FromEntry(succ, h)
      BY <3>1, FromEntryKept
    <3> QED
      BY <2>3, <3>1, <3>2, <3>3, <1>e, <1>i
  <2>d. CASE Sweep
    <3>1. UNCHANGED <<operands, cfg>> /\ succ' = succ /\ blocks' = blocks /\ ins' = ins \ temp
          /\ pc = "remove"
      BY <2>d DEF Sweep, cfg
    <3>2. Essential \subseteq ins'
      BY <2>3, <3>1, <1>e DEF RemoveInv
    <3>3. \A j \in mark : Needs(j)' \subseteq mark
      BY <2>1, <2>3, <3>1, NeedsFewer
    <3>4. \A h : FromEntry(succ, h)' <=> FromEntry(succ, h)
      BY <3>1, FromEntryKept
    <3> QED
      BY <2>3, <3>1, <3>2, <3>3, <3>4, <1>i
  <2>e. CASE DeleteUnused
    <3>1. /\ blocks' = blocks \ Unused /\ operands' = operands
          /\ ins' = {i \in ins : HomeOf(i) \notin Unused}
          /\ succ' = [b \in Block |-> IF b \in Unused THEN {} ELSE succ[b]]
      BY <2>e DEF DeleteUnused
    <3>2. \A i \in mark : HomeOf(i) \in blocks' /\ HomeOf(i) \in Block /\ HomeOf(i) \notin Unused
      BY <2>3, <3>1, ReachedIsUsed DEF TypeOK
    <3>3. Essential \subseteq ins'
      BY <2>3, <3>1, <3>2, <1>e
    <3>4. \A j \in mark : Needs(j)' \subseteq mark
      BY <2>1, <2>3, <3>1, NeedsFewer
    <3>5. ASSUME NEW i \in mark PROVE FromEntry(succ, HomeOf(i))'
      <4>1. FromEntry(succ', HomeOf(i))
        BY <2>e, <2>3, <3>2, DeleteKeepsReach
      <4>2. FromEntry(succ, HomeOf(i))' <=> FromEntry(succ', HomeOf(i))
        BY <1>i DEF FromEntry, Reaching
      <4> QED
        BY <4>1, <4>2
    <3> QED
      BY <3>2, <3>3, <3>4, <3>5
  <2> QED
    BY <1>r, <2>a, <2>b, <2>c, <2>d, <2>e
<1>4. CASE EndRound
  <2>1. /\ UNCHANGED <<operands, cfg, ins, domFrontier>> /\ UNCHANGED <<mark, bmark, worklist>>
        /\ pc = "readjust" /\ pc' = IF again THEN "adjust" ELSE "done"
    BY <1>4 DEF EndRound, marks
  <2>2. succ' = succ /\ blocks' = blocks /\ ins' = ins
    BY <2>1 DEF cfg
  <2>3. /\ worklist = {} /\ Essential \subseteq mark
        /\ \A j \in mark \ worklist : Needs(j) \subseteq mark
        /\ \A i \in mark : HomeOf(i) \in blocks /\ FromEntry(succ, HomeOf(i))
    BY <2>1 DEF MarkInv
  <2>4. again => \A b \in blocks : Several(succ[b]) => T(b) \in mark
    BY <2>1 DEF ShapeInv, SettledInv
  <2>5. again => Enough(mark)'
    <3>1. again => Enough(mark)
      BY <2>3, <2>4 DEF Enough
    <3> DEFINE M == mark
    <3>2. again => Enough(M)
      BY <3>1
    <3>3. M' = M
      BY <2>1
    <3> HIDE DEF M
    <3>4. again => (\A K \in {M} : Enough(K)')
      BY <2>1, <3>2, EnoughKept
    <3>5. again => Enough(mark)'
      BY <3>4, <2>1 DEF M, Enough
    <3> QED
      BY <3>5
  <2>6. \A h : FromEntry(succ, h)' <=> FromEntry(succ, h)
    BY <2>2, FromEntryKept
  <2> QED
    BY <2>1, <2>2, <2>3, <2>5, <2>6, <1>e, <1>i DEF MarkInv
<1>5. CASE UNCHANGED vars
  <2>1. /\ UNCHANGED <<operands, cfg, ins, domFrontier>> /\ UNCHANGED <<mark, bmark, worklist, pc>>
    BY <1>5 DEF vars, marks
  <2>2. succ' = succ /\ blocks' = blocks /\ ins' = ins
    BY <2>1 DEF cfg
  <2>3. \A h : FromEntry(succ, h)' <=> FromEntry(succ, h)
    BY <2>2, FromEntryKept
  <2>4. \A j : Needs(j)' = Needs(j)
    BY <2>1, NeedsKept
  <2>5. \A M : Enough(M) => Enough(M)'
    BY <2>1, EnoughKept
  <2> QED
    BY <2>1, <2>2, <2>3, <2>4, <2>5, <1>e, <1>i DEF MarkInv
<1> QED
  BY <1>1, <1>2, <1>3, <1>r, <1>4, <1>5 DEF Next

-----------------------------------------------------------------------------
(* The first marked blocks depend on the marks and on the edges as they    *)
(* were, which removing does not change.                                   *)
LEMMA FirstMarkedKept ==
  ASSUME was' = was, bmark' = bmark
  PROVE  \A b : FirstMarked(b)' = FirstMarked(b)
  BY DEF FirstMarked, Through, Reaching

(* When marking begins, the graph is remembered with its postdominators.   *)
LEMMA WasStart ==
  ASSUME TypeOK, InsInv, EdgesInv, ShapeInv, ExitsInv, MarkInv, SettledInv, StartMark
  PROVE  WasInv'
<1>i. /\ fn' = fn /\ phiSrc' = phiSrc /\ kind' = kind /\ Essential' = Essential
      /\ \A i : HomeOf(i)' = HomeOf(i)
  BY InputKept DEF Next
<1>1. /\ pc = "adjust" /\ pc' = "worklist" /\ UNCHANGED <<cfg, ins>> /\ mark' = Essential \cap ins
      /\ pdom' = PostDom /\ was' = succ
      /\ domFrontier' = [b \in Block |-> domFrontier[b] \cup ReverseFrontier(pdom', b)]
  BY DEF StartMark
<1>2. succ' = succ /\ blocks' = blocks /\ ins' = ins /\ pred' = pred
  BY <1>1 DEF cfg
<1>3. Exits' = Exits
  BY <1>2, <1>i DEF Exits, Last
<1>4. ~gaveUp
  BY <1>1 DEF ShapeInv
<1> HIDE DEF Essential, HomeOf, Exits
<1>5. ASSUME NEW b \in Block PROVE WasFrontier(b)' \subseteq domFrontier'[b]
  <2>1. WasFrontier(b)' = {c \in blocks : /\ Several(succ[c])
                                          /\ \E s \in succ[c] : b \in pdom'[s]
                                          /\ b \notin pdom'[c] \ {c}}
    BY <1>1, <1>2 DEF WasFrontier, Several
  <2>2. \A c \in blocks : Several(succ[c]) => Cardinality(succ[c]) >= 2
    BY Counting DEF TypeOK
  <2>3. WasFrontier(b)' \subseteq ReverseFrontier(pdom', b)
    BY <2>1, <2>2 DEF ReverseFrontier
  <2> QED
    BY <2>3, <1>1
<1>6. \A b \in Block : /\ was'[b] \subseteq blocks' /\ (b \notin blocks' => was'[b] = {})
                       /\ WasFrontier(b)' \subseteq domFrontier'[b]
  BY <1>1, <1>2, <1>5 DEF EdgesInv
<1>7. \A b \in blocks : /\ Several(succ[b]) => kind[b] = "cond"
                        /\ kind[b] = "ret" => succ[b] = {}
  <2> SUFFICES ASSUME NEW b \in blocks
               PROVE  /\ Several(succ[b]) => kind[b] = "cond"
                      /\ kind[b] = "ret" => succ[b] = {}
    OBVIOUS
  <2>1. b \in Block /\ kind[b] \in {"ret", "uncond", "cond"}
    BY DEF TypeOK
  <2>2. CASE J(b) \in ins
    BY <2>1, <2>2 DEF InsInv
  <2>3. CASE J(b) \notin ins
    <3>1. /\ kind[b] = "ret" => succ[b] = {}
          /\ kind[b] = "uncond" => Single(succ[b])
      BY <2>3 DEF ShapeInv
    <3>2. kind[b] = "ret" => ~Several(succ[b])
      BY <3>1 DEF Several
    <3> QED
      BY <2>1, <3>1, <3>2, Disjoint
  <2> QED
    BY <2>2, <2>3
<1>8. \A b \in blocks' : b \in Reaching(was, Exits, {})'
  <2>1. Reaching(was, Exits, {})' = Reaching(succ, Exits, {})
    BY <1>1, <1>3 DEF Reaching
  <2> QED
    BY <2>1, <1>2 DEF ExitsInv
<1>9. pdom' = [b \in Block |-> {x \in blocks' : b \notin Reaching(was', Exits', {x})}]
  BY <1>1, <1>2, <1>3 DEF PostDom
<1>10. ASSUME NEW i \in mark' PROVE HomeOf(i)' \in blocks' /\ FromEntry(was, HomeOf(i))'
  <2>1. PICK M : Enough(M)
    BY <1>1 DEF MarkInv
  <2>2. i \in M
    BY <2>1, <1>1 DEF Enough
  <2>3. HomeOf(i) \in blocks /\ FromEntry(succ, HomeOf(i))
    BY <2>1, <2>2 DEF Enough
  <2>4. FromEntry(was, HomeOf(i))' <=> FromEntry(succ, HomeOf(i))
    BY <1>1, <1>i DEF FromEntry, Reaching
  <2> QED
    BY <2>3, <2>4, <1>2, <1>i
<1>11. \A p \in fn.phi \cap ins : {c \in Block : fn.home[p] \in succ[c]} = phiSrc[fn.home[p]]
  <2>1. \A p \in fn.phi \cap ins : pred[fn.home[p]] = phiSrc[fn.home[p]] /\ fn.home[p] \in Block
    BY <1>1, <1>4 DEF SettledInv, TypeOK, FunctionType
  <2> QED
    BY <2>1 DEF EdgesInv
<1>12. \A b \in blocks' : succ'[b] = was'[b] \/ (pc' = "remove" /\ Redirected(b)')
  BY <1>1, <1>2
<1>13. \A b \in blocks' : /\ Several(was'[b]) => kind'[b] = "cond"
                          /\ kind'[b] = "ret" => was'[b] = {}
  BY <1>1, <1>2, <1>7, <1>i
<1>14. \A p \in fn'.phi \cap ins' : {c \in Block : fn'.home[p] \in was'[c]} = phiSrc'[fn'.home[p]]
  BY <1>1, <1>2, <1>11, <1>i
<1>15. \A i \in mark' : HomeOf(i)' \in blocks' /\ FromEntry(was, HomeOf(i))'
  BY <1>10
<1>16. \A b \in blocks' : /\ b \in Reaching(was, Exits, {})'
                          /\ Several(was'[b]) => kind'[b] = "cond"
                          /\ kind'[b] = "ret" => was'[b] = {}
  BY <1>8, <1>13
<1> QED
  BY <1>6, <1>9, <1>12, <1>14, <1>15, <1>16 DEF WasInv

(* Until removing is done, that is how the graph was, but for the branches *)
(* that were redirected.                                                   *)
LEMMA WasStep ==
  ASSUME TypeOK, TypeOK', InsInv, InsInv', ClosedInv, EdgesInv, ShapeInv, ExitsInv,
         MarkInv, WasInv, SettledInv, [Next]_vars
  PROVE  WasInv'
<1>i. /\ fn' = fn /\ phiSrc' = phiSrc /\ kind' = kind /\ \A i : HomeOf(i)' = HomeOf(i)
  BY InputKept
<1> HIDE DEF HomeOf, Needs
<1>1. CASE StartMark
  BY <1>1, WasStart
<1>2. CASE DeleteUnused \/ GiveUp \/ Sweep \/ EndRound
  <2>1. pc' \notin {"worklist", "remove"}
    BY <1>2 DEF DeleteUnused, GiveUp, Sweep, EndRound, EdgesInv
  <2> QED
    BY <2>1 DEF WasInv
<1>3. CASE (\E i \in Ins : MarkOne(i)) \/ StartRemove \/ CollectBlock \/ RedirectBlock \/ UNCHANGED vars
  <2>1. SUFFICES ASSUME pc' \in {"worklist", "remove"} PROVE WasInv'
    BY DEF WasInv
  <2>2. /\ pc \in {"worklist", "remove"}
        /\ was' = was /\ pdom' = pdom /\ blocks' = blocks /\ domFrontier' = domFrontier
    BY <1>3, <2>1 DEF MarkOne, StartRemove, CollectBlock, RedirectBlock, vars, cfg, marks
  <2>3. fn.phi \cap ins' = fn.phi \cap ins
    <3>1. CASE RedirectBlock
      <4>1. ins' = ins \cup {J(cur)} /\ cur \in Block
        BY <3>1 DEF RedirectBlock, TypeOK
      <4> QED
        BY <4>1, Homes DEF TypeOK, FunctionType
    <3>2. CASE ~RedirectBlock
      BY <3>2, <1>3 DEF MarkOne, StartRemove, CollectBlock, vars
    <3> QED
      BY <3>1, <3>2
  <2>4. Exits' = Exits
    BY <1>i, <2>2, ExitsAre, ExitsAreNext
  <2> HIDE DEF Exits
  <2>5. /\ \A b \in Block : /\ was[b] \subseteq blocks /\ (b \notin blocks => was[b] = {})
                            /\ WasFrontier(b) \subseteq domFrontier[b]
        /\ \A b \in blocks : /\ b \in Reaching(was, Exits, {})
                             /\ Several(was[b]) => kind[b] = "cond"
                             /\ kind[b] = "ret" => was[b] = {}
        /\ pdom = [b \in Block |-> {x \in blocks : b \notin Reaching(was, Exits, {x})}]
        /\ \A i \in mark : HomeOf(i) \in blocks /\ FromEntry(was, HomeOf(i))
        /\ \A p \in fn.phi \cap ins : {c \in Block : fn.home[p] \in was[c]} = phiSrc[fn.home[p]]
        /\ \A b \in blocks : succ[b] = was[b] \/ (pc = "remove" /\ Redirected(b))
    BY <2>2 DEF WasInv
  <2>6. \A b \in Block : WasFrontier(b)' = WasFrontier(b)
    BY <2>2 DEF WasFrontier, Several
  <2>7. \A A : Reaching(was, Exits, A)' = Reaching(was, Exits, A)
    BY <2>2, <2>4 DEF Reaching
  <2>8. \A i : FromEntry(was, HomeOf(i))' <=> FromEntry(was, HomeOf(i))
    BY <2>2, <1>i DEF FromEntry, Reaching
  <2>9. \A b \in blocks' : b \in Reaching(was, Exits, {})'
    BY <2>2, <2>5, <2>7
  <2>10. pdom' = [b \in Block |-> {x \in blocks' : b \notin Reaching(was', Exits', {x})}]
    BY <2>2, <2>4, <2>5
  <2>11. \A i \in mark' : HomeOf(i) \in blocks /\ FromEntry(was, HomeOf(i))
    <3>1. CASE \E i \in Ins : MarkOne(i)
      <4>1. PICK i \in Ins : MarkOne(i)
        BY <3>1
      <4>2. pc = "worklist" /\ i \in worklist /\ mark' = mark \cup Needs(i)
        BY <4>1 DEF MarkOne
      <4>3. PICK M : Enough(M) /\ mark \subseteq M
        BY <4>2 DEF MarkInv
      <4>4. mark' \subseteq M
        BY <4>2, <4>3 DEF ClosedInv, Enough
      <4>5. succ = was
        <5>1. \A b \in Block : succ[b] = was[b]
          BY <4>2, <2>5 DEF EdgesInv
        <5> QED
          BY <5>1 DEF TypeOK
      <4> QED
        BY <4>3, <4>4, <4>5 DEF Enough
    <3>2. CASE mark' = mark
      BY <3>2, <2>5
    <3> QED
      BY <3>1, <3>2, <1>3 DEF StartRemove, CollectBlock, RedirectBlock, vars, marks
  <2>12. \A b \in blocks' : succ'[b] = was'[b] \/ (pc' = "remove" /\ Redirected(b)')
    <3>1. CASE (\E i \in Ins : MarkOne(i)) \/ StartRemove
      <4>1. pc = "worklist" /\ succ' = succ
        BY <3>1 DEF MarkOne, StartRemove, cfg
      <4> QED
        BY <4>1, <2>2, <2>5
    <3>2. CASE CollectBlock \/ UNCHANGED vars
      <4>1. succ' = succ /\ ins' = ins /\ mark' = mark /\ bmark' = bmark /\ pc' = pc
        BY <3>2 DEF CollectBlock, vars, cfg, marks
      <4>2. \A b : FirstMarked(b)' = FirstMarked(b)
        BY <4>1, <2>2, FirstMarkedKept
      <4>3. \A b \in blocks : Redirected(b) => Redirected(b)'
        BY <4>1, <4>2, <2>2, <1>i DEF Redirected
      <4> QED
        BY <4>1, <4>3, <2>2, <2>5
    <3>3. CASE RedirectBlock
      <4>1. /\ mark' = mark /\ bmark' = bmark /\ pc' = "remove" /\ pc = "remove"
            /\ ins' = ins \cup {J(cur)}
        BY <3>3 DEF RedirectBlock, marks
      <4>2. PICK m \in blocks :
              /\ m \in pdom[cur] \ {cur} /\ m \in Block /\ cur \in Block
              /\ succ' = [succ EXCEPT ![cur] = {m}]
              /\ FirstMarked(cur) = {m}
              /\ kind[cur] = "cond" /\ T(cur) \in ins \ mark
        BY <3>3, RedirectWhere
      <4>3. \A b : FirstMarked(b)' = FirstMarked(b)
        BY <4>1, <2>2, FirstMarkedKept
      <4>4. \A b \in Block : succ'[b] = IF b = cur THEN {m} ELSE succ[b]
        BY <4>2 DEF TypeOK
      <4>5. ASSUME NEW b \in blocks, b = cur PROVE Redirected(b)'
        <5>1. J(b) \in ins' /\ kind'[b] = "cond" /\ T(b) \notin mark'
          BY <4>1, <4>2, <4>5, <1>i
        <5>2. m \in pdom'[b] \ {b} /\ succ'[b] = {m} /\ FirstMarked(b)' = {m}
          <6>1. FirstMarked(b) = {m}
            BY <4>2, <4>5
          <6> QED
            BY <4>2, <4>3, <4>4, <4>5, <6>1, <2>2
        <5> QED
          BY <5>1, <5>2 DEF Redirected
      <4>6. \A b \in blocks : b # cur /\ Redirected(b) => Redirected(b)'
        BY <4>1, <4>3, <4>4, <2>2, <1>i DEF Redirected, TypeOK
      <4> QED
        BY <4>1, <4>4, <4>5, <4>6, <2>2, <2>5 DEF TypeOK
    <3> QED
      BY <3>1, <3>2, <3>3, <1>3
  <2> HIDE DEF Redirected, WasFrontier, FromEntry
  <2>13. \A i \in mark' : HomeOf(i)' \in blocks' /\ FromEntry(was, HomeOf(i))'
    BY <2>2, <2>8, <2>11, <1>i
  <2>14. \A p \in fn'.phi \cap ins' : {c \in Block : fn'.home[p] \in was'[c]} = phiSrc'[fn'.home[p]]
    BY <2>2, <2>3, <2>5, <1>i
  <2>15. \A b \in Block : /\ was'[b] \subseteq blocks' /\ (b \notin blocks' => was'[b] = {})
                          /\ WasFrontier(b)' \subseteq domFrontier'[b]
    BY <2>2, <2>5, <2>6
  <2>16. \A b \in blocks' : /\ Several(was'[b]) => kind'[b] = "cond"
                            /\ kind'[b] = "ret" => was'[b] = {}
    BY <2>2, <2>5, <1>i
  <2> QED
    BY <2>9, <2>10, <2>12, <2>13, <2>14, <2>15, <2>16 DEF WasInv, Several
<1> QED
  BY <1>1, <1>2, <1>3 DEF Next

-----------------------------------------------------------------------------
(* With every exit marked, a dead branch always finds where to lead.       *)
LEMMA NeverGivesUp ==
  ASSUME TypeOK, ClosedInv, ShapeInv, MarkInv, WasInv, GiveUp
  PROVE  ~fn.retEssential
<1>1. pc = "remove" /\ cur \in blocks /\ DeadBranch(cur) /\ MarkBranch(cur) = {}
  BY DEF GiveUp
<1>2. Unneeded(cur) /\ Flow(was, Exits, blocks, pdom) /\ FrontierMarked
  BY <1>1, DeadIsUnneeded, FlowWas, FrontierHolds
<1> SUFFICES ASSUME fn.retEssential PROVE FALSE
  OBVIOUS
<1>3. ASSUME NEW b \in Exits PROVE b \in bmark
  <2>1. b \in Block /\ kind[b] = "ret"
    BY DEF Exits, TypeOK
  <2>2. T(b) \in Essential
    BY <2>1, Sorts DEF Essential
  <2>3. T(b) \in mark
    BY <2>2, <1>1 DEF MarkInv
  <2> QED
    BY <2>1, <2>3, Homes DEF MarkInv
<1>4. FirstMarked(cur) # {} /\ FirstMarked(cur) \subseteq MarkBranch(cur)
  <2> DEFINE X == Exits
  <2>1. Flow(was, X, blocks, pdom) /\ X \subseteq bmark
    BY <1>2, <1>3
  <2> HIDE DEF X
  <2> QED
    BY <2>1, <1>2, FirstMarkedExists, FirstMarkedIsNearest
<1> QED
  BY <1>1, <1>4

(* Nothing that is redirected led, or leads, to a block with a phi that is *)
(* kept.                                                                   *)
LEMMA PhisSwept ==
  ASSUME TypeOK, InsInv, ClosedInv, EdgesInv, ShapeInv, MarkInv, WasInv, pc = "remove",
         NEW p \in fn.phi \cap ins, p \in mark
  PROVE  pred[fn.home[p]] = phiSrc[fn.home[p]]
<1> DEFINE h == fn.home[p]
<1>1. p \in Value /\ h \in Block /\ HomeOf(p) = h
  BY DEF TypeOK, FunctionType, HomeOf
<1>2. pred[h] = {c \in Block : h \in succ[c]} /\ phiSrc[h] = {c \in Block : h \in was[c]}
  BY <1>1 DEF EdgesInv, WasInv
<1>3. Needs(p) \subseteq mark
  BY DEF MarkInv, ClosedInv
<1>4. ASSUME NEW c \in Block, c \in phiSrc[h], J(c) \in ins \/ kind[c] # "ret"
      PROVE  T(c) \in mark /\ J(c) \notin ins /\ c \in bmark
  <2>1. T(c) \in mark /\ J(c) \notin ins
    BY <1>1, <1>3, <1>4, NeededBranch
  <2>2. HomeOf(T(c)) = c
    BY Homes
  <2> QED
    BY <2>1, <2>2 DEF MarkInv
<1>5. ASSUME NEW c \in Block, h \in was[c] PROVE c \in blocks /\ kind[c] # "ret"
  BY <1>5 DEF WasInv
<1>6. ASSUME NEW c \in Block, h \in was[c] PROVE h \in succ[c]
  <2>1. succ[c] = was[c] \/ Redirected(c)
    BY <1>5, <1>6 DEF WasInv
  <2>2. J(c) \notin ins
    BY <1>2, <1>4, <1>5, <1>6
  <2> QED
    BY <2>1, <2>2, <1>6 DEF Redirected
<1>7. ASSUME NEW c \in Block, h \in succ[c] PROVE h \in was[c]
  <2>1. c \in blocks
    BY <1>7 DEF EdgesInv
  <2>2. succ[c] = was[c] \/ Redirected(c)
    BY <2>1 DEF WasInv
  <2>3. SUFFICES ASSUME Redirected(c) PROVE FALSE
    BY <2>2, <1>7
  <2>4. FirstMarked(c) = {h} /\ T(c) \notin mark
    BY <2>3, <1>7 DEF Redirected
  <2>5. PICK d \in Through(c) : h \in was[d]
    BY <2>4 DEF FirstMarked
  <2>6. d \in Block /\ (d = c \/ d \notin bmark)
    BY EdgesType, ThroughFacts
  <2>7. T(d) \in mark /\ d \in bmark
    BY <1>2, <1>4, <1>5, <2>5, <2>6
  <2> QED
    BY <2>4, <2>6, <2>7
<1> QED
  BY <1>2, <1>6, <1>7

(* What remove() has passed is settled, and a block that keeps a phi keeps *)
(* its predecessors.                                                       *)
LEMMA SettledStep ==
  ASSUME TypeOK, InsInv, ClosedInv, RemoveInv, EdgesInv, ShapeInv, MarkInv, WasInv, SettledInv,
         [Next]_vars
  PROVE  SettledInv'
<1>i. /\ fn' = fn /\ phiSrc' = phiSrc /\ kind' = kind /\ \A i : HomeOf(i)' = HomeOf(i)
  BY InputKept
<1>n. cur \in Nat /\ Block \subseteq Nat /\ blocks \subseteq Block
      /\ \A i \in ins : HomeOf(i) \in Block /\ HomeOf(i) \in blocks
  BY NAssumption, HomeType DEF TypeOK, Block, InsInv
<1>d. fn.retEssential => ~gaveUp
  BY DEF SettledInv
<1>1. CASE StartMark \/ (\E i \in Ins : MarkOne(i)) \/ EndRound
  <2>1. /\ pc # "remove" /\ pc' \notin {"remove", "readjust"} /\ gaveUp' = gaveUp
        /\ pred' = pred /\ ins' = ins
    BY <1>1 DEF StartMark, MarkOne, EndRound, cfg
  <2> QED
    BY <2>1, <1>i DEF SettledInv
<1>2. CASE StartRemove
  <2>1. cur' = 1 /\ pc' = "remove" /\ UNCHANGED <<ins, cfg, gaveUp>>
    BY <1>2 DEF StartRemove
  <2>2. \A b \in Block : ~(b < 1)
    BY NAssumption DEF Block
  <2> QED
    BY <2>1, <2>2, <1>i, <1>n DEF SettledInv, cfg
<1>3. CASE CollectBlock
  <2>1. /\ pc = "remove" /\ pc' = "remove" /\ mark' = mark /\ ins' = ins /\ cur' = cur + 1 /\ cur \in Block
        /\ temp' = temp \cup (IF cur \in blocks THEN Collected(cur) ELSE {})
        /\ cur \in blocks => ~DeadBranch(cur)
        /\ succ' = succ /\ blocks' = blocks /\ gaveUp' = gaveUp
    BY <1>3 DEF CollectBlock, marks, cfg
  <2>2. \A b \in Block : b < cur + 1 => b < cur \/ b = cur
    BY <1>n
  <2>3. ASSUME NEW i \in ins \cap Value, HomeOf(i) = cur PROVE i \in mark \cup temp'
    BY <2>1, <2>3, <1>n DEF Collected
  <2>4. \A i \in ins' \cap Value : HomeOf(i)' < cur' => i \in mark' \cup temp'
    BY <2>1, <2>2, <2>3, <1>i, <1>n DEF SettledInv
  <2>5. ASSUME cur \in blocks, Several(succ[cur]) PROVE T(cur) \in mark
    <3>1. J(cur) \notin ins
      BY <2>5, Disjoint DEF ShapeInv
    <3>2. T(cur) \in ins /\ kind[cur] = "cond"
      <4>1. kind[cur] \in {"ret", "uncond", "cond"}
        BY <2>1 DEF TypeOK
      <4>2. kind[cur] # "ret"
        BY <2>5, <3>1 DEF ShapeInv, Several
      <4>3. kind[cur] # "uncond"
        BY <2>5, <3>1, Disjoint DEF ShapeInv
      <4> QED
        BY <4>1, <4>2, <4>3, <3>1, <2>5 DEF ShapeInv
    <3> QED
      BY <3>2, <2>1, <2>5 DEF DeadBranch
  <2>6. \A b \in blocks : b < cur + 1 /\ Several(succ[b]) => T(b) \in mark
    BY <2>1, <2>2, <2>5, <1>n DEF SettledInv
  <2> QED
    BY <2>1, <2>4, <2>6, <1>d, <1>i DEF SettledInv
<1>4. CASE RedirectBlock
  <2>1. /\ pc = "remove" /\ pc' = "remove" /\ mark' = mark /\ ins' = ins \cup {J(cur)}
        /\ cur' = cur + 1 /\ temp' = temp \cup Collected(cur)
        /\ blocks' = blocks /\ gaveUp' = gaveUp
    BY <1>4 DEF RedirectBlock, marks
  <2>2. PICK m \in blocks : succ' = [succ EXCEPT ![cur] = {m}] /\ cur \in Block /\ cur \in blocks
    BY <1>4, RedirectWhere
  <2>3. \A b \in Block : b < cur + 1 => b < cur \/ b = cur
    BY <1>n
  <2>4. ASSUME NEW i \in ins \cap Value, HomeOf(i) = cur PROVE i \in mark \cup temp'
    BY <2>1, <2>4 DEF Collected
  <2>5. ins' \cap Value \subseteq ins
    BY <2>1, <2>2, Homes
  <2>6. \A i \in ins' \cap Value : HomeOf(i)' < cur' => i \in mark' \cup temp'
    BY <2>1, <2>3, <2>4, <2>5, <1>i, <1>n DEF SettledInv
  <2>7. ~Several({m})
    BY DEF Several
  <2>8. \A b \in blocks : b < cur + 1 /\ Several(succ'[b]) => T(b) \in mark
    <3>1. \A b \in blocks : succ'[b] = IF b = cur THEN {m} ELSE succ[b]
      BY <2>2, <1>n DEF TypeOK
    <3> QED
      BY <3>1, <2>1, <2>3, <2>7, <1>n DEF SettledInv
  <2> QED
    BY <2>1, <2>6, <2>8, <1>d, <1>i DEF SettledInv
<1>5. CASE GiveUp
  <2>1. pc' = "readjust" /\ gaveUp' = TRUE
    BY <1>5 DEF GiveUp
  <2>2. ~fn.retEssential
    BY <1>5, NeverGivesUp
  <2> QED
    BY <2>1, <2>2, <1>i DEF SettledInv
<1>6. CASE Sweep
  <2>1. /\ pc = "remove" /\ pc' = "readjust" /\ ins' = ins \ temp /\ mark' = mark /\ gaveUp' = gaveUp
        /\ succ' = succ /\ blocks' = blocks /\ pred' = pred /\ cur \notin Block
    BY <1>6 DEF Sweep, cfg, marks
  <2>2. \A b \in Block : b < cur
    BY <2>1, NAssumption DEF TypeOK, Block
  <2>3. ins' \cap Value \subseteq mark
    BY <2>1, <2>2, <1>n DEF SettledInv
  <2>4. \A b \in blocks : Several(succ[b]) => T(b) \in mark
    BY <2>1, <2>2, <1>n DEF SettledInv
  <2>5. \A p \in fn.phi \cap ins' : p \in fn.phi \cap ins /\ p \in mark
    BY <2>1, <2>3 DEF TypeOK, FunctionType
  <2>6. \A p \in fn.phi \cap ins' : pred[fn.home[p]] = phiSrc[fn.home[p]]
    BY <2>1, <2>5, PhisSwept
  <2> QED
    BY <2>1, <2>3, <2>4, <2>6, <1>d, <1>i DEF SettledInv
<1>7. CASE DeleteUnused
  <2>1. /\ pc' = pc /\ pc = "readjust" /\ blocks' = blocks \ Unused /\ mark' = mark
        /\ ins' = {i \in ins : HomeOf(i) \notin Unused}
        /\ pred' = [b \in Block |-> pred[b] \ Unused]
        /\ succ' = [b \in Block |-> IF b \in Unused THEN {} ELSE succ[b]]
        /\ gaveUp' = gaveUp
    BY <1>7 DEF DeleteUnused, EdgesInv, marks
  <2>2. SUFFICES ASSUME ~gaveUp PROVE SettledInv'
    BY <2>1, <1>d, <1>i DEF SettledInv
  <2>3. ins' \cap Value \subseteq mark
    BY <2>1, <2>2 DEF SettledInv
  <2>4. \A b \in blocks' : Several(succ'[b]) => T(b) \in mark
    BY <2>1, <2>2, <1>n DEF SettledInv
  <2>5. ASSUME NEW p \in fn.phi \cap ins' PROVE pred'[fn.home[p]] = phiSrc[fn.home[p]]
    <3> DEFINE h == fn.home[p]
    <3>1. p \in Value /\ h \in Block /\ HomeOf(p) = h /\ p \in fn.phi \cap ins /\ p \in mark
      BY <2>1, <2>3 DEF TypeOK, FunctionType, HomeOf
    <3>2. pred[h] = phiSrc[h] /\ pred[h] = {c \in Block : h \in succ[c]}
      BY <2>1, <2>2, <3>1 DEF SettledInv, EdgesInv
    <3>3. Needs(p) \subseteq mark
      BY <2>1, <3>1 DEF MarkInv
    <3>4. ASSUME NEW c \in pred[h] PROVE c \notin Unused
      <4>1. c \in Block /\ c \in blocks /\ h \in succ[c] /\ c \in phiSrc[h]
        BY <3>2 DEF EdgesInv
      <4>2. J(c) \in ins \/ kind[c] # "ret"
        BY <4>1 DEF ShapeInv
      <4>3. T(c) \in mark
        BY <4>1, <4>2, <3>1, <3>3, NeededBranch
      <4>4. FromEntry(succ, c)
        <5>1. HomeOf(T(c)) = c
          BY <4>1, Homes
        <5>2. FromEntry(succ, HomeOf(T(c)))
          BY <4>3, <2>1 DEF MarkInv
        <5> QED
          BY <5>1, <5>2
      <4> QED
        BY <4>1, <4>4, ReachedIsUsed
    <3> QED
      BY <3>1, <3>2, <3>4, <2>1
  <2> QED
    BY <2>1, <2>2, <2>3, <2>4, <2>5, <1>d, <1>i DEF SettledInv
<1>8. CASE UNCHANGED vars
  <2>1. /\ pc' = pc /\ cur' = cur /\ ins' = ins /\ mark' = mark /\ temp' = temp /\ gaveUp' = gaveUp
        /\ succ' = succ /\ blocks' = blocks /\ pred' = pred
    BY <1>8 DEF vars, cfg, marks
  <2> QED
    BY <2>1, <1>i DEF SettledInv
<1> QED
  BY <1>1, <1>2, <1>3, <1>4, <1>5, <1>6, <1>7, <1>8 DEF Next

-----------------------------------------------------------------------------
(* The blocks that return stay in reach of the entry: a redirected branch  *)
(* never cuts one off, for the marked block it leads to is passed before.  *)
LEMMA ReturnsStep ==
  ASSUME TypeOK, TypeOK', InsInv, ClosedInv, EdgesInv, ShapeInv, MarkInv, WasInv, ReturnsInv,
         [Next]_vars
  PROVE  ReturnsInv'
<1>k. kind' = kind
  BY InputKept
<1>1. CASE DeleteUnused
  <2>1. /\ pc' = "readjust" /\ blocks' = blocks \ Unused /\ gaveUp' = gaveUp
    BY <1>1 DEF DeleteUnused, EdgesInv
  <2>2. ASSUME ~gaveUp, NEW b \in Block, kind[b] = "ret"
        PROVE  b \in blocks' /\ FromEntry(succ', b)
    <3>1. b \in blocks /\ FromEntry(succ, b)
      BY <2>2 DEF ReturnsInv
    <3> QED
      BY <3>1, <2>1, <1>1, DeleteKeepsReach
  <2>3. \A b \in Block : FromEntry(succ, b)' <=> FromEntry(succ', b)
    BY DEF FromEntry, Reaching
  <2> QED
    BY <2>1, <2>2, <2>3, <1>k DEF ReturnsInv
<1>2. CASE StartMark
  <2>1. /\ pc = "adjust" /\ succ' = succ /\ blocks' = blocks /\ was' = succ /\ gaveUp' = gaveUp
    BY <1>2 DEF StartMark, cfg
  <2>2. ~gaveUp
    BY <2>1 DEF ShapeInv
  <2>3. \A b \in Block : /\ FromEntry(succ, b)' <=> FromEntry(succ, b)
                         /\ FromEntry(was, b)' <=> FromEntry(succ, b)
    BY <2>1 DEF FromEntry, Reaching
  <2> QED
    BY <2>1, <2>2, <2>3, <1>k DEF ReturnsInv
<1>3. CASE RedirectBlock
  <2>1. /\ pc = "remove" /\ was' = was /\ blocks' = blocks /\ gaveUp' = gaveUp
    BY <1>3 DEF RedirectBlock, marks
  <2>2. ~gaveUp /\ bmark = {HomeOf(i) : i \in mark}
    BY <2>1 DEF ShapeInv, MarkInv
  <2>3. ASSUME NEW h \in Block, kind[h] = "ret"
        PROVE  h \in blocks /\ FromEntry(succ', h) /\ FromEntry(was, h)
    <3> DEFINE f == succ'
               X == Exits
    <3>1. h \in blocks /\ FromEntry(was, h)
      BY <2>1, <2>2, <2>3 DEF ReturnsInv
    <3>2. h \in X /\ Flow(was, X, blocks, pdom)
      BY <2>1, <2>3, <3>1, ExitsAre, FlowWas
    <3>3. was \in Edges /\ f \in Edges
      BY DEF TypeOK, Edges
    <3>4. \A q \in Block : \/ f[q] = was[q]
                           \/ \E k \in pdom[q] \ {q} : /\ k \in Block /\ f[q] = {k}
                                                       /\ FirstMarked(q) = {k}
      BY <1>3, RedirectedGraph
    <3> HIDE DEF f, X
    <3>5. ASSUME NEW q \in Block \ {h}, f[q] # was[q]
          PROVE  /\ h \notin Through(q)
                 /\ \E m \in Block : f[q] = {m} /\ FirstMarked(q) = {m}
      <4>1. PICK k \in pdom[q] \ {q} : k \in Block /\ f[q] = {k} /\ FirstMarked(q) = {k}
        BY <3>4, <3>5
      <4>2. k \in bmark
        BY <4>1 DEF FirstMarked
      <4>3. CASE h \in bmark
        <5>1. \A c \in Through(q) : c = q \/ c \notin bmark
          <6>1. q \in Block /\ was \in Edges
            BY <3>3
          <6> QED
            BY <6>1, ThroughFacts
        <5> QED
          BY <5>1, <4>1, <4>3
      <4>4. CASE h \notin bmark
        BY <4>1, <4>2, <4>4, <3>2, ReturnNotThrough
      <4> QED
        BY <4>1, <4>3, <4>4
    <3>6. FromEntry(f, h)
      BY <3>1, <3>3, <3>5, RedirectedFromEntry
    <3> QED
      BY <3>1, <3>6 DEF f
  <2>4. \A b \in Block : /\ FromEntry(succ, b)' <=> FromEntry(succ', b)
                         /\ FromEntry(was, b)' <=> FromEntry(was, b)
    BY <2>1 DEF FromEntry, Reaching
  <2> QED
    BY <2>1, <2>3, <2>4, <1>k DEF ReturnsInv
<1>4. CASE \/ (\E i \in Ins : MarkOne(i)) \/ StartRemove \/ CollectBlock
           \/ GiveUp \/ Sweep \/ EndRound \/ UNCHANGED vars
  <2>1. /\ succ' = succ /\ blocks' = blocks /\ was' = was
        /\ gaveUp => gaveUp'
        /\ pc' \in {"worklist", "remove"} => pc \in {"worklist", "remove"}
    BY <1>4 DEF MarkOne, StartRemove, CollectBlock, GiveUp, Sweep, EndRound, cfg, marks, vars
  <2>2. \A b \in Block : /\ FromEntry(succ, b)' <=> FromEntry(succ, b)
                         /\ FromEntry(was, b)' <=> FromEntry(was, b)
    BY <2>1 DEF FromEntry, Reaching
  <2> QED
    BY <2>1, <2>2, <1>k DEF ReturnsInv
<1> QED
  BY <1>1, <1>2, <1>3, <1>4 DEF Next

(* Redirecting is all that changes where a block that is left leads.       *)
LEMMA TargetStep ==
  ASSUME TypeOK, ShapeInv, WasInv, TargetInv, [Next]_vars
  PROVE  TargetInv'
<1>t. target' = target /\ blocks \subseteq Block
  BY InputKept DEF TypeOK
<1>1. CASE DeleteUnused
  <2>1. /\ blocks' = blocks \ Unused /\ ins' = {i \in ins : HomeOf(i) \notin Unused}
        /\ \A b \in Block \ Unused : succ'[b] = succ[b]
    BY <1>1 DEF DeleteUnused
  <2>2. \A b \in blocks' : J(b) \notin ins' => J(b) \notin ins
    BY <2>1, <1>t, Homes
  <2> QED
    BY <2>1, <2>2, <1>t DEF TargetInv
<1>2. CASE RedirectBlock
  <2>1. PICK m \in blocks : succ' = [succ EXCEPT ![cur] = {m}] /\ cur \in Block
    BY <1>2, RedirectTo
  <2>2. blocks' = blocks /\ ins' = ins \cup {J(cur)}
    BY <1>2 DEF RedirectBlock
  <2>3. \A b \in blocks : b # cur => succ'[b] = succ[b]
    BY <2>1, <1>t DEF TypeOK
  <2> QED
    BY <2>2, <2>3, <1>t DEF TargetInv
<1>3. CASE Sweep
  <2>1. ins' = ins \ temp /\ succ' = succ /\ blocks' = blocks /\ temp \cap Jump = {}
    BY <1>3 DEF Sweep, cfg, ShapeInv
  <2> QED
    BY <2>1, <1>t, Homes DEF TargetInv
<1>4. CASE \/ StartMark \/ (\E i \in Ins : MarkOne(i)) \/ StartRemove \/ CollectBlock
           \/ GiveUp \/ EndRound \/ UNCHANGED vars
  <2>1. ins' = ins /\ succ' = succ /\ blocks' = blocks
    BY <1>4 DEF StartMark, MarkOne, StartRemove, CollectBlock, GiveUp, EndRound, cfg, vars
  <2> QED
    BY <2>1, <1>t DEF TargetInv
<1> QED
  BY <1>1, <1>2, <1>3, <1>4 DEF Next

(* In a useless function there is no marked block to redirect to.          *)
LEMMA UselessStep ==
  ASSUME TypeOK, UselessInv, [Next]_vars
  PROVE  UselessInv'
<1>e. Essential' = Essential
  BY InputKept
<1> HIDE DEF Essential
<1>1. SUFFICES ASSUME Essential = {}, mark = {}, bmark = {}, worklist = {}, ins \cap Jump = {}
               PROVE  mark' = {} /\ bmark' = {} /\ worklist' = {} /\ ins' \cap Jump = {}
  BY <1>e DEF UselessInv
<1>2. CASE StartMark
  BY <1>1, <1>2 DEF StartMark
<1>3. CASE \E i \in Ins : MarkOne(i)
  BY <1>1, <1>3 DEF MarkOne
<1>4. CASE RedirectBlock
  BY <1>1, <1>4 DEF RedirectBlock, MarkBranch
<1>5. CASE \/ DeleteUnused \/ StartRemove \/ CollectBlock \/ GiveUp \/ Sweep \/ EndRound
           \/ UNCHANGED vars
  <2>1. ins' \subseteq ins /\ UNCHANGED <<mark, bmark, worklist>>
    BY <1>5 DEF DeleteUnused, StartRemove, CollectBlock, GiveUp, Sweep, EndRound, marks, vars
  <2> QED
    BY <1>1, <2>1
<1> QED
  BY <1>2, <1>3, <1>4, <1>5 DEF Next

-----------------------------------------------------------------------------
(* On a well-formed function everything holds, with every instruction in   *)
(* reach of marking.                                                       *)
LEMMA InvInit == Init => IInv
<1> SUFFICES ASSUME Init PROVE IInv
  OBVIOUS
<1>1. TypeOK
  BY TypeInit
<1>2. \A i \in ins : HomeOf(i) \in blocks
  BY <1>1, HomeType DEF Init, Ins
<1>3. \A i \in Ins : (i \in Term => kind[i[2]] = "uncond") /\ i \notin Value => operands[i] = {}
  BY Sorts DEF Init, WellFormedFunction, Ins
<1>4. \A b \in Block : J(b) \notin ins
  BY Sorts DEF Init
<1>5. /\ worklist = {} /\ mark = {} /\ bmark = {} /\ temp = {} /\ pc = "adjust"
      /\ gaveUp = FALSE /\ blocks = Block /\ ins = Value \cup Term
      /\ pred = [b \in Block |-> {c \in Block : b \in succ[c]}] /\ phiSrc = pred
      /\ was = succ /\ target = succ
      /\ kind = [b \in Block |-> IF succ[b] = {} THEN "ret"
                                 ELSE IF Cardinality(succ[b]) = 1 THEN "uncond" ELSE "cond"]
  BY DEF Init
<1>6. InsInv
  BY <1>2, <1>3, <1>4 DEF InsInv
<1>7. ClosedInv /\ RemoveInv /\ WasInv
  BY <1>5 DEF ClosedInv, RemoveInv, WasInv
<1>8. \A b \in Block : FromEntry(succ, b)
  BY DEF Init, WellFormedGraph, FromEntry
<1>9. EdgesInv
  <2>1. Entry \in Block
    BY NAssumption DEF Entry, Block
  <2>2. Unused = {}
    BY <1>1, <1>5, <1>8, ReachedHasPred DEF Unused
  <2> QED
    BY <2>1, <2>2, <1>1, <1>5 DEF EdgesInv, TypeOK
<1>10. ShapeInv
  <2>1. ASSUME NEW b \in Block
        PROVE  /\ T(b) \in ins
               /\ kind[b] = "ret" => succ[b] = {}
               /\ kind[b] = "uncond" => Single(succ[b])
               /\ kind[b] = "cond" => Several(succ[b])
    <3>1. succ[b] \in SUBSET Block
      BY <1>1 DEF TypeOK
    <3>2. Cardinality(succ[b]) = 1 <=> Single(succ[b])
      BY <3>1, Counting
    <3>3. kind[b] = IF succ[b] = {} THEN "ret"
                    ELSE IF Cardinality(succ[b]) = 1 THEN "uncond" ELSE "cond"
      BY <1>5
    <3>4. Several(succ[b]) <=> succ[b] # {} /\ ~Single(succ[b])
      BY DEF Several, Single
    <3>5. T(b) \in ins
      BY <1>5, Homes
    <3> QED
      BY <3>2, <3>3, <3>4, <3>5
  <2> QED
    BY <2>1, <1>4, <1>5 DEF ShapeInv
<1>11. ExitsInv
  <2>1. Exits = {b \in Block : kind[b] = "ret"}
    BY <1>1, <1>5, <1>6, ExitsAre
  <2>2. \A b \in Block : kind[b] = "ret" <=> succ[b] = {}
    BY <1>5
  <2>3. Exits = {b \in Block : succ[b] = {}}
    BY <2>1, <2>2
  <2>4. Reaching(succ, {b \in Block : succ[b] = {}}, {}) = Block
    BY DEF Init, WellFormedGraph
  <2> QED
    BY <2>3, <2>4, <1>5 DEF ExitsInv
<1>12. Essential \subseteq ins
  BY <1>1, <1>5 DEF Essential, TypeOK, FunctionType
<1>13. Enough(Value \cup Term)
  <2>1. ASSUME NEW i \in Value \cup Term
        PROVE  /\ Needs(i) \subseteq Value \cup Term
               /\ HomeOf(i) \in blocks /\ FromEntry(succ, HomeOf(i))
    <3>1. i \in Ins /\ HomeOf(i) \in Block
      BY <1>1, HomeType DEF Ins
    <3>2. OperandDefs(i) \subseteq Value
      BY <1>1, <3>1 DEF OperandDefs, TypeOK
    <3>3. BranchUsers(i) \subseteq Term
      BY <1>5, Homes DEF BranchUsers
    <3>4. ControlBranches(HomeOf(i)) \subseteq Term
      <4>1. \A c \in domFrontier[HomeOf(i)] : c \in Block
        BY <1>1, <3>1 DEF TypeOK
      <4>2. \A c \in domFrontier[HomeOf(i)] : Last(c) \in Term
        BY <1>4, <4>1, Homes DEF Last
      <4> QED
        BY <4>2 DEF ControlBranches
    <3>5. PhiBranches(HomeOf(i)) \subseteq Term
      <4>1. \A c \in phiSrc[HomeOf(i)] : c \in Block
        BY <1>1, <3>1 DEF TypeOK
      <4>2. \A c \in phiSrc[HomeOf(i)] : Last(c) \in Term
        BY <1>4, <4>1, Homes DEF Last
      <4> QED
        BY <4>2 DEF PhiBranches
    <3> QED
      BY <3>1, <3>2, <3>3, <3>4, <3>5, <1>5, <1>8 DEF Needs
  <2>2. \A b \in blocks : T(b) \in Value \cup Term
    BY <1>5, Homes
  <2> QED
    BY <2>1, <2>2, <1>5, <1>12 DEF Enough
<1>14. MarkInv
  <2> DEFINE M == Value \cup Term
  <2>1. M \in SUBSET (Value \cup Term) /\ Enough(M) /\ mark \subseteq M
    BY <1>5, <1>13
  <2> HIDE DEF M
  <2>2. \E K \in SUBSET (Value \cup Term) : Enough(K) /\ mark \subseteq K
    BY <2>1
  <2> QED
    BY <2>2, <1>5, <1>12 DEF MarkInv
<1>15. SettledInv
  BY <1>5 DEF SettledInv
<1>16. ReturnsInv
  BY <1>5, <1>8 DEF ReturnsInv
<1>17. TargetInv
  BY <1>5 DEF TargetInv
<1>18. UselessInv
  BY <1>5, Sorts DEF UselessInv
<1> QED
  BY <1>1, <1>6, <1>7, <1>9, <1>10, <1>11, <1>14, <1>15, <1>16, <1>17, <1>18 DEF IInv

(* Every step keeps the invariant.                                         *)
LEMMA InvStep ==
  ASSUME IInv, [Next]_vars
  PROVE  IInv'
<1>1. TypeOK'
  BY TypeStep DEF IInv
<1>2. InsInv' /\ ClosedInv' /\ RemoveInv'
  BY InsStep, ClosedStep, RemoveStep DEF IInv
<1>3. EdgesInv' /\ ShapeInv'
  BY EdgesStep, ShapeStep DEF IInv
<1>4. ExitsInv'
  BY <1>1, <1>2, ExitsStep DEF IInv
<1>5. MarkInv'
  BY <1>1, MarkStep DEF IInv
<1>6. WasInv'
  BY <1>1, <1>2, WasStep DEF IInv
<1>7. SettledInv'
  BY SettledStep DEF IInv
<1>8. ReturnsInv' /\ TargetInv' /\ UselessInv'
  BY <1>1, ReturnsStep, TargetStep, UselessStep DEF IInv
<1> QED
  BY <1>1, <1>2, <1>3, <1>4, <1>5, <1>6, <1>7, <1>8 DEF IInv

(* The invariant holds in every reachable state.                           *)
LEMMA Invariance == Spec => []IInv
<1>1. IInv /\ [Next]_vars => IInv'
  BY InvStep
<1> QED
  BY InvInit, <1>1, PTL DEF Spec

-----------------------------------------------------------------------------
(* Sweep never deletes an instruction that one it leaves uses. *)
THEOREM SweepSafe == Spec => []SweepLeavesNoUse
<1>1. IInv => SweepLeavesNoUse
  <2> SUFFICES ASSUME IInv, pc = "remove", cur \notin Block, NEW i \in ins \ temp
               PROVE  operands[i] \cap temp = {}
    BY DEF SweepLeavesNoUse
  <2>1. HomeOf(i) < cur
    BY HomeType, NAssumption DEF IInv, TypeOK, Block
  <2>2. i \in mark \/ operands[i] = {}
    BY <2>1 DEF IInv, RemoveInv
  <2>3. CASE i \in mark
    <3>1. operands[i] \cap ins \subseteq mark
      BY <2>3 DEF IInv, ClosedInv
    <3>2. temp \cap mark = {} /\ temp \subseteq ins
      BY DEF IInv, RemoveInv
    <3> QED
      BY <3>1, <3>2
  <2> QED
    BY <2>2, <2>3
<1> QED
  BY Invariance, <1>1, PTL

(* Marking never looks into a block the pass has deleted, although the     *)
(* frontiers and the sources of the phis, which it follows, keep naming    *)
(* such blocks.  Of the blocks the frontier of a marked block names, those *)
(* that branch are marked and those that return are never deleted.         *)
THEOREM DeletedUntouched == Spec => []NeverTouchesDeleted
<1>1. IInv => NeverTouchesDeleted
  <2> SUFFICES ASSUME IInv, pc = "worklist" PROVE NeverTouchesDeleted
    BY DEF NeverTouchesDeleted
  <2>1. PICK M \in SUBSET (Value \cup Term) : Enough(M) /\ mark \subseteq M
    BY DEF IInv, MarkInv
  <2>2. \A b \in Block : kind[b] = "ret" => b \in blocks
    BY DEF IInv, ShapeInv, ReturnsInv
  <2>3. ASSUME NEW i \in mark, NEW c \in domFrontier[HomeOf(i)] PROVE c \in blocks
    <3>1. i \in M /\ i \in Ins /\ HomeOf(i) \in Block /\ Needs(i) \subseteq M
      BY <2>1, HomeType DEF IInv, TypeOK, Enough
    <3>2. c \in Block
      BY <3>1 DEF IInv, TypeOK
    <3>3. CASE J(c) \notin ins /\ kind[c] = "ret"
      BY <3>2, <3>3, <2>2
    <3>4. CASE J(c) \in ins
      BY <3>2, <3>4, Homes DEF IInv, InsInv
    <3>5. CASE J(c) \notin ins /\ kind[c] # "ret"
      <4>1. Last(c) = T(c) /\ IsBranch(T(c))
        BY <3>2, <3>5, Homes, Sorts DEF Last, IsBranch
      <4>2. T(c) \in Needs(i)
        BY <4>1 DEF Needs, ControlBranches
      <4>3. HomeOf(T(c)) \in blocks
        BY <4>2, <3>1, <2>1 DEF Enough
      <4> QED
        BY <4>3, <3>2, Homes
    <3> QED
      BY <3>3, <3>4, <3>5
  <2>4. \A i \in mark : HomeOf(i) \in blocks
    BY DEF IInv, WasInv
  <2>5. ASSUME NEW p \in fn.phi \cap ins, NEW c \in phiSrc[fn.home[p]] PROVE c \in blocks
    BY DEF IInv, WasInv
  <2> QED
    BY <2>3, <2>4, <2>5 DEF NeverTouchesDeleted
<1> QED
  BY Invariance, <1>1, PTL

(* At the end of every round that did not give up, a block that keeps a    *)
(* phi has exactly the predecessors its phis have sources for: no          *)
(* redirected branch led there and none leads there now.                   *)
THEOREM PhisKeepPreds == Spec => []PhiMatchesPreds
<1>1. IInv => PhiMatchesPreds
  BY DEF IInv, SettledInv, PhiMatchesPreds
<1> QED
  BY Invariance, <1>1, PTL

(* remove() never gives up where the value of the function is used, and in *)
(* a useless function it has redirected nothing when it does.              *)
LEMMA InvFit == IInv => TerminatorsFit
<1> SUFFICES ASSUME IInv, pc \in {"adjust", "done"}, ~LeftHalfDone, NEW b \in blocks
             PROVE  /\ succ[b] \subseteq blocks
                    /\ IF J(b) \in ins THEN T(b) \notin ins /\ Single(succ[b])
                                       ELSE T(b) \in ins /\ succ[b] = target[b]
  BY DEF TerminatorsFit
<1>1. b \in Block /\ J(b) \in Jump
  BY Homes DEF IInv, TypeOK
<1>2. succ[b] \subseteq blocks
  BY <1>1 DEF IInv, EdgesInv
<1>3. J(b) \in ins => ~gaveUp
  BY <1>1 DEF IInv, SettledInv, UselessInv, LeftHalfDone
<1>4. J(b) \in ins => T(b) \notin ins /\ Single(succ[b])
  BY <1>3 DEF IInv, ShapeInv
<1>5. J(b) \notin ins => T(b) \in ins /\ succ[b] = target[b]
  BY DEF IInv, ShapeInv, TargetInv
<1> QED
  BY <1>2, <1>4, <1>5

(* Between the rounds a block that is left ends with one terminator, which *)
(* names the blocks that follow, and these are left too, unless remove()   *)
(* gave up in a function that has effects and whose value nobody uses.     *)
THEOREM BranchesFit == Spec => []TerminatorsFit
BY Invariance, InvFit, PTL

(* No essential instruction is ever deleted, with its block or by the      *)
(* sweep, and its block is not cut off from the entry, neither in the      *)
(* lists of edges nor, between the rounds, by what the blocks end with.    *)
THEOREM EssentialKept == Spec => []EssentialStays
<1>1. IInv => EssentialStays
  <2> SUFFICES ASSUME IInv, NEW i \in Essential
               PROVE  /\ i \in ins
                      /\ pc \in {"adjust", "done"} /\ ~LeftHalfDone =>
                           FromEntry([b \in Block |-> Leads(b)], HomeOf(i))
    BY DEF EssentialStays
  <2>1. i \in ins
    BY DEF IInv, MarkInv
  <2>2. FromEntry(succ, HomeOf(i))
    <3>1. CASE pc \in {"adjust", "worklist"}
      <4>1. PICK M \in SUBSET (Value \cup Term) : Enough(M)
        BY <3>1 DEF IInv, MarkInv
      <4> QED
        BY <4>1 DEF Enough
    <3>2. CASE pc \in {"remove", "readjust", "done"}
      <4>1. i \in mark
        BY <3>2 DEF IInv, MarkInv
      <4> QED
        BY <4>1, <3>2 DEF IInv, MarkInv
    <3> QED
      BY <3>1, <3>2 DEF IInv, TypeOK
  <2>3. ASSUME pc \in {"adjust", "done"}, ~LeftHalfDone
        PROVE  [b \in Block |-> Leads(b)] = succ
    <3>1. ASSUME NEW b \in Block PROVE Leads(b) = succ[b]
      <4>1. CASE b \in blocks
        <5>1. IF J(b) \in ins THEN T(b) \notin ins ELSE T(b) \in ins /\ succ[b] = target[b]
          BY <4>1, <2>3, InvFit DEF TerminatorsFit
        <5> QED
          BY <5>1 DEF Leads
      <4>2. CASE b \notin blocks
        <5>1. T(b) \in Ins /\ HomeOf(T(b)) = b
          BY Homes
        <5>2. T(b) \notin ins
          BY <5>1, <4>2 DEF IInv, InsInv
        <5> QED
          BY <5>2 DEF Leads
      <4> QED
        BY <4>1, <4>2
    <3> QED
      BY <3>1 DEF IInv, TypeOK
  <2> QED
    BY <2>1, <2>2, <2>3
<1> QED
  BY Invariance, <1>1, PTL

(* A branch that remove() redirects leads to the one marked block that     *)
(* every path from it enters first: what is executed of the marked         *)
(* instructions, and in which order, stays what it was.                    *)
THEOREM TraceKept == Spec => RedirectKeepsTrace
<1>1. IInv /\ [Next]_vars =>
        [\A b \in Block : J(b) \in ins' \ ins => FirstMarked(b) = succ'[b]]_vars
  <2> SUFFICES ASSUME IInv, [Next]_vars, NEW b \in Block, J(b) \in ins' \ ins
               PROVE  FirstMarked(b) = succ'[b]
    OBVIOUS
  <2>1. CASE RedirectBlock
    <3>1. ins' = ins \cup {J(cur)}
      BY <2>1 DEF RedirectBlock
    <3>2. b = cur
      BY <3>1 DEF J
    <3>3. PICK m \in blocks : succ' = [succ EXCEPT ![cur] = {m}] /\ FirstMarked(cur) = {m}
      BY <2>1, RedirectWhere DEF IInv
    <3>4. succ'[b] = {m}
      BY <3>2, <3>3 DEF IInv, TypeOK
    <3> QED
      BY <3>2, <3>3, <3>4
  <2>2. CASE ~RedirectBlock
    <3>1. ins' \subseteq ins
      BY <2>2 DEF Next, vars, DeleteUnused, StartMark, MarkOne, StartRemove, CollectBlock,
                  GiveUp, Sweep, EndRound
    <3> QED
      BY <3>1
  <2> QED
    BY <2>1, <2>2
<1> QED
  BY Invariance, <1>1, PTL DEF Spec, RedirectKeepsTrace
==============================================================================

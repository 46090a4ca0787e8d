------------------------------- MODULE DeadCode -------------------------------
(***************************************************************************)
(* Dead code elimination on the IR of one function                         *)
(* (src/src/DeadCodeElimination.cpp): mark what is essential, mark what    *)
(* that needs, remove the rest, and start over while anything is removed.  *)
(*                                                                         *)
(* A block b holds some of the value computing instructions, Value, and    *)
(* ends with its terminator T(b): a return, a jump or a conditional branch *)
(* on a value.  When the pass gives up a conditional branch it appends the *)
(* jump J(b).  Which instructions are essential is an input: it depends on *)
(* callees, callers and globals and is settled before marking.             *)
(*                                                                         *)
(* The sets domFrontier are filled already when the pass begins.  Nobody   *)
(* clears them: the pass runs right after Mem2reg, whose computeDomFrontier*)
(* leaves the forward frontiers in them, and once more at the end, after   *)
(* passes that merged and removed blocks.                                  *)
(***************************************************************************)
EXTENDS Integers, FiniteSets

CONSTANTS
  N,          \* number of blocks, numbered in the order of block_list
  Value,      \* the instructions that compute a value
  Graphs,     \* the control flow graphs to consider
  Functions,  \* the instructions to consider, given the graph
  Stale(_)    \* graph -> what earlier passes may have left in domFrontier

Block == 1 .. N
Entry == 1
T(b) == <<"term", b>>
J(b) == <<"jump", b>>
Term == {T(b) : b \in Block}
Jump == {J(b) : b \in Block}
Ins  == Value \cup Term \cup Jump

(* What a function is made of: the block of every value instruction, the   *)
(* instructions that define the operands of each, which ones are phis,     *)
(* which are essential, and whether a caller uses the returned value.      *)
FunctionType ==
  [home : [Value -> Block], operands : [Ins -> SUBSET Value],
   phi : SUBSET Value, essential : SUBSET Value, retEssential : BOOLEAN]

ASSUME NAssumption == N \in Nat \ {0}
ASSUME ValueAssumption == \A v \in Value : v \notin Term \cup Jump
ASSUME GraphsAssumption == Graphs \subseteq [Block -> SUBSET Block]
ASSUME FunctionsAssumption == Functions \subseteq FunctionType

(* A frontier can hold any blocks of the function.  A block that an earlier*)
(* pass deleted is there as whatever block its memory holds by now.        *)
ASSUME StaleAssumption == \A g \in Graphs : Stale(g) \subseteq [Block -> SUBSET Block]

VARIABLES
  fn,                 \* home, phi and essential of the instructions, constant
  phiSrc,             \* block -> the blocks its phis have a source for, constant
  kind, target,       \* block -> what T(b) is and the blocks it names, constant
  operands,           \* instruction -> the instructions that define its operands
  blocks,             \* block_list, as a set
  ins,                \* the instructions in the blocks
  succ, pred,         \* the edges, kept twice as the code does
  mark, bmark,        \* marked instructions and blocks
  worklist,
  domFrontier,        \* block -> set of blocks, never cleared by the code
  pdom,               \* the postdominators of every block when marking began
  was,                \* the edges when marking began (a history variable)
  temp,               \* the instructions remove() is going to delete
  cur,                \* the block remove() looks at
  again,              \* has remove() deleted anything?
  gaveUp,             \* has a remove() returned early?
  pc

input == <<fn, phiSrc, kind, target>>
cfg   == <<blocks, succ, pred>>
marks == <<mark, bmark, worklist, domFrontier, pdom, was>>
vars  == <<input, operands, cfg, ins, marks, temp, cur, again, gaveUp, pc>>

HomeOf(i)   == IF i \in Value THEN fn.home[i] ELSE i[2]
IsBranch(i) == i \in Jump \/ (i \in Term /\ kind[i[2]] # "ret")
Last(b)     == IF J(b) \in ins THEN J(b) ELSE T(b)

-----------------------------------------------------------------------------
(* Postdominance, from its definition.                                     *)

(* The blocks that reach S along the edges e without entering A. *)
Reaching(e, S, A) ==
  {b \in Block \ A :
     \A R \in SUBSET (Block \ A) :
       (S \ A \subseteq R /\ \A c \in Block \ A : e[c] \cap R # {} => c \in R) => b \in R}

Exits == {b \in blocks : Last(b) = T(b) /\ kind[b] = "ret"}

(* Without a postdominator of b, b reaches no return. *)
PostDom == [b \in Block |-> {x \in blocks : b \notin Reaching(succ, Exits, {x})}]

(* Bug: the walk stops at the successor of the branching block. *)
ReverseFrontierOneStep(pd, b) ==
  {c \in blocks : /\ Cardinality(succ[c]) >= 2
                  /\ b \in succ[c]
                  /\ b \notin pd[c] \ {c}}

(* computeReverseDomFrontier: from every successor of a branching block c  *)
(* up the postdominator tree as far as c's own parent.                     *)
ReverseFrontier(pd, b) ==
  {c \in blocks : /\ Cardinality(succ[c]) >= 2
                  /\ \E s \in succ[c] : b \in pd[s]
                  /\ b \notin pd[c] \ {c}}

(* The blocks on every path from the entry to b. *)
Dominators(b) == {b} \cup {d \in Block : Entry \notin Reaching(succ, {b}, {d})}

(* computeDomFrontier, which Mem2reg calls: the joins that b, dominating   *)
(* one of their predecessors, does not strictly dominate itself.           *)
ForwardFrontier(dom, b) ==
  {c \in Block : /\ Cardinality(pred[c]) >= 2
                 /\ \E p \in pred[c] : b \in dom[p]
                 /\ b \notin dom[c] \ {c}}

(* The IR the passes before leave: nothing precedes the entry and every    *)
(* block is on a path from it to a return;                                 *)
WellFormedGraph ==
  /\ \A b \in Block : Entry \notin succ[b]
  /\ \A b \in Block : Entry \in Reaching(succ, {b}, {})
  /\ Reaching(succ, {b \in Block : succ[b] = {}}, {}) = Block

(* a phi has predecessors, a jump no operand, and a definition dominates   *)
(* its uses (for a phi, one of the predecessors).                          *)
WellFormedFunction(dom) ==
  /\ \A v \in fn.phi : pred[fn.home[v]] # {}
  /\ \A b \in Block : kind[b] = "uncond" => operands[T(b)] = {}
  /\ \A j \in Jump : operands[j] = {}
  /\ \A i \in Value \cup Term : \A v \in operands[i] :
       IF i \in fn.phi THEN \E p \in pred[HomeOf(i)] : fn.home[v] \in dom[p]
       ELSE fn.home[v] \in dom[HomeOf(i)]

-----------------------------------------------------------------------------
(* mark *)

Essential ==
  fn.essential \cup {i \in Term : fn.retEssential /\ kind[i[2]] = "ret"}

Init ==
  /\ succ \in Graphs
  /\ WellFormedGraph
  /\ pred = [b \in Block |-> {c \in Block : b \in succ[c]}]
  /\ kind = [b \in Block |-> IF succ[b] = {} THEN "ret"
                             ELSE IF Cardinality(succ[b]) = 1 THEN "uncond" ELSE "cond"]
  /\ phiSrc = pred
  /\ target = succ
  /\ \E dom \in {[b \in Block |-> Dominators(b)]} :
       /\ fn \in Functions
       /\ operands = fn.operands
       /\ WellFormedFunction(dom)
       /\ domFrontier \in {[b \in Block |-> ForwardFrontier(dom, b)]} \cup Stale(succ)
  /\ blocks = Block
  /\ ins = Value \cup Term
  /\ mark = {} /\ bmark = {} /\ worklist = {}
  /\ pdom = [b \in Block |-> {}]
  /\ was = succ
  /\ temp = {} /\ cur = 1 /\ again = TRUE /\ gaveUp = FALSE
  /\ pc = "adjust"

(* adjustBlock, one round: the blocks without a predecessor go, with their *)
(* instructions, and leave the successor lists of nobody and the           *)
(* predecessor lists of their successors.                                  *)
Unused == {b \in blocks \ {Entry} : pred[b] = {}}

DeleteUnused ==
  /\ pc \in {"adjust", "readjust"}
  /\ Unused # {}
  /\ blocks' = blocks \ Unused
  /\ ins' = {i \in ins : HomeOf(i) \notin Unused}
  /\ pred' = [b \in Block |-> pred[b] \ Unused]
  /\ succ' = [b \in Block |-> IF b \in Unused THEN {} ELSE succ[b]]
  /\ UNCHANGED <<input, operands, marks, temp, cur, again, gaveUp, pc>>

(* The first loop of mark, then computeReverseDomFrontier, which adds to   *)
(* what the frontiers hold.                                                *)
StartMark ==
  /\ pc = "adjust"
  /\ Unused = {}
  /\ LET start == Essential \cap ins IN
       /\ mark' = start
       /\ worklist' = start
       /\ bmark' = {HomeOf(i) : i \in start}
  /\ pdom' = PostDom
  /\ domFrontier' = [b \in Block |-> domFrontier[b] \cup ReverseFrontier(pdom', b)]
  /\ was' = succ
  /\ pc' = "worklist"
  /\ UNCHANGED <<input, operands, cfg, ins, temp, cur, again, gaveUp>>

(* Bug: the branches to phis are forgotten. *)
NoPhiBranches(b)    == {}

(* Bug: only the definitions in the same block are followed. *)
OperandDefsLocal(i) == {v \in operands[i] \cap ins : fn.home[v] = HomeOf(i)}

OperandDefs(i)     == operands[i] \cap ins
BranchUsers(i)     == {T(b) : b \in {b \in blocks : i \in operands[T(b)] /\ IsBranch(T(b))}} \cap ins
ControlBranches(b) == {i \in {Last(c) : c \in domFrontier[b]} : IsBranch(i)}
PhiBranches(b)     ==
  IF \E p \in fn.phi \cap ins : fn.home[p] = b
  THEN {i \in {Last(c) : c \in phiSrc[b]} : IsBranch(i)}
  ELSE {}

(* What marking i makes the code mark next: the definitions of its         *)
(* operands, the branches on its value, the branches its block is control  *)
(* dependent on and those that lead to a block with phis.                  *)
Needs(i) ==
  OperandDefs(i) \cup BranchUsers(i)
    \cup ControlBranches(HomeOf(i)) \cup PhiBranches(HomeOf(i))

(* Bug: what was taken stays on the worklist. *)
MarkOneStays(i) ==
  /\ pc = "worklist"
  /\ i \in worklist
  /\ LET new == Needs(i) \ mark IN
       /\ mark' = mark \cup new
       /\ bmark' = bmark \cup {HomeOf(n) : n \in new}
       /\ worklist' = worklist \cup new
  /\ UNCHANGED <<input, operands, cfg, ins, domFrontier, pdom, was, temp, cur, again, gaveUp, pc>>

(* One pop of the worklist.  The code pops the newest; the order does not  *)
(* matter, so any is taken.                                                *)
MarkOne(i) ==
  /\ pc = "worklist"
  /\ i \in worklist
  /\ LET new == Needs(i) \ mark IN
       /\ mark' = mark \cup new
       /\ bmark' = bmark \cup {HomeOf(n) : n \in new}
       /\ worklist' = (worklist \ {i}) \cup new
  /\ UNCHANGED <<input, operands, cfg, ins, domFrontier, pdom, was, temp, cur, again, gaveUp, pc>>

StartRemove ==
  /\ pc = "worklist"
  /\ worklist = {}
  /\ cur' = 1
  /\ temp' = {}
  /\ pc' = "remove"
  /\ UNCHANGED <<input, operands, cfg, ins, marks, again, gaveUp>>

-----------------------------------------------------------------------------
(* remove *)

(* Bug: the farthest one. *)
LastMarkBranch(b) ==
  LET above == {m \in pdom[b] \ {b} : m \in bmark}
  IN {m \in above : \A k \in above : m \in pdom[k]}

(* Bug: only the parent in the postdominator tree is tried. *)
ParentMarkBranch(b) ==
  {m \in pdom[b] \ {b} : m \in bmark /\ pdom[b] \ {b} \subseteq pdom[m]}

(* getMarkBranch: the nearest proper postdominator that is marked. *)
MarkBranch(b) ==
  LET above == {m \in pdom[b] \ {b} : m \in bmark}
  IN {m \in above : above \subseteq pdom[m]}

(* b ends with a conditional branch that nothing needs. *)
DeadBranch(b) == kind[b] = "cond" /\ T(b) \in ins \ mark

(* Returns and jumps stay even if nothing needs them. *)
Collected(b) ==
  {i \in ins \ mark : HomeOf(i) = b /\ (i \in Value \/ (i \in Term /\ kind[b] = "cond"))}

(* One block of remove(): collect its unmarked instructions, give an       *)
(* unmarked return a constant operand.                                     *)
CollectBlock ==
  /\ pc = "remove"
  /\ cur \in Block
  /\ cur \in blocks => ~DeadBranch(cur)
  /\ temp' = temp \cup (IF cur \in blocks THEN Collected(cur) ELSE {})
  /\ operands' = [operands EXCEPT ![T(cur)] =
                    IF cur \in Exits /\ T(cur) \notin mark THEN {} ELSE @]
  /\ cur' = cur + 1
  /\ UNCHANGED <<input, cfg, ins, marks, again, gaveUp, pc>>

(* An unmarked conditional branch gives way to a jump to the nearest       *)
(* marked postdominator.                                                   *)
RedirectBlock ==
  /\ pc = "remove"
  /\ cur \in blocks
  /\ DeadBranch(cur)
  /\ \E m \in MarkBranch(cur) :
       /\ succ' = [succ EXCEPT ![cur] = {m}]
       /\ pred' = [b \in Block |-> IF b = m THEN pred[b] \cup {cur} ELSE pred[b] \ {cur}]
  /\ ins' = ins \cup {J(cur)}
  /\ temp' = temp \cup Collected(cur)
  /\ cur' = cur + 1
  /\ UNCHANGED <<input, operands, blocks, marks, again, gaveUp, pc>>

(* No such postdominator: the search ends at the block that stood for the  *)
(* exit, which is deleted by then and was never marked.  remove() returns  *)
(* false and forgets temp, what it did to the blocks before stays.         *)
GiveUp ==
  /\ pc = "remove"
  /\ cur \in blocks
  /\ DeadBranch(cur)
  /\ MarkBranch(cur) = {}
  /\ again' = FALSE
  /\ gaveUp' = TRUE
  /\ temp' = {}
  /\ pc' = "readjust"
  /\ UNCHANGED <<input, operands, cfg, ins, marks, cur>>

(* The last loop of remove(). *)
Sweep ==
  /\ pc = "remove"
  /\ cur \notin Block
  /\ ins' = ins \ temp
  /\ again' = (temp # {})
  /\ temp' = {}
  /\ pc' = "readjust"
  /\ UNCHANGED <<input, operands, cfg, marks, cur, gaveUp>>

(* The end of a round of pass(). *)
EndRound ==
  /\ pc = "readjust"
  /\ Unused = {}
  /\ pc' = IF again THEN "adjust" ELSE "done"
  /\ UNCHANGED <<input, operands, cfg, ins, marks, temp, cur, again, gaveUp>>

Next ==
  \/ DeleteUnused
  \/ StartMark
  \/ \E i \in Ins : MarkOne(i)
  \/ StartRemove
  \/ CollectBlock
  \/ RedirectBlock
  \/ GiveUp
  \/ Sweep
  \/ EndRound

Spec == Init /\ [][Next]_vars

(* The pass is a sequential program that nothing interrupts. *)
FairSpec == Spec /\ WF_vars(Next)

-----------------------------------------------------------------------------
TypeOK ==
  /\ fn \in FunctionType
  /\ phiSrc \in [Block -> SUBSET Block]
  /\ kind \in [Block -> {"ret", "uncond", "cond"}]
  /\ target \in [Block -> SUBSET Block]
  /\ operands \in [Ins -> SUBSET Value]
  /\ blocks \subseteq Block
  /\ ins \subseteq Ins
  /\ succ \in [Block -> SUBSET Block]
  /\ pred \in [Block -> SUBSET Block]
  /\ mark \subseteq Ins /\ bmark \subseteq Block /\ worklist \subseteq Ins
  /\ domFrontier \in [Block -> SUBSET Block]
  /\ pdom \in [Block -> SUBSET Block]
  /\ was \in [Block -> SUBSET Block]
  /\ temp \subseteq Ins
  /\ cur \in 1 .. N + 1
  /\ again \in BOOLEAN /\ gaveUp \in BOOLEAN
  /\ pc \in {"adjust", "worklist", "remove", "readjust", "done"}

(* While the pass marks, every block it looks into is still there, though  *)
(* domFrontier and the sources of the phis name deleted ones as well.      *)
NeverTouchesDeleted ==
  pc = "worklist" =>
    /\ \A i \in mark : HomeOf(i) \in blocks /\ domFrontier[HomeOf(i)] \subseteq blocks
    /\ \A p \in fn.phi \cap ins : phiSrc[fn.home[p]] \subseteq blocks

(* When remove() has seen every block, nothing it leaves uses one of the   *)
(* instructions it is about to delete: what is needed was marked, and the  *)
(* returns and jumps that stay unmarked have no operand left.              *)
SweepLeavesNoUse ==
  pc = "remove" /\ cur \notin Block => \A i \in ins \ temp : operands[i] \cap temp = {}

(* A block that keeps a phi keeps exactly the predecessors its phis have   *)
(* sources for: no redirected branch arrives there and none leaves.        *)
PhiMatchesPreds ==
  pc \in {"adjust", "done"} /\ ~gaveUp =>
    \A p \in fn.phi \cap ins : pred[fn.home[p]] = phiSrc[fn.home[p]]

(* The blocks on the paths from b before any marked one, with b itself.    *)
Through(b) ==
  Reaching([c \in Block |-> IF c \in bmark THEN {} ELSE {d \in Block : c \in was[d]}], {b}, {})

(* The marked blocks that some path from b enters first. *)
FirstMarked(b) == UNION {was[c] \cap bmark : c \in Through(b)}

(* A redirected branch goes where every path through what was removed      *)
(* would have led: the same essential instructions run in the same order.  *)
RedirectKeepsTrace ==
  [][\A b \in Block : J(b) \in ins' \ ins => FirstMarked(b) = succ'[b]]_vars

FromEntry(edges, h) == Entry \in Reaching(edges, {h}, {})

(* remove() gave up in a function that does something: it may leave blocks *)
(* whose old branch is still in front of the new jump, and the blocks only *)
(* the old one names are deleted.  A comment in remove() takes it that the *)
(* whole function is useless then, which it need not be if no caller uses  *)
(* the returned value.                                                     *)
LeftHalfDone == gaveUp /\ Essential # {} /\ ~fn.retEssential

(* Where control goes at the end of b, by what b holds. *)
Leads(b) == IF T(b) \in ins THEN target[b] ELSE succ[b]

(* Nothing essential is lost: it is never deleted, and between the rounds  *)
(* the branches in the blocks lead to it from the entry.                   *)
EssentialStays ==
  \A i \in Essential :
    /\ i \in ins
    /\ pc \in {"adjust", "done"} /\ ~LeftHalfDone =>
         FromEntry([b \in Block |-> Leads(b)], HomeOf(i))

Single(S)  == \E s \in S : S = {s}
Several(S) == \E s, t \in S : s # t

(* Between the rounds a block ends with one terminator that names its      *)
(* successors, and these exist.                                            *)
TerminatorsFit ==
  pc \in {"adjust", "done"} /\ ~LeftHalfDone =>
    \A b \in blocks :
      /\ succ[b] \subseteq blocks
      /\ IF J(b) \in ins THEN T(b) \notin ins /\ Single(succ[b])
                         ELSE T(b) \in ins /\ succ[b] = target[b]

(* Every round that is not the last removes something. *)
Termination == <>(pc = "done")

-----------------------------------------------------------------------------
(* The inductive invariant behind the properties. *)

(* The instructions are those of the blocks that are left; jumps use       *)
(* nothing, and only conditional branches have been given up for one.      *)
InsInv ==
  /\ \A i \in ins : HomeOf(i) \in blocks
  /\ \A i \in Ins : (i \in Term => kind[i[2]] = "uncond") /\ i \notin Value => operands[i] = {}
  /\ \A b \in Block : J(b) \in ins => kind[b] = "cond"

(* Marking is closed but for what is on the worklist. *)
ClosedInv ==
  /\ worklist \subseteq mark
  /\ pc \in {"worklist", "remove"} =>
       \A i \in mark \ worklist : operands[i] \cap ins \subseteq mark
  /\ pc = "remove" => worklist = {}

(* Of the blocks remove() has seen only what it must not delete is left    *)
(* outside temp.                                                           *)
RemoveInv ==
  pc = "remove" =>
    /\ temp \subseteq ins /\ temp \cap mark = {}
    /\ \A i \in ins : HomeOf(i) < cur => i \in mark \/ i \in temp \/ operands[i] = {}

(* Both lists hold the same edges, which stay among the blocks that are    *)
(* left.                                                                   *)
EdgesInv ==
  /\ pred = [b \in Block |-> {c \in Block : b \in succ[c]}]
  /\ Entry \in blocks
  /\ \A b \in Block : succ[b] \subseteq blocks /\ (b \notin blocks => succ[b] = {})
  /\ pc = "adjust" => Unused = {}

(* A block has the successors of the terminator it ends with; both are     *)
(* there only until the sweep, or if remove() gave up.                     *)
ShapeInv ==
  /\ \A b \in blocks :
       IF J(b) \in ins
       THEN Single(succ[b]) /\ (T(b) \in ins => gaveUp \/ (pc = "remove" /\ T(b) \in temp))
       ELSE /\ T(b) \in ins
            /\ kind[b] = "ret" => succ[b] = {}
            /\ kind[b] = "uncond" => Single(succ[b])
            /\ kind[b] = "cond" => Several(succ[b])
  /\ \A b \in Block : T(b) \in temp => J(b) \in ins /\ b < cur
  /\ temp \cap Jump = {} /\ (pc # "remove" => temp = {})
  /\ gaveUp => pc \in {"readjust", "done"} /\ ~again

(* Every block that is left reaches a return. *)
ExitsInv == \A b \in blocks : b \in Reaching(succ, Exits, {})

(* The instructions M are all that marking can mark from now on: first     *)
(* all there are, then those marked in the round before.                   *)
Enough(M) ==
  /\ Essential \subseteq M
  /\ \A i \in M : /\ Needs(i) \subseteq M
                  /\ HomeOf(i) \in blocks /\ FromEntry(succ, HomeOf(i))
  /\ \A b \in blocks : Several(succ[b]) => T(b) \in M

MarkInv ==
  /\ mark \subseteq Value \cup Term
  /\ bmark = {HomeOf(i) : i \in mark}
  /\ pc \in {"adjust", "worklist"} =>
       \E M \in SUBSET (Value \cup Term) : Enough(M) /\ mark \subseteq M
  /\ pc # "adjust" => Essential \subseteq mark
  /\ pc \in {"worklist", "remove", "readjust"} =>
       \A i \in mark \ worklist : Needs(i) \subseteq mark
  /\ pc = "readjust" => worklist = {}
  /\ pc \in {"remove", "readjust", "done"} =>
       \A i \in mark : HomeOf(i) \in blocks /\ FromEntry(succ, HomeOf(i))
  /\ Essential \subseteq ins

(* Marking and removing look at the graph as it was when marking began.    *)
WasFrontier(b) ==
  {c \in blocks : /\ Several(was[c])
                  /\ \E s \in was[c] : b \in pdom[s]
                  /\ b \notin pdom[c] \ {c}}

Redirected(b) ==
  /\ J(b) \in ins /\ kind[b] = "cond" /\ T(b) \notin mark
  /\ \E m \in pdom[b] \ {b} : succ[b] = {m} /\ FirstMarked(b) = {m}

WasInv ==
  pc \in {"worklist", "remove"} =>
    /\ \A b \in Block : /\ was[b] \subseteq blocks /\ (b \notin blocks => was[b] = {})
                        /\ WasFrontier(b) \subseteq domFrontier[b]
    /\ \A b \in blocks : /\ b \in Reaching(was, Exits, {})
                         /\ Several(was[b]) => kind[b] = "cond"
                         /\ kind[b] = "ret" => was[b] = {}
    /\ pdom = [b \in Block |-> {x \in blocks : b \notin Reaching(was, Exits, {x})}]
    /\ \A i \in mark : HomeOf(i) \in blocks /\ FromEntry(was, HomeOf(i))
    /\ \A p \in fn.phi \cap ins : {c \in Block : fn.home[p] \in was[c]} = phiSrc[fn.home[p]]
    /\ \A b \in blocks : succ[b] = was[b] \/ (pc = "remove" /\ Redirected(b))

(* What remove() has passed is settled.                                    *)
SettledInv ==
  /\ pc = "remove" =>
       /\ \A i \in ins \cap Value : HomeOf(i) < cur => i \in mark \cup temp
       /\ \A b \in blocks : b < cur /\ Several(succ[b]) => T(b) \in mark
  /\ pc = "readjust" /\ ~gaveUp =>
       /\ ins \cap Value \subseteq mark
       /\ \A b \in blocks : Several(succ[b]) => T(b) \in mark
  /\ pc # "remove" /\ ~gaveUp =>
       \A p \in fn.phi \cap ins : pred[fn.home[p]] = phiSrc[fn.home[p]]
  /\ fn.retEssential => ~gaveUp

(* The blocks that return stay in reach of the entry, marked or not.       *)
ReturnsInv ==
  /\ ~gaveUp => \A b \in Block : kind[b] = "ret" => b \in blocks /\ FromEntry(succ, b)
  /\ pc \in {"worklist", "remove"} => \A b \in Block : kind[b] = "ret" => FromEntry(was, b)

(* A block that was not redirected leads where it did.                     *)
TargetInv == \A b \in blocks : J(b) \notin ins => succ[b] = target[b]

(* Without anything essential nothing is marked and no branch redirected.  *)
UselessInv ==
  Essential = {} => mark = {} /\ bmark = {} /\ worklist = {} /\ ins \cap Jump = {}

IInv ==
  /\ TypeOK /\ InsInv /\ ClosedInv /\ RemoveInv
  /\ EdgesInv /\ ShapeInv /\ ExitsInv /\ MarkInv /\ WasInv /\ SettledInv
  /\ ReturnsInv /\ TargetInv /\ UselessInv
==============================================================================

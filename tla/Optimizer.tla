------------------------------- MODULE Optimizer -------------------------------
(***************************************************************************)
(* The optimiser as main drives it (src/src/main.cpp): the passes over the *)
(* intermediate code one after the other, on one unit that each of them    *)
(* changes in place, with what one leaves behind for the next: use lists,  *)
(* store sets, dominator sets, edges, names of blocks in phis.             *)
(*                                                                         *)
(* A unit is [funs, globals, order, readonly].  Programs are what Mem2reg  *)
(* leaves; the passes before it, dead code elimination and SSA destruction *)
(* have modules of their own, and CopyProp changes nothing.                *)
(***************************************************************************)
EXTENDS IR

CONSTANTS Programs,   \* units to begin with
          Inputs,     \* what a run may read
          Fuel        \* steps after which a run is given up

VARIABLES unit, pc, meaning
vars == <<unit, pc, meaning>>

Exec == INSTANCE IRExec
VN   == INSTANCE ValueNumber
S    == INSTANCE Straighten
PR   == INSTANCE PatternRewrites
LOP  == INSTANCE LoopOptimization
AI   == INSTANCE AutoInline

Schedule ==
  <<"vn", "cc", "ec", "s", "so", "lop", "s.checkCond", "ai", "vn", "thb", "s.checkCond", "ai", "vn", "thb", "euc",
    "s", "ir", "ph", "lop.pass1", "vn", "s.checkCond", "s", "ph", "so.pass1", "s">>

Meaning(u) == [in \in Inputs |-> Exec!Run(u, in, Fuel)]

Init ==
  /\ unit \in Programs
  /\ pc = 1
  /\ meaning = Meaning(unit)

Pass(name, u) ==
  /\ pc \in DOMAIN Schedule /\ Schedule[pc] = name
  /\ unit' = u
  /\ pc' = pc + 1
  /\ UNCHANGED meaning

Number       == Pass("vn", VN!ValueNumberPass(unit))
FoldLattice  == Pass("cc", VN!CondCopyPropPass(unit))
CommonSubexp == Pass("ec", VN!ElimComSubexprPass(unit))
Straighten   == Pass("s", S!StraightenPass(unit))
CheckCond    == Pass("s.checkCond", S!CheckCondPass(unit))
Special      == Pass("so", PR!SpecialOptimizePass(unit))
Special1     == Pass("so.pass1", PR!SpecialOptimizePass1(unit))
Loops        == Pass("lop", LOP!LoopOptimizationPass(unit))
Loops1       == Pass("lop.pass1", LOP!LoopOptimizationPass1(unit))
Inline       == Pass("ai", AI!AutoInlinePass(unit))
Balance      == Pass("thb", PR!TreeHeightPass(unit))
Unreach      == Pass("euc", S!ElimUnreachPass(unit))
Reorder      == Pass("ir", AI!InsReorderPass(unit))
Peephole     == Pass("ph", PR!PeepholeForIRPass(unit))

Next ==
  \/ Number \/ FoldLattice \/ CommonSubexp \/ Straighten \/ CheckCond \/ Special \/ Special1
  \/ Loops \/ Loops1 \/ Inline \/ Balance \/ Unreach \/ Reorder \/ Peephole

Spec == Init /\ [][Next]_vars /\ WF_vars(Next)
-----------------------------------------------------------------------------
Funs == {unit.funs[g] : g \in DOMAIN unit.funs}

(* No pass meets a null pointer or a loop without end ("while (use) replace*)
(* it", log2 by recursion, a fixed point of rounds), and after every pass  *)
(* the program reads, writes and returns what it did in the beginning.     *)
MeaningKept == (\A f \in Funs : ~f.fails) /\ Meaning(unit) = meaning

(* In the blocks that are reached; a phi reads at the end of a predecessor.*)
DominatedUses(f) ==
  LET dom == VN!Dom(f)
      before(i, j, b) == IF Parent(f, i) = b /\ f.ins[j].cls # "phi"
                         THEN PosOf(f.code[b], i) < PosOf(f.code[b], j) ELSE Parent(f, i) \in dom[b]
      readers(j, o) == IF f.ins[j].cls # "phi" THEN {Parent(f, j)}
                       ELSE {b \in ToSet(f.pred[Parent(f, j)]) \cap DOMAIN f.ins[j].src : f.ins[j].src[b] = o}
  IN  \A j \in Placed(f) : \A o \in ToSet(f.ins[j].use) :
        o[1] \in {"t", "f"} => \A b \in readers(j, o) \cap DOMAIN dom : \E i \in PlacedDefs(f, o) : before(i, j, b)
(* No pass takes a definition away from an operand that is still read, nor *)
(* puts a use where its definition has not run: passes find the readers by *)
(* use lists that copies and copied comparisons are missing from.          *)
DefsDominate == \A f \in Funs : DominatedUses(f)

FlowAgrees(f) ==
  \A b \in BlockSet(f) :
    /\ f.code[b] # <<>> /\ ToSet(LastIns(f, b).to) = ToSet(f.succ[b])
    /\ \A c \in ToSet(f.succ[b]) : c \in BlockSet(f) /\ b \in ToSet(f.pred[c])
    /\ \A c \in ToSet(f.pred[b]) : c \in BlockSet(f) /\ b \in ToSet(f.succ[c])
    /\ \A i \in ToSet(Phis(f, b)) : ToSet(f.pred[b]) \subseteq DOMAIN f.ins[i].src
(* Edges are kept three times, as branch targets, successors and           *)
(* predecessors, and phis have a source for every predecessor.             *)
EdgesAgree == \A f \in Funs : FlowAgrees(f)
=============================================================================

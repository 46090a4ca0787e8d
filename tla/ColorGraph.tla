------------------------------ MODULE ColorGraph ------------------------------
(***************************************************************************)
(* One round of the colouring register allocator                           *)
(* (src/src/GraphColor.cpp): makeList, pruneGraph and assignRegs, on an    *)
(* interference graph that makeWebs and makeMatrix have built.             *)
(*                                                                         *)
(* The nodes of the graph are webs.  The first of them stand for the       *)
(* machine registers themselves, web c for colour c; of the others some    *)
(* are bound to a register by the calling convention (a colour is preset)  *)
(* and the rest are virtual.                                               *)
(***************************************************************************)
EXTENDS Integers, Sequences, FiniteSets

CONSTANTS
  RegNum,      \* number of integer registers, colours 0 .. RegNum - 1
  FRegNum,     \* number of float registers, the colours after them
  FBlocked,    \* the float colours kept free for other uses
  NWebs,       \* number of webs
  HugeCost,    \* the spill cost of a web that must not be spilled
  MaxCost,     \* bound on the spill cost of a virtual web
  Bound        \* the presets to consider: sets of functions web -> colour

NoColor == -1
NColors == RegNum + FRegNum
Web     == 0 .. NWebs - 1
Symbol  == 0 .. NColors - 1
Color   == 0 .. NColors - 1
IntColor   == 0 .. RegNum - 1
FloatColor == RegNum .. NColors - 1

ASSUME CountAssumption ==
  RegNum \in Nat \ {0} /\ FRegNum \in Nat \ {0} /\ NWebs \in Nat /\ NWebs >= RegNum + FRegNum
ASSUME CostAssumption == MaxCost \in Nat /\ HugeCost \in Nat /\ HugeCost > MaxCost * NWebs
ASSUME BlockedAssumption == FBlocked \subseteq FloatColor
ASSUME BoundAssumption ==
  Bound \subseteq [Web \ Symbol -> (Color \ FBlocked) \cup {NoColor}]

VARIABLES
  matrix,      \* web -> the webs it interferes with, constant
  fpu,         \* the float webs, constant
  preset,      \* web -> the colour it is bound to, or NoColor, constant
  spillCost,   \* web -> cost, constant
  list,        \* web -> its neighbours not pruned yet
  removeList,  \* web -> its neighbours
  stk,         \* the pruned webs, last pruned first
  rreg,        \* web -> the colour it has
  spill,       \* the webs assignRegs found no colour for
  success,     \* the flag of the loop that runs
  cur,         \* the position in that loop
  lowDegree,   \* the webs pruned with fewer neighbours than colours (history)
  pc

input == <<matrix, fpu, preset, spillCost>>
vars  == <<input, list, removeList, stk, rreg, spill, success, cur, lowDegree, pc>>

ColorsOf(w) == IF w \in fpu THEN FloatColor ELSE IntColor
Virtual     == {w \in Web : preset[w] = NoColor}

-----------------------------------------------------------------------------
(* Bug: bound webs do not interfere with the other registers. *)
RegisterEdgesNotBound(p, f) ==
  {e \in Web \X Web :
     \/ e[1] \in Symbol /\ e[2] \in Symbol /\ e[1] # e[2]
     \/ e[1] \in FBlocked /\ e[2] \notin Symbol /\ e[2] \in f}

(* What makeWebs and makeMatrix leave: every register web interferes with  *)
(* all others; a bound web with every register web but its own, and with   *)
(* no web bound to the same register; a float web with the blocked         *)
(* registers; virtual and bound webs as their live ranges overlap.         *)
RegisterEdges(p, f) ==
  {e \in Web \X Web :
     \/ e[1] \in Symbol /\ e[2] \in Symbol /\ e[1] # e[2]
     \/ e[1] \in Symbol /\ e[2] \notin Symbol /\ p[e[2]] \notin {NoColor, e[1]}
     \/ e[1] \in FBlocked /\ e[2] \notin Symbol /\ e[2] \in f}

RangeEdges(p) ==
  {e \in (Web \ Symbol) \X (Web \ Symbol) :
     e[1] < e[2] /\ (p[e[1]] # NoColor => p[e[1]] # p[e[2]])}

Init ==
  /\ \E p \in Bound :
       /\ preset = [w \in Web |-> IF w \in Symbol THEN w ELSE p[w]]
       /\ \E f \in SUBSET {w \in Web \ Symbol : p[w] = NoColor} :
            /\ fpu = FloatColor \cup f \cup {w \in Web \ Symbol : p[w] \in FloatColor}
            /\ \E R \in SUBSET RangeEdges(p) :
                 LET E == R \cup RegisterEdges(p, fpu)
                 IN  matrix = [w \in Web |-> {x \in Web : <<w, x>> \in E \/ <<x, w>> \in E}]
  /\ \E c \in [Virtual -> 1 .. MaxCost] :
       spillCost = [w \in Web |-> IF w \in Virtual THEN c[w] ELSE HugeCost]
  /\ list = [w \in Web |-> {}]
  /\ removeList = [w \in Web |-> {}]
  /\ stk = <<>>
  /\ rreg = preset
  /\ spill = {}
  /\ success = FALSE /\ cur = 0
  /\ lowDegree = {}
  /\ pc = "list"

(* The elements of a set of webs, in increasing order. *)
Ranked(S, k) == CHOOSE w \in S : Cardinality({x \in S : x < w}) = k - 1
Ascending(S) == [k \in 1 .. Cardinality(S) |-> Ranked(S, k)]

Reversed(s) == [k \in 1 .. Len(s) |-> s[Len(s) + 1 - k]]

(* makeList adds to whatever the lists still hold. *)
MakeList ==
  /\ pc = "list"
  /\ list' = [w \in Web |-> list[w] \cup matrix[w]]
  /\ removeList' = list'
  /\ pc' = "isolated"
  /\ UNCHANGED <<input, stk, rreg, spill, success, cur, lowDegree>>

(* pruneGraph, first loop: webs without neighbours. *)
PushIsolated ==
  /\ pc = "isolated"
  /\ stk' = Reversed(Ascending({w \in Web : list[w] = {}}))
  /\ success' = FALSE
  /\ cur' = 0
  /\ pc' = "prune"
  /\ UNCHANGED <<input, list, removeList, rreg, spill, lowDegree>>

(* Bug: those it leaves without any are forgotten. *)
EmptiedForgotten(w) == {}

(* adjustNeighbours: w leaves the lists of its neighbours; those it leaves *)
(* without any are pruned too, in the order of the list.                   *)
Emptied(w) == {x \in list[w] : list[x] = {w}}

(* Bug: w keeps its own list. *)
PruneKeepList(w) ==
  /\ list' = [x \in Web |-> list[x] \ {w}]
  /\ stk' = Reversed(Ascending(Emptied(w))) \o <<w>> \o stk

Prune(w) ==
  /\ list' = [x \in Web |-> IF x = w THEN {} ELSE list[x] \ {w}]
  /\ stk' = Reversed(Ascending(Emptied(w))) \o <<w>> \o stk

(* Bug: as many neighbours as colours are thought to be few enough. *)
LowDegreeOrEqual(w) ==
  /\ list[w] # {}
  /\ rreg[w] = NoColor
  /\ Cardinality(list[w]) =< Cardinality(ColorsOf(w))

LowDegree(w) ==
  /\ list[w] # {}
  /\ rreg[w] = NoColor
  /\ Cardinality(list[w]) < Cardinality(ColorsOf(w))

(* pruneGraph, second loop, one web of a round: prune it if it is virtual  *)
(* and has fewer neighbours than there are colours for it.                 *)
PruneLow ==
  /\ pc = "prune"
  /\ cur \in Web
  /\ LowDegree(cur)
  /\ Prune(cur)
  /\ lowDegree' = lowDegree \cup {cur}
  /\ success' = TRUE
  /\ cur' = cur + 1
  /\ UNCHANGED <<input, removeList, rreg, spill, pc>>

KeepHigh ==
  /\ pc = "prune"
  /\ cur \in Web
  /\ ~LowDegree(cur)
  /\ cur' = cur + 1
  /\ UNCHANGED <<input, list, removeList, stk, rreg, spill, success, lowDegree, pc>>

PruneRound ==
  /\ pc = "prune"
  /\ cur \notin Web
  /\ pc' = IF success THEN "prune" ELSE "candidates"
  /\ success' = FALSE
  /\ cur' = 0
  /\ UNCHANGED <<input, list, removeList, stk, rreg, spill, lowDegree>>

(* pruneGraph, last loop: of the webs that still have neighbours the first *)
(* one whose cost per neighbour is lowest.                                 *)
Cheaper(w, x) ==
  LET a == spillCost[w] * Cardinality(list[x])
      b == spillCost[x] * Cardinality(list[w])
  IN  a < b \/ (a = b /\ w < x)

Candidates == {w \in Web : list[w] # {}}

PruneCheapest ==
  /\ pc = "candidates"
  /\ Len(stk) < NWebs
  /\ \E w \in Candidates :
       /\ \A x \in Candidates \ {w} : Cheaper(w, x)
       /\ Prune(w)
  /\ UNCHANGED <<input, removeList, rreg, spill, success, cur, lowDegree, pc>>

StartAssign ==
  /\ pc = "candidates"
  /\ Len(stk) >= NWebs
  /\ success' = TRUE
  /\ pc' = "assign"
  /\ UNCHANGED <<input, list, removeList, stk, rreg, spill, cur, lowDegree>>

FreeColorsOfList(w)  == ColorsOf(w) \ {rreg[x] : x \in list[w]}

(* assignRegs, one web: the lowest colour of its class that no neighbour   *)
(* has, bound neighbours included; none, and the web is to be spilled.     *)
FreeColors(w) == ColorsOf(w) \ {rreg[x] : x \in removeList[w]}

Assign ==
  /\ pc = "assign"
  /\ stk # <<>>
  /\ FreeColors(Head(stk)) # {}
  /\ \E c \in FreeColors(Head(stk)) :
       /\ \A d \in FreeColors(Head(stk)) : c =< d
       /\ rreg' = [rreg EXCEPT ![Head(stk)] = c]
  /\ stk' = Tail(stk)
  /\ UNCHANGED <<input, list, removeList, spill, success, cur, lowDegree, pc>>

Spill ==
  /\ pc = "assign"
  /\ stk # <<>>
  /\ FreeColors(Head(stk)) = {}
  /\ spill' = spill \cup {Head(stk)}
  /\ success' = FALSE
  /\ stk' = Tail(stk)
  /\ UNCHANGED <<input, list, removeList, rreg, cur, lowDegree, pc>>

(* allocateRegisters: on success the code is rewritten, otherwise the      *)
(* spilled webs are, and another round starts with the lists as they are.  *)
Finish ==
  /\ pc = "assign"
  /\ stk = <<>>
  /\ pc' = IF success THEN "modifyCode" ELSE "genSpillCode"
  /\ UNCHANGED <<input, list, removeList, stk, rreg, spill, success, cur, lowDegree>>

Next ==
  \/ MakeList
  \/ PushIsolated
  \/ PruneLow
  \/ KeepHigh
  \/ PruneRound
  \/ PruneCheapest
  \/ StartAssign
  \/ Assign
  \/ Spill
  \/ Finish

Spec == Init /\ [][Next]_vars

(* The allocator is a sequential program that nothing interrupts. *)
FairSpec == Spec /\ WF_vars(Next)

-----------------------------------------------------------------------------
(* At every moment two interfering webs that have a colour have different  *)
(* ones, and every colour is of the web's class.                           *)
ProperColoring ==
  /\ \A w \in Web : \A x \in matrix[w] :
       rreg[w] # NoColor /\ rreg[x] # NoColor => rreg[w] # rreg[x]
  /\ \A w \in Web : rreg[w] # NoColor => rreg[w] \in ColorsOf(w)

(* A web bound to a register, and the web of a register itself, come out   *)
(* with that register, although assignRegs chooses the lowest free colour  *)
(* for them as for any other: its neighbours must leave it no other one.   *)
PresetKept == \A w \in Web \ Virtual : rreg[w] = preset[w] /\ w \notin spill

(* A web pruned because it had fewer neighbours than colours gets one:     *)
(* only the candidates chosen by cost can be spilled.                      *)
OnlyCandidatesSpill == spill \cap lowDegree = {}

(* The stack holds exactly the webs without neighbours left, each once, so *)
(* that pruning ends when it holds them all; then every list is empty,     *)
(* which the next round relies on: its makeList does not clear them.       *)
PrunedOnce ==
  LET pruned == {w \in Web : list[w] = {}}
  IN  /\ pc \in {"prune", "candidates"} =>
           /\ {stk[k] : k \in 1 .. Len(stk)} = pruned
           /\ Len(stk) = Cardinality(pruned)
      /\ pc \in {"assign", "genSpillCode"} => pruned = Web

(* The round ends, with a colour for every web or with a web to spill. *)
Terminates ==
  <>(\/ pc = "modifyCode" /\ NoColor \notin {rreg[w] : w \in Web}
     \/ pc = "genSpillCode" /\ spill # {})

-----------------------------------------------------------------------------
(* The inductive invariant behind the properties above.                    *)

(* Interference is mutual, and assignRegs looks at every neighbour.        *)
GraphInv ==
  /\ matrix \in [Web -> SUBSET Web]
  /\ \A w \in Web : w \notin matrix[w]
  /\ \A w, x \in Web : x \in matrix[w] => w \in matrix[x]
  /\ rreg \in [Web -> Color \cup {NoColor}]
  /\ list \in [Web -> SUBSET Web]
  /\ pc # "list" => removeList \in [Web -> SUBSET Web] /\ \A w \in Web : matrix[w] \subseteq removeList[w]

(* A bound web interferes with the registers of its class but its own.     *)
BoundInv ==
  /\ preset \in [Web -> Color \cup {NoColor}]
  /\ \A w \in Web \ Virtual : ColorsOf(w) \ {preset[w]} \subseteq matrix[w]
  /\ \A c \in Color : preset[c] = c

OnStack == {stk[k] : k \in 1 .. Len(stk)}

(* While webs are pruned, those on the stack have no list and are in none; *)
(* the others have all their neighbours that are not on the stack.         *)
StackInv ==
  /\ stk \in Seq(Web)
  /\ \A j, k \in 1 .. Len(stk) : stk[j] = stk[k] => j = k
  /\ pc \in {"list", "isolated", "prune", "candidates", "assign", "modifyCode", "genSpillCode"}
  /\ pc = "list" => list = [w \in Web |-> {}]
  /\ pc = "isolated" => list = matrix
  /\ pc # "list" => removeList = matrix
  /\ pc \in {"prune", "candidates"} =>
       /\ \A w \in OnStack : list[w] = {}
       /\ \A w \in Web \ OnStack : list[w] # {} /\ list[w] = matrix[w] \ OnStack
  /\ pc \in {"assign", "modifyCode", "genSpillCode"} => \A w \in Web : list[w] = {}

(* A virtual web has no colour before its turn.                            *)
ColorInv ==
  /\ pc \in {"list", "isolated", "prune", "candidates"} => rreg = preset /\ spill = {}
  /\ \A w \in OnStack \cap Virtual : rreg[w] = NoColor

(* The neighbours that may have a colour when the web at k has its turn:   *)
(* all but the virtual ones below it.                                      *)
Blockers(k) == matrix[stk[k]] \ {x \in Virtual : \E j \in k + 1 .. Len(stk) : stk[j] = x}

(* They are fewer than the colours if the web was pruned for its low       *)
(* degree: until then a bound web is pruned after all its neighbours only. *)
LowInv ==
  /\ lowDegree \subseteq Virtual
  /\ pc \in {"list", "isolated"} => lowDegree = {}
  /\ pc \in {"prune", "candidates"} => lowDegree \subseteq OnStack
  /\ pc = "prune" => \A w \in OnStack \ Virtual : matrix[w] \subseteq OnStack
  /\ \A k \in 1 .. Len(stk) :
       stk[k] \in lowDegree => Cardinality(Blockers(k)) < Cardinality(ColorsOf(stk[k]))

IInv ==
  /\ GraphInv /\ BoundInv /\ StackInv /\ ColorInv /\ LowInv
  /\ ProperColoring /\ PresetKept /\ OnlyCandidatesSpill
==============================================================================

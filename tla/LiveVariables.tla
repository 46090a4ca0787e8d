---------------------------- MODULE LiveVariables ----------------------------
(***************************************************************************)
(* The live variable analysis of the machine code                          *)
(* (src/src/LiveVariableAnalysis.cpp), on which both register allocators   *)
(* and the dead code elimination of the machine code rest.                 *)
(*                                                                         *)
(* The analysis does not work on registers but on the OPERANDS that use    *)
(* them: a set liveIn[b] holds the uses that a definition above b could    *)
(* reach.  An operand is the triple <<block, position, register>> of the   *)
(* use it stands for.                                                      *)
(***************************************************************************)
EXTENDS Integers, Sequences, FiniteSets

CONSTANTS
  N,        \* number of blocks of the function, numbered in list order
  Reg,      \* the registers, virtual and physical
  Bodies    \* the instruction sequences a block may have

Instr == [use : SUBSET Reg, def : SUBSET Reg]

ASSUME NAssumption == N \in Nat \ {0}
ASSUME BodiesAssumption == Bodies \subseteq Seq(Instr)

Block == 1 .. N

VARIABLES
  succ,     \* the control flow graph, constant
  body,     \* the instructions of every block, constant
  all_uses, \* register -> the operands that use it
  use, def, \* block -> the operands it uses first, the operands it kills
  liveIn, liveOut,
  change,   \* has the current round changed a liveIn?
  pc,       \* the loop that runs
  blk, pos  \* its position: the block, and the instruction in it

input == <<succ, body>>
vars  == <<succ, body, all_uses, use, def, liveIn, liveOut, change, pc, blk, pos>>

Operand == Block \X (Nat \ {0}) \X Reg

(* The operands of instruction i of block b that use a register. *)
UsesAt(b, i) == {<<b, i, r>> : r \in body[b][i].use}

Operands == UNION {UNION {UsesAt(b, i) : i \in DOMAIN body[b]} : b \in Block}

(* Bug: the definitions of r are collected with its uses. *)
UsesAndDefsOf(r) ==
  {o \in Operands : o[3] = r}
    \cup {<<b, 1, r>> : b \in {b \in Block : body[b] # <<>> /\ r \in body[b][1].def}}

UsesOf(r) == {o \in Operands : o[3] = r}

-----------------------------------------------------------------------------

Init ==
  /\ succ \in [Block -> {S \in SUBSET Block : Cardinality(S) =< 2}]
  /\ body \in [Block -> Bodies]
  /\ all_uses = [r \in Reg |-> {}]
  /\ use = [b \in Block |-> {}]
  /\ def = [b \in Block |-> {}]
  /\ liveIn = [b \in Block |-> {}]
  /\ liveOut = [b \in Block |-> {}]
  /\ change = FALSE
  /\ pc = "usepos" /\ blk = 1 /\ pos = 1

(* computeUsePos: the uses of every register, function wide. *)
ComputeUsePos ==
  /\ pc = "usepos"
  /\ all_uses' = [r \in Reg |-> UsesOf(r)]
  /\ pc' = "defuse"
  /\ UNCHANGED <<input, use, def, liveIn, liveOut, change, blk, pos>>

(* Bug: a definition kills the uses of its own block only. *)
KilledInBlock(b, i) ==
  {o \in UNION {all_uses[r] : r \in body[b][i].def} : o[1] = b}

KilledBy(b, i) == UNION {all_uses[r] : r \in body[b][i].def}

(* computeDefUse, one instruction: its uses not yet killed by the block,   *)
(* then every use, anywhere, of what it defines is killed.                 *)
ScanInstr ==
  /\ pc = "defuse"
  /\ blk \in Block
  /\ pos \in DOMAIN body[blk]
  /\ use' = [use EXCEPT ![blk] = @ \cup (UsesAt(blk, pos) \ def[blk])]
  /\ def' = [def EXCEPT ![blk] = @ \cup KilledBy(blk, pos)]
  /\ pos' = pos + 1
  /\ UNCHANGED <<input, all_uses, liveIn, liveOut, change, pc, blk>>

ScanNextBlock ==
  /\ pc = "defuse"
  /\ blk \in Block
  /\ pos \notin DOMAIN body[blk]
  /\ blk' = blk + 1
  /\ pos' = 1
  /\ UNCHANGED <<input, all_uses, use, def, liveIn, liveOut, change, pc>>

(* iterate: clear every liveIn and enter the first round. *)
StartIterate ==
  /\ pc = "defuse"
  /\ blk \notin Block
  /\ liveIn' = [b \in Block |-> {}]
  /\ change' = FALSE
  /\ pc' = "iterate"
  /\ blk' = 1
  /\ UNCHANGED <<input, all_uses, use, def, liveOut, pos>>

OutOf(b) == UNION {liveIn[s] : s \in succ[b]}

(* Bug: only the last block of the round decides on another round. *)
LastBlockChanged(new) == new # liveIn[blk]

RoundChanged(new) == change \/ new # liveIn[blk]

(* iterate, one block of a round. *)
VisitBlock ==
  /\ pc = "iterate"
  /\ blk \in Block
  /\ liveOut' = [liveOut EXCEPT ![blk] = OutOf(blk)]
  /\ liveIn' = [liveIn EXCEPT ![blk] = use[blk] \cup (OutOf(blk) \ def[blk])]
  /\ change' = RoundChanged(liveIn'[blk])
  /\ blk' = blk + 1
  /\ UNCHANGED <<input, all_uses, use, def, pc, pos>>

(* Bug: the sets are cleared before every round. *)
EndRoundClearing ==
  /\ pc = "iterate"
  /\ blk \notin Block
  /\ pc' = IF change THEN "iterate" ELSE "done"
  /\ blk' = 1
  /\ change' = FALSE
  /\ liveIn' = IF change THEN [b \in Block |-> {}] ELSE liveIn
  /\ UNCHANGED <<input, all_uses, use, def, liveOut, pos>>

(* Bug: change is not reset. *)
EndRoundStale ==
  /\ pc = "iterate"
  /\ blk \notin Block
  /\ pc' = IF change THEN "iterate" ELSE "done"
  /\ blk' = 1
  /\ UNCHANGED <<input, all_uses, use, def, liveIn, liveOut, change, pos>>

(* iterate, the end of a round: another one if a liveIn has changed. *)
EndRound ==
  /\ pc = "iterate"
  /\ blk \notin Block
  /\ pc' = IF change THEN "iterate" ELSE "done"
  /\ blk' = 1
  /\ change' = FALSE
  /\ UNCHANGED <<input, all_uses, use, def, liveIn, liveOut, pos>>

Next ==
  \/ ComputeUsePos
  \/ ScanInstr
  \/ ScanNextBlock
  \/ StartIterate
  \/ VisitBlock
  \/ EndRound

Spec == Init /\ [][Next]_vars

(* The pass is a sequential program that nothing interrupts. *)
FairSpec == Spec /\ WF_vars(Next)

-----------------------------------------------------------------------------
(***************************************************************************)
(* What the analysis promises, stated on the program and not on use and    *)
(* def: operand o is live at the entry of b when a path without a          *)
(* definition of its register leads from there to o.  A set of blocks is   *)
(* Closed for o when it holds every block from which one more step reaches *)
(* it; the blocks where o is live are the least closed set.                *)
(***************************************************************************)
Defines(b, i, r) == r \in body[b][i].def

Kills(b, r) == \E i \in DOMAIN body[b] : Defines(b, i, r)

(* No instruction above o in its block defines its register. *)
UpwardExposed(o) == \A i \in DOMAIN body[o[1]] : i < o[2] => ~Defines(o[1], i, o[3])

Closed(o, S) ==
  /\ UpwardExposed(o) => o[1] \in S
  /\ \A b \in Block : succ[b] \cap S # {} /\ ~Kills(b, o[3]) => b \in S

LiveBlocks(o) == {b \in Block : \A S \in SUBSET Block : Closed(o, S) => b \in S}

TrueLiveIn(b)  == {o \in Operands : b \in LiveBlocks(o)}
TrueLiveOut(b) == UNION {TrueLiveIn(s) : s \in succ[b]}

(* The type of every variable; all_uses, use, def and the live sets hold   *)
(* operands of the program only.                                           *)
TypeOK ==
  /\ succ \in [Block -> SUBSET Block]
  /\ body \in [Block -> Bodies]
  /\ all_uses \in [Reg -> SUBSET Operands]
  /\ use \in [Block -> SUBSET Operands]
  /\ def \in [Block -> SUBSET Operands]
  /\ liveIn \in [Block -> SUBSET Operands]
  /\ liveOut \in [Block -> SUBSET Operands]
  /\ change \in BOOLEAN
  /\ pc \in {"usepos", "defuse", "iterate", "done"}
  /\ blk \in 1 .. N + 1
  /\ pos \in Nat \ {0}

(* At no moment of the iteration does a set hold an operand that is not    *)
(* live: the rounds approach the solution from below, whatever the order   *)
(* of the blocks in the list.                                              *)
NeverTooLive ==
  \A b \in Block : liveIn[b] \subseteq TrueLiveIn(b) /\ liveOut[b] \subseteq TrueLiveOut(b)

(* When iterate returns nothing live is missing from either set.  A liveOut *)
(* is cleared and filled before its successors are visited in that round,  *)
(* so it is right only because the last round changed nothing.             *)
Exact ==
  pc = "done" =>
    \A b \in Block : liveIn[b] = TrueLiveIn(b) /\ liveOut[b] = TrueLiveOut(b)

(* Recomputing a liveIn from scratch, as every visit does, never loses an  *)
(* operand an earlier visit had found.                                     *)
Monotone == [][\A b \in Block : pc = "iterate" => liveIn[b] \subseteq liveIn'[b]]_vars

(* The rounds come to an end on every control flow graph. *)
Termination == <>(pc = "done")

-----------------------------------------------------------------------------
(* The inductive invariant behind NeverTooLive, Exact and Monotone. *)

(* computeDefUse has been past instruction i of block b. *)
Scanned(b, i) ==
  \/ pc \in {"iterate", "done"}
  \/ pc = "defuse" /\ (b < blk \/ (b = blk /\ i < pos))

(* use and def are right for the instructions scanned so far. *)
ScanInv ==
  /\ pc = "usepos" => blk = 1 /\ pos = 1
  /\ pc = "defuse" /\ blk \in Block => pos =< Len(body[blk]) + 1
  /\ pc # "usepos" => all_uses = [r \in Reg |-> UsesOf(r)]
  /\ \A b \in Block :
       /\ use[b] = {o \in Operands : o[1] = b /\ Scanned(b, o[2]) /\ UpwardExposed(o)}
       /\ def[b] = {o \in Operands :
                      \E i \in DOMAIN body[b] : Scanned(b, i) /\ Defines(b, i, o[3])}

(* The sets are still empty when the rounds begin. *)
EmptyInv ==
  pc \in {"usepos", "defuse"} => \A b \in Block : liveIn[b] = {} /\ liveOut[b] = {}

(* No liveIn is above what its next visit will make of it. *)
GrowInv == \A b \in Block : liveIn[b] \subseteq use[b] \cup (OutOf(b) \ def[b])

(* The blocks visited in a round that has changed nothing solve their      *)
(* equations, and when the analysis has ended all of them do.              *)
SolvedInv ==
  \A b \in Block :
    pc = "done" \/ (pc = "iterate" /\ ~change /\ b < blk) =>
      /\ liveOut[b] = OutOf(b)
      /\ liveIn[b] = use[b] \cup (OutOf(b) \ def[b])

IInv == TypeOK /\ ScanInv /\ EmptyInv /\ GrowInv /\ SolvedInv /\ NeverTooLive
==============================================================================

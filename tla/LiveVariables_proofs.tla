------------------------ MODULE LiveVariables_proofs ------------------------
(***************************************************************************)
(* Proofs that the live variable analysis computes, on every control flow  *)
(* graph and for every choice of the block bodies, exactly the operands    *)
(* that are live, and that it does so from below.                          *)
(***************************************************************************)
EXTENDS LiveVariables, SequenceTheorems, TLAPS

-----------------------------------------------------------------------------
(* The operands of the program, one by one. *)
LEMMA OperandsDef ==
  ASSUME TypeOK
  PROVE  \A o : o \in Operands <=>
           \E b \in Block : \E i \in DOMAIN body[b] : \E r \in body[b][i].use : o = <<b, i, r>>
  BY DEF Operands, UsesAt

(* A register an instruction uses or defines is a register, its position   *)
(* in the block a positive number.                                         *)
LEMMA BodyType ==
  ASSUME TypeOK, NEW b \in Block, NEW i \in DOMAIN body[b]
  PROVE  /\ i \in Nat \ {0}
         /\ body[b][i].use \subseteq Reg
         /\ body[b][i].def \subseteq Reg
<1>1. body[b] \in Seq(Instr)
  BY BodiesAssumption DEF TypeOK
<1>2. i \in 1 .. Len(body[b]) /\ body[b][i] \in Instr
  BY <1>1
<1> QED
  BY <1>2 DEF Instr

(* What the properties say of the program depends on its text alone. *)
LEMMA InputStable ==
  ASSUME UNCHANGED input
  PROVE  /\ Operands' = Operands
         /\ \A r : UsesOf(r)' = UsesOf(r)
         /\ \A b, r : Kills(b, r)' <=> Kills(b, r)
         /\ \A o : UpwardExposed(o)' <=> UpwardExposed(o)
         /\ \A b : TrueLiveIn(b)' = TrueLiveIn(b)
         /\ \A b : TrueLiveOut(b)' = TrueLiveOut(b)
<1>1. succ' = succ /\ body' = body
  BY DEF input
<1>2. Operands' = Operands
  BY <1>1 DEF Operands, UsesAt
<1>3. \A r : UsesOf(r)' = UsesOf(r)
  BY <1>2 DEF UsesOf
<1>4. \A b, r : Kills(b, r)' <=> Kills(b, r)
  BY <1>1 DEF Kills, Defines
<1>5. \A o : UpwardExposed(o)' <=> UpwardExposed(o)
  BY <1>1 DEF UpwardExposed, Defines
<1>6. \A o, S : Closed(o, S)' <=> Closed(o, S)
  BY <1>1, <1>4, <1>5 DEF Closed
<1>7. \A o : LiveBlocks(o)' = LiveBlocks(o)
  BY <1>6 DEF LiveBlocks
<1>8. \A b : TrueLiveIn(b)' = TrueLiveIn(b)
  BY <1>2, <1>7 DEF TrueLiveIn
<1>9. \A b : TrueLiveOut(b)' = TrueLiveOut(b)
  BY <1>1, <1>8 DEF TrueLiveOut
<1> QED
  BY <1>2, <1>3, <1>4, <1>5, <1>8, <1>9

-----------------------------------------------------------------------------
(* Every variable keeps its type: computeDefUse and iterate put only       *)
(* operands of the program in their sets.                                  *)
LEMMA TypeInit == Init => TypeOK
<1> SUFFICES ASSUME Init PROVE TypeOK
  OBVIOUS
<1>1. succ \in [Block -> SUBSET Block] /\ body \in [Block -> Bodies]
  BY DEF Init
<1>2. all_uses \in [Reg -> SUBSET Operands]
  BY DEF Init
<1>3. /\ use \in [Block -> SUBSET Operands] /\ def \in [Block -> SUBSET Operands]
      /\ liveIn \in [Block -> SUBSET Operands] /\ liveOut \in [Block -> SUBSET Operands]
  BY DEF Init
<1>4. change \in BOOLEAN
  BY Zenon DEF Init
<1>5. /\ pc \in {"usepos", "defuse", "iterate", "done"}
      /\ blk \in 1 .. N + 1 /\ pos \in Nat \ {0}
  BY NAssumption DEF Init
<1> QED
  BY <1>1, <1>2, <1>3, <1>4, <1>5 DEF TypeOK

LEMMA TypeStep ==
  ASSUME TypeOK, [Next]_vars
  PROVE  TypeOK'
<1> USE DEF TypeOK
<1>0. UNCHANGED input
  BY DEF Next, vars, input, ComputeUsePos, ScanInstr, ScanNextBlock, StartIterate,
         VisitBlock, EndRound
<1>a. Operands' = Operands
  BY <1>0, InputStable
<1>b. blk \in Nat /\ N \in Nat /\ Block = 1 .. N
  BY NAssumption DEF Block
<1> SUFFICES ASSUME Next PROVE TypeOK'
  BY <1>a DEF vars
<1>1. CASE ComputeUsePos
  <2>1. \A r : UsesOf(r) \subseteq Operands
    BY DEF UsesOf
  <2> QED
    BY <1>1, <1>a, <2>1 DEF ComputeUsePos, input
<1>2. CASE ScanInstr
  <2>1. UsesAt(blk, pos) \subseteq Operands
    BY <1>2 DEF ScanInstr, Operands
  <2>2. \A r \in body[blk][pos].def : all_uses[r] \subseteq Operands
    BY <1>2, BodyType DEF ScanInstr
  <2>3. UNION {all_uses[r] : r \in body[blk][pos].def} \subseteq Operands
    BY <2>2
  <2>4. use' \in [Block -> SUBSET Operands]
    BY <1>2, <2>1 DEF ScanInstr
  <2>5. def' \in [Block -> SUBSET Operands]
    BY <1>2, <2>3 DEF ScanInstr, KilledBy
  <2> QED
    BY <1>2, <1>a, <2>4, <2>5 DEF ScanInstr, input
<1>3. CASE ScanNextBlock
  BY <1>3, <1>a, <1>b DEF ScanNextBlock, input
<1>4. CASE StartIterate
  <2>1. change' \in BOOLEAN
    BY <1>4, Zenon DEF StartIterate
  <2> QED
    BY <1>4, <1>a, <1>b, <2>1 DEF StartIterate, input
<1>5. CASE VisitBlock
  <2>1. OutOf(blk) \subseteq Operands
    BY <1>5 DEF VisitBlock, OutOf
  <2>2. liveOut' \in [Block -> SUBSET Operands]
    BY <1>5, <2>1 DEF VisitBlock
  <2>3. liveIn' \in [Block -> SUBSET Operands]
    BY <1>5, <2>1 DEF VisitBlock
  <2>4. change' \in BOOLEAN
    BY <1>5 DEF VisitBlock, RoundChanged
  <2> QED
    BY <1>5, <1>a, <1>b, <2>2, <2>3, <2>4 DEF VisitBlock, input
<1>6. CASE EndRound
  <2>1. change' \in BOOLEAN
    BY <1>6, Zenon DEF EndRound
  <2> QED
    BY <1>6, <1>a, <1>b, <2>1 DEF EndRound, input
<1> QED
  BY <1>1, <1>2, <1>3, <1>4, <1>5, <1>6 DEF Next

THEOREM TypeCorrect == Spec => []TypeOK
<1>1. Init => TypeOK
  BY TypeInit
<1>2. TypeOK /\ [Next]_vars => TypeOK'
  BY TypeStep
<1> QED
  BY <1>1, <1>2, PTL DEF Spec

-----------------------------------------------------------------------------
(* After computeDefUse, use and def say of an operand what the text of the *)
(* block says.                                                             *)
LEMMA UseDefMeaning ==
  ASSUME TypeOK, ScanInv, pc \in {"iterate", "done"}, NEW b \in Block
  PROVE  /\ use[b] = {o \in Operands : o[1] = b /\ UpwardExposed(o)}
         /\ def[b] = {o \in Operands : Kills(b, o[3])}
  BY DEF ScanInv, Scanned, Kills

(* computeDefUse: the sets grow as the text of the block demands. *)
LEMMA ScanStep ==
  ASSUME TypeOK, ScanInv, [Next]_vars
  PROVE  ScanInv'
<1>0. UNCHANGED input
  BY DEF Next, vars, input, ComputeUsePos, ScanInstr, ScanNextBlock, StartIterate,
         VisitBlock, EndRound
<1>a. /\ Operands' = Operands
      /\ \A r : UsesOf(r)' = UsesOf(r)
      /\ \A o : UpwardExposed(o)' <=> UpwardExposed(o)
      /\ body' = body
  BY <1>0, InputStable DEF input
<1>b. blk \in Nat /\ pos \in Nat \ {0}
  BY NAssumption DEF TypeOK
<1>c. \A o \in Operands :
        /\ o[1] \in Block /\ o[2] \in DOMAIN body[o[1]]
        /\ o[2] \in Nat \ {0} /\ o[3] \in body[o[1]][o[2]].use /\ o[3] \in Reg
        /\ o = <<o[1], o[2], o[3]>>
  BY OperandsDef, BodyType
<1>d. \A b \in Block : \A i \in DOMAIN body[b] : i \in Nat \ {0}
  BY BodyType
<1>e. \A b \in Block : body[b] \in Seq(Instr) /\ DOMAIN body[b] = 1 .. Len(body[b])
  BY BodiesAssumption DEF TypeOK
<1>1. CASE ComputeUsePos
  <2>1. blk = 1 /\ pos = 1 /\ blk' = 1 /\ pos' = 1 /\ pc = "usepos" /\ pc' = "defuse"
    BY <1>1 DEF ComputeUsePos, ScanInv
  <2>2. \A b \in Block, i \in Nat \ {0} : ~Scanned(b, i) /\ ~Scanned(b, i)'
    BY <2>1 DEF Scanned, Block
  <2>3. \A b \in Block : use[b] = {} /\ def[b] = {}
    BY <2>2, <1>c, <1>d DEF ScanInv
  <2>4. use' = use /\ def' = def /\ all_uses' = [r \in Reg |-> UsesOf(r)]
    BY <1>1 DEF ComputeUsePos
  <2>5. all_uses' = [r \in Reg |-> UsesOf(r)']
    BY <2>4, <1>a
  <2>6. \A b \in Block : pos' =< Len(body'[b]) + 1
    BY <2>1, <1>a, <1>e, LenProperties
  <2>7. \A b \in Block :
          /\ use'[b] = {o \in Operands : o[1] = b /\ Scanned(b, o[2])' /\ UpwardExposed(o)}
          /\ def'[b] = {o \in Operands :
                         \E i \in DOMAIN body[b] : Scanned(b, i)' /\ Defines(b, i, o[3])}
    BY <2>2, <2>3, <2>4, <1>c, <1>d
  <2> QED
    BY <2>1, <2>5, <2>6, <2>7, <1>a DEF ScanInv, Defines
<1>2. CASE ScanInstr
  <2>1. /\ pc = "defuse" /\ pc' = "defuse" /\ blk \in Block /\ blk' = blk
        /\ pos' = pos + 1 /\ pos \in DOMAIN body[blk] /\ all_uses' = all_uses
    BY <1>2 DEF ScanInstr
  <2>2. \A b \in Block, i \in Nat \ {0} :
          Scanned(b, i)' <=> Scanned(b, i) \/ (b = blk /\ i = pos)
    BY <2>1, <1>b DEF Scanned, Block
  <2>3. \A i \in Nat \ {0} : Scanned(blk, i) <=> i < pos
    BY <2>1, <1>b DEF Scanned
  <2>4. pos' =< Len(body'[blk']) + 1
    BY <2>1, <1>a, <1>b, <1>e
  <2>5. \A r \in Reg : all_uses[r] = {o \in Operands : o[3] = r}
    BY <2>1 DEF ScanInv, UsesOf
  <2>6. UNION {all_uses[r] : r \in body[blk][pos].def}
          = {o \in Operands : Defines(blk, pos, o[3])}
    <3>1. body[blk][pos].def \subseteq Reg
      BY <2>1, BodyType
    <3> QED
      BY <2>5, <3>1, <1>c DEF Defines
  <2>7. UsesAt(blk, pos) = {o \in Operands : o[1] = blk /\ o[2] = pos}
    <3>1. ASSUME NEW o \in UsesAt(blk, pos) PROVE o \in Operands /\ o[1] = blk /\ o[2] = pos
      BY <3>1, <2>1 DEF UsesAt, Operands
    <3>2. ASSUME NEW o \in Operands, o[1] = blk, o[2] = pos PROVE o \in UsesAt(blk, pos)
      BY <3>2, <1>c DEF UsesAt
    <3> QED
      BY <3>1, <3>2
  <2>8. \A o \in Operands : o[1] = blk /\ o[2] = pos =>
          (o \notin def[blk] <=> UpwardExposed(o))
    <3>1. \A o \in Operands : o \in def[blk] <=>
            \E i \in DOMAIN body[blk] : i < pos /\ Defines(blk, i, o[3])
      BY <2>1, <2>3, <1>d DEF ScanInv
    <3> QED
      BY <3>1 DEF UpwardExposed
  <2>9. /\ use' = [use EXCEPT ![blk] = @ \cup (UsesAt(blk, pos) \ def[blk])]
        /\ def' = [def EXCEPT ![blk] = @ \cup {o \in Operands : Defines(blk, pos, o[3])}]
    BY <1>2, <2>6 DEF ScanInstr, KilledBy
  <2>10. ASSUME NEW b \in Block
         PROVE  use'[b] = {o \in Operands : o[1] = b /\ Scanned(b, o[2])' /\ UpwardExposed(o)}
    <3>1. use[b] = {o \in Operands : o[1] = b /\ Scanned(b, o[2]) /\ UpwardExposed(o)}
      BY DEF ScanInv
    <3>2. CASE b = blk
      <4>1. use'[b] = use[b] \cup (UsesAt(blk, pos) \ def[blk])
        BY <2>9, <3>2 DEF TypeOK
      <4> QED
        BY <4>1, <3>1, <3>2, <2>2, <2>7, <2>8, <1>c
    <3>3. CASE b # blk
      BY <3>1, <3>3, <2>9, <2>2, <1>c DEF TypeOK
    <3> QED
      BY <3>2, <3>3
  <2>11. ASSUME NEW b \in Block
         PROVE  def'[b] = {o \in Operands :
                            \E i \in DOMAIN body[b] : Scanned(b, i)' /\ Defines(b, i, o[3])}
    <3>1. def[b] = {o \in Operands :
                     \E i \in DOMAIN body[b] : Scanned(b, i) /\ Defines(b, i, o[3])}
      BY DEF ScanInv
    <3>2. CASE b = blk
      <4>1. def'[b] = def[b] \cup {o \in Operands : Defines(blk, pos, o[3])}
        BY <2>9, <3>2 DEF TypeOK
      <4> QED
        BY <4>1, <3>1, <3>2, <2>2, <2>1, <1>d
    <3>3. CASE b # blk
      BY <3>1, <3>3, <2>9, <2>2, <1>d DEF TypeOK
    <3> QED
      BY <3>2, <3>3
  <2>12. all_uses' = [r \in Reg |-> UsesOf(r)']
    BY <2>1, <1>a DEF ScanInv
  <2> QED
    BY <2>1, <2>4, <2>10, <2>11, <2>12, <1>a DEF ScanInv, Defines
<1>3. ASSUME /\ \A b \in Block : \A i \in DOMAIN body[b] : Scanned(b, i)' <=> Scanned(b, i)
             /\ use' = use /\ def' = def /\ all_uses' = all_uses
             /\ pc # "usepos" /\ pc' # "usepos"
             /\ pc' = "defuse" /\ blk' \in Block => pos' =< Len(body[blk']) + 1
      PROVE  ScanInv'
  <2>1. all_uses' = [r \in Reg |-> UsesOf(r)']
    BY <1>3, <1>a DEF ScanInv
  <2>2. \A b \in Block :
          /\ use'[b] = {o \in Operands : o[1] = b /\ Scanned(b, o[2])' /\ UpwardExposed(o)}
          /\ def'[b] = {o \in Operands :
                         \E i \in DOMAIN body[b] : Scanned(b, i)' /\ Defines(b, i, o[3])}
    BY <1>3, <1>c DEF ScanInv
  <2> QED
    BY <1>3, <2>1, <2>2, <1>a DEF ScanInv, Defines
<1>4. CASE ScanNextBlock
  <2>1. /\ pc = "defuse" /\ pc' = "defuse" /\ blk \in Block /\ blk' = blk + 1 /\ pos' = 1
        /\ use' = use /\ def' = def /\ all_uses' = all_uses
        /\ pos \notin 1 .. Len(body[blk]) /\ pos =< Len(body[blk]) + 1
    BY <1>4, <1>e DEF ScanNextBlock, ScanInv
  <2>2. \A i \in DOMAIN body[blk] : i < pos
    BY <2>1, <1>b, <1>e
  <2>3. \A b \in Block : \A i \in DOMAIN body[b] : Scanned(b, i)' <=> Scanned(b, i)
    BY <2>1, <2>2, <1>b, <1>d DEF Scanned, Block
  <2>4. \A b \in Block : pos' =< Len(body[b]) + 1
    BY <2>1, <1>e
  <2> QED
    BY <1>3, <2>1, <2>3, <2>4
<1>5. CASE StartIterate
  <2>1. \A b \in Block : \A i \in DOMAIN body[b] : Scanned(b, i) /\ Scanned(b, i)'
    BY <1>5, <1>b, <1>d, NAssumption DEF StartIterate, Scanned, Block, TypeOK
  <2> QED
    BY <1>3, <1>5, <2>1 DEF StartIterate
<1>6. CASE VisitBlock \/ EndRound
  <2>1. \A b \in Block : \A i \in DOMAIN body[b] : Scanned(b, i) /\ Scanned(b, i)'
    BY <1>6 DEF VisitBlock, EndRound, Scanned
  <2>2. use' = use /\ def' = def /\ all_uses' = all_uses /\ pc = "iterate"
        /\ pc' \in {"iterate", "done"}
    BY <1>6 DEF VisitBlock, EndRound
  <2> QED
    BY <1>3, <2>1, <2>2
<1>7. CASE UNCHANGED vars
  BY <1>7, <1>a DEF vars, ScanInv, Scanned, Defines
<1> QED
  BY <1>1, <1>2, <1>4, <1>5, <1>6, <1>7 DEF Next

-----------------------------------------------------------------------------
(* The live operands solve the same equations as the analysis: what a      *)
(* block uses first is live at its entry, and what is live at its exit and *)
(* not killed is live at its entry.                                        *)
LEMMA TrueLiveEquation ==
  ASSUME TypeOK, NEW b \in Block
  PROVE  /\ {o \in Operands : o[1] = b /\ UpwardExposed(o)} \subseteq TrueLiveIn(b)
         /\ {o \in TrueLiveOut(b) : ~Kills(b, o[3])} \subseteq TrueLiveIn(b)
<1>1. ASSUME NEW o \in Operands, o[1] = b, UpwardExposed(o)
      PROVE  o \in TrueLiveIn(b)
  BY <1>1 DEF TrueLiveIn, LiveBlocks, Closed
<1>2. ASSUME NEW o \in TrueLiveOut(b), ~Kills(b, o[3])
      PROVE  o \in TrueLiveIn(b)
  <2>1. PICK s \in succ[b] : o \in TrueLiveIn(s)
    BY DEF TrueLiveOut
  <2>2. o \in Operands /\ s \in LiveBlocks(o)
    BY <2>1 DEF TrueLiveIn
  <2>3. ASSUME NEW S \in SUBSET Block, Closed(o, S) PROVE b \in S
    <3>1. s \in S
      BY <2>2, <2>3 DEF LiveBlocks
    <3> QED
      BY <3>1, <2>1, <2>3, <1>2 DEF Closed
  <2> QED
    BY <2>2, <2>3 DEF TrueLiveIn, LiveBlocks
<1> QED
  BY <1>1, <1>2

LEMMA IterateStep ==
  ASSUME IInv, [Next]_vars, TypeOK', ScanInv'
  PROVE  EmptyInv' /\ GrowInv' /\ SolvedInv' /\ NeverTooLive'
<1>0. UNCHANGED input
  BY DEF Next, vars, input, ComputeUsePos, ScanInstr, ScanNextBlock, StartIterate,
         VisitBlock, EndRound
<1>a. /\ succ' = succ /\ Operands' = Operands
      /\ \A b : TrueLiveIn(b)' = TrueLiveIn(b)
      /\ \A b : TrueLiveOut(b)' = TrueLiveOut(b)
  BY <1>0, InputStable DEF input
<1>b. blk \in Nat /\ N \in Nat
  BY NAssumption DEF IInv, TypeOK
<1>1. CASE ComputeUsePos \/ ScanInstr \/ ScanNextBlock \/ StartIterate
  <2>1. \A b \in Block : liveIn'[b] = {} /\ liveOut'[b] = {}
    BY <1>1 DEF IInv, EmptyInv, ComputeUsePos, ScanInstr, ScanNextBlock, StartIterate
  <2>2. pc' # "done" /\ (pc' = "iterate" => blk' = 1)
    BY <1>1 DEF ComputeUsePos, ScanInstr, ScanNextBlock, StartIterate
  <2>3. SolvedInv'
    BY <2>2, <1>b DEF SolvedInv, Block
  <2> QED
    BY <2>1, <2>3 DEF EmptyInv, GrowInv, NeverTooLive
<1>2. CASE VisitBlock
  <2>1. /\ pc = "iterate" /\ pc' = "iterate" /\ blk \in Block /\ blk' = blk + 1
        /\ use' = use /\ def' = def
        /\ change' = (change \/ liveIn'[blk] # liveIn[blk])
    BY <1>2 DEF VisitBlock, RoundChanged
  <2>2. /\ liveOut'[blk] = OutOf(blk)
        /\ liveIn'[blk] = use[blk] \cup (OutOf(blk) \ def[blk])
        /\ \A b \in Block \ {blk} : liveOut'[b] = liveOut[b] /\ liveIn'[b] = liveIn[b]
    BY <1>2 DEF VisitBlock, IInv, TypeOK
  <2>3. \A b \in Block : liveIn[b] \subseteq liveIn'[b]
    BY <2>2 DEF IInv, GrowInv
  <2>4. \A b \in Block : OutOf(b) \subseteq OutOf(b)'
    BY <2>3, <1>a DEF OutOf, IInv, TypeOK
  <2>5. GrowInv'
    BY <2>1, <2>2, <2>4 DEF IInv, GrowInv
  <2>6. SolvedInv'
    <3>1. SUFFICES ASSUME NEW b \in Block, ~change', b < blk + 1
                   PROVE  /\ liveOut'[b] = OutOf(b)'
                          /\ liveIn'[b] = use[b] \cup (OutOf(b)' \ def[b])
      BY <2>1 DEF SolvedInv
    <3>2. ~change /\ liveIn'[blk] = liveIn[blk]
      BY <2>1, <3>1
    <3>3. \A c \in Block : liveIn'[c] = liveIn[c]
      BY <3>2, <2>2
    <3>4. \A c \in Block : OutOf(c)' = OutOf(c)
      BY <3>3, <1>a DEF OutOf, IInv, TypeOK
    <3>5. CASE b = blk
      BY <3>5, <3>4, <2>2
    <3>6. CASE b < blk
      <4>1. liveOut[b] = OutOf(b) /\ liveIn[b] = use[b] \cup (OutOf(b) \ def[b])
        BY <3>6, <3>2, <2>1 DEF IInv, SolvedInv
      <4> QED
        BY <4>1, <3>4, <3>6, <2>2, <1>b
    <3> QED
      BY <3>1, <3>5, <3>6, <1>b DEF Block
  <2>7. OutOf(blk) \subseteq TrueLiveOut(blk)
    <3>1. \A s \in succ[blk] : liveIn[s] \subseteq TrueLiveIn(s)
      BY <2>1 DEF IInv, NeverTooLive, TypeOK
    <3> QED
      BY <3>1 DEF OutOf, TrueLiveOut
  <2>8. liveIn'[blk] \subseteq TrueLiveIn(blk)
    <3>1. /\ use[blk] = {o \in Operands : o[1] = blk /\ UpwardExposed(o)}
          /\ def[blk] = {o \in Operands : Kills(blk, o[3])}
      BY <2>1, UseDefMeaning DEF IInv
    <3>2. OutOf(blk) \subseteq Operands
      BY <2>1 DEF OutOf, IInv, TypeOK
    <3> QED
      BY <3>1, <3>2, <2>1, <2>2, <2>7, TrueLiveEquation DEF IInv
  <2>9. NeverTooLive'
    BY <2>2, <2>7, <2>8, <1>a DEF IInv, NeverTooLive
  <2> QED
    BY <2>1, <2>5, <2>6, <2>9 DEF EmptyInv
<1>3. CASE EndRound
  <2>1. /\ pc = "iterate" /\ blk \notin Block /\ blk' = 1 /\ use' = use /\ def' = def
        /\ liveIn' = liveIn /\ liveOut' = liveOut /\ ~change'
        /\ pc' = IF change THEN "iterate" ELSE "done"
    BY <1>3 DEF EndRound
  <2>2. \A b \in Block : OutOf(b)' = OutOf(b)
    BY <2>1, <1>a DEF OutOf
  <2>3. SolvedInv'
    <3>1. \A b \in Block : b < blk /\ ~(b < blk')
      BY <2>1, <1>b DEF Block, IInv, TypeOK
    <3>2. CASE change
      BY <3>1, <3>2, <2>1 DEF SolvedInv
    <3>3. CASE ~change
      <4>1. \A b \in Block : liveOut[b] = OutOf(b)
                             /\ liveIn[b] = use[b] \cup (OutOf(b) \ def[b])
        BY <3>1, <3>3, <2>1 DEF IInv, SolvedInv
      <4> QED
        BY <4>1, <2>1, <2>2 DEF SolvedInv
    <3> QED
      BY <3>2, <3>3
  <2> QED
    BY <2>1, <2>2, <2>3, <1>a DEF IInv, EmptyInv, GrowInv, NeverTooLive
<1>4. CASE UNCHANGED vars
  BY <1>4, <1>a DEF vars, IInv, EmptyInv, GrowInv, SolvedInv, NeverTooLive, OutOf
<1> QED
  BY <1>1, <1>2, <1>3, <1>4 DEF Next

LEMMA InvInit == Init => IInv
<1> SUFFICES ASSUME Init PROVE IInv
  OBVIOUS
<1>1. TypeOK
  BY TypeInit
<1>2. ScanInv
  <2>1. pc = "usepos" /\ blk = 1 /\ pos = 1 /\ \A b \in Block : use[b] = {} /\ def[b] = {}
    BY DEF Init
  <2>2. \A b, i : ~Scanned(b, i)
    BY <2>1 DEF Scanned
  <2> QED
    BY <2>1, <2>2 DEF ScanInv
<1>3. \A b \in Block : liveIn[b] = {} /\ liveOut[b] = {}
  BY DEF Init
<1>4. EmptyInv /\ GrowInv /\ SolvedInv /\ NeverTooLive
  BY <1>3 DEF Init, EmptyInv, GrowInv, SolvedInv, NeverTooLive
<1> QED
  BY <1>1, <1>2, <1>4 DEF IInv

LEMMA InvStep ==
  ASSUME IInv, [Next]_vars
  PROVE  IInv'
<1>1. TypeOK'
  BY TypeStep DEF IInv
<1>2. ScanInv'
  BY ScanStep DEF IInv
<1> QED
  BY <1>1, <1>2, IterateStep DEF IInv

(* When every equation is solved nothing live is missing: the blocks whose *)
(* liveIn holds an operand are a closed set for it.                        *)
LEMMA SolutionIsExact == IInv => Exact
<1> SUFFICES ASSUME IInv, pc = "done", NEW b \in Block
             PROVE  liveIn[b] = TrueLiveIn(b) /\ liveOut[b] = TrueLiveOut(b)
  BY DEF Exact
<1>a. TypeOK
  BY DEF IInv
<1>1. ASSUME NEW c \in Block, NEW o \in TrueLiveIn(c)
      PROVE  o \in liveIn[c]
  <2> DEFINE S == {d \in Block : o \in liveIn[d]}
  <2>1. o \in Operands /\ c \in LiveBlocks(o)
    BY DEF TrueLiveIn
  <2>2. o[1] \in Block
    BY <2>1, <1>a, OperandsDef
  <2>3. ASSUME NEW d \in Block
        PROVE  /\ use[d] = {p \in Operands : p[1] = d /\ UpwardExposed(p)}
               /\ def[d] = {p \in Operands : Kills(d, p[3])}
               /\ liveIn[d] = use[d] \cup (OutOf(d) \ def[d])
    BY UseDefMeaning DEF IInv, SolvedInv
  <2>4. UpwardExposed(o) => o[1] \in S
    BY <2>1, <2>2, <2>3
  <2>5. ASSUME NEW d \in Block, succ[d] \cap S # {}, ~Kills(d, o[3])
        PROVE  d \in S
    BY <2>1, <2>3, <2>5 DEF OutOf
  <2>6. Closed(o, S)
    BY <2>4, <2>5 DEF Closed
  <2> QED
    BY <2>1, <2>6 DEF LiveBlocks
<1>2. \A c \in Block : liveIn[c] = TrueLiveIn(c)
  BY <1>1 DEF IInv, NeverTooLive
<1>3. liveOut[b] = OutOf(b)
  BY DEF IInv, SolvedInv
<1>4. OutOf(b) = TrueLiveOut(b)
  BY <1>2, <1>a DEF OutOf, TrueLiveOut, TypeOK
<1> QED
  BY <1>2, <1>3, <1>4

LEMMA Invariance == Spec => []IInv
<1>1. IInv /\ [Next]_vars => IInv'
  BY InvStep
<1> QED
  BY InvInit, <1>1, PTL DEF Spec

(* No set ever holds an operand that is not live there. *)
THEOREM Soundness == Spec => []NeverTooLive
<1>1. IInv => NeverTooLive
  BY DEF IInv
<1> QED
  BY Invariance, <1>1, PTL

(* When the analysis returns its sets are the live operands, on every      *)
(* control flow graph and for every order of the blocks.                   *)
THEOREM Exactness == Spec => []Exact
  BY Invariance, SolutionIsExact, PTL

(* No visit loses an operand. *)
THEOREM Monotonicity == Spec => Monotone
<1>1. IInv /\ [Next]_vars =>
        [\A b \in Block : pc = "iterate" => liveIn[b] \subseteq liveIn'[b]]_vars
  <2> SUFFICES ASSUME IInv, Next, NEW b \in Block, pc = "iterate"
               PROVE  liveIn[b] \subseteq liveIn'[b]
    OBVIOUS
  <2>1. CASE VisitBlock
    BY <2>1 DEF VisitBlock, IInv, GrowInv, TypeOK
  <2>2. CASE EndRound
    BY <2>2 DEF EndRound
  <2> QED
    BY <2>1, <2>2 DEF Next, ComputeUsePos, ScanInstr, ScanNextBlock, StartIterate
<1> QED
  BY Invariance, <1>1, PTL DEF Spec, Monotone
==============================================================================

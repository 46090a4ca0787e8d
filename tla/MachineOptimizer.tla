---------------------------- MODULE MachineOptimizer ----------------------------
(***************************************************************************)
(* What "-O" does to machine code in front of the register allocator and   *)
(* behind it, in the order of src/src/main.cpp: CleanAsmAddZero, ConstAsm, *)
(* MachineCodeElimination, MachineStraighten, PeepholeOptimization and     *)
(* LocalValueNumber, each an operator from a function to what the pass     *)
(* leaves of it.  The rewrites of float instructions are left out.         *)
(***************************************************************************)
EXTENDS Assembly

(* The machine function of f with both edge lists, the entry and the       *)
(* number of the last new register.                                        *)
WithEdges(f, m) ==
  m @@ [succ |-> f.succ, pred |-> f.pred, entry |-> Entry(f), args |-> Len(f.params), fresh |-> 0]
NewReg(m)       == T(-(m.fresh + 1))
Parameter(n)    == <<"arg", n>>

IsMov(in)     == in.op = "mov"
IsCondMov(in) == in.op = "mov" /\ in.cond # "al"
IsLoad(in)    == in.op \in {"ldr", "vldr"}
IsStore(in)   == in.op \in {"str", "vstr"}
IsB(in)       == in.op = "b"
IsPhysical(o) == o[1] = "r" \/ IsOnStack(o)
Same(a, b)    == Home(a) = Home(b)
SameReg(a, b) == Home(a)[2] = Home(b)[2]
Indices(s)    == [k \in DOMAIN s |-> k]
InEveryBlock(Pass(_), m) == ForEach(LAMBDA g, b : [g EXCEPT !.code[b] = Pass(@)], m, m.list)
Without(code, drop) == Each(LAMBDA k : code[k], SelectSeq(Indices(code), LAMBDA k : k \notin drop))

-----------------------------------------------------------------------------
(* LiveVariableAnalysis, which has a module of its own.  A use is           *)
(* <<operand, <<block, instruction, number>>>>, a definition the same with *)
(* a negative number.                                                      *)
IsRegister(o) == IsVReg(o) \/ IsPhysical(o)
UsesAt(m, b, k) ==
  LET us == m.code[b][k].use
  IN  {<<Home(us[n]), <<b, k, n>>>> : n \in {n \in DOMAIN us : IsRegister(us[n])}}
Defines(in) == {in.def[n] : n \in DOMAIN in.def}
LiveBefore(m, b, k, after) == {u \in after : u[1] \notin Defines(m.code[b][k])} \cup UsesAt(m, b, k)
(* What is live in front of every instruction of a block, and at its end.  *)
LiveSets(m, b, out) ==
  ForEach(LAMBDA s, k : <<LiveBefore(m, b, k, Head(s))>> \o s, <<out>>, Reverse(Indices(m.code[b])))
Killed(m, b) == UNION {Defines(m.code[b][k]) : k \in DOMAIN m.code[b]}
RECURSIVE GrowLive(_, _, _, _)
GrowLive(m, exposed, killed, in) ==
  LET Out(b) == UNION {in[s] : s \in ToSet(m.succ[b])}
      next   == [b \in ToSet(m.list) |-> exposed[b] \cup {u \in Out(b) : u[1] \notin killed[b]}]
  IN  IF next = in THEN [b \in DOMAIN in |-> Out(b)] ELSE GrowLive(m, exposed, killed, next)
LiveOut(m) ==
  LET bs == ToSet(m.list)
  IN  GrowLive(m, [b \in bs |-> Head(LiveSets(m, b, {}))], [b \in bs |-> Killed(m, b)], [b \in bs |-> {}])

-----------------------------------------------------------------------------
(* CleanAsmAddZero: the copy of a parameter on the stack that is used once *)
(* becomes a load in front of the use; output corrects its offset.         *)
IsParamCopy(in) == in.op = "add" /\ in.use[2] = Imm(0) /\ IsOnStack(in.use[1]) /\ IsVReg(in.def[1])
AllUses(m, o) ==
  UNION {{u[2] : u \in {v \in UNION {UsesAt(m, b, k) : k \in DOMAIN m.code[b]} : v[1] = o}} : b \in ToSet(m.list)}
LoadParameter(m, u, n) ==
  LET load == Ldr(NewReg(m), <<Reg(FP), Parameter(n)>>)
  IN  [m EXCEPT !.fresh = @ + 1, !.code[u[1]][u[2]].use[u[3]] = NewReg(m),
                !.loads = Append(@, <<u[1], u[2], load>>)]
CleanCopy(m, b, k) ==
  LET in   == m.code[b][k]
      uses == IF IsParamCopy(in) THEN AllUses(m, in.def[1]) ELSE {}
  IN  IF ~IsParamCopy(in) \/ Cardinality(uses) > 1 THEN m
      ELSE [ForEach(LAMBDA g, u : LoadParameter(g, u, in.use[1][2]), m, SetToSeq(uses))
              EXCEPT !.dead = @ \cup {<<b, k>>}]
Placed1(m, b, k) ==
  Each(LAMBDA l : l[3], SelectSeq(m.loads, LAMBDA l : l[1] = b /\ l[2] = k))
  \o IF <<b, k>> \in m.dead THEN <<>> ELSE <<m.code[b][k]>>
CleanAsmAddZero(m) ==
  LET found == ForEach(LAMBDA g, b : ForEach(LAMBDA h, k : CleanCopy(h, b, k), g, Indices(g.code[b])),
                       [loads |-> <<>>, dead |-> {}] @@ m, m.list)
  IN  [m EXCEPT !.fresh = found.fresh,
         !.code = [b \in ToSet(m.list) |-> FlattenSeq([k \in DOMAIN found.code[b] |-> Placed1(found, b, k)])]]

-----------------------------------------------------------------------------
(* ConstAsm: within a block, what was set to a constant is one until it is *)
(* set to another; an operation on two becomes their result and the two    *)
(* instructions that set them go.                                          *)
Sets(in)  == (IsLoad(in) \/ IsMov(in)) /\ in.use[1][1] = "#" /\ IsVReg(in.def[1]) /\ ~IsFloatOp(in.def[1])
Folds(s, in) ==
  /\ in.op \in {"add", "sub", "mul", "div"} /\ \A n \in 1 .. 2 : in.use[n] \in DOMAIN s.imm
Folded(op, a, b) ==
  CASE op = "add" -> a + b [] op = "sub" -> a - b [] op = "mul" -> a * b [] op = "div" -> Quo(a, b)
Evaluated(s, k) ==
  LET in == s.code[k]
      d  == in.def[1]
      v  == Folded(in.op, s.imm[in.use[1]], s.imm[in.use[2]])
      Know(t, value) == [t EXCEPT !.imm = (d :> value) @@ @, !.by = (d :> k) @@ @]
  IN  CASE Sets(in) -> Know(s, in.use[1][2])
        [] Folds(s, in) ->
             Know([s EXCEPT !.code[k] = SetTo(d, v), !.drop = @ \cup {s.by[in.use[1]], s.by[in.use[2]]}], v)
        [] OTHER -> s
SimplifyBlock(code) ==
  LET s == ForEach(Evaluated, [code |-> code, imm |-> (None :> 0), by |-> (None :> 0), drop |-> {}], Indices(code))
  IN  Without(s.code, s.drop)
ConstAsm(m) == InEveryBlock(SimplifyBlock, m)

-----------------------------------------------------------------------------
(* MachineDeadCodeElimination: what defines nothing live, its first        *)
(* definition counting; a conditional move stays in front of another.      *)
UsesFirstDef(in, after) == \E u \in after : u[1] = in.def[1]
IsDead(in, after) == in.def # <<>> /\ in.op # "bl" /\ ~UsesFirstDef(in, after)
Sweep(m, b, out) ==
  LET live == LiveSets(m, b, out)
      Keep(rest, k) ==
        LET in == m.code[b][k]
        IN  IF IsDead(in, live[k + 1]) /\ ~(IsCondMov(in) /\ rest # <<>> /\ IsCondMov(Head(rest)))
            THEN rest ELSE <<in>> \o rest
  IN  ForEach(Keep, <<>>, Reverse(Indices(m.code[b])))
MachineDeadCode(m) ==
  LET out == LiveOut(m) IN [m EXCEPT !.code = [b \in ToSet(m.list) |-> Sweep(m, b, out[b])]]

-----------------------------------------------------------------------------
(* MachineStraighten.  Labels are block numbers.                           *)
GoesTo(in)       == in.use[1][2]
Retarget(in, c)  == [in EXCEPT !.use[1] = Label(c)]
NextOf(m, b)     == m.list[PosOf(m.list, b) + 1]
HasNext(m, b)    == b # Last(m.list)
EndsInB(code)    == code # <<>> /\ IsB(Last(code))
(* How many branches a block ends with.                                    *)
BranchCount(code)   == Len(code) - Max({k \in DOMAIN code : ~IsB(code[k])} \cup {0})
(* The edge from p to b is one from p to c.                                *)
MoveEdge(m, p, b, c) == RemoveSucc(AddSucc(AddPred(m, c, p), p, c), p, b)

(* pass1 and fuseBlock: a block and its only successor, which has no other *)
(* predecessor; the unconditional jump that j ended with is put back.      *)
Fusable(m, b) ==
  /\ Len(m.succ[b]) = 1 /\ m.succ[b][1] # m.entry
  /\ Len(m.pred[m.succ[b][1]]) = 1
FuseBlock(m, i, j) ==
  LET code == (IF EndsInB(m.code[i]) THEN Front(m.code[i]) ELSE m.code[i]) \o m.code[j]
      jump == IF ~IsB(Last(code)) /\ Len(m.succ[j]) = 1 THEN <<Jump(m.succ[j][1])>> ELSE <<>>
      Take(g, s) == AddPred(RemovePred(AddSucc(g, i, s), s, j), s, i)
  IN  ForEach(Take, [m EXCEPT !.code[i] = code \o jump, !.pred[j] = RemoveFirst(@, i), !.succ[i] = <<>>,
                              !.list = Remove(@, j)], m.succ[j])
RECURSIVE FuseBlocks(_)
FuseBlocks(m) ==
  LET bs == SelectSeq(m.list, LAMBDA b : Fusable(m, b))
  IN  IF bs = <<>> THEN m ELSE FuseBlocks(FuseBlock(m, bs[1], m.succ[bs[1]][1]))

(* pass2: a block that only jumps.  Predecessors that fell through to it    *)
(* get a jump.                                                             *)
OnlyJumps(m, b) == b # m.entry /\ Len(m.code[b]) = 1 /\ IsB(m.code[b][1])
PassBy(m, b, c, p) ==
  LET code == m.code[p]
      own  == {k \in Len(code) - BranchCount(code) + 1 .. Len(code) : GoesTo(code[k]) = b}
      redirected == [k \in DOMAIN code |-> IF k \in own THEN Retarget(code[k], c) ELSE code[k]]
      falls == own = {} /\ BranchCount(code) < Len(m.succ[p])
  IN  MoveEdge([m EXCEPT !.code[p] = redirected \o IF falls THEN <<Jump(c)>> ELSE <<>>], p, b, c)
SkipJump(m, b) ==
  LET c == GoesTo(m.code[b][1])
      skipped == ForEach(LAMBDA g, p : PassBy(g, b, c, p), RemovePred(m, c, b), m.pred[b])
  IN  [skipped EXCEPT !.list = Remove(@, b)]
SkipJumps(m) == ForEach(LAMBDA g, b : IF OnlyJumps(g, b) THEN SkipJump(g, b) ELSE g, m, m.list)

(* pass3: the jump to the block that follows, or the one around it; not in *)
(* the entry.                                                              *)
DropJump(m, b) ==
  LET code == m.code[b]
      next == NextOf(m, b)
      two  == Len(code) > 1 /\ IsB(code[Len(code) - 1])
      turned == Retarget(When(Opposite(code[Len(code) - 1].cond), code[Len(code) - 1]), GoesTo(Last(code)))
  IN  CASE ~HasNext(m, b) \/ b = m.entry \/ ~EndsInB(code) -> m
        [] HasNext(m, b) /\ next \notin ToSet(m.succ[b])   -> m
        [] OTHER -> CASE GoesTo(Last(code)) = next -> [m EXCEPT !.code[b] = Front(@)]
                      [] GoesTo(Last(code)) # next /\ two ->
                           [m EXCEPT !.code[b] = Append(SubSeq(@, 1, Len(@) - 2), turned)]
                      [] OTHER -> m
DropJumps(m) == ForEach(DropJump, m, m.list)

(* pass4: empty blocks, which all go; the edges of one at the end stay.    *)
LeadsTo(code, b) == {k \in Len(code) - BranchCount(code) + 1 .. Len(code) : GoesTo(code[k]) = b}
PassEmpty(m, b, c, p) ==
  LET code == m.code[p]
      own  == LeadsTo(code, b)
  IN  CASE own # {} -> MoveEdge([m EXCEPT !.code[p][Max(own)] = Retarget(@, c)], p, b, c)
        [] own = {} /\ BranchCount(code) < Len(code) -> MoveEdge(m, p, b, c)
        [] OTHER -> m
SkipEmpty(m, b) ==
  IF ~HasNext(m, b) THEN m
  ELSE RemovePred(ForEach(LAMBDA g, p : PassEmpty(g, b, NextOf(m, b), p), m, m.pred[b]), NextOf(m, b), b)
SkipEmpties(m) ==
  LET empty == SelectSeq(m.list, LAMBDA b : m.code[b] = <<>>)
  IN  [ForEach(SkipEmpty, m, empty) EXCEPT !.list = SelectSeq(@, LAMBDA b : b \notin ToSet(empty))]

RECURSIVE MachineStraighten(_)
MachineStraighten(m) ==
  LET done == ForEach(LAMBDA g, k : CASE k = 1 -> SkipEmpties(g) [] k = 2 -> FuseBlocks(g)
                                      [] k = 3 -> SkipJumps(g) [] k = 4 -> DropJumps(g), m, <<1, 2, 3, 4>>)
  IN  IF done = m THEN m ELSE MachineStraighten(done)

-----------------------------------------------------------------------------
(* PeepholeOptimization::pass.  Each rule looks at an instruction and the  *)
(* one behind it, which it may replace; the next pair starts with that.    *)
(* getReg compares numbers only.                                           *)
Fuse(op, d, a, b, c) == Op(op, d, <<a, b, c>>)
IsSelfMove(in) == in.op \in {"mov", "vmov.f32"} /\ Same(in.def[1], in.use[1])
CopyTo(d, o) == IF IsFloatOp(d) /\ IsFloatOp(o) THEN Op("vmov.f32", d, <<o>>) ELSE Mov(d, o)

MulAdd(a, b) ==
  LET d == a.def[1]
      other == IF SameReg(d, b.use[1]) THEN b.use[2] ELSE b.use[1]
  IN  IF IsImm(b.use[1]) \/ IsImm(b.use[2]) \/ ~(SameReg(d, b.use[1]) \/ SameReg(d, b.use[2])) THEN b
      ELSE Fuse("mla", b.def[1], a.use[1], a.use[2], other)
MulSub(a, b) ==
  IF IsImm(b.use[2]) \/ ~SameReg(a.def[1], b.use[2]) THEN b
  ELSE Fuse("mls", b.def[1], a.use[1], a.use[2], b.use[1])
StoreLoad(a, b) == IF Tail(a.use) = b.use THEN CopyTo(b.def[1], a.use[1]) ELSE b
LoadLoad(a, b)  == IF a.use = b.use THEN CopyTo(b.def[1], a.def[1]) ELSE b
MovAdd(a, b) ==
  IF a.def[1] = b.use[2] /\ IsImm(a.use[1]) THEN Op("add", b.def[1], <<b.use[1], a.use[1]>>) ELSE b
Rewrite(a, b) ==
  CASE a.op = "mul" /\ b.op = "add"  -> MulAdd(a, b)
    [] a.op = "mul" /\ b.op = "sub"  -> MulSub(a, b)
    [] IsStore(a) /\ IsLoad(b)       -> StoreLoad(a, b)
    [] IsLoad(a) /\ IsLoad(b)        -> LoadLoad(a, b)
    [] IsMov(a) /\ b.op = "add"      -> MovAdd(a, b)
    [] OTHER -> b

(* The second loop: an address that was just added up.                     *)
AddressOf(a) == IF a.use[2] = Imm(0) THEN <<a.use[1]>> ELSE a.use
AddAccess(a, b) ==
  LET k == IF IsStore(b) THEN 2 ELSE 1
      data == IF IsStore(b) THEN b.use[1] ELSE b.def[1]
  IN  IF /\ a.op = "add" /\ (IsStore(b) \/ IsLoad(b))
         /\ Len(b.use) = k /\ b.use[k] = a.def[1] /\ ~IsPhysical(a.def[1])
         /\ IsFloatOp(data) => a.use[2] = Imm(0)
      THEN [b EXCEPT !.use = SubSeq(@, 1, k - 1) \o AddressOf(a)] ELSE b

Sliding(Rule(_, _), code) ==
  ForEach(LAMBDA c, k : [c EXCEPT ![k + 1] = Rule(c[k], c[k + 1])], code, Front(Indices(code)))
PeepholeBlock(code) ==
  LET once == Sliding(Rewrite, code)
      kept == Without(once, {k \in 1 .. Len(once) - 1 : IsSelfMove(once[k])})
  IN  Sliding(AddAccess, kept)
Peephole(m) == InEveryBlock(PeepholeBlock, m)

-----------------------------------------------------------------------------
(* LocalValueNumber::changeMul2Exp2LSL: a product with a power of two that *)
(* was set one or two instructions before.                                 *)
Powers == {2 ^ k : k \in 0 .. 12}
SetsPower(a) == (IsMov(a) \/ IsLoad(a)) /\ Len(a.use) = 1 /\ a.use[1][1] = "#" /\ a.use[1][2] \in Powers
Shifted(a, b) ==
  LET d     == a.def[1]
      other == IF b.use[2] = d THEN b.use[1] ELSE b.use[2]
      k     == CHOOSE k \in 0 .. 12 : 2 ^ k = a.use[1][2]
  IN  IF b.op = "mul" /\ SetsPower(a) /\ d \in ToSet(b.use) THEN Op("lsl", b.def[1], <<other, Imm(k)>>) ELSE b
ShiftBlock(code) ==
  LET Step(c, k) ==
        LET near == [c EXCEPT ![k + 1] = Shifted(c[k], @)]
        IN  IF k + 2 <= Len(c) THEN [near EXCEPT ![k + 2] = Shifted(c[k], @)] ELSE near
  IN  ForEach(Step, code, Front(Indices(code)))

(* LocalValueNumber::pass: operands are replaced by the first that got the *)
(* same value, or that a copy is of.  What was found stays found when a    *)
(* register is written again; the instructions themselves stay.            *)
IsValue(o)  == ~IsPhysical(o) \/ o = Reg(FP)
HasHash(in) ==
  /\ in.def # <<>> /\ IsVReg(in.def[1]) /\ in.cond = "al"
  /\ \/ in.op \in {"add", "sub", "mul", "div", "vadd", "vsub", "vmul", "vdiv"} /\ IsValue(in.use[1]) /\ IsValue(in.use[2])
     \/ IsLoad(in) /\ in.use[1][1] \in {"#", "#f"}
     \/ in.op \in {"mov", "vmov", "vmov.f32", "lsl", "asr"} /\ \A n \in DOMAIN in.use : ~IsPhysical(in.use[n])
RECURSIVE Resolved(_, _)
Resolved(number, o) == IF o \in DOMAIN number THEN Resolved(number, number[o]) ELSE o
NumberOne(s, in) ==
  LET new  == [in EXCEPT !.use = [n \in DOMAIN @ |-> Resolved(s.number, @[n])]]
      hash == <<new.op, new.use>>
      t    == [s EXCEPT !.code = Append(@, new)]
      seen == {h \in s.hashes : h[1] = hash}
  IN  CASE ~HasHash(new) -> t
        [] HasHash(new) /\ seen # {} -> [t EXCEPT !.number = (in.def[1] :> (CHOOSE h \in seen : TRUE)[2]) @@ @]
        [] OTHER -> [t EXCEPT !.hashes = @ \cup {<<hash, in.def[1]>>},
                              !.number = IF IsMov(in) /\ IsVReg(in.use[1]) THEN (in.def[1] :> in.use[1]) @@ @ ELSE @]
NumberBlock(code) == ForEach(NumberOne, [code |-> <<>>, number |-> (None :> None), hashes |-> {}], code).code
LocalValueNumber(m) == InEveryBlock(NumberBlock, MachineDeadCode(InEveryBlock(ShiftBlock, m)))

-----------------------------------------------------------------------------
(* The order of main.                                                      *)
PassNamed(p, m) ==
  CASE p = "CleanAsmAddZero"  -> CleanAsmAddZero(m)
    [] p = "ConstAsm"         -> ConstAsm(m)
    [] p = "MachineDeadCode"  -> MachineDeadCode(m)
    [] p = "MachineStraighten" -> MachineStraighten(m)
    [] p = "LocalValueNumber" -> LocalValueNumber(m)
    [] p = "Peephole"         -> Peephole(m)
Before1 == <<"CleanAsmAddZero", "ConstAsm", "MachineDeadCode", "MachineStraighten", "MachineDeadCode",
             "LocalValueNumber", "MachineDeadCode", "Peephole", "MachineDeadCode", "MachineStraighten">>
Behind1 == <<"Peephole", "MachineDeadCode", "MachineStraighten">>
InFront(m) == ForEach(LAMBDA g, p : PassNamed(p, g), m, Before1)
Behind(m)  == ForEach(LAMBDA g, p : PassNamed(p, g), m, Behind1)
=============================================================================

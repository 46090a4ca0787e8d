------------------------------- MODULE Selection -------------------------------
(***************************************************************************)
(* Instruction selection: the genMachineCode of every class of instruction *)
(* (src/src/Instruction.cpp), of blocks and of functions.                  *)
(*                                                                         *)
(* The operands of machine code: virtual registers, which are the          *)
(* temporaries of the IR and new ones; registers by number, from 16 on the *)
(* float registers; immediates; addresses of globals; labels of blocks and *)
(* functions; and "the parameter on the stack", which the code marks on    *)
(* register 3 or 20.  Floats are words like ints, in quarters; sizes and   *)
(* offsets are in bytes.                                                   *)
(***************************************************************************)
EXTENDS IR

FP == 11
SP == 13
LR == 14
S0 == 16
S4 == 20
Reg(k)     == <<"r", k>>
Imm(v)     == <<"#", v>>
FloatImm(q) == <<"#f", q>>
Label(b)   == <<".L", b>>
Name(g)    == <<"@", g>>
Address(g) == <<"addr", g>>
OnStack(n)      == <<"r3", n>>
FloatOnStack(n) == <<"s4", n>>

IsImm(o)     == o[1] \in {"#", "#f", "arg"}
IsVReg(o)    == o[1] \in {"t", "f"}
IsOnStack(o) == o[1] \in {"r3", "s4"}
IsFloatOp(o) == o[1] \in {"f", "#f", "s4"} \/ (o[1] = "r" /\ o[2] >= S0)

Ins3(op, d, u)  == [op |-> op, cond |-> "al", def |-> d, use |-> u]
Op(op, d, u)    == Ins3(op, <<d>>, u)
When(c, in)     == [in EXCEPT !.cond = c]
Mov(d, a)       == Op("mov", d, <<a>>)
VMov(d, a)      == Op("vmov", d, <<a>>)
Move(d, a)      == IF IsFloatOp(d) THEN VMov(d, a) ELSE Mov(d, a)
Ldr(d, u)       == Op(IF IsFloatOp(d) THEN "vldr" ELSE "ldr", d, u)
StrM(s, u)       == Ins3(IF IsFloatOp(s) THEN "vstr" ELSE "str", <<>>, <<s>> \o u)

(* Which argument register or place on the stack a parameter has: counted  *)
(* by class, and on the stack in the order of declaration.                 *)
Registers == 4
Earlier(ps, p)  == {k \in 1 .. PosOf(ps, p) - 1 : IsFloat(ps[k]) = IsFloat(p)}
ParamNo(ps, p)  == Cardinality(Earlier(ps, p))
StackParamNo(ps, p) == Cardinality({k \in 1 .. PosOf(ps, p) - 1 : ParamNo(ps, ps[k]) >= Registers})

(* genMachineOperand, genMachineFloatOperand. *)
ParamOperand(ps, p) ==
  IF ParamNo(ps, p) < Registers THEN Reg(ParamNo(ps, p) + IF IsFloat(p) THEN S0 ELSE 0)
  ELSE IF IsFloat(p) THEN FloatOnStack(StackParamNo(ps, p))
  ELSE OnStack(StackParamNo(ps, p))
MachineOperand(f, o) ==
  CASE IsConst(o)  -> IF IsFloat(o) THEN FloatImm(o[2]) ELSE Imm(IntOf(o))
    [] IsGlobal(o) -> Address(o)
    [] IsParam(o)  -> ParamOperand(f.params, o)
    [] OTHER       -> o

(* New virtual registers of instruction i.                                 *)
Temps == 1000
Temp(i, k)  == T(Temps * i + k)
FTemp(i, k) == R(Temps * i + k)

(* An immediate brought to a register, the bits of a float through an      *)
(* integer register; anything else stays where it is.                      *)
Literal(i, k, o) ==
  CASE o[1] = "#"  -> <<Ldr(Temp(i, k), <<o>>)>>
    [] o[1] = "#f" -> <<Ldr(Temp(i, k), <<o>>), VMov(FTemp(i, k), Temp(i, k))>>
    [] OTHER       -> <<>>
InReg(i, k, o) ==
  CASE o[1] = "#" -> Temp(i, k) [] o[1] = "#f" -> FTemp(i, k) [] OTHER -> o
(* The same, for an immediate that the instruction cannot hold.            *)
LiteralIf(big, i, k, o) == IF IsImm(o) /\ big THEN Literal(i, k, o) ELSE <<>>
InRegIf(big, i, k, o)   == IF IsImm(o) /\ big THEN InReg(i, k, o) ELSE o

MaxImm == 255

(* Bug: the bound is that of the offsets of loads. *)
AboveOffsets(o) == o[2] > 4 * MaxImm

Above(o)  == o[2] > MaxImm
Outside(o) == o[2] > MaxImm \/ o[2] < -MaxImm
Wide(o)    == o[2] > MaxImm \/ o[2] <= -MaxImm
(* mov or ldr, by the size of the immediate.                               *)
SetTo(d, v) == IF v > -MaxImm /\ v < MaxImm THEN Mov(d, Imm(v)) ELSE Ldr(d, <<Imm(v)>>)

-----------------------------------------------------------------------------
(* m is the machine function so far: code (block -> instructions), frame   *)
(* (the bytes reserved), off (alloca's result -> offset from FP), cmp (the *)
(* condition of the last comparison of the block).                         *)
IsLocal(m, o) == o \in DOMAIN m.off

(* [fp, #off], its offset in a register if it is far; a float needs the sum.*)
LocalCode(i, off, fl) ==
  IF ~Outside(Imm(off)) THEN <<>>
  ELSE <<Ldr(Temp(i, 8), <<Imm(off)>>)>>
       \o IF fl THEN <<Op("add", Temp(i, 9), <<Reg(FP), Temp(i, 8)>>)>> ELSE <<>>
LocalUse(i, off, fl) ==
  IF ~Outside(Imm(off)) THEN <<Reg(FP), Imm(off)>>
  ELSE IF fl THEN <<Temp(i, 9)>> ELSE <<Reg(FP), Temp(i, 8)>>

LoadCode(m, i, d, a) ==
  CASE IsGlobal(a)   -> <<Ldr(Temp(i, 1), <<Address(a)>>), Ldr(d, <<Temp(i, 1)>>)>>
    [] IsLocal(m, a) -> LocalCode(i, m.off[a], IsFloatOp(d)) \o <<Ldr(d, LocalUse(i, m.off[a], IsFloatOp(d)))>>
    [] OTHER         -> <<Ldr(d, <<a>>)>>

StoreCode(m, i, a, o) ==
  LET s == InReg(i, 1, o)
  IN  Literal(i, 1, o) \o
      CASE IsGlobal(a)   -> <<Ldr(Temp(i, 2), <<Address(a)>>), StrM(s, <<Temp(i, 2)>>)>>
        [] IsLocal(m, a) -> LocalCode(i, m.off[a], IsFloatOp(s)) \o <<StrM(s, LocalUse(i, m.off[a], IsFloatOp(s)))>>
        [] OTHER         -> <<StrM(s, <<a>>)>>

(* a - a / b * b *)
Remainder(i, d, a, b) ==
  <<Op("div", Temp(i, 4), <<a, b>>), Op("mul", Temp(i, 5), <<Temp(i, 4), b>>), Op("sub", d, <<a, Temp(i, 5)>>)>>

IntBinaryCode(i, op, d, a, b) ==
  IF a[1] = "#" /\ b = Imm(0) /\ op = "add"
  THEN LiteralIf(Wide(a), i, 1, a) \o <<Mov(d, InRegIf(Wide(a), i, 1, a))>>
  ELSE LET x   == InReg(i, 1, a)
           big == op \notin {"add", "sub"} \/ Above(b)
           y   == InRegIf(big, i, 2, b)
       IN  Literal(i, 1, a) \o LiteralIf(big, i, 2, b)
           \o IF op = "mod" THEN Remainder(i, d, x, y) ELSE <<Op(op, d, <<x, y>>)>>
FloatBinaryCode(i, op, d, a, b) ==
  LET copy == op = "add" /\ b = FloatImm(0)
      x    == InReg(i, 1, a)
  IN  Literal(i, 1, a)
      \o IF copy THEN <<Op("vmov.f32", d, <<x>>)>>
         ELSE Literal(i, 2, b) \o <<Op("v" \o op, d, <<x, InReg(i, 2, b)>>)>>
BinaryCode(i, op, d, a, b) ==
  IF IsFloatOp(d) THEN FloatBinaryCode(i, op, d, a, b) ELSE IntBinaryCode(i, op, d, a, b)

(* 7 - opcode; equality is told apart.                                     *)
Opposite(c) == [l |-> "ge", le |-> "g", g |-> "le", ge |-> "l", e |-> "ne", ne |-> "e"][c]

CompareCode(i, op, d, a, b) ==
  LET fl  == IsFloatOp(a)
      big == fl \/ Above(b)
      of  == <<InReg(i, 1, a), InRegIf(big, i, 2, b)>>
  IN  Literal(i, 1, a) \o LiteralIf(big, i, 2, b)
      \o (IF fl THEN <<Ins3("vcmp", <<>>, of), Ins3("vmrs", <<>>, <<>>)>> ELSE <<Ins3("cmp", <<>>, of)>>)
      \o <<When(op, Mov(d, Imm(1))), When(Opposite(op), Mov(d, Imm(0)))>>

Jump(b)       == Ins3("b", <<>>, <<Label(b)>>)
(* A call of g with n ints: it changes and reads argument registers; a      *)
(* return reads those of the results.                                      *)
Regs(from, n)  == [k \in 1 .. n |-> Reg(from + k - 1)]
BranchLink(g, n) ==
  Ins3("bl", Regs(0, 4) \o Regs(S0, 4), <<Name(g)>> \o Regs(0, IF n < Registers THEN n ELSE Registers) \o Regs(S0, 4))
Back           == Ins3("bx", <<>>, <<Reg(LR), Reg(0), Reg(S0), Reg(SP)>>)
ReturnCode(m, i, use) ==
  (IF use = <<>> THEN <<>>
   ELSE LET o == use[1]
        IN  CASE o[1] = "#f" -> <<Ldr(Temp(i, 1), <<o>>), VMov(Reg(S0), Temp(i, 1))>>
              [] IsFloatOp(o) -> <<VMov(Reg(S0), o)>>
              [] o[1] = "#" /\ Wide(o) -> <<Ldr(Reg(0), <<o>>), Mov(Reg(0), Reg(0))>>
              [] OTHER -> <<Mov(Reg(0), o)>>)
  \o <<Op("add", Reg(SP), <<Reg(SP), Imm(m.frame)>>), Back>>

-----------------------------------------------------------------------------
(* A call.  Arguments are counted by class as parameters are; with an odd   *)
(* number left over a fifth float goes to s4 "for alignment", the rest is   *)
(* pushed, the last first.                                                  *)
ArgNo(as, k)  == Cardinality({j \in 1 .. k - 1 : IsFloatOp(as[j]) = IsFloatOp(as[k])})
Surplus(n)    == IF n > Registers THEN n - Registers ELSE 0
NeedAlign(fl) ==
  LET floats == Cardinality({k \in DOMAIN fl : fl[k]})
  IN  (Surplus(floats) + Surplus(Len(fl) - floats)) % 2 # 0
FloatRegisters(as) == Registers + Bool(NeedAlign(Each(IsFloatOp, as)))
InRegister(as, k)  == ArgNo(as, k) < IF IsFloatOp(as[k]) THEN FloatRegisters(as) ELSE Registers

IntArgCode(d, o) == IF o[1] = "#" /\ Above(o) THEN <<Ldr(d, <<o>>)>> ELSE <<Mov(d, o)>>
FloatArgCode(i, k, d, o) ==
  IF o[1] = "#f" THEN <<Ldr(Temp(i, k), <<o>>), VMov(d, Temp(i, k))>> ELSE <<VMov(d, o)>>
PushCode(i, k, o) ==
  (IF o[1] = "#" THEN IntArgCode(Temp(i, k), o) ELSE Literal(i, k, o))
  \o <<Ins3(IF IsFloatOp(o) THEN "vpush" ELSE "push", <<>>, <<InReg(i, k, o)>>)>>

PushOrder(as) == Reverse(SelectSeq([k \in DOMAIN as |-> k], LAMBDA k : ~InRegister(as, k)))

ArgumentCode(i, as, fl) ==
  LET ks == SelectSeq([k \in DOMAIN as |-> k], LAMBDA k : IsFloatOp(as[k]) = fl /\ InRegister(as, k))
  IN  FlattenSeq([j \in DOMAIN ks |->
        IF fl THEN FloatArgCode(i, ks[j], Reg(S0 + ArgNo(as, ks[j])), as[ks[j]])
        ELSE IntArgCode(Reg(ArgNo(as, ks[j])), as[ks[j]])])
CallCode(i, g, d, as) ==
  LET ps == PushOrder(as)
  IN  ArgumentCode(i, as, FALSE) \o ArgumentCode(i, as, TRUE)
      \o FlattenSeq([j \in DOMAIN ps |-> PushCode(i, ps[j], as[ps[j]])])
      \o <<BranchLink(g, Cardinality({k \in DOMAIN as : ~IsFloatOp(as[k])}))>>
      \o (IF ps = <<>> THEN <<>> ELSE <<Op("add", Reg(SP), <<Reg(SP), Imm(WordBytes * Len(ps))>>)>>)
      \o (IF d = None THEN <<>> ELSE <<Move(d, IF IsFloatOp(d) THEN Reg(S0) ELSE Reg(0))>>)

(* memset of a local array: the address comes from the bitcast's operand.  *)
MemsetCode(f, m, i, as) ==
  LET cast == f.ins[DefOf(f, as[1])]
      arr  == cast.use[1]
      len  == MachineOperand(f, as[3])
      near == m.off[arr] > -MaxImm /\ m.off[arr] < MaxImm
  IN  (CASE cast.op = "i8 flag" -> <<Mov(Reg(0), MachineOperand(f, arr))>>
         [] cast.op # "i8 flag" /\ near -> <<Op("add", Reg(0), <<Reg(FP), Imm(m.off[arr])>>)>>
         [] OTHER -> <<Ldr(Temp(i, 1), <<Imm(m.off[arr])>>), Op("add", Reg(0), <<Reg(FP), Temp(i, 1)>>)>>)
      \o <<Mov(Reg(1), Imm(0))>>
      \o LiteralIf(len[1] = "#" /\ Above(len), i, 2, len)
      \o <<Mov(Reg(2), InRegIf(len[1] = "#" /\ Above(len), i, 2, len)), BranchLink("memset", 3)>>

-----------------------------------------------------------------------------
(* Address computation.  In the initialisation of an array only the last   *)
(* one of a chain gives code, one cell behind the element before; the       *)
(* others do if another one starts from them after all.                     *)
NoAsm(in) == in.init # <<>> /\ in.op # "last"
GepBase(m, i, a) ==
  IF IsGlobal(a) THEN <<Ldr(Temp(i, 2), <<Address(a)>>)>> ELSE <<SetTo(Temp(i, 2), m.off[a])>>
GepIndex(i, o) ==
  IF ~IsImm(o) THEN <<>> ELSE IF o[2] < MaxImm THEN <<Mov(Temp(i, 1), o)>> ELSE <<Ldr(Temp(i, 1), <<o>>)>>
RECURSIVE GepCode(_, _, _, _)
GepCode(f, m, i, init) ==
  LET in  == f.ins[i]
      d   == in.def
      a   == in.use[1]
      o   == MachineOperand(f, in.use[2])
      by  == f.ins[DefOf(f, a)]
      off == in.init[2] + WordBytes
      sum == <<Op("mul", Temp(i, 4), <<IF IsImm(o) THEN Temp(i, 1) ELSE o, Temp(i, 3)>>)>>
      end == CASE in.op # "first" -> <<Op("add", d, <<MachineOperand(f, a), Temp(i, 4)>>)>>
               [] in.op = "first" /\ IsGlobal(a) -> <<Op("add", Temp(i, 5), <<Temp(i, 2), Temp(i, 4)>>), Mov(d, Temp(i, 5))>>
               [] OTHER -> <<Op("add", Temp(i, 5), <<Reg(FP), Temp(i, 2)>>), Op("add", d, <<Temp(i, 5), Temp(i, 4)>>)>>
  IN  IF init /\ in.init # <<>> THEN
        IF NoAsm(in) THEN <<>>
        ELSE LiteralIf(Above(Imm(off)), i, 6, Imm(off))
             \o <<Op("add", d, <<in.init[1], InRegIf(Above(Imm(off)), i, 6, Imm(off))>>)>>
      ELSE GepIndex(i, o)
           \o (IF in.op = "first" THEN GepBase(m, i, a) ELSE <<>>)
           \o <<SetTo(Temp(i, 3), WordBytes * in.n)>> \o sum
           \o (IF in.op # "first" /\ DefOf(f, a) # 0 /\ by.cls = "gep" /\ NoAsm(by)
                THEN GepCode(f, m, DefOf(f, a), FALSE) ELSE <<>>)
           \o end

-----------------------------------------------------------------------------
ShiftCode(i, op, d, a, k) == Literal(i, 1, a) \o <<Op(op, d, <<InReg(i, 1, a), k>>)>>
FptosiCode(i, d, a) ==
  Literal(i, 1, a) \o <<Op("f2s", FTemp(i, 2), <<InReg(i, 1, a)>>), VMov(d, FTemp(i, 2))>>
SitofpCode(i, d, a) ==
  Literal(i, 1, a) \o <<VMov(FTemp(i, 2), InReg(i, 1, a)), Op("s2f", d, <<FTemp(i, 2)>>)>>

(* One instruction of the IR: what it adds to the current block.           *)
CodeOf(f, m, i) ==
  LET in   == f.ins[i]
      d    == in.def
      u(k) == MachineOperand(f, in.use[k])
      us   == Each(LAMBDA o : MachineOperand(f, o), in.use)
  IN  CASE in.cls = "load"   -> LoadCode(m, i, d, in.use[1])
        [] in.cls = "store"  -> StoreCode(m, i, in.use[1], u(2))
        [] in.cls = "bin"    -> BinaryCode(i, in.op, d, u(1), u(2))
        [] in.cls = "cmp"    -> CompareCode(i, in.op, d, u(1), u(2))
        [] in.cls = "br"     -> <<Jump(in.to[1])>>
        [] in.cls = "cond"   -> <<When(m.cmp, Jump(in.to[1])), Jump(in.to[2])>>
        [] in.cls = "ret"    -> ReturnCode(m, i, us)
        [] in.cls = "call" /\ in.op = "memset" -> MemsetCode(f, m, i, in.use)
        [] in.cls = "call" /\ in.op # "memset" -> CallCode(i, in.op, d, us)
        [] in.cls = "zext"   -> <<Mov(d, u(1))>>
        [] in.cls = "xor"    -> <<When("e", Mov(d, Imm(1))), When("ne", Mov(d, Imm(0)))>>
        [] in.cls = "gep"    -> GepCode(f, m, i, TRUE)
        [] in.cls = "fptosi" -> FptosiCode(i, d, u(1))
        [] in.cls = "sitofp" -> SitofpCode(i, d, u(1))
        [] in.cls = "bitcast" -> IF in.op = "none" THEN <<Op("add", d, <<u(1), Imm(0)>>)>> ELSE <<>>
        [] in.cls = "shl"    -> ShiftCode(i, "lsl", d, u(1), u(2))
        [] in.cls = "ashr"   -> ShiftCode(i, "asr", d, u(1), u(2))
        [] in.cls = "alloca" -> <<>>

(* AllocSpace: the frame grows, downwards from FP.                         *)
Reserve(m, in) ==
  LET size == m.frame + WordBytes * in.n
  IN  [m EXCEPT !.frame = size, !.off = (in.def :> -size) @@ @]
Select(f, m, b, i) ==
  LET in   == f.ins[i]
      grown == IF in.cls = "alloca" THEN Reserve(m, in) ELSE m
      compared == IF in.cls = "cmp" THEN [grown EXCEPT !.cmp = in.op] ELSE grown
  IN  [compared EXCEPT !.code[b] = @ \o CodeOf(f, m, i)]

(* BasicBlock::genMachineCode and Function::dfs: the blocks that can be    *)
(* reached, depth first, a block's code as it is met.                      *)
SelectBlock(f, m, b) ==
  ForEach(LAMBDA g, i : Select(f, g, b, i),
          [m EXCEPT !.list = Append(@, b), !.code = (b :> <<>>) @@ @, !.cmp = "none"], f.code[b])
RECURSIVE SelectFrom(_, _, _)
SelectFrom(f, m, b) ==
  LET Visit(g, s) == IF s \in ToSet(g.list) THEN g ELSE SelectFrom(f, g, s)
  IN  ForEach(Visit, SelectBlock(f, m, b), f.succ[b])

SelectFunction(f) ==
  SelectFrom(f, [name |-> f.name, align |-> NeedAlign(Each(IsFloat, f.params)),
                 list |-> <<>>, code |-> (0 :> <<>>), frame |-> 0, off |-> (None :> 0), cmp |-> "none"], Entry(f))
=============================================================================

-------------------------------- MODULE Assembly --------------------------------
(***************************************************************************)
(* From machine functions to text: the registers linear scan gives         *)
(* (src/src/LinearScan.cpp, here without spilling, which has a module of   *)
(* its own), the frame, the saved registers and the parameters that lie on *)
(* the stack (MachineFunction::output and MachineBlock::output of          *)
(* src/src/MachineCode.cpp).  Literal pools and directives are left out.   *)
(***************************************************************************)
EXTENDS Selection

IntRegs   == 4 .. 10
FloatRegs == 21 .. 47

(* Without optimisation no virtual register lives across the end of a      *)
(* block, so each block starts with all registers free.  An interval is    *)
(* named by the position of its definition.                                *)
NextDef(code, k) == Min({j \in k + 1 .. Len(code) : code[j].def = code[k].def} \cup {Len(code)})
UsesFrom(code, k) ==
  {j \in k + 1 .. NextDef(code, k) : \E n \in DOMAIN code[j].use : <<code[j].use[n]>> = code[k].def}
IntervalEnd(code, k) == IF UsesFrom(code, k) = {} THEN -1 ELSE Max(UsesFrom(code, k))

(* The offset of a far slot and the load that uses it share one operand,   *)
(* which knows only the load: its interval starts there, and comes behind  *)
(* the load's own, whose operand was made first.                           *)
Shared(code, k) ==
  /\ k \in 1 .. Len(code) - 1 /\ code[k].op = "ldr"
  /\ code[k + 1].op = "ldr" /\ code[k + 1].use = <<Reg(FP)>> \o code[k].def
IntervalStart(code, k) == IF Shared(code, k) THEN k + 1 ELSE k
ByStart(code) ==
  [k \in 1 .. Len(code) |-> IF Shared(code, k) THEN k + 1 ELSE IF Shared(code, k - 1) THEN k - 1 ELSE k]

(* s: at (position of a definition -> register), active (<<register, end   *)
(* of its interval>>), fits (nothing had to be spilled).                   *)
StillActive(s, start) == {a \in s.active : a[2] >= start}
FreeFor(o, active) == (IF IsFloatOp(o) THEN FloatRegs ELSE IntRegs) \ {a[1] : a \in active}
DefinesVReg(in) == in.def # <<>> /\ IsVReg(in.def[1])
TakeRegister(s, k, end, active, free) ==
  IF free = {} THEN [s EXCEPT !.fits = FALSE]
  ELSE [s EXCEPT !.at = (k :> Min(free)) @@ @, !.active = active \cup {<<Min(free), end>>}]
AllocateDef(code, s, k) ==
  LET active == StillActive(s, IntervalStart(code, k))
  IN  IF DefinesVReg(code[k])
      THEN TakeRegister(s, k, IntervalEnd(code, k), active, FreeFor(code[k].def[1], active))
      ELSE s

LastDef(code, k, o) == Max({j \in 1 .. k - 1 : code[j].def = <<o>>} \cup {0})
Mapped(at, j, o) == IF IsVReg(o) /\ j \in DOMAIN at THEN Reg(at[j]) ELSE o
WithRegisters(code, at, k) ==
  [code[k] EXCEPT !.def = [n \in DOMAIN @ |-> Mapped(at, k, @[n])],
                  !.use = [n \in DOMAIN @ |-> Mapped(at, LastDef(code, k, @[n]), @[n])]]
ModifyCode(code, s) ==
  [code |-> [k \in 1 .. Len(code) |-> WithRegisters(code, s.at, k)],
   used |-> {s.at[k] : k \in DOMAIN s.at}, fits |-> s.fits]
AllocateBlock(code) ==
  ModifyCode(code, ForEach(LAMBDA s, k : AllocateDef(code, s, k),
                           [at |-> <<>>, active |-> {}, fits |-> TRUE], ByStart(code)))

(* Bug: registers are saved one by one. *)
WithPartnerNone(r) == {r}

(* addSavedRegs: in pairs, so that the stack stays aligned.                *)
WithPartner(r) ==
  IF r < S0 /\ r <= FP /\ r % 2 # 0 THEN {r, r + 1}
  ELSE IF r < S0 /\ r <= FP /\ r > 0 THEN {r - 1, r} ELSE {r}
AllocateFunction(m) ==
  LET Put(r, b, done) == [r EXCEPT !.code[b] = done.code, !.fits = @ /\ done.fits,
                            !.saved  = @ \cup UNION {WithPartner(q) : q \in {q \in done.used : q < S0}},
                            !.floats = @ \cup {q \in done.used : q >= S0}]
  IN  ForEach(LAMBDA r, b : Put(r, b, AllocateBlock(m.code[b])),
              m @@ [saved |-> {}, floats |-> {}, fits |-> TRUE], m.list)

-----------------------------------------------------------------------------
(* getSavedRegs, getSavedFpRegs: the float registers from s4 to the last   *)
(* one used, an even number of them.                                       *)
SavedRegs(m) == [k \in 1 .. Cardinality(m.saved) |-> Reg(Sorted(m.saved)[k])]

(* Bug: the last one is not counted. *)
SavedFpRegsShort(m) ==
  IF m.floats = {} THEN <<>>
  ELSE LET n == Max(m.floats) - S4
       IN  [k \in 1 .. n + (n % 2) |-> Reg(S4 + k - 1)]

SavedFpRegs(m) ==
  IF m.floats = {} THEN <<>>
  ELSE LET n == Max(m.floats) - S4 + 1
       IN  [k \in 1 .. n + (n % 2) |-> Reg(S4 + k - 1)]
BaseOffset(m)  == WordBytes * (Len(SavedRegs(m)) + Len(SavedFpRegs(m)) + 2)
Rounded(n)     == IF n % 8 = 0 THEN n ELSE n + WordBytes

Stack(op, rs)  == IF rs = <<>> THEN <<>> ELSE <<Ins3(op, <<>>, rs)>>
Prologue(m) ==
  LET size == Rounded(m.frame)
  IN  Stack("push", SavedRegs(m) \o <<Reg(FP), Reg(LR)>>) \o Stack("vpush", SavedFpRegs(m))
      \o <<Mov(Reg(FP), Reg(SP))>>
      \o CASE size = 0 -> <<>>
           [] size \in 1 .. MaxImm -> <<Op("sub", Reg(SP), <<Reg(SP), Imm(size)>>)>>
           [] OTHER -> <<Ldr(Reg(4), <<Imm(size)>>), Op("sub", Reg(SP), <<Reg(SP), Reg(4)>>)>>

(* The release of the frame in front of the return, with its final size.   *)
IsRelease(code, k) ==
  /\ code[k].op = "add" /\ code[k].def = <<Reg(SP)>> /\ code[k].use[1] = Reg(SP)
  /\ k < Len(code) /\ code[k + 1].op = "bx"
Release(m) ==
  LET size == Rounded(m.frame)
  IN  CASE size = 0 -> <<>>
        [] size \in 1 .. MaxImm -> <<Op("add", Reg(SP), <<Reg(SP), Imm(size)>>)>>
        [] OTHER -> <<Ldr(Reg(1), <<Imm(size)>>), Op("add", Reg(SP), <<Reg(SP), Reg(1)>>)>>
Restore(m) == Stack("vpop", SavedFpRegs(m)) \o Stack("pop", SavedRegs(m) \o <<Reg(FP), Reg(LR)>>)

(* Where the caller put a parameter, seen from FP; in assembly it is r3 or *)
(* s4, and that is loaded right before it is read.  With an odd number of   *)
(* parameters on the stack the first float of a block is there already.    *)
StackArgument(m, o) == Imm(BaseOffset(m) + WordBytes * o[2])
Home(o) == IF o[1] = "s4" THEN Reg(S4) ELSE IF o[1] = "r3" THEN Reg(3) ELSE o
Fetch(m, o) == <<Ldr(Home(o), <<Reg(FP), StackArgument(m, o)>>)>>
Preset(m, code, k) ==
  /\ m.align /\ code[k].op = "vstr"
  /\ ~\E j \in 1 .. k - 1 : code[j].op = "vstr" /\ code[j].use[1][1] = "s4"
Fetches(m, code, k) ==
  LET in == code[k]
  IN  /\ in.use # <<>> /\ IsOnStack(in.use[1])
      /\ \/ in.op \in {"str", "vmov.f32"}
         \/ in.op = "vstr" /\ ~Preset(m, code, k)
         \/ in.op = "add" /\ in.use[2] = Imm(0)
(* An operand as it is printed; the offset of a parameter is known now.    *)
Word0(m, o) == IF o[1] = "arg" THEN StackArgument(m, o) ELSE Home(o)
Printed(m, in) == [in EXCEPT !.use = [n \in DOMAIN @ |-> Word0(m, @[n])]]

PrintIns(m, code, k) ==
  (IF code[k].op = "bx" THEN Restore(m) ELSE <<>>)
  \o (IF Fetches(m, code, k) THEN Fetch(m, code[k].use[1]) ELSE <<>>)
  \o (IF IsRelease(code, k) THEN Release(m) ELSE <<Printed(m, code[k])>>)
PrintBlock(m, b) == FlattenSeq([k \in DOMAIN m.code[b] |-> PrintIns(m, m.code[b], k)])

(* The text of a unit, and where its labels are.                           *)
Place(img, label, code) ==
  [text |-> img.text \o code, at |-> (label :> Len(img.text) + 1) @@ img.at]
PrintFunction(img, m) ==
  ForEach(LAMBDA g, b : Place(g, Label(b), PrintBlock(m, b)), Place(img, Name(m.name), Prologue(m)), m.list)
Output(ms) == ForEach(PrintFunction, [text |-> <<>>, at |-> (Label(0) :> 0)], ms)
=============================================================================

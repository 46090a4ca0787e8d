-------------------------------- MODULE Machine --------------------------------
(***************************************************************************)
(* What the assembly means: registers, words of memory, flags, the stack.  *)
(* A small part of the ARM architecture and of the calling convention, as  *)
(* far as the code that is printed uses it.  Floats are words like ints,   *)
(* in quarters.  A library function leaves its result in r0 or s0 and may  *)
(* change the registers the compiler lists as changed by a call.           *)
(***************************************************************************)
EXTENDS Assembly, IRExec

CONSTANTS
  Undef,        \* what a register or a word holds before it is written
  StackWords    \* bound on the stack

VARIABLES
  image,        \* the text and its labels
  reg,          \* register -> word
  mem,          \* the words of memory: globals, then the stack
  flags,        \* the sign of the last comparison
  fpscr,        \* the same for floats, until vmrs copies it
  pc,
  input,        \* what is left to read
  said,         \* what the program has written, its result at the end
  calls         \* history: the registers as they were at each open call

state == <<image, reg, mem, flags, fpscr, pc, input, said, calls>>

Registry  == 0 .. 47
Exit      == 0
Running   == pc # Exit
In        == image.text[pc]

(* A program loaded, at the entry of main.                                 *)
Load0(img, u, in) ==
  /\ image' = [img EXCEPT !.at = [a \in {Address(G(n)) : n \in DOMAIN u.globals} |->
                                       WordBytes * GlobalBase(u, a[2][2])] @@ @]
  /\ mem' = GlobalCells(u) \o [k \in 1 .. StackWords |-> Undef]
  /\ reg' = [r \in Registry |-> CASE r = SP -> 8 * ((Len(GlobalCells(u)) + StackWords + 1) \div 2)
                                  [] r = LR -> Exit [] OTHER -> Undef]
  /\ flags' = Undef /\ fpscr' = Undef
  /\ pc' = img.at[Name("main")]
  /\ input' = in
  /\ said' = <<>>
  /\ calls' = <<reg'>>

(* The word an operand stands for.                                         *)
Word(o) ==
  CASE IsImm(o) -> o[2] [] o[1] = "addr" -> image.at[o] [] o[1] = "r" -> reg[o[2]] [] OTHER -> Undef
W(n)    == Word(In.use[n])
Words   == \A n \in DOMAIN In.use : W(n) # Undef

CondHolds == IF In.cond = "al" THEN TRUE ELSE Holds(In.cond, flags, 0)
Sign(n)   == IF n > 0 THEN 1 ELSE IF n < 0 THEN -1 ELSE 0

Valued == {"mov", "vmov", "vmov.f32", "lsl", "asr", "f2s", "s2f", "add", "sub", "mul", "div",
           "vadd", "vsub", "vmul", "vdiv", "mla", "mls"}
Value ==
  CASE In.op \in {"mov", "vmov", "vmov.f32"}     -> W(1)
    [] In.op = "lsl" -> W(1) * Power2(W(2))
    [] In.op = "asr" -> W(1) \div Power2(W(2))
    [] In.op = "f2s" -> Quo(W(1), Quarters)
    [] In.op = "s2f" -> W(1) * Quarters
    [] In.op \in {"add", "sub", "mul", "div"}    -> Arith(In.op, W(1), W(2))
    [] In.op = "mla" -> Arith("add", W(3), Arith("mul", W(1), W(2)))
    [] In.op = "mls" -> Arith("sub", W(3), Arith("mul", W(1), W(2)))
    [] In.op \in {"vadd", "vsub", "vmul", "vdiv"} ->
         FloatArith([vadd |-> "add", vsub |-> "sub", vmul |-> "mul", vdiv |-> "div"][In.op], W(1), W(2))

(* ldr and str: the address is the sum of the operands from number k on; a  *)
(* load of an immediate or of the address of a global reads no memory.     *)
AddressFrom(k) == IF Len(In.use) = k THEN W(k) ELSE W(k) + W(k + 1)
IsLiteral      == Len(In.use) = 1 /\ In.use[1][1] # "r"
Cell(a)        == a \div WordBytes
Mapped4(a)     == a % WordBytes = 0 /\ Cell(a) \in DOMAIN mem

(* What the instruction forms can hold.                                    *)
Fits(o) == o[1] = "#" =>
  CASE In.op = "mov" -> o[2] \in -256 .. 65535
    [] In.op \in {"add", "sub", "cmp"} -> o[2] \in -255 .. 255 \/ (o[2] % 4 = 0 /\ o[2] \in -1020 .. 1020)
    [] In.op \in {"lsl", "asr"} -> o[2] \in 0 .. 31
    [] OTHER -> o[2] \in -1020 .. 1020
IsOwn(o)  == o \in DOMAIN image.at
Library   == {"getint", "putint", "getfloat", "putfloat", "memset"}
Pops(k)   == reg[SP] + WordBytes * (k - 1)

(* The instruction can be carried out: its registers, flags and memory have *)
(* been written, its immediates fit, its addresses exist.                   *)
Executable ==
  /\ pc \in DOMAIN image.text
  /\ In.cond # "al" => flags # Undef
  /\ CondHolds =>
       CASE In.op \in Valued \cup {"cmp", "vcmp"} ->
              Words /\ \A n \in DOMAIN In.use : Fits(In.use[n])
         [] In.op = "vmrs" -> fpscr # Undef
         [] In.op \in {"ldr", "vldr"} ->
              Words /\ (IsLiteral \/ (Mapped4(AddressFrom(1)) /\ mem[Cell(AddressFrom(1))] # Undef
                                      /\ \A n \in DOMAIN In.use : Fits(In.use[n])))
         [] In.op \in {"str", "vstr"} ->
              Words /\ Mapped4(AddressFrom(2)) /\ \A n \in DOMAIN In.use : Fits(In.use[n])
         [] In.op \in {"push", "vpush"} ->
              Mapped4(reg[SP] - WordBytes * Len(In.use)) /\ \A n \in DOMAIN In.use : In.use[n][1] = "r"
         [] In.op \in {"pop", "vpop"} -> \A k \in DOMAIN In.use : Mapped4(Pops(k))
         [] In.op = "b"  -> In.use[1] \in DOMAIN image.at
         [] In.op = "bl" -> IsOwn(In.use[1]) \/ In.use[1][2] \in Library
         [] In.op = "bx" -> W(1) # Undef
         [] OTHER -> FALSE

-----------------------------------------------------------------------------
Step1 == pc' = pc + 1
Skip ==
  /\ Running /\ ~CondHolds
  /\ Step1
  /\ UNCHANGED <<image, reg, mem, flags, fpscr, input, said, calls>>

Does(ops) == Running /\ Executable /\ CondHolds /\ In.op \in ops

Compute ==
  /\ Does(Valued)
  /\ reg' = [reg EXCEPT ![In.def[1][2]] = Value]
  /\ Step1
  /\ UNCHANGED <<image, mem, flags, fpscr, input, said, calls>>

Compare ==
  /\ Does({"cmp"})
  /\ flags' = Sign(W(1) - W(2))
  /\ Step1
  /\ UNCHANGED <<image, reg, mem, fpscr, input, said, calls>>

CompareFloats ==
  /\ Does({"vcmp"})
  /\ fpscr' = Sign(W(1) - W(2))
  /\ Step1
  /\ UNCHANGED <<image, reg, mem, flags, input, said, calls>>

MoveFlags ==
  /\ Does({"vmrs"})
  /\ flags' = fpscr
  /\ Step1
  /\ UNCHANGED <<image, reg, mem, fpscr, input, said, calls>>

LoadWord ==
  /\ Does({"ldr", "vldr"})
  /\ reg' = [reg EXCEPT ![In.def[1][2]] = IF IsLiteral THEN W(1) ELSE mem[Cell(AddressFrom(1))]]
  /\ Step1
  /\ UNCHANGED <<image, mem, flags, fpscr, input, said, calls>>

StoreWord ==
  /\ Does({"str", "vstr"})
  /\ mem' = [mem EXCEPT ![Cell(AddressFrom(2))] = W(1)]
  /\ Step1
  /\ UNCHANGED <<image, reg, flags, fpscr, input, said, calls>>

(* The first register of the list goes to the lowest address.              *)
Push ==
  /\ Does({"push", "vpush"})
  /\ LET low == Cell(reg[SP]) - Len(In.use)
     IN  mem' = [a \in DOMAIN mem |-> IF a \in low .. low + Len(In.use) - 1 THEN W(a - low + 1) ELSE mem[a]]
  /\ reg' = [reg EXCEPT ![SP] = @ - WordBytes * Len(In.use)]
  /\ Step1
  /\ UNCHANGED <<image, flags, fpscr, input, said, calls>>

Pop ==
  /\ Does({"pop", "vpop"})
  /\ reg' = [r \in Registry |->
               IF r = SP THEN reg[SP] + WordBytes * Len(In.use)
               ELSE IF Reg(r) \in ToSet(In.use) THEN mem[Cell(Pops(PosOf(In.use, Reg(r))))] ELSE reg[r]]
  /\ Step1
  /\ UNCHANGED <<image, mem, flags, fpscr, input, said, calls>>

Jumps ==
  /\ Does({"b"})
  /\ pc' = image.at[In.use[1]]
  /\ UNCHANGED <<image, reg, mem, flags, fpscr, input, said, calls>>

CallOwn ==
  /\ Does({"bl"}) /\ IsOwn(In.use[1])
  /\ reg' = [reg EXCEPT ![LR] = pc + 1]
  /\ calls' = Append(calls, reg')
  /\ pc' = image.at[In.use[1]]
  /\ UNCHANGED <<image, mem, flags, fpscr, input, said>>

(* r0 to r3, r12, LR and s0 to s3 may be changed by a library function.    *)
Changed == (0 .. 3) \cup {12, LR} \cup S0 .. S0 + 3
Result0(r, v) == [k \in Registry |-> IF k = r THEN v ELSE IF k \in Changed THEN Undef ELSE reg[k]]
Reads(f) == In.use[1] = Name(f) /\ ~IsOwn(In.use[1])

GetNumber ==
  /\ Does({"bl"}) /\ (Reads("getint") \/ Reads("getfloat"))
  /\ reg' = Result0(IF Reads("getint") THEN 0 ELSE S0, IF input = <<>> THEN 0 ELSE Head(input))
  /\ input' = IF input = <<>> THEN <<>> ELSE Tail(input)
  /\ Step1
  /\ UNCHANGED <<image, mem, flags, fpscr, said, calls>>

PutNumber ==
  /\ Does({"bl"}) /\ (Reads("putint") \/ Reads("putfloat"))
  /\ said' = Append(said, reg[IF Reads("putint") THEN 0 ELSE S0])
  /\ reg' = Result0(0, Undef)
  /\ Step1
  /\ UNCHANGED <<image, mem, flags, fpscr, input, calls>>

FillMemory ==
  /\ Does({"bl"}) /\ Reads("memset")
  /\ mem' = [a \in DOMAIN mem |-> IF a \in Cell(reg[0]) .. Cell(reg[0]) + Cell(reg[2]) - 1 THEN reg[1] ELSE mem[a]]
  /\ reg' = Result0(0, reg[0])
  /\ Step1
  /\ UNCHANGED <<image, flags, fpscr, input, said, calls>>

(* bx lr; main ends the program with its result.                           *)
Return ==
  /\ Does({"bx"})
  /\ pc' = W(1)
  /\ calls' = Front(calls)
  /\ said' = IF W(1) = Exit THEN Append(said, reg[0]) ELSE said
  /\ UNCHANGED <<image, reg, mem, flags, fpscr, input>>

Execute ==
  \/ Skip \/ Compute \/ Compare \/ CompareFloats \/ MoveFlags \/ LoadWord \/ StoreWord \/ Push \/ Pop
  \/ Jumps \/ CallOwn \/ GetNumber \/ PutNumber \/ FillMemory \/ Return
=============================================================================

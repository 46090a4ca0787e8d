-------------------------------- MODULE Compiler --------------------------------
(***************************************************************************)
(* The compiler (src/src/main.cpp), and what it has made running on the    *)
(* machine: the parser builds the tree, genCode the intermediate code,     *)
(* genMachineCode selects instructions, LinearScan gives them registers,   *)
(* output prints them.  With "-O" the machine passes and GraphColor take   *)
(* the place of LinearScan; the intermediate code its passes leave, which  *)
(* Optimizer is about, is an input here.  The whole is held to Meaning.    *)
(***************************************************************************)
EXTENDS Machine, GenCode, GraphColor

CONSTANTS
  Inputs,       \* program, its input, and the functions the passes of "-O" leave,
                \* none for a compilation without it
  Fuel          \* bound on the steps of a run of the intermediate code

VARIABLES
  source,       \* the pair's number
  made,         \* what the compiler makes of it, until it is loaded
  want          \* what the program is to write

vars == <<state, source, made, want>>
Loaded == made = <<>>

Abs == INSTANCE Meaning WITH Programs <- ToSet(Inputs)

(* What the stages make of the programs; the compiler has no choices.      *)
Finished(u, c) == [unit |-> u, text |-> Output(c), fits |-> \A k \in DOMAIN c : c[k].fits]
BackEnd(u) == Finished(u, Each(LAMBDA g : AllocateFunction(SelectFunction(u.funs[g])), u.order))
(* With "-O": from what the passes on the intermediate code leave.         *)
Optimized(f) == Behind(AllocateRegisters(InFront(WithEdges(f, SelectFunction(f)))))
OptimizingBackEnd(u) == Finished(u, Each(LAMBDA g : Optimized(u.funs[g]), u.order))
Replaced(u, funs) == [u EXCEPT !.funs = funs, !.order = SelectSeq(@, LAMBDA g : g \in DOMAIN funs)]
CompiledFrom(u, funs) == IF DOMAIN funs = {} THEN BackEnd(u) ELSE OptimizingBackEnd(Replaced(u, funs))
Compiled(p) == CompiledFrom(GenUnit(Parse(p[1])), p[3])
Results == Each(Compiled, Inputs)

Init ==
  /\ source \in DOMAIN Inputs
  /\ made = Results[source]
  /\ want = Abs!Means(Inputs[source][1], Inputs[source][2])
  /\ image = <<>> /\ reg = <<>> /\ mem = <<>> /\ flags = Undef /\ fpscr = Undef
  /\ pc = Exit /\ input = Inputs[source][2] /\ said = <<>> /\ calls = <<>>

(* The program is loaded, if every virtual register found one.             *)
Loads ==
  /\ ~Loaded /\ made.fits
  /\ Load0(made.text, made.unit, input)
  /\ made' = <<>>
  /\ UNCHANGED <<source, want>>
Runs == Loaded /\ Execute /\ UNCHANGED <<source, made, want>>

Next == Loads \/ Runs
Spec == Init /\ [][Next]_vars /\ WF_vars(Next)

-----------------------------------------------------------------------------
(* The intermediate code means what the source means.                      *)
Agrees(r) == r.ok = "ok" /\ Append(r.out, r.ret) = want
IRMeansSource == ~Loaded => Agrees(Run(made.unit, input, Fuel))

IsRunning == Loaded /\ Running

(* Every instruction the machine comes to can be carried out: what it reads *)
(* has been written, its immediates fit its form, its addresses exist.     *)
NoFault == IsRunning => Executable

(* When a function returns, the registers the allocator gives out, the      *)
(* frame pointer and the stack pointer are as they were at the call.       *)
RegistersKept ==
  [][(Loaded /\ Return)
       => \A r \in IntRegs \cup FloatRegs \cup {FP, SP} : reg[r] = Last(calls)[r]]_vars

(* The stack is aligned to 8 bytes at every call, as functions rely on it. *)
AlignedCalls == (IsRunning /\ In.op = "bl") => reg[SP] % 8 = 0

(* What is printed does what the source means, and comes to an end.        *)
Refines == Abs!Spec
=============================================================================

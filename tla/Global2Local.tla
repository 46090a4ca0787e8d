----------------------------- MODULE Global2Local -----------------------------
(***************************************************************************)
(* Keeping a global scalar in a local of every function that uses it       *)
(* (src/src/Global2Local.cpp): loaded at the entry, stored at the returns, *)
(* and carried to and from the global around calls.  Globals are treated   *)
(* one by one, so there is one here.                                       *)
(*                                                                         *)
(* A function is what it may do: load the global, store a value to it,     *)
(* call functions, any of that any number of times in any order.  The pass *)
(* looks at nothing else.  After the analysis the program runs, as it was  *)
(* written and as the pass leaves it, side by side.                        *)
(***************************************************************************)
EXTENDS Integers, SequencesExt, FiniteSetsExt

CONSTANTS
  NF,         \* number of functions, in the order of the unit, main last
  Value,      \* the values of the global
  Initial,    \* its initial value
  MaxDepth,   \* bound on the depth of calls
  Programs    \* the programs to consider

Function == 1 .. NF
Main     == NF

(* A function can call itself and what is declared before it, not main.    *)
ProgramType ==
  {p \in [load : SUBSET Function, store : SUBSET Function, calls : [Function -> SUBSET Function]] :
     \A f \in Function : p.calls[f] \subseteq (1 .. f) \ {Main}}

ASSUME FunctionAssumption == NF \in Nat \ {0}
ASSUME ValueAssumption == Initial \in Value
ASSUME DepthAssumption == MaxDepth \in Nat \ {0}
ASSUME ProgramsAssumption == Programs \subseteq ProgramType

VARIABLES
  prog,          \* the program, constant
  usedGlobals,   \* the functions that use the global themselves
  read, write,   \* the functions that load, store it, in the end with their callees
  outDeg,        \* function -> how many of its callees are not finished
  orig,          \* the global, in the program as it was written
  mem,           \* the global, in the program as the pass leaves it
  stack,         \* the active functions, each with its local
  pc

analysis == <<usedGlobals, read, write, outDeg>>
vars     == <<prog, analysis, orig, mem, stack, pc>>

Top     == stack[Len(stack)]
Caller  == stack[Len(stack) - 1]
Callers(f) == {c \in Function : f \in prog.calls[c]}

Init ==
  /\ prog \in Programs
  /\ usedGlobals = {} /\ read = {} /\ write = {}
  /\ outDeg = [f \in Function |-> 0]
  /\ orig = Initial /\ mem = Initial
  /\ stack = <<>>
  /\ pc = "collect"

-----------------------------------------------------------------------------
(* calGlobals                                                              *)

CollectUses ==
  /\ pc = "collect"
  /\ usedGlobals' = prog.load \cup prog.store
  /\ read' = prog.load
  /\ write' = prog.store
  /\ outDeg' = [f \in Function |-> Cardinality(prog.calls[f] \ {f})]
  /\ pc' = "propagate"
  /\ UNCHANGED <<prog, orig, mem, stack>>

Ready == {f \in Function : outDeg[f] = 0}

(* Bug: what a function does is not passed on. *)
PassOnNothing(set, f) == set

PassOn(set, f) == IF f \in set THEN set \cup Callers(f) ELSE set

MarkFinished(f, g) == IF g = f THEN -1 ELSE outDeg[g]

(* One round of the loop: the first function whose callees are all         *)
(* finished passes on what it does to its callers.                         *)
FinishFunction ==
  /\ pc = "propagate"
  /\ Ready # {}
  /\ LET f == Min(Ready) IN
       /\ read' = PassOn(read, f)
       /\ write' = PassOn(write, f)
       /\ outDeg' = [g \in Function |->
                       MarkFinished(f, g) - (IF g \in Callers(f) THEN 1 ELSE 0)]
  /\ UNCHANGED <<prog, usedGlobals, orig, mem, stack, pc>>

(* The local of an activation of f, which its entry loads. *)
Frame(f, m) == [func |-> f, local |-> IF f \in usedGlobals THEN m ELSE Initial]

(* All are finished; the program starts. *)
EndGlobals ==
  /\ pc = "propagate"
  /\ \A f \in Function : outDeg[f] < 0
  /\ write' = write \ {Main}
  /\ stack' = <<Frame(Main, mem)>>
  /\ pc' = "run"
  /\ UNCHANGED <<prog, usedGlobals, read, outDeg, orig, mem>>

-----------------------------------------------------------------------------
(* The program, with what pass(func) put around calls and returns          *)

(* A load reads the local, or, if nothing is ever stored to the global,    *)
(* has become its initial value.                                           *)
Loaded == IF prog.store = {} THEN Initial ELSE Top.local

(* The activations s, where the local of the top one becomes v. *)
SetLocal(s, v) == [s EXCEPT ![Len(s)].local = v]

StoreGlobal(v) ==
  /\ pc = "run"
  /\ Top.func \in prog.store
  /\ orig' = v
  /\ stack' = SetLocal(stack, v)
  /\ UNCHANGED <<prog, analysis, mem, pc>>

(* Bug: nothing is stored before a call. *)
StoredBeforeNever(f) == mem

(* The global as a call of f finds it. *)
StoredBefore(f) ==
  IF f \in read /\ Top.func \in usedGlobals THEN Top.local ELSE mem

Call(f) ==
  /\ pc = "run"
  /\ f \in prog.calls[Top.func]
  /\ Len(stack) < MaxDepth
  /\ mem' = StoredBefore(f)
  /\ stack' = Append(stack, Frame(f, mem'))
  /\ UNCHANGED <<prog, analysis, orig, pc>>

(* The local of the caller after the call. *)
LoadedAfter(f, m) ==
  IF f \in write /\ Caller.func \in usedGlobals THEN m ELSE Caller.local

Return ==
  /\ pc = "run"
  /\ Len(stack) > 1
  /\ LET f == Top.func IN
       /\ mem' = IF f \in write /\ f \in usedGlobals THEN Top.local ELSE mem
       /\ stack' = SetLocal(Front(stack), LoadedAfter(f, mem'))
  /\ UNCHANGED <<prog, analysis, orig, pc>>

Next ==
  \/ CollectUses
  \/ FinishFunction
  \/ EndGlobals
  \/ \E v \in Value : StoreGlobal(v)
  \/ \E f \in Function : Call(f)
  \/ Return

Spec == Init /\ [][Next]_vars

-----------------------------------------------------------------------------
(* What a call of a function can reach: what is in every set that holds    *)
(* the function and the callees of its members.                            *)
Reached(f) ==
  {g \in Function : \A S \in SUBSET Function :
     f \in S /\ (\A h \in S : prog.calls[h] \subseteq S) => g \in S}

(* Every function knows what its calls may do, but nobody asks main.       *)
AnalysisExact ==
  /\ read = {f \in Function : Reached(f) \cap prog.load # {}}
  /\ write = {f \in Function : Reached(f) \cap prog.store # {}} \ {Main}

(* The loop over the functions never finds none ready, and ends with       *)
(* every function knowing what its calls may do.                           *)
AnalysisRight ==
  /\ pc = "propagate" => Ready # {} \/ \A f \in Function : outDeg[f] < 0
  /\ pc = "run" => AnalysisExact

(* A load of the program the pass leaves gives what it gave before.        *)
LoadsAgree == pc = "run" /\ Top.func \in prog.load => Loaded = orig

(* The same where no function of the program that is called stores to the  *)
(* global without loading it, itself or through a call.                    *)
WritersRead == \A f \in Function \ {Main} : f \in prog.store => Reached(f) \cap prog.load # {}

LoadsAgreeIfWritersRead == WritersRead => LoadsAgree

-----------------------------------------------------------------------------
(* The inductive invariant behind the two properties.                      *)

Unfinished == {f \in Function : outDeg[f] >= 0}

(* What set knows of the finished functions has reached their callers, and *)
(* it knows of nothing that cannot happen.                                 *)
KnownOf(set, uses) ==
  /\ uses \subseteq set /\ set \subseteq Function
  /\ \A f \in set : Reached(f) \cap uses # {}
  /\ \A f \in set \ Unfinished : Callers(f) \subseteq set

(* outDeg counts the unfinished callees, which finished functions have     *)
(* none of.                                                                *)
AnalysisInv ==
  /\ prog \in ProgramType
  /\ pc \in {"collect", "propagate", "run"}
  /\ pc # "run" => orig = Initial /\ mem = Initial
  /\ pc # "collect" => usedGlobals = prog.load \cup prog.store
  /\ pc = "propagate" =>
       /\ outDeg \in [Function -> Int]
       /\ \A f \in Unfinished : outDeg[f] = Cardinality((prog.calls[f] \ {f}) \cap Unfinished)
       /\ \A f \in Function \ Unfinished : prog.calls[f] \ {f} \subseteq Function \ Unfinished
       /\ KnownOf(read, prog.load)
       /\ KnownOf(write, prog.store)
  /\ pc = "run" => AnalysisExact

Activation == [func : Function, local : Value]

(* The activation at i, were it the top one, has the value of the global:  *)
(* in its local if it has one, else in the global.                         *)
TopRight(i) ==
  LET f == stack[i].func
  IN  IF f \in usedGlobals THEN stack[i].local = orig ELSE f \in read => mem = orig

(* main is at the bottom, every activation was called by the one below it, *)
(* and stores if one above it does.                                        *)
ChainInv ==
  /\ stack \in Seq(Activation) /\ Len(stack) >= 1
  /\ \A i \in 2 .. Len(stack) : stack[i].func # Main
  /\ \A i \in 1 .. Len(stack) - 1 : stack[i + 1].func \in prog.calls[stack[i].func]
  /\ \A i, j \in 2 .. Len(stack) :
       i < j /\ stack[j].func \in write => stack[i].func \in write

(* The top activation has the value, and so has every one whose callee     *)
(* stores nothing.                                                         *)
ValueInv ==
  /\ orig \in Value /\ mem \in Value
  /\ prog.store = {} => orig = Initial
  /\ TopRight(Len(stack))
  /\ \A i \in 1 .. Len(stack) - 1 : stack[i + 1].func \notin write => TopRight(i)

StackInv == ChainInv /\ ValueInv

IInv == AnalysisInv /\ (pc = "run" /\ WritersRead => StackInv)
==============================================================================

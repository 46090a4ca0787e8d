-------------------------- MODULE Global2Local_proofs --------------------------
(***************************************************************************)
(* Proofs about the localising of globals, for every program, any number   *)
(* of functions, any values and any depth of calls: the analysis finishes  *)
(* every function and is exact, and, if whoever stores the global also     *)
(* loads it, every load gives what it gave before the pass.                *)
(***************************************************************************)
EXTENDS Global2Local, FiniteSetTheorems, WellFoundedInduction, TLAPS

(* A nonempty set of numbers has a least one, which Min finds. *)
LEMMA MinFacts ==
  ASSUME NEW S \in SUBSET Nat, S # {}
  PROVE  Min(S) \in S /\ \A n \in S : Min(S) =< n
<1> DEFINE R == {p \in Nat \X Nat : p[1] < p[2]}
<1>1. IsWellFoundedOn(R, Nat)
  BY NatLessThanWellFounded DEF OpToRel
<1>2. ASSUME NEW m \in Nat, NEW n \in Nat, ~(<<n, m>> \in R) PROVE m =< n
  BY <1>2
<1> HIDE DEF R
<1>3. \E m \in S : \A n \in S : ~(<<n, m>> \in R)
  BY <1>1, WFMin
<1>4. \E m \in S : \A n \in S : m =< n
  BY <1>2, <1>3
<1> QED
  BY <1>4 DEF Min

-----------------------------------------------------------------------------
(* What a function can reach: itself, what the reached functions call, and *)
(* nothing outside any set closed under calls that holds the function.     *)
LEMMA ReachedFacts ==
  ASSUME prog \in ProgramType, NEW f \in Function
  PROVE  /\ f \in Reached(f) /\ Reached(f) \subseteq Function
         /\ \A h \in Reached(f) : prog.calls[h] \subseteq Reached(f)
         /\ \A S \in SUBSET Function :
              f \in S /\ (\A h \in S : prog.calls[h] \subseteq S) => Reached(f) \subseteq S
<1>1. \A h \in Function : prog.calls[h] \subseteq Function
  BY DEF ProgramType
<1> QED
  BY <1>1 DEF Reached

(* What a callee reaches, its caller reaches. *)
LEMMA ReachedByCall ==
  ASSUME prog \in ProgramType, NEW f \in Function, NEW g \in Reached(f)
  PROVE  Reached(g) \subseteq Reached(f)
<1>1. g \in Function
  BY ReachedFacts
<1>2. /\ Reached(f) \in SUBSET Function
      /\ \A h \in Reached(f) : prog.calls[h] \subseteq Reached(f)
  BY ReachedFacts
<1> HIDE DEF Reached
<1> QED
  BY <1>1, <1>2, ReachedFacts

(* main is not called, and functions call themselves and earlier ones. *)
LEMMA CallFacts ==
  ASSUME prog \in ProgramType
  PROVE  /\ Main \in Function
         /\ prog.load \subseteq Function /\ prog.store \subseteq Function
         /\ \A f \in Function : /\ prog.calls[f] \subseteq Function \ {Main}
                                /\ \A g \in prog.calls[f] : g =< f
                                /\ IsFiniteSet(prog.calls[f])
         /\ \A f \in Function : Callers(f) = {c \in Function : f \in prog.calls[c]}
<1>1. Main \in Function
  BY FunctionAssumption DEF Main, Function
<1>2. ASSUME NEW f \in Function
      PROVE  /\ prog.calls[f] \subseteq (1 .. f) \ {Main}
             /\ f \in Nat /\ \A g \in 1 .. f : g \in Function
  BY FunctionAssumption DEF ProgramType, Function
<1>3. ASSUME NEW f \in Function PROVE IsFiniteSet(prog.calls[f])
  <2>1. f \in Int /\ IsFiniteSet(1 .. f) /\ prog.calls[f] \subseteq 1 .. f
    BY <1>2, FS_Interval
  <2> QED
    BY <2>1, FS_Subset
<1> QED
  BY <1>1, <1>2, <1>3 DEF ProgramType, Callers

(* The unfinished function that comes first is ready: it waits for nobody. *)
LEMMA FirstIsReady ==
  ASSUME AnalysisInv, pc = "propagate", NEW m \in Unfinished, \A g \in Unfinished : m =< g
  PROVE  m \in Ready
<1>1. prog \in ProgramType /\ m \in Function
  BY DEF AnalysisInv, Unfinished
<1>2. (prog.calls[m] \ {m}) \cap Unfinished = {}
  <2>1. \A g \in prog.calls[m] : g =< m /\ g \in Int
    BY <1>1, CallFacts DEF Function
  <2>2. m \in Int
    BY <1>1 DEF Function
  <2> QED
    BY <2>1, <2>2
<1>3. outDeg[m] = 0
  BY <1>2, FS_EmptySet DEF AnalysisInv
<1> QED
  BY <1>1, <1>3 DEF Ready

(* The functions that are ready are unfinished, and Min chooses one. *)
LEMMA ReadyFacts ==
  ASSUME AnalysisInv, pc = "propagate"
  PROVE  /\ Unfinished # {} => Ready # {}
         /\ Ready # {} => Min(Ready) \in Ready
         /\ Ready \subseteq Unfinished
<1>1. Unfinished \in SUBSET Nat /\ Ready \in SUBSET Nat
  BY FunctionAssumption DEF Unfinished, Ready, Function
<1>2. Ready \subseteq Unfinished
  BY DEF Ready, Unfinished
<1>3. Unfinished # {} => Min(Unfinished) \in Ready
  BY <1>1, MinFacts, FirstIsReady
<1> QED
  BY <1>1, <1>2, <1>3, MinFacts

(* While the loop runs some function is ready, or all are finished. *)
LEMMA NotStuck ==
  ASSUME AnalysisInv, pc = "propagate"
  PROVE  Ready # {} \/ \A f \in Function : outDeg[f] < 0
<1>1. outDeg \in [Function -> Int]
  BY DEF AnalysisInv
<1>2. Unfinished = {} => \A f \in Function : outDeg[f] < 0
  BY <1>1 DEF Unfinished
<1> QED
  BY <1>2, ReadyFacts

-----------------------------------------------------------------------------
(* What finishing a function f does to the counts.                         *)
LEMMA FinishCounts ==
  ASSUME AnalysisInv, pc = "propagate", FinishFunction, NEW f \in Ready, f = Min(Ready)
  PROVE  /\ outDeg' \in [Function -> Int]
         /\ Unfinished' = Unfinished \ {f}
         /\ \A g \in Unfinished' : outDeg'[g] = Cardinality((prog.calls[g] \ {g}) \cap Unfinished')
         /\ \A g \in Function \ Unfinished' : prog.calls[g] \ {g} \subseteq Function \ Unfinished'
<1>1. /\ prog \in ProgramType /\ outDeg \in [Function -> Int] /\ f \in Function /\ f \in Unfinished
      /\ outDeg[f] = 0
  BY ReadyFacts DEF AnalysisInv, Ready
<1>2. \A g \in Function :
        outDeg'[g] = (IF g = f THEN -1 ELSE outDeg[g]) - (IF f \in prog.calls[g] THEN 1 ELSE 0)
  BY <1>1, CallFacts DEF FinishFunction, MarkFinished
<1>3. outDeg' \in [Function -> Int]
  <2>1. outDeg' = [g \in Function |-> MarkFinished(f, g) - (IF g \in Callers(f) THEN 1 ELSE 0)]
    BY DEF FinishFunction
  <2>2. \A g \in Function : MarkFinished(f, g) \in Int
    BY <1>1 DEF MarkFinished
  <2> QED
    BY <2>1, <2>2
<1>4. ASSUME NEW g \in Unfinished, g # f
      PROVE  /\ outDeg'[g] >= 0
             /\ outDeg'[g] = Cardinality((prog.calls[g] \ {g}) \cap (Unfinished \ {f}))
  <2> DEFINE C == (prog.calls[g] \ {g}) \cap Unfinished
             D == (prog.calls[g] \ {g}) \cap (Unfinished \ {f})
  <2>1. /\ g \in Function /\ outDeg[g] = Cardinality(C) /\ outDeg[g] \in Int
        /\ IsFiniteSet(C) /\ Cardinality(C) \in Nat
    <3>1. g \in Function /\ outDeg[g] = Cardinality(C)
      BY DEF Unfinished, AnalysisInv
    <3>2. IsFiniteSet(C)
      BY <3>1, <1>1, CallFacts, FS_Subset
    <3> QED
      BY <3>1, <3>2, FS_CardinalityType
  <2>a. (f \in prog.calls[g] => f \in C /\ D = C \ {f}) /\ (f \notin prog.calls[g] => D = C)
    BY <1>1, <1>4
  <2>b. outDeg'[g] = IF f \in prog.calls[g] THEN outDeg[g] - 1 ELSE outDeg[g]
    BY <2>1, <1>2, <1>4
  <2>c. f \in C => Cardinality(C \ {f}) = Cardinality(C) - 1 /\ Cardinality(C \ {f}) \in Nat
    BY <2>1, FS_RemoveElement, FS_CardinalityType
  <2> HIDE DEF C, D
  <2>2. outDeg'[g] = Cardinality(D) /\ Cardinality(D) \in Nat
    BY <2>1, <2>a, <2>b, <2>c
  <2> QED
    BY <2>2 DEF D
<1>5. ASSUME NEW g \in Function \ Unfinished PROVE outDeg'[g] = outDeg[g] /\ outDeg[g] < 0
  <2>1. f \notin prog.calls[g]
    BY <1>1 DEF AnalysisInv
  <2> QED
    BY <2>1, <1>1, <1>2 DEF Unfinished
<1>6. outDeg'[f] < 0
  BY <1>1, <1>2
<1>7. Unfinished' = Unfinished \ {f}
  <2>1. ASSUME NEW g \in Function PROVE outDeg'[g] >= 0 <=> g \in Unfinished /\ g # f
    <3>1. outDeg'[g] \in Int /\ outDeg[g] \in Int
      BY <1>1, <1>3
    <3>2. CASE g = f
      BY <3>1, <3>2, <1>6
    <3>3. CASE g \in Unfinished /\ g # f
      BY <3>3, <1>4
    <3>4. CASE g \notin Unfinished
      BY <3>1, <3>4, <1>5
    <3> QED
      BY <3>2, <3>3, <3>4
  <2> QED
    BY <2>1 DEF Unfinished
<1>8. prog.calls[f] \ {f} \subseteq Function \ Unfinished
  <2>1. Cardinality((prog.calls[f] \ {f}) \cap Unfinished) = 0
    BY <1>1 DEF AnalysisInv
  <2>2. IsFiniteSet((prog.calls[f] \ {f}) \cap Unfinished)
    BY <1>1, CallFacts, FS_Subset
  <2>3. (prog.calls[f] \ {f}) \cap Unfinished = {}
    BY <2>1, <2>2, FS_EmptySet
  <2> QED
    BY <2>3, <1>1, CallFacts
<1>9. \A g \in Function \ (Unfinished \ {f}) :
        prog.calls[g] \ {g} \subseteq Function \ (Unfinished \ {f})
  BY <1>8, <1>1 DEF AnalysisInv
<1>10. prog' = prog
  BY DEF FinishFunction
<1> HIDE DEF Unfinished
<1> QED
  BY <1>3, <1>4, <1>7, <1>9, <1>10

(* What finishing a function passes on.                                    *)
LEMMA PassOnKept ==
  ASSUME prog \in ProgramType, NEW f \in Unfinished, NEW set, NEW uses, KnownOf(set, uses),
         \A g \in Function \ Unfinished : prog.calls[g] \ {g} \subseteq Function \ Unfinished
  PROVE  LET new == PassOn(set, f) IN
         /\ uses \subseteq new /\ new \subseteq Function
         /\ \A g \in new : Reached(g) \cap uses # {}
         /\ \A g \in new \ (Unfinished \ {f}) : Callers(g) \subseteq new
<1> DEFINE new == PassOn(set, f)
<1>0. f \in Function
  BY DEF Unfinished
<1>1. Callers(f) \subseteq Function /\ \A g \in Callers(f) : f \in prog.calls[g]
  BY <1>0, CallFacts
<1>2. ASSUME NEW g \in Callers(f), f \in set PROVE Reached(g) \cap uses # {}
  <2>1. f \in Reached(g)
    BY <1>1, <1>0, ReachedFacts
  <2>2. Reached(f) \subseteq Reached(g)
    BY <2>1, <1>1, ReachedByCall
  <2> QED
    BY <2>2, <1>2 DEF KnownOf
<1>3. new = IF f \in set THEN set \cup Callers(f) ELSE set
  BY DEF PassOn
<1> HIDE DEF new
<1>4. /\ uses \subseteq new /\ new \subseteq Function
      /\ \A g \in new : Reached(g) \cap uses # {}
  BY <1>1, <1>2, <1>3 DEF KnownOf
<1>5. ASSUME NEW g \in new \ (Unfinished \ {f}) PROVE Callers(g) \subseteq new
  <2>1. g \in Callers(f) => g = f \/ g \in Unfinished
    BY <1>0, <1>1
  <2>2. g \in set /\ g # f => Callers(g) \subseteq set
    BY <1>5 DEF KnownOf
  <2>3. f \in new => Callers(f) \subseteq new
    BY <1>1, <1>3
  <2> QED
    BY <2>1, <2>2, <2>3, <1>3, <1>5
<1> QED
  BY <1>4, <1>5 DEF new

-----------------------------------------------------------------------------
(* When all are finished, what is known is what calls can reach.           *)
LEMMA KnownExactly ==
  ASSUME prog \in ProgramType, NEW set, NEW uses, KnownOf(set, uses), Unfinished = {}
  PROVE  set = {f \in Function : Reached(f) \cap uses # {}}
<1>1. ASSUME NEW f \in Function, f \notin set PROVE Reached(f) \cap uses = {}
  <2> DEFINE S == Function \ set
  <2>1. \A h \in S : prog.calls[h] \subseteq S
    BY <1>1, CallFacts DEF KnownOf
  <2>2. Reached(f) \subseteq S
    BY <1>1, <2>1, ReachedFacts
  <2> QED
    BY <2>2 DEF KnownOf
<1> QED
  BY <1>1 DEF KnownOf

(* Every step keeps AnalysisInv.                                           *)
LEMMA AnalysisStep ==
  ASSUME AnalysisInv, [Next]_vars
  PROVE  AnalysisInv'
<1>0. prog \in ProgramType /\ prog' = prog
  BY DEF AnalysisInv, Next, vars, CollectUses, FinishFunction, EndGlobals, StoreGlobal, Call, Return
<1>r. \A f : Reached(f)' = Reached(f)
  BY <1>0 DEF Reached
<1>c. \A f : Callers(f)' = Callers(f)
  BY <1>0 DEF Callers
<1>1. CASE CollectUses
  <2>1. /\ pc' = "propagate" /\ outDeg' = [f \in Function |-> Cardinality(prog.calls[f] \ {f})]
        /\ read' = prog.load /\ write' = prog.store /\ usedGlobals' = prog.load \cup prog.store
        /\ orig' = Initial /\ mem' = Initial
    BY <1>1 DEF CollectUses, AnalysisInv
  <2>2. ASSUME NEW f \in Function
        PROVE  Cardinality(prog.calls[f] \ {f}) \in Nat
    BY <1>0, CallFacts, FS_Subset, FS_CardinalityType
  <2>3. outDeg' \in [Function -> Int] /\ \A f \in Function : outDeg'[f] >= 0
    BY <2>1, <2>2
  <2>4. Unfinished' = Function
    BY <2>3 DEF Unfinished
  <2>5. \A f \in Function : (prog.calls[f] \ {f}) \cap Function = prog.calls[f] \ {f}
    BY <1>0, CallFacts
  <2>6. \A f \in Function : f \in Reached(f)
    BY <1>0, ReachedFacts
  <2>7. KnownOf(read, prog.load)'
    BY <2>1, <2>4, <2>6, <1>0, <1>r, CallFacts DEF KnownOf
  <2>8. KnownOf(write, prog.store)'
    BY <2>1, <2>4, <2>6, <1>0, <1>r, CallFacts DEF KnownOf
  <2>9. \A f \in Function : outDeg'[f] = Cardinality((prog.calls[f] \ {f}) \cap Function)
    BY <2>1, <2>5
  <2>10. (pc' = "propagate" =>
       /\ outDeg' \in [Function -> Int]
       /\ \A f \in Unfinished' : outDeg'[f] = Cardinality((prog'.calls[f] \ {f}) \cap Unfinished')
       /\ \A f \in Function \ Unfinished' : prog'.calls[f] \ {f} \subseteq Function \ Unfinished'
       /\ KnownOf(read, prog.load)'
       /\ KnownOf(write, prog.store)')
    BY <2>3, <2>4, <2>7, <2>8, <2>9, <1>0
  <2> QED
    BY <2>1, <2>10, <1>0 DEF AnalysisInv
<1>2. CASE FinishFunction
  <2> DEFINE f == Min(Ready)
  <2>1. /\ pc = "propagate" /\ pc' = pc /\ f \in Ready /\ f \in Unfinished
        /\ read' = PassOn(read, f) /\ write' = PassOn(write, f)
        /\ usedGlobals' = usedGlobals /\ orig' = orig /\ mem' = mem
    BY <1>2, ReadyFacts DEF FinishFunction
  <2>2. /\ outDeg' \in [Function -> Int]
        /\ Unfinished' = Unfinished \ {f}
        /\ \A g \in Unfinished' : outDeg'[g] = Cardinality((prog.calls[g] \ {g}) \cap Unfinished')
        /\ \A g \in Function \ Unfinished' : prog.calls[g] \ {g} \subseteq Function \ Unfinished'
    BY <1>2, <2>1, FinishCounts
  <2>3. /\ KnownOf(read, prog.load) /\ KnownOf(write, prog.store)
        /\ \A g \in Function \ Unfinished : prog.calls[g] \ {g} \subseteq Function \ Unfinished
    BY <2>1 DEF AnalysisInv
  <2> HIDE DEF f
  <2>4. KnownOf(read, prog.load)'
    <3> DEFINE new == PassOn(read, f)
    <3>1. /\ prog.load \subseteq new /\ new \subseteq Function
          /\ \A g \in new : Reached(g) \cap prog.load # {}
          /\ \A g \in new \ (Unfinished \ {f}) : Callers(g) \subseteq new
      BY <1>0, <2>1, <2>3, PassOnKept
    <3>2. read' = new
      BY <2>1
    <3> HIDE DEF new
    <3> QED
      BY <3>1, <3>2, <2>2, <1>0, <1>r, <1>c DEF KnownOf
  <2>5. KnownOf(write, prog.store)'
    <3> DEFINE new == PassOn(write, f)
    <3>1. /\ prog.store \subseteq new /\ new \subseteq Function
          /\ \A g \in new : Reached(g) \cap prog.store # {}
          /\ \A g \in new \ (Unfinished \ {f}) : Callers(g) \subseteq new
      BY <1>0, <2>1, <2>3, PassOnKept
    <3>2. write' = new
      BY <2>1
    <3> HIDE DEF new
    <3> QED
      BY <3>1, <3>2, <2>2, <1>0, <1>r, <1>c DEF KnownOf
  <2> QED
    BY <2>1, <2>2, <2>4, <2>5, <1>0 DEF AnalysisInv
<1>3. CASE EndGlobals
  <2>1. /\ pc = "propagate" /\ pc' = "run" /\ read' = read /\ write' = write \ {Main}
        /\ usedGlobals' = usedGlobals
    BY <1>3 DEF EndGlobals
  <2>2. Unfinished = {}
    BY <1>3, <2>1 DEF EndGlobals, Unfinished, AnalysisInv
  <2>3. /\ read = {f \in Function : Reached(f) \cap prog.load # {}}
        /\ write = {f \in Function : Reached(f) \cap prog.store # {}}
    BY <1>0, <2>1, <2>2, KnownExactly DEF AnalysisInv
  <2>4. AnalysisExact'
    BY <2>1, <2>3, <1>0, <1>r DEF AnalysisExact
  <2> QED
    BY <2>1, <2>4, <1>0 DEF AnalysisInv
<1>4. CASE UNCHANGED analysis /\ UNCHANGED prog /\ UNCHANGED pc /\ (pc # "run" => UNCHANGED <<orig, mem>>)
  <2>1. Unfinished' = Unfinished
    BY <1>4 DEF Unfinished, analysis
  <2>2. KnownOf(read, prog.load)' <=> KnownOf(read, prog.load)
    BY <2>1, <1>r, <1>c, <1>4 DEF KnownOf, analysis
  <2>3. KnownOf(write, prog.store)' <=> KnownOf(write, prog.store)
    BY <2>1, <1>r, <1>c, <1>4 DEF KnownOf, analysis
  <2>4. AnalysisExact' <=> AnalysisExact
    BY <1>r, <1>4 DEF AnalysisExact, analysis
  <2> QED
    BY <2>1, <2>2, <2>3, <2>4, <1>4 DEF AnalysisInv, analysis
<1> QED
  BY <1>1, <1>2, <1>3, <1>4 DEF Next, vars, StoreGlobal, Call, Return

(* AnalysisInv says that the analysis is right.                            *)
LEMMA AnalysisInvRight == AnalysisInv => AnalysisRight
  BY NotStuck DEF AnalysisInv, AnalysisRight

-----------------------------------------------------------------------------
(* The run of the program.                                                 *)

(* What the analysis says of a call: the caller does what the callee does, *)
(* and a called function that stores or uses the global loads it.          *)
LEMMA CallerDoes ==
  ASSUME prog \in ProgramType, AnalysisExact, WritersRead,
         usedGlobals = prog.load \cup prog.store
  PROVE  /\ read \subseteq Function /\ write \subseteq Function /\ Main \notin write
         /\ \A f \in Function : \A g \in prog.calls[f] :
              /\ g \in Function /\ g # Main
              /\ g \in read => f \in read
              /\ g \in write => f \in write \/ f = Main
         /\ \A f \in Function \ {Main} : f \in usedGlobals => f \in read
         /\ \A f \in write : f \in read
         /\ \A f \in prog.store : f # Main => f \in write
         /\ \A f \in prog.load : f \in usedGlobals
<1>1. ASSUME NEW f \in Function, NEW g \in prog.calls[f]
      PROVE  g \in Function /\ g # Main /\ Reached(g) \subseteq Reached(f)
  <2>1. g \in Function /\ g # Main
    BY CallFacts
  <2>2. g \in Reached(f)
    BY ReachedFacts
  <2> QED
    BY <2>1, <2>2, ReachedByCall
<1>2. \A f \in Function : f \in Reached(f)
  BY ReachedFacts
<1>3. /\ read = {f \in Function : Reached(f) \cap prog.load # {}}
      /\ write = {f \in Function : Reached(f) \cap prog.store # {}} \ {Main}
  BY DEF AnalysisExact
<1>4. ASSUME NEW f \in Function \ {Main}, f \in prog.store PROVE f \in read
  BY <1>3, <1>4 DEF WritersRead
<1>5. ASSUME NEW f \in write PROVE f \in read
  <2>1. f \in Function /\ f # Main
    BY <1>3
  <2>2. PICK g \in Reached(f) : g \in prog.store
    BY <1>3
  <2>3. g \in Function \ {Main}
    <3>1. Function \ {Main} \in SUBSET Function
      OBVIOUS
    <3>2. \A h \in Function \ {Main} : prog.calls[h] \subseteq Function \ {Main}
      BY CallFacts
    <3> QED
      BY <2>1, <2>2, <3>1, <3>2, ReachedFacts
  <2>4. Reached(g) \subseteq Reached(f) /\ g \in read
    BY <2>1, <2>2, <2>3, <1>4, ReachedByCall
  <2> QED
    BY <2>1, <2>4, <1>3
<1>6. /\ prog.load \subseteq Function /\ prog.store \subseteq Function
  BY CallFacts
<1> HIDE DEF Reached
<1>7. \A f \in prog.load : f \in read
  BY <1>2, <1>3, <1>6
<1>8. \A f \in prog.store : f # Main => f \in write
  BY <1>2, <1>3, <1>6
<1>9. \A f \in Function : \A g \in prog.calls[f] :
              /\ g \in read => f \in read
              /\ g \in write => f \in write \/ f = Main
  BY <1>1, <1>3
<1> QED
  BY <1>1, <1>3, <1>4, <1>5, <1>7, <1>8, <1>9

(* The stack as a sequence: what a push, a pop and a write do.             *)
LEMMA PushFacts ==
  ASSUME NEW s \in Seq(Activation), NEW x \in Activation
  PROVE  /\ Append(s, x) \in Seq(Activation) /\ Len(s) \in Nat /\ Len(Append(s, x)) = Len(s) + 1
         /\ Append(s, x)[Len(s) + 1] = x
         /\ \A i \in 1 .. Len(s) : Append(s, x)[i] = s[i]
  OBVIOUS

(* A pop leaves the activations below the top one.                        *)
LEMMA PopFacts ==
  ASSUME NEW s \in Seq(Activation), Len(s) > 1
  PROVE  /\ Front(s) \in Seq(Activation) /\ Len(s) \in Nat /\ Len(Front(s)) = Len(s) - 1
         /\ \A i \in 1 .. Len(s) - 1 : Front(s)[i] = s[i]
<1>1. PICK n \in Nat : Len(s) = n + 1
  OBVIOUS
<1>2. \A i \in 1 .. n + 1 : s[i] \in Activation
  BY <1>1
<1>3. Front(s) = [i \in 1 .. n |-> s[i]]
  BY <1>1 DEF Front
<1>4. Front(s) \in Seq(Activation) /\ Len(Front(s)) = n
  BY <1>2, <1>3
<1> QED
  BY <1>1, <1>3, <1>4

(* A write to the local of the top one changes nothing else.               *)
LEMMA SetLocalFacts ==
  ASSUME NEW s \in Seq(Activation), Len(s) >= 1, NEW v \in Value
  PROVE  /\ SetLocal(s, v) \in Seq(Activation)
         /\ Len(s) \in Nat /\ Len(SetLocal(s, v)) = Len(s)
         /\ \A i \in 1 .. Len(s) - 1 : SetLocal(s, v)[i] = s[i]
         /\ SetLocal(s, v)[Len(s)].func = s[Len(s)].func
         /\ SetLocal(s, v)[Len(s)].local = v
<1> DEFINE x == [s[Len(s)] EXCEPT !.local = v]
           t == SetLocal(s, v)
<1>1. t = [s EXCEPT ![Len(s)] = x]
  BY DEF SetLocal
<1> HIDE DEF x, t
<1>2. Len(s) \in Nat /\ s[Len(s)] \in Activation
  OBVIOUS
<1>3. x \in Activation /\ x.func = s[Len(s)].func /\ x.local = v
  BY <1>2 DEF x, Activation
<1>4. /\ t \in Seq(Activation) /\ Len(t) = Len(s) /\ t[Len(s)] = x
      /\ \A i \in 1 .. Len(s) : i # Len(s) => t[i] = s[i]
  BY <1>1, <1>2, <1>3
<1> QED
  BY <1>2, <1>3, <1>4 DEF t

-----------------------------------------------------------------------------
(* The steps of the program keep StackInv.                                 *)
LEMMA StartRight ==
  ASSUME AnalysisInv, EndGlobals PROVE StackInv'
<1>1. /\ stack' = <<Frame(Main, mem)>> /\ orig' = Initial /\ mem' = Initial
      /\ usedGlobals' = usedGlobals /\ mem = Initial
  BY DEF EndGlobals, AnalysisInv
<1>2. /\ Frame(Main, mem) = [func |-> Main, local |-> Initial]
      /\ Main \in Function /\ Initial \in Value
  BY <1>1, ValueAssumption, CallFacts DEF Frame, AnalysisInv
<1>a. Frame(Main, mem) \in Activation
  BY <1>2 DEF Activation
<1>3. /\ stack' \in Seq(Activation) /\ Len(stack') = 1
      /\ stack'[1].func = Main /\ stack'[1].local = Initial
  BY <1>1, <1>2, <1>a
<1> QED
  BY <1>1, <1>2, <1>3 DEF StackInv, ChainInv, ValueInv, TopRight

(* Whoever stores is, with everyone below it but main, among the writers.  *)
LEMMA StoreRight ==
  ASSUME AnalysisInv, pc = "run", WritersRead, StackInv, NEW v \in Value, StoreGlobal(v)
  PROVE  StackInv'
<1>n. PICK n \in Nat : n = Len(stack)
  BY DEF StackInv, ChainInv
<1>1. /\ prog \in ProgramType /\ AnalysisExact /\ usedGlobals = prog.load \cup prog.store
      /\ orig' = v /\ mem' = mem /\ prog' = prog
      /\ usedGlobals' = usedGlobals /\ read' = read /\ write' = write
      /\ Top.func \in prog.store
      /\ stack' = SetLocal(stack, v)
  BY <1>n DEF StoreGlobal, AnalysisInv, analysis
<1>2. stack \in Seq(Activation) /\ n >= 1
  BY <1>n DEF StackInv, ChainInv
<1>3. /\ stack' \in Seq(Activation)
      /\ n \in Nat /\ Len(stack') = n
      /\ \A i \in 1 .. n - 1 : stack'[i] = stack[i]
      /\ stack'[n].func = stack[n].func
      /\ stack'[n].local = v
  BY <1>n, <1>1, <1>2, SetLocalFacts
<1>4. stack[n].func \in prog.store
  BY <1>n, <1>1 DEF Top
<1>5. \A i \in 1 .. n : stack'[i].func = stack[i].func
  BY <1>n, <1>2, <1>3
<1>6. ChainInv'
  BY <1>n, <1>1, <1>2, <1>3, <1>5 DEF StackInv, ChainInv
<1>7. ASSUME NEW i \in 1 .. n - 1 PROVE stack[i + 1].func \in write
  <2>1. n \in 2 .. n /\ i + 1 \in 2 .. n
    BY <1>n, <1>3
  <2>2. stack[n].func # Main
    BY <1>n, <2>1 DEF StackInv, ChainInv
  <2>3. stack[n].func \in write
    BY <1>n, <2>2, <1>1, <1>4, CallerDoes
  <2> QED
    BY <1>n, <2>1, <2>3 DEF StackInv, ChainInv
<1>8. TopRight(n)'
  BY <1>n, <1>1, <1>2, <1>3, <1>4 DEF TopRight
<1>9. ValueInv'
  <2>1. \A i \in 1 .. n - 1 : i + 1 \in 1 .. n
    BY <1>n, <1>3
  <2>2. mem \in Value /\ prog.store # {}
    BY <1>n, <1>4 DEF StackInv, ValueInv
  <2> QED
    BY <1>n, <1>1, <1>3, <1>5, <1>7, <1>8, <2>1, <2>2 DEF ValueInv
<1> QED
  BY <1>n, <1>6, <1>9 DEF StackInv

(* A call stores the local where the callee may load the global.           *)
LEMMA CallRight ==
  ASSUME AnalysisInv, pc = "run", WritersRead, StackInv, NEW f \in Function, Call(f)
  PROVE  StackInv'
<1>n. PICK n \in Nat : n = Len(stack)
  BY DEF StackInv, ChainInv
<1> DEFINE c == stack[n].func
<1>1. /\ prog \in ProgramType /\ AnalysisExact /\ usedGlobals = prog.load \cup prog.store
      /\ orig' = orig /\ prog' = prog
      /\ usedGlobals' = usedGlobals /\ read' = read /\ write' = write
      /\ f \in prog.calls[c]
      /\ mem' = (IF f \in read /\ c \in usedGlobals THEN stack[n].local ELSE mem)
      /\ stack' = Append(stack, Frame(f, mem'))
  BY <1>n DEF Call, AnalysisInv, analysis, StoredBefore, Top
<1>2. stack \in Seq(Activation) /\ n >= 1 /\ n \in Nat
  BY <1>n DEF StackInv, ChainInv
<1>3. stack[n] \in Activation
  BY <1>n, <1>2
<1>4. TopRight(n) /\ orig \in Value /\ mem \in Value
  BY <1>n DEF StackInv, ValueInv
<1>5. /\ f # Main
      /\ f \in read => c \in read
      /\ f \in write => c \in write \/ c = Main
      /\ f \in usedGlobals => f \in read
  BY <1>n, <1>1, <1>3, CallerDoes DEF Activation
<1>6. Frame(f, mem') = [func |-> f, local |-> IF f \in usedGlobals THEN mem' ELSE Initial]
  BY <1>n DEF Frame
<1>7. mem' = mem \/ mem' = orig
  BY <1>n, <1>1, <1>4 DEF TopRight
<1>8. f \in read => mem' = orig
  BY <1>n, <1>1, <1>4, <1>5 DEF TopRight
<1>9. Frame(f, mem') \in Activation
  BY <1>n, <1>6, <1>7, <1>4, ValueAssumption DEF Activation
<1>10. /\ stack' \in Seq(Activation) /\ Len(stack') = n + 1
       /\ \A i \in 1 .. n : stack'[i] = stack[i]
       /\ stack'[n + 1].func = f
       /\ stack'[n + 1].local = IF f \in usedGlobals THEN mem' ELSE Initial
  BY <1>n, <1>1, <1>2, <1>6, <1>9, PushFacts
<1>11. TopRight(n + 1)'
  BY <1>n, <1>1, <1>5, <1>8, <1>10 DEF TopRight
<1>12. ASSUME NEW i \in 1 .. n, TopRight(i) PROVE TopRight(i)'
  BY <1>n, <1>1, <1>7, <1>10, <1>12 DEF TopRight
<1>13. ChainInv'
  <2>1. \A i \in 2 .. n + 1 : stack'[i].func # Main
    BY <1>n, <1>2, <1>5, <1>10 DEF StackInv, ChainInv
  <2>2. \A i \in 1 .. n : stack'[i + 1].func \in prog.calls[stack'[i].func]
    BY <1>n, <1>1, <1>2, <1>10 DEF StackInv, ChainInv
  <2>3. ASSUME NEW i \in 2 .. n + 1, NEW j \in 2 .. n + 1, i < j, stack'[j].func \in write
        PROVE  stack'[i].func \in write
    <3>1. CASE j = n + 1
      <4>1. i \in 2 .. n /\ n \in 2 .. n /\ stack'[i] = stack[i] /\ c # Main
        BY <1>n, <2>3, <3>1, <1>2, <1>10 DEF StackInv, ChainInv
      <4>2. c \in write
        BY <1>n, <2>3, <3>1, <4>1, <1>5, <1>10
      <4> QED
        BY <1>n, <4>1, <4>2 DEF StackInv, ChainInv
    <3>2. CASE j \in 2 .. n
      BY <1>n, <2>3, <3>2, <1>2, <1>10 DEF StackInv, ChainInv
    <3> QED
      BY <1>n, <3>1, <3>2, <1>2
  <2> QED
    BY <1>n, <2>1, <2>2, <2>3, <1>1, <1>2, <1>10 DEF ChainInv
<1>14. ASSUME NEW i \in 1 .. n, stack'[i + 1].func \notin write PROVE TopRight(i)'
  <2>1. CASE i = n
    BY <1>n, <2>1, <1>4, <1>12
  <2>2. CASE i \in 1 .. n - 1
    <3>1. i + 1 \in 1 .. n
      BY <1>n, <2>2, <1>2
    <3>2. TopRight(i)
      BY <1>n, <2>2, <3>1, <1>10, <1>14 DEF StackInv, ValueInv
    <3> QED
      BY <1>n, <3>2, <1>12
  <2> QED
    BY <1>n, <2>1, <2>2, <1>2
<1>15. ValueInv'
  <2>1. prog.store = {} => orig = Initial
    BY <1>n DEF StackInv, ValueInv
  <2> QED
    BY <1>n, <2>1, <1>1, <1>2, <1>4, <1>7, <1>10, <1>11, <1>14 DEF ValueInv
<1> QED
  BY <1>n, <1>13, <1>15 DEF StackInv

(* A return stores the local of a writer, and its caller loads it.         *)
LEMMA ReturnRight ==
  ASSUME AnalysisInv, pc = "run", WritersRead, StackInv, Return
  PROVE  StackInv'
<1>n. PICK n \in Nat : n = Len(stack)
  BY DEF StackInv, ChainInv
<1> DEFINE f == stack[n].func
           c == stack[n - 1].func
           v == LoadedAfter(f, mem')
<1>1. /\ prog \in ProgramType /\ AnalysisExact /\ usedGlobals = prog.load \cup prog.store
      /\ orig' = orig /\ prog' = prog /\ n > 1
      /\ usedGlobals' = usedGlobals /\ read' = read /\ write' = write
      /\ mem' = (IF f \in write /\ f \in usedGlobals THEN stack[n].local ELSE mem)
      /\ stack' = SetLocal(Front(stack), v)
  BY <1>n DEF Return, AnalysisInv, analysis, Top
<1>2. stack \in Seq(Activation) /\ n \in Nat /\ n - 1 \in 1 .. n - 1 /\ n \in 2 .. n
  BY <1>n, <1>1 DEF StackInv, ChainInv
<1>3. /\ stack[n] \in Activation
      /\ stack[n - 1] \in Activation
  BY <1>n, <1>2
<1>4. /\ TopRight(n) /\ orig \in Value /\ mem \in Value
      /\ f # Main
      /\ f \notin write => TopRight(n - 1)
  BY <1>n, <1>2 DEF StackInv, ValueInv, ChainInv
<1>5. f \in write => f \in read
  BY <1>n, <1>1, CallerDoes
<1>6. f \in write => mem' = orig
  BY <1>n, <1>1, <1>4, <1>5 DEF TopRight
<1>7. f \notin write => mem' = mem
  BY <1>n, <1>1
<1>8. v = IF f \in write /\ c \in usedGlobals THEN mem' ELSE stack[n - 1].local
  BY <1>n DEF LoadedAfter, Caller
<1>9. v \in Value
  BY <1>n, <1>3, <1>4, <1>6, <1>8 DEF Activation
<1>10. /\ Front(stack) \in Seq(Activation) /\ Len(Front(stack)) = n - 1
       /\ \A i \in 1 .. n - 1 : Front(stack)[i] = stack[i]
  BY <1>n, <1>1, <1>2, PopFacts
<1> HIDE DEF v
<1>11. /\ stack' \in Seq(Activation) /\ Len(stack') = n - 1
       /\ \A i \in 1 .. n - 2 : stack'[i] = stack[i]
       /\ stack'[n - 1].func = c
       /\ stack'[n - 1].local = v
  <2> DEFINE s == Front(stack)
  <2>1. s \in Seq(Activation) /\ Len(s) = n - 1 /\ Len(s) >= 1 /\ Len(s) - 1 = n - 2
    BY <1>2, <1>10
  <2>2. \A i \in 1 .. n - 2 : i \in 1 .. n - 1
    BY <1>2
  <2>3. s[n - 1] = stack[n - 1] /\ \A i \in 1 .. n - 2 : s[i] = stack[i]
    BY <2>2, <1>2, <1>10
  <2>4. stack' = SetLocal(s, v)
    BY <1>1
  <2> HIDE DEF s
  <2>5. /\ stack' \in Seq(Activation) /\ Len(stack') = n - 1
        /\ \A i \in 1 .. n - 2 : stack'[i] = s[i]
        /\ stack'[n - 1].func = s[n - 1].func
        /\ stack'[n - 1].local = v
    <3>1. /\ SetLocal(s, v) \in Seq(Activation)
          /\ Len(s) \in Nat /\ Len(SetLocal(s, v)) = Len(s)
          /\ \A i \in 1 .. Len(s) - 1 : SetLocal(s, v)[i] = s[i]
          /\ SetLocal(s, v)[Len(s)].func = s[Len(s)].func
          /\ SetLocal(s, v)[Len(s)].local = v
      BY <2>1, <1>9, SetLocalFacts
    <3> QED
      BY <2>1, <2>4, <3>1
  <2> QED
    BY <2>3, <2>5
<1>12. \A i \in 1 .. n - 1 : stack'[i].func = stack[i].func
  BY <1>n, <1>2, <1>11
<1>13. ChainInv'
  <2>1. \A i \in 1 .. n - 2 : i \in 1 .. n - 1 /\ i + 1 \in 1 .. n - 1
    BY <1>2
  <2>2. \A i \in 2 .. n - 1 : i \in 2 .. n /\ i \in 1 .. n - 1
    BY <1>2
  <2>3. Len(stack') >= 1 /\ Len(stack') - 1 = n - 2
    BY <1>2, <1>11
  <2> QED
    BY <1>n, <2>1, <2>2, <2>3, <1>1, <1>2, <1>11, <1>12 DEF StackInv, ChainInv
<1>14. TopRight(n - 1)'
  BY <1>n, <1>1, <1>4, <1>6, <1>7, <1>8, <1>11 DEF TopRight
<1>15. ASSUME NEW i \in 1 .. n - 2, stack'[i + 1].func \notin write PROVE TopRight(i)'
  <2>1. i + 1 \in 1 .. n - 1 /\ i \in 1 .. n - 1
    BY <1>n, <1>2
  <2>2. TopRight(i)
    BY <1>n, <2>1, <1>12, <1>15 DEF StackInv, ValueInv
  <2>3. stack'[i] = stack[i]
    BY <1>n, <1>11
  <2> QED
    BY <1>n, <2>2, <2>3, <1>1, <1>6, <1>7 DEF TopRight
<1>16. ValueInv'
  <2>1. prog.store = {} => orig = Initial
    BY <1>n DEF StackInv, ValueInv
  <2>2. mem' \in Value /\ n - 1 - 1 = n - 2
    BY <1>n, <1>2, <1>4, <1>6, <1>7
  <2> QED
    BY <1>n, <2>1, <2>2, <1>1, <1>4, <1>11, <1>14, <1>15 DEF ValueInv
<1> QED
  BY <1>n, <1>13, <1>16 DEF StackInv

-----------------------------------------------------------------------------
(* The inductive invariant.                                                *)
LEMMA InvInit == Init => IInv
  BY ProgramsAssumption DEF Init, IInv, AnalysisInv

(* It holds in every reachable state.                                      *)
LEMMA Invariance == Spec => []IInv
<1>1. ASSUME IInv, [Next]_vars PROVE IInv'
  <2>1. AnalysisInv /\ AnalysisInv'
    BY <1>1, AnalysisStep DEF IInv
  <2>2. ASSUME (pc = "run" /\ WritersRead)' PROVE StackInv'
    <3>1. prog' = prog
      BY <1>1 DEF Next, vars, CollectUses, FinishFunction, EndGlobals, StoreGlobal, Call, Return
    <3>2. WritersRead
      BY <2>2, <3>1 DEF WritersRead, Reached
    <3>3. CASE EndGlobals
      BY <3>3, <2>1, StartRight
    <3>4. CASE pc = "run" /\ \E v \in Value : StoreGlobal(v)
      BY <3>2, <3>4, <2>1, <1>1, StoreRight DEF IInv
    <3>5. CASE pc = "run" /\ \E f \in Function : Call(f)
      BY <3>2, <3>5, <2>1, <1>1, CallRight DEF IInv
    <3>6. CASE pc = "run" /\ Return
      BY <3>2, <3>6, <2>1, <1>1, ReturnRight DEF IInv
    <3>7. CASE UNCHANGED vars
      <4>1. pc = "run" /\ StackInv
        BY <3>2, <3>7, <2>2, <1>1 DEF IInv, vars
      <4> QED
        BY <4>1, <3>7 DEF vars, analysis, StackInv, ChainInv, ValueInv, TopRight
    <3>8. CASE CollectUses \/ FinishFunction
      BY <3>8, <2>2 DEF CollectUses, FinishFunction
    <3> QED
      BY <3>3, <3>4, <3>5, <3>6, <3>7, <3>8, <1>1 DEF Next, StoreGlobal, Call, Return
  <2> QED
    BY <2>1, <2>2 DEF IInv
<1> QED
  BY InvInit, <1>1, PTL DEF Spec

(* For every program, the loop of the analysis ends with every function    *)
(* finished, and each knows exactly what its calls may do.                 *)
THEOREM AnalysisCorrect == Spec => []AnalysisRight
<1>1. IInv => AnalysisRight
  BY AnalysisInvRight DEF IInv
<1> QED
  BY Invariance, <1>1, PTL

(* Where whoever stores the global also loads it, every load of the        *)
(* program the pass leaves gives what it gave before.                      *)
THEOREM LocalisingCorrect == Spec => []LoadsAgreeIfWritersRead
<1>1. IInv => LoadsAgreeIfWritersRead
  <2> SUFFICES ASSUME IInv, WritersRead, pc = "run", Top.func \in prog.load PROVE Loaded = orig
    BY DEF LoadsAgreeIfWritersRead, LoadsAgree
  <2>1. /\ StackInv /\ usedGlobals = prog.load \cup prog.store
    BY DEF IInv, AnalysisInv
  <2>2. TopRight(Len(stack)) /\ (prog.store = {} => orig = Initial)
    BY <2>1 DEF StackInv, ValueInv
  <2> QED
    BY <2>1, <2>2 DEF Loaded, Top, TopRight
<1> QED
  BY Invariance, <1>1, PTL
=============================================================================

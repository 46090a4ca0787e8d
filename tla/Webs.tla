--------------------------------- MODULE Webs ---------------------------------
(***************************************************************************)
(* How the register allocator groups the du-chains of a function into webs *)
(* (src/src/GraphColor.cpp, makeWebs): a definition and the uses it        *)
(* reaches start as a web of their own; webs of the same virtual register  *)
(* that share a use are merged, two at a time, until none are left; then   *)
(* the webs are numbered, after those of the machine registers.            *)
(*                                                                         *)
(* A round of the merging walks over the pairs of a copy, temp, of the     *)
(* vector of webs, while merging erases webs from the vector itself: later *)
(* pairs of the same round still meet webs that are gone.                  *)
(***************************************************************************)
EXTENDS Integers, FiniteSets

CONSTANTS
  N,          \* number of definitions
  Use,        \* the uses
  Register,   \* the virtual registers
  Registers,  \* the functions definition -> register to consider
  NSymbols,   \* number of machine registers
  Chains      \* the functions definition -> set of uses to consider

Def == 1 .. N            \* in the order of the map du_chains
Web == 1 .. N            \* the web that starts with that definition
DefOp(d) == <<"def", d>>
UseOp(u) == <<"use", u>>
Operands == {DefOp(d) : d \in Def} \cup {UseOp(u) : u \in Use}
None == -1

ASSUME NAssumption == N \in Nat \ {0}
ASSUME SymbolsAssumption == NSymbols \in Nat
ASSUME ChainsAssumption == Chains \subseteq [Def -> SUBSET Use]
ASSUME RegistersAssumption == Registers \subseteq [Def -> Register]

VARIABLES
  chain,         \* definition -> the uses it reaches (du_chains), constant
  register,      \* definition -> what it defines, constant
  webs,          \* the webs in the vector
  defs, uses,    \* web -> what it holds, erased webs included
  temp,          \* the copy of the vector this round walks over
  i, j,          \* the pair the round looks at
  again,         \* has this round merged anything?
  operand2web,   \* operand -> number of its web
  pc

input == <<chain, register>>
vars  == <<input, webs, defs, uses, temp, i, j, again, operand2web, pc>>

(* A use reads one register, so chains of different registers are disjoint. *)
Init ==
  /\ chain \in Chains
  /\ register \in Registers
  /\ \A d, e \in Def : register[d] # register[e] => chain[d] \cap chain[e] = {}
  /\ webs = Web
  /\ defs = [w \in Web |-> {w}]
  /\ uses = chain
  /\ temp = Web
  /\ i = 1 /\ j = 2
  /\ again = FALSE
  /\ operand2web = [o \in Operands |-> None]
  /\ pc = "merge"

(* Bug: webs of one register are merged whether they share a use or not. *)
MergeableRegister ==
  /\ i \in temp /\ j \in temp
  /\ register[i] = register[j]

(* The register of a web is that of its first definition. *)
Alike(a, b) == register[a] = register[b] /\ uses[a] \cap uses[b] # {}

Mergeable == i \in temp /\ j \in temp /\ Alike(i, j)

(* The next pair of the two nested loops over temp. *)
Advance ==
  /\ i' = IF j < N THEN i ELSE i + 1
  /\ j' = IF j < N THEN j + 1 ELSE i + 2

(* Bug: the first web is not told the uses of the second. *)
AbsorbDefsOnly ==
  /\ defs' = [defs EXCEPT ![i] = @ \cup defs[j]]
  /\ uses' = uses

Absorb ==
  /\ defs' = [defs EXCEPT ![i] = @ \cup defs[j]]
  /\ uses' = [uses EXCEPT ![i] = @ \cup uses[j]]

MergePair ==
  /\ pc = "merge"
  /\ j =< N
  /\ Mergeable
  /\ Absorb
  /\ webs' = webs \ {j}
  /\ again' = TRUE
  /\ Advance
  /\ UNCHANGED <<input, temp, operand2web, pc>>

PassPair ==
  /\ pc = "merge"
  /\ j =< N
  /\ ~Mergeable
  /\ Advance
  /\ UNCHANGED <<input, webs, defs, uses, temp, again, operand2web, pc>>

(* Bug: the next round goes over the old copy. *)
EndRoundOldCopy ==
  /\ pc = "merge"
  /\ j > N
  /\ again
  /\ again' = FALSE
  /\ i' = 1 /\ j' = 2
  /\ UNCHANGED <<input, webs, defs, uses, temp, operand2web, pc>>

(* After a round that merged, another one over what is left. *)
EndRound ==
  /\ pc = "merge"
  /\ j > N
  /\ again
  /\ again' = FALSE
  /\ temp' = webs
  /\ i' = 1 /\ j' = 2
  /\ UNCHANGED <<input, webs, defs, uses, operand2web, pc>>

(* The number of a web: its position in the vector, after the symbols. *)
Sreg(w) == NSymbols + Cardinality({x \in webs : x < w})

Holds(w, o) == (o[1] = "def" /\ o[2] \in defs[w]) \/ (o[1] = "use" /\ o[2] \in uses[w])

NumberOf(o) ==
  IF \E w \in webs : Holds(w, o)
  THEN Sreg(CHOOSE w \in webs : Holds(w, o) /\ \A x \in webs : Holds(x, o) => x =< w)
  ELSE None

(* Bug: one round is thought to be enough. *)
NumberAtOnce ==
  /\ pc = "merge"
  /\ j > N
  /\ operand2web' = [o \in Operands |-> NumberOf(o)]
  /\ pc' = "done"
  /\ UNCHANGED <<input, webs, defs, uses, temp, i, j, again>>

(* An operand of several webs would end with the number of the last one.   *)
Number ==
  /\ pc = "merge"
  /\ j > N
  /\ ~again
  /\ operand2web' = [o \in Operands |-> NumberOf(o)]
  /\ pc' = "done"
  /\ UNCHANGED <<input, webs, defs, uses, temp, i, j, again>>

Next == MergePair \/ PassPair \/ EndRound \/ Number

Spec == Init /\ [][Next]_vars

(* makeWebs is sequential code. *)
FairSpec == Spec /\ WF_vars(Next)

-----------------------------------------------------------------------------
(* Definitions that reach a common use must share a register, and so must  *)
(* all that a chain of such pairs connects.                                *)
Closed(S) == \A d \in S : \A e \in Def : chain[d] \cap chain[e] # {} => e \in S

Connected(d, e) == \A S \in SUBSET Def : d \in S /\ Closed(S) => e \in S

(* The vector never loses a definition or a use, although webs that were   *)
(* already erased go on absorbing others in the same round.                *)
NothingLost ==
  \A d \in Def :
    /\ \E w \in webs : d \in defs[w]
    /\ \A u \in chain[d] : \E w \in webs : u \in uses[w]

(* No web holds definitions that nothing connects, or a use that none of   *)
(* its definitions reaches: two values are never put in one register for   *)
(* no reason.                                                              *)
OnlyConnected ==
  /\ \A S \in {S \in SUBSET Def : Closed(S)} :
       \A w \in Web : defs[w] \subseteq S \/ defs[w] \cap S = {}
  /\ \A w \in Web : uses[w] = {u \in Use : \E d \in defs[w] : u \in chain[d]}

(* At the end a definition and a use it reaches have the same number, so   *)
(* that they get the same register; unconnected definitions have different *)
(* ones.                                                                   *)
NumbersAreWebs ==
  pc = "done" =>
    \A d \in Def :
      /\ operand2web[DefOp(d)] >= NSymbols
      /\ \A u \in chain[d] : operand2web[UseOp(u)] = operand2web[DefOp(d)]
      /\ \A e \in Def :
           (operand2web[DefOp(d)] = operand2web[DefOp(e)]) = Connected(d, e)

(* Every round but the last takes a web away. *)
Termination == <>(pc = "done")

-----------------------------------------------------------------------------
(* The inductive invariant.  A web a erased in this round may still be     *)
(* alike to a later web b in the vector only while the web that absorbed a *)
(* is the first of the current pair and has yet to meet b.                 *)
StillToMeet(k, l) ==
  /\ \A a, b \in temp :
       k < a /\ a < b /\ a \notin webs /\ b \in webs /\ Alike(a, b) =>
         /\ k \in webs /\ register[k] = register[a] /\ uses[a] \subseteq uses[k]
         /\ a < l /\ l =< b
  /\ k \in temp \ webs => \A b \in temp : l =< b /\ Alike(k, b) => b \notin webs

(* A round that has merged nothing found no two webs alike among those it  *)
(* has compared.                                                           *)
NothingAlike(k, l) ==
  /\ webs = temp
  /\ \A a, b \in temp : a < b /\ (a < k \/ (a = k /\ b < l)) => ~Alike(a, b)

ShapeInv ==
  /\ chain \in [Def -> SUBSET Use]
  /\ \A d, e \in Def : register[d] # register[e] => chain[d] \cap chain[e] = {}
  /\ webs \subseteq temp /\ temp \subseteq Web
  /\ defs \in [Web -> SUBSET Def]
  /\ uses \in [Web -> SUBSET Use]
  /\ i \in 1 .. N /\ j \in 2 .. N + 1 /\ i < j /\ (j = N + 1 => i = N)
  /\ \A w \in Web : w \in defs[w] /\ \A d \in defs[w] : register[d] = register[w]

IInv ==
  /\ ShapeInv
  /\ NothingLost
  /\ OnlyConnected
  /\ pc = "merge" => StillToMeet(i, j) /\ (~again => NothingAlike(i, j))
  /\ NumbersAreWebs
==============================================================================

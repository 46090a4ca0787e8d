-------------------------------- MODULE Mem2reg --------------------------------
(***************************************************************************)
(* Local variables become values (src/src/Mem2reg.cpp): loads and stores   *)
(* of an alloca give way to one operand with many definitions, phis are    *)
(* put where those meet, a walk over the dominator tree gives every        *)
(* definition a name of its own, and the copies the stores became are      *)
(* taken out again.  Then the program found and the program left run side  *)
(* by side.                                                                *)
(*                                                                         *)
(* A block is its list of instructions that read or write variables,       *)
(* without the branch.  "use" stands for any instruction that reads an     *)
(* operand.  Dominance is the definition that Dominators implements.       *)
(***************************************************************************)
EXTENDS Dominance, SequencesExt

CONSTANTS
  N,          \* number of blocks
  Variable,   \* the allocas, in the order of the entry block: 1 .. some number
  Graphs,     \* the graphs to consider: block -> list of blocks
  Codes       \* what they may hold: block -> list of instructions

Block == 1 .. N
Entry == 1
None  == 0

(* Operands. *)
Addr(v)    == <<"addr", v, 0>>     \* an alloca
Temp(k)    == <<"temp", k, 0>>     \* what a load gives
Param(k)   == <<"param", k, 0>>    \* a parameter of the function
Const(k)   == <<"const", k, 0>>
Name(v, k) == <<"name", v, k>>     \* the operand for v, and with k > 0 its k-th new name
Zero  == Const(0)
Undef == <<"undef", 0, 0>>

IsName(o) == o[1] = "name" /\ o[3] = 0

(* Instructions.  The address of a store is its def here. *)
Load(v, t)  == [op |-> "load", def |-> t, src |-> Addr(v)]
Store(v, o) == [op |-> "store", def |-> Addr(v), src |-> o]
Use(o)      == [op |-> "use", def |-> Undef, src |-> o]
Add(d, o, n) == [op |-> "add", def |-> d, src |-> o, id |-> n]     \* d = o + 0

ASSUME VariableAssumption == IsFiniteSet(Variable) /\ Variable = 1 .. Cardinality(Variable)
ASSUME GraphsAssumption ==
  \A g \in Graphs :
    /\ g \in [Block -> Seq(Block)]
    /\ ReachableFrom(Entry, [b \in Block |-> ToSet(g[b])], {}) = Block
    /\ \A b \in Block : Entry \notin ToSet(g[b])

(* What is loaded is used in the same block before the variable is stored  *)
(* to: an assignment evaluates its expression and then stores.  (Only      *)
(* where Global2Local has put a local in the place of a global, and one    *)
(* expression reads it and then calls a function that stores to it, does a *)
(* load lie before a store and its use behind; the pass then gives the use *)
(* the value stored.)                                                      *)
Settled(c) ==
  \A b \in Block : \A k \in DOMAIN c[b] : \A n \in k + 1 .. Len(c[b]) :
    c[b][k].op = "load" /\ c[b][n].src = c[b][k].def =>
      \A m \in k + 1 .. n - 1 : c[b][m].def # c[b][k].src

ASSUME CodesAssumption == \A c \in Codes : Settled(c)

VARIABLES
  prog,         \* the function found, [succ, code], constant
  succ,         \* block -> list of blocks
  phis,         \* block -> its phis: [def, origin, src: block -> operand]
  code,         \* block -> its other instructions
  children,     \* block -> its children in the dominator tree
  domFrontier,  \* block -> set of blocks
  cur,          \* the block or the variable a loop has come to
  assigns, worklist, inWorklist, inserted,    \* of insertPhiInstruction
  stacks,       \* variable -> its names, the last one on top
  names,        \* variable -> number of names it has
  frames,       \* the calls of rename: [block, counter, todo]
  addZeroIns,   \* number of copies made for stores, which carry their number
  run,          \* the two programs: [at, mem, val, seen]
  pc

graph  == <<prog, succ, children, domFrontier>>
places == <<assigns, worklist, inWorklist, inserted>>
walk   == <<stacks, names, frames>>
vars   == <<graph, phis, code, cur, places, walk, addZeroIns, run, pc>>

Init ==
  /\ prog \in [succ : Graphs, code : Codes]
  /\ succ = prog.succ
  /\ phis = [b \in Block |-> <<>>]
  /\ code = prog.code
  /\ children = [b \in Block |-> {}]
  /\ domFrontier = [b \in Block |-> {}]
  /\ cur = 1
  /\ assigns = {} /\ worklist = <<>> /\ inWorklist = {} /\ inserted = {}
  /\ stacks = [v \in Variable |-> <<>>]
  /\ names = [v \in Variable |-> 0]
  /\ frames = <<>>
  /\ addZeroIns = 0
  /\ run = None
  /\ pc = "check"

Edges == [b \in Block |-> ToSet(succ[b])]

-----------------------------------------------------------------------------
(* checkCondBranch, and the dominator tree                                 *)

(* A branch with one target only is made unconditional. *)
CheckCondBranch ==
  /\ pc = "check"
  /\ cur \in Block
  /\ succ' = [succ EXCEPT ![cur] = IF Len(@) = 2 /\ @[1] = @[2] THEN <<@[1]>> ELSE @]
  /\ cur' = cur + 1
  /\ UNCHANGED <<prog, children, domFrontier, phis, code, places, walk, addZeroIns, run, pc>>

ComputeDominance ==
  /\ pc = "check"
  /\ cur \notin Block
  /\ \E dom \in {DominatorsOf(Entry, Edges)} :
       /\ children' = [b \in Block |-> TreeChildren(dom, b)]
       /\ domFrontier' = [b \in Block |-> FrontierOf(Edges, dom, b)]
  /\ cur' = 1
  /\ pc' = "uses"
  /\ UNCHANGED <<prog, succ, phis, code, places, walk, addZeroIns, run>>

-----------------------------------------------------------------------------
(* insertPhiInstruction                                                    *)

UsesOf(v) ==
  {<<b, k>> \in Block \X (1 .. Max({Len(code[b]) : b \in Block})) :
     k =< Len(code[b]) /\ Addr(v) \in {code[b][k].def, code[b][k].src}}

(* The use list of an alloca has the order in which the program was made.  *)
First(uses) ==
  CHOOSE u \in uses : \A w \in uses : u[1] < w[1] \/ (u[1] = w[1] /\ u[2] =< w[2])

Replace(old, new, o) == IF o = old THEN new ELSE o

ReplaceInCode(old, new, c) ==
  [b \in Block |-> [k \in DOMAIN c[b] |-> [c[b][k] EXCEPT !.src = Replace(old, new, @)]]]

(* A load goes, and whatever used its result uses the operand of v.        *)
PromoteLoad(v, b, k) ==
  /\ code[b][k].op = "load"
  /\ code' = ReplaceInCode(code[b][k].def, Name(v, 0), [code EXCEPT ![b] = RemoveAt(@, k)])
  /\ UNCHANGED <<assigns, addZeroIns>>

(* A store becomes a copy to that operand, unless it stores what was just  *)
(* loaded from there.                                                      *)
PromoteStore(v, b, k) ==
  /\ code[b][k].op = "store"
  /\ IF code[b][k].src = Name(v, 0)
     THEN /\ code' = [code EXCEPT ![b] = RemoveAt(@, k)]
          /\ UNCHANGED <<assigns, addZeroIns>>
     ELSE /\ addZeroIns' = addZeroIns + 1
          /\ code' = [code EXCEPT ![b][k] = Add(Name(v, 0), @.src, addZeroIns')]
          /\ assigns' = assigns \cup {b}

PromoteUse ==
  /\ pc = "uses"
  /\ cur \in Variable
  /\ UsesOf(cur) # {}
  /\ LET u == First(UsesOf(cur)) IN PromoteLoad(cur, u[1], u[2]) \/ PromoteStore(cur, u[1], u[2])
  /\ UNCHANGED <<graph, phis, cur, worklist, inWorklist, inserted, walk, run, pc>>

(* insertPhiInstruction of BasicBlock: later phis go in front. *)
Phi(v) == [def |-> Name(v, 0), origin |-> v, src |-> <<>>]

StartPhis ==
  /\ pc = "uses"
  /\ cur \in Variable
  /\ UsesOf(cur) = {}
  /\ pc' = "phis"
  /\ UNCHANGED <<graph, phis, code, cur, places, walk, addZeroIns, run>>

(* The next block with an assignment, in whatever order the set has. *)
TakeAssign ==
  /\ pc = "phis"
  /\ worklist = <<>>
  /\ \E b \in assigns :
       /\ assigns' = assigns \ {b}
       /\ worklist' = <<b>>
       /\ inWorklist' = inWorklist \cup {b}
  /\ UNCHANGED <<graph, phis, code, cur, inserted, walk, addZeroIns, run, pc>>

(* Bug: a block is not taken for one that assigns because it has a phi. *)
AssigningToo(new) == {}

Assigning(new) == new \ inWorklist

PlacePhis ==
  /\ pc = "phis"
  /\ worklist # <<>>
  /\ LET new == domFrontier[Head(worklist)] \ inserted IN
       /\ phis' = [b \in Block |-> IF b \in new THEN <<Phi(cur)>> \o phis[b] ELSE phis[b]]
       /\ inserted' = inserted \cup new
       /\ inWorklist' = inWorklist \cup Assigning(new)
       /\ worklist' = Tail(worklist) \o SetToSeq(Assigning(new))
  /\ UNCHANGED <<graph, code, cur, assigns, walk, addZeroIns, run, pc>>

NextAlloca ==
  /\ pc = "phis"
  /\ worklist = <<>> /\ assigns = {}
  /\ inWorklist' = {} /\ inserted' = {}
  /\ cur' = cur + 1
  /\ pc' = "uses"
  /\ UNCHANGED <<graph, phis, code, assigns, worklist, walk, addZeroIns, run>>

-----------------------------------------------------------------------------
(* rename                                                                  *)

StartRename ==
  /\ pc = "uses"
  /\ cur \notin Variable
  /\ frames' = <<[block |-> None, counter |-> [v \in Variable |-> 0], todo |-> {Entry}]>>
  /\ pc' = "rename"
  /\ UNCHANGED <<graph, phis, code, cur, places, stacks, names, addZeroIns, run>>

(* The state of the loop over the instructions of a block: a definition of *)
(* a variable gets a name, then the use is given the name on top.          *)
NewName(st, v) ==
  [st EXCEPT !.names[v] = @ + 1, !.stacks[v] = Append(@, Name(v, st.names[v] + 1)), !.counter[v] = @ + 1]

TopName(st, o) == IF IsName(o) /\ st.stacks[o[2]] # <<>> THEN Last(st.stacks[o[2]]) ELSE o

Defined(st, v) == Last(st.stacks[v])

RenamePhi(st, p) ==
  LET named == NewName(st, p.origin)
  IN  [named EXCEPT !.phis = Append(@, [p EXCEPT !.def = Defined(named, p.origin)])]

RenameIns(st, i) ==
  IF i.op = "add"
  THEN LET named == NewName(st, i.def[2])
       IN  [named EXCEPT !.code = Append(@, [i EXCEPT !.def = Defined(named, i.def[2]),
                                                      !.src = TopName(named, @)])]
  ELSE [st EXCEPT !.code = Append(@, [i EXCEPT !.src = TopName(st, @)])]

RenamedBlock(b) ==
  LET start   == [stacks |-> stacks, names |-> names, counter |-> [v \in Variable |-> 0],
                  phis |-> <<>>, code |-> <<>>]
      located == FoldLeft(RenamePhi, start, phis[b])
  IN  FoldLeft(RenameIns, located, code[b])

(* addSrc for every phi of a successor; zero where nothing was stored.     *)
AddSrc(p, b, st) ==
  LET names_of == st.stacks[p.origin] IN
    IF b \in DOMAIN p.src THEN p
    ELSE [p EXCEPT !.src = [c \in DOMAIN @ \cup {b} |->
            IF c # b THEN @[c] ELSE IF names_of = <<>> THEN Zero ELSE Last(names_of)]]

(* The children are taken in the order of their numbers. *)
RenameBlock ==
  /\ pc = "rename"
  /\ frames # <<>>
  /\ Last(frames).todo # {}
  /\ \E b \in {Min(Last(frames).todo)} : \E st \in {RenamedBlock(b)} :
       /\ code' = [code EXCEPT ![b] = st.code]
       /\ LET own == [phis EXCEPT ![b] = st.phis] IN
            phis' = [c \in Block |->
                       IF c \in Edges[b] THEN [k \in DOMAIN own[c] |-> AddSrc(own[c][k], b, st)]
                       ELSE own[c]]
       /\ stacks' = st.stacks /\ names' = st.names
       /\ frames' = Append([frames EXCEPT ![Len(frames)].todo = @ \ {b}],
                           [block |-> b, counter |-> st.counter, todo |-> children[b]])
  /\ UNCHANGED <<graph, cur, places, addZeroIns, run, pc>>

(* Bug: one name is popped for each variable that has a definition here. *)
PoppedOne(s, n) == IF n > 0 THEN Front(s) ELSE s

Popped(s, n) == SubSeq(s, 1, Len(s) - n)

RenameReturn ==
  /\ pc = "rename"
  /\ frames # <<>>
  /\ Last(frames).todo = {}
  /\ stacks' = [v \in Variable |-> Popped(stacks[v], Last(frames).counter[v])]
  /\ frames' = Front(frames)
  /\ UNCHANGED <<graph, phis, code, cur, places, names, addZeroIns, run, pc>>

-----------------------------------------------------------------------------
(* cleanAddZeroIns                                                         *)

StartClean ==
  /\ pc = "rename"
  /\ frames = <<>>
  /\ cur' = 1
  /\ pc' = "clean"
  /\ UNCHANGED <<graph, phis, code, places, walk, addZeroIns, run>>

(* The n-th copy made is the k-th instruction of block b. *)
IsCopy(n, b, k) == code[b][k].op = "add" /\ code[b][k].id = n

(* A copy that its block needs, to have more than a jump, or that copies a *)
(* parameter stays.                                                        *)
Kept(b, k) ==
  \/ Len(code[b]) = 1 /\ phis[b] = <<>> /\ Len(succ[b]) = 1
  \/ code[b][k].src[1] = "param"

KeepCopy ==
  /\ pc = "clean"
  /\ \E b \in Block : \E k \in DOMAIN code[b] : IsCopy(cur, b, k) /\ Kept(b, k)
  /\ cur' = cur + 1
  /\ UNCHANGED <<graph, phis, code, places, walk, addZeroIns, run, pc>>

RemoveCopy ==
  /\ pc = "clean"
  /\ \E b \in Block : \E k \in DOMAIN code[b] :
       /\ IsCopy(cur, b, k)
       /\ ~Kept(b, k)
       /\ LET old == code[b][k].def  new == code[b][k].src IN
            /\ code' = ReplaceInCode(old, new, [code EXCEPT ![b] = RemoveAt(@, k)])
            /\ phis' = [c \in Block |-> [n \in DOMAIN phis[c] |->
                 [phis[c][n] EXCEPT !.src = [d \in DOMAIN @ |-> Replace(old, new, @[d])]]]]
  /\ cur' = cur + 1
  /\ UNCHANGED <<graph, places, walk, addZeroIns, run, pc>>

-----------------------------------------------------------------------------
(* The two programs take the same way through the graph.  Operands have    *)
(* values once they are defined; "seen" is what the uses of the last block *)
(* saw in either.                                                          *)

ValueOf(val, o) ==
  IF o[1] \in {"const", "param"} THEN o ELSE IF o \in DOMAIN val THEN val[o] ELSE Undef

Bind(val, o, x) == [p \in DOMAIN val \cup {o} |-> IF p = o THEN x ELSE val[p]]

Execute(st, i) ==
  IF i.op = "use" THEN [st EXCEPT !.seen = Append(@, ValueOf(st.val, i.src))]
  ELSE [st EXCEPT !.val = Bind(@, i.def, ValueOf(@, i.src))]

(* What is loaded is used in the same block, so only memory lasts. *)
Memory(val) == [o \in {o \in DOMAIN val : o[1] = "addr"} |-> val[o]]

AfterFound(val, b) == FoldLeft(Execute, [val |-> val, seen |-> <<>>], prog.code[b])

(* The phis of a block read before any of them writes. *)
AfterLeft(val, from, b) ==
  LET of(o)   == CHOOSE k \in DOMAIN phis[b] : phis[b][k].def = o
      defs    == {phis[b][k].def : k \in DOMAIN phis[b]}
      entered == [o \in DOMAIN val \cup defs |->
                    IF o \in defs THEN ValueOf(val, phis[b][of(o)].src[from]) ELSE val[o]]
  IN  FoldLeft(Execute, [val |-> entered, seen |-> <<>>], code[b])

RunBlock(found, left, from, b) ==
  LET f == AfterFound(found, b)  l == AfterLeft(left, from, b)
  IN  [at |-> b, found |-> Memory(f.val), left |-> l.val, seen |-> <<f.seen, l.seen>>]

StartRun ==
  /\ pc = "clean"
  /\ cur > addZeroIns
  /\ run' = RunBlock(<<>>, <<>>, None, Entry)
  /\ pc' = "run"
  /\ UNCHANGED <<graph, phis, code, cur, places, walk, addZeroIns>>

RunOn ==
  /\ pc = "run"
  /\ \E b \in Edges[run.at] : run' = RunBlock(run.found, run.left, run.at, b)
  /\ UNCHANGED <<graph, phis, code, cur, places, walk, addZeroIns, pc>>

Next ==
  \/ CheckCondBranch
  \/ ComputeDominance
  \/ PromoteUse
  \/ StartPhis
  \/ TakeAssign
  \/ PlacePhis
  \/ NextAlloca
  \/ StartRename
  \/ RenameBlock
  \/ RenameReturn
  \/ StartClean
  \/ KeepCopy
  \/ RemoveCopy
  \/ StartRun
  \/ RunOn

Spec == Init /\ [][Next]_vars

-----------------------------------------------------------------------------
(* Whatever way the program takes, every use sees the value it would have  *)
(* seen, if there was one.                                                 *)
UsesAgree ==
  pc = "run" =>
    /\ Len(run.seen[1]) = Len(run.seen[2])
    /\ \A k \in DOMAIN run.seen[1] : run.seen[1][k] \in {Undef, run.seen[2][k]}

(* The program left is in static single assignment form: an operand has    *)
(* one definition, which dominates every use of it, a use by a phi being   *)
(* at the end of the source block; and phis have a source for every        *)
(* predecessor.                                                            *)
Named(o)   == o[1] = "name" /\ o[3] > 0
Defs       == UNION {{<<"phi", b, k>> : k \in DOMAIN phis[b]} \cup
                     {<<"ins", b, k>> : k \in {k \in DOMAIN code[b] : code[b][k].op = "add"}} : b \in Block}
DefAt(d)   == IF d[1] = "phi" THEN phis[d[2]][d[3]].def ELSE code[d[2]][d[3]].def
Before(d, b, k) == d[2] = b /\ (d[1] = "ins" => d[3] < k)

StrictSSA ==
  pc = "run" /\ run.at = Entry =>
    /\ \A d, e \in Defs : DefAt(d) = DefAt(e) => d = e
    /\ \A dom \in {DominatorsOf(Entry, Edges)} : \A b \in Block :
         LET defined(o, k) == \E d \in Defs : /\ DefAt(d) = o
                                               /\ \/ d[2] \in dom[b] \ {b}
                                                  \/ Before(d, b, k)
         IN  /\ \A k \in DOMAIN code[b] : Named(code[b][k].src) => defined(code[b][k].src, k)
             /\ \A c \in Edges[b] : \A k \in DOMAIN phis[c] :
                  /\ b \in DOMAIN phis[c][k].src
                  /\ LET o == phis[c][k].src[b] IN Named(o) => defined(o, Len(code[b]) + 1)
================================================================================

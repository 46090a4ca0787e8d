---------------------------------- MODULE IR ----------------------------------
(***************************************************************************)
(* Functions in SSA form as the passes of the optimiser see them:          *)
(* src/src/Instruction.cpp, BasicBlock.cpp, Operand.cpp, Function.cpp.     *)
(*                                                                         *)
(* An operand is a pair <<kind, n>>: "t" an int or address, "f" a float,   *)
(* "p" a parameter, "a" one that is an array, "q" one that is a float, "g" *)
(* a global, "c" a constant and "d" one of type float.  A constant keeps   *)
(* its value as a double, here in quarters; an int prints its integer      *)
(* part.  An instruction is known by a number, its place in memory; the    *)
(* use lists hold these numbers, and an instruction that has left its      *)
(* block may still be in them.                                             *)
(***************************************************************************)
EXTENDS Integers, SequencesExt

(* The loop "for x of items: f = Step(f, x)"; the set makes TLC finish a    *)
(* step before it begins the next one.                                     *)
ForEach(Step(_, _), f, items) ==
  LET after[k \in 0 .. Len(items)] ==
        IF k = 0 THEN f ELSE CHOOSE r \in {Step(g, items[k]) : g \in {after[k - 1]}} : TRUE
  IN  after[Len(items)]

Each(Of(_), items) == ForEach(LAMBDA s, x : Append(s, Of(x)), <<>>, items)

(* A finite set as a sequence, in the order of a total order.              *)
InOrder(S, before(_, _)) ==
  ForEach(LAMBDA s, k : Append(s, CHOOSE x \in S \ ToSet(s) : ~\E y \in S \ ToSet(s) : before(y, x)),
          <<>>, [k \in 1 .. Cardinality(S) |-> k])
Sorted(S) == InOrder(S, <)

None == <<"none", 0>>
T(n) == <<"t", n>>
R(n) == <<"f", n>>
P(n) == <<"p", n>>
A(n) == <<"a", n>>
Q(n) == <<"q", n>>
G(n) == <<"g", n>>
Quarters == 4
WordBytes == 4
Const(q) == <<"c", q>>
C(n) == Const(Quarters * n)
FloatConst(q) == <<"d", q>>

IsConst(o)  == o[1] \in {"c", "d"}
IsGlobal(o) == o[1] = "g"
IsArray(o)  == o[1] = "a"
IsParam(o)  == o[1] \in {"p", "a", "q"}
IsFloat(o)  == o[1] \in {"f", "d", "q"}
(* Constants by value, what is older by its label.                         *)
Before(a, b) ==
  LET rank(o) == CHOOSE k \in 1 .. 9 : <<"none", "c", "d", "g", "p", "q", "a", "t", "f">>[k] = o[1]
  IN  rank(a) < rank(b) \/ (rank(a) = rank(b) /\ a[2] < b[2])

(* C's division, rounding to zero, and remainder.                          *)
Quo(a, b) == IF (a >= 0) = (b > 0) THEN (IF a >= 0 THEN a ELSE -a) \div (IF b > 0 THEN b ELSE -b)
             ELSE -((IF a >= 0 THEN a ELSE -a) \div (IF b > 0 THEN b ELSE -b))
Rem(a, b) == a - b * Quo(a, b)
Bool(p)   == IF p THEN 1 ELSE 0

(* What a constant is as an int: getValue converted, and what it prints.   *)
IntOf(o) == Quo(o[2], Quarters)
IsZero(o) == IsConst(o) /\ o[2] = 0
(* toStr: constants by their integer part, everything else by its name.    *)
Str(o) == IF IsConst(o) THEN <<"c", IntOf(o)>> ELSE o

-----------------------------------------------------------------------------
(* The classes of instructions.  use: operands in order; to: targets of a  *)
(* branch; src: block -> operand of a phi, kept beside its use; orig: what *)
(* the targets of a conditional branch were called when a pass began; n:   *)
(* the cells an alloca reserves or a gep steps over; init: the address of  *)
(* the element before, and how far it is from the array's, in the          *)
(* initialisation of an array.                                             *)
Blank == [cls |-> "none", op |-> "none", def |-> None, use |-> <<>>, to |-> <<>>,
          src |-> <<>>, orig |-> <<0, 0>>, n |-> 0, keep |-> FALSE, init |-> <<>>]

Bin(o, d, a, b) == [Blank EXCEPT !.cls = "bin", !.op = o, !.def = d, !.use = <<a, b>>]
Cmp(o, d, a, b) == [Blank EXCEPT !.cls = "cmp", !.op = o, !.def = d, !.use = <<a, b>>]
Br(b)           == [Blank EXCEPT !.cls = "br", !.to = <<b>>]
CondBr(t, e, c) == [Blank EXCEPT !.cls = "cond", !.use = <<c>>, !.to = <<t, e>>]
Ret(o)          == [Blank EXCEPT !.cls = "ret", !.use = IF o = None THEN <<>> ELSE <<o>>]
Alloca(d, n)    == [Blank EXCEPT !.cls = "alloca", !.def = d, !.n = n]
(* One that holds the address of an array parameter, or an array.          *)
AllocaArray(d, n) == [Alloca(d, n) EXCEPT !.op = "array"]
Load(d, a)      == [Blank EXCEPT !.cls = "load", !.def = d, !.use = <<a>>]
Store(a, o)     == [Blank EXCEPT !.cls = "store", !.use = <<a, o>>]
Call(d, g, as)  == [Blank EXCEPT !.cls = "call", !.op = g, !.def = d, !.use = as]
Zext(d, a)      == [Blank EXCEPT !.cls = "zext", !.def = d, !.use = <<a>>]
Xor(d, a)       == [Blank EXCEPT !.cls = "xor", !.def = d, !.use = <<a>>]
Gep(d, a, i, n) == [Blank EXCEPT !.cls = "gep", !.def = d, !.use = <<a, i>>, !.n = n]
Fptosi(d, a)    == [Blank EXCEPT !.cls = "fptosi", !.def = d, !.use = <<a>>]
Sitofp(d, a)    == [Blank EXCEPT !.cls = "sitofp", !.def = d, !.use = <<a>>]
Bitcast(d, a)   == [Blank EXCEPT !.cls = "bitcast", !.def = d, !.use = <<a>>]
Shl(d, a, k)    == [Blank EXCEPT !.cls = "shl", !.def = d, !.use = <<a, k>>]
Ashr(d, a, k)   == [Blank EXCEPT !.cls = "ashr", !.def = d, !.use = <<a, k>>]
(* srcs: block -> operand; the operands are the sources in some order.     *)
Phi(d, srcs)    == [Blank EXCEPT !.cls = "phi", !.def = d, !.src = srcs,
                                 !.use = LET bs == Sorted(DOMAIN srcs)
                                         IN  [k \in 1 .. Len(bs) |-> srcs[bs[k]]]]

HasDef(in)  == in.def # None
IsAddZero(in) == in.cls = "bin" /\ in.op = "add" /\ IsZero(in.use[2])
(* getUse: a phi leaves out uses of its own result.                        *)
Uses(in) == IF in.cls = "phi" THEN SelectSeq(in.use, LAMBDA o : o # in.def) ELSE in.use

-----------------------------------------------------------------------------
(* A function: list (blocks, in order, the entry first), code, pred, succ  *)
(* (block -> sequence), ins (number -> instruction), uses (operand ->      *)
(* numbers), next (labels and numbers come from one counter), stores and   *)
(* stores1 (block -> addresses stored to before and up to its end), dom     *)
(* (what the loop passes take for dominators, kept from pass to pass),     *)
(* fails (a pass has met a loop that does not end, or a null pointer).            *)
Ins(f, i)  == f.ins[i]
Entry(f)   == f.list[1]
BlockSet(f) == ToSet(f.list)
Placed(f)  == UNION {ToSet(f.code[b]) : b \in BlockSet(f)}
Parent(f, i) == CHOOSE b \in BlockSet(f) : i \in ToSet(f.code[b])
UsesOf(f, o) == IF o \in DOMAIN f.uses THEN f.uses[o] ELSE <<>>
UsersNum(f, o) == Len(UsesOf(f, o))
(* getDef of an operand: the instruction that last claimed it.             *)
DefsOf(f, o) == {i \in DOMAIN f.ins : f.ins[i].def = o /\ o # None}
DefOf(f, o)  == LET d == DefsOf(f, o) IN IF d = {} THEN 0 ELSE Max(d)
PlacedDefs(f, o) == {i \in Placed(f) : f.ins[i].def = o}

(* The use lists of constants are never read; they are not kept.           *)
AddUse(f, o, i) ==
  IF IsConst(o) THEN f ELSE [f EXCEPT !.uses = (o :> Append(UsesOf(f, o), i)) @@ f.uses]
DropUse(f, o, i) ==
  IF IsConst(o) \/ o \notin DOMAIN f.uses THEN f
  ELSE [f EXCEPT !.uses[o] = RemoveFirst(@, i)]
AddUses(f, os, i)  == ForEach(LAMBDA g, o : AddUse(g, o, i), f, os)
DropUses(f, os, i) == ForEach(LAMBDA g, o : DropUse(g, o, i), f, os)

(* The constructor: a new instruction, not in a block yet; its number is   *)
(* the counter's value before.                                             *)
New(f, in) ==
  AddUses([f EXCEPT !.ins = (f.next :> in) @@ f.ins, !.next = @ + 1], in.use, f.next)

PosOf(s, x) == CHOOSE k \in 1 .. Len(s) : s[k] = x
Append1(f, b, i)       == [f EXCEPT !.code[b] = Append(@, i)]
InsertFront(f, b, i)   == [f EXCEPT !.code[b] = <<i>> \o @]
InsertBefore(f, b, i, j) == [f EXCEPT !.code[b] = InsertAt(@, PosOf(@, j), i)]
InsertAfter(f, b, i, j)  == [f EXCEPT !.code[b] = InsertAt(@, PosOf(@, j) + 1, i)]
(* BasicBlock::remove: the instruction keeps its operands and their uses.  *)
Unlink(f, i) ==
  IF i \notin Placed(f) THEN f ELSE [f EXCEPT !.code[Parent(f, i)] = Remove(@, i)]
ReplaceIns(f, i, j) == [f EXCEPT !.code[Parent(f, i)] = [k \in 1 .. Len(@) |-> IF @[k] = i THEN j ELSE @[k]]]
(* The destructor: its result has no definition any more.                  *)
Delete(f, i) == [DropUses(Unlink(f, i), Uses(f.ins[i]), i) EXCEPT !.ins[i].def = None]

NewAppend(f, b, in)     == Append1(New(f, in), b, f.next)
NewBefore(f, b, in, j)  == InsertBefore(New(f, in), b, f.next, j)
NewAfter(f, b, in, j)   == InsertAfter(New(f, in), b, f.next, j)
NewFront(f, b, in)      == InsertFront(New(f, in), b, f.next)

-----------------------------------------------------------------------------
(* Which operands replaceUse changes: a call and a phi change all that are *)
(* old, the others the first.                                              *)
Occurrences(in, old) ==
  LET at == {k \in DOMAIN in.use : in.use[k] = old}
  IN  IF in.cls \in {"call", "phi"} \/ at = {} THEN at ELSE {Min(at)}

(* A use entry goes and one comes for every operand changed; for a phi, for*)
(* every source.                                                           *)
ReplaceUse(f, i, old, new) ==
  LET in    == f.ins[i]
      at    == Occurrences(in, old)
      from  == {b \in DOMAIN in.src : in.src[b] = old}
      times == IF in.cls = "phi" THEN Cardinality(from) ELSE Cardinality(at)
      out   == [in EXCEPT !.use = [k \in DOMAIN @ |-> IF k \in at THEN new ELSE @[k]],
                          !.src = IF from = {} THEN @ ELSE [b \in DOMAIN @ |-> IF b \in from THEN new ELSE @[b]]]
  IN  ForEach(LAMBDA g, k : AddUse(DropUse(g, old, i), new, i),
               [f EXCEPT !.ins[i] = out], [k \in 1 .. times |-> k])

(* "while there is a use: replace it"; for ever if a use stays.            *)
ReplaceUses(f, old, new) ==
  LET Ended(g) == [g EXCEPT !.fails = @ \/ (UsesOf(f, old) # <<>> /\ (old = new \/ UsesOf(g, old) # <<>>))]
  IN  Ended(ForEach(LAMBDA h, i : ReplaceUse(h, i, old, new), f, UsesOf(f, old)))

-----------------------------------------------------------------------------
(* Phi: addSrc, removeSrc, removeUse, cleanUse.  addSrc appends the operand*)
(* and counts the use even if the block has a source already, which stays. *)
AddSrc(f, i, b, o) ==
  AddUse([f EXCEPT !.ins[i].use = Append(@, o), !.ins[i].src = @ @@ (b :> o)], o, i)
RemoveSrc(f, i, b) ==
  LET in == f.ins[i]
  IN  IF b \notin DOMAIN in.src THEN f
      ELSE DropUse([f EXCEPT !.ins[i].src = RestrictDomain(@, LAMBDA c : c # b),
                             !.ins[i].use = RemoveFirst(@, in.src[b])], in.src[b], i)
CleanUse(f, i) ==
  LET in == f.ins[i]
  IN  ForEach(LAMBDA g, b : DropUse(g, in.src[b], i), f, Sorted(DOMAIN in.src))

(* Operands in a block's terminator.                                       *)
LastIns(f, b) == f.ins[Last(f.code[b])]
Phis(f, b)   == SelectSeq(f.code[b], LAMBDA i : f.ins[i].cls = "phi")

(* Edges: BasicBlock::addSucc, removeSucc, addPred, removePred.            *)
AddSucc(f, b, c)    == [f EXCEPT !.succ[b] = Append(@, c)]
AddPred(f, b, c)    == [f EXCEPT !.pred[b] = Append(@, c)]
RemoveSucc(f, b, c) == [f EXCEPT !.succ[b] = RemoveFirst(@, c)]
RemovePred(f, b, c) == [f EXCEPT !.pred[b] = RemoveFirst(@, c)]
RemoveLast(s, x)    == Reverse(RemoveFirst(Reverse(s), x))
(* A new block, in no place among the edges, at the end of the list.       *)
NewBlock(f) ==
  [f EXCEPT !.list = Append(@, f.next), !.code = (f.next :> <<>>) @@ @,
            !.pred = (f.next :> <<>>) @@ @, !.succ = (f.next :> <<>>) @@ @,
            !.stores = (f.next :> {}) @@ @, !.stores1 = (f.next :> {}) @@ @, !.next = @ + 1]
(* A copy made by copy(): it shares the operands and is in no use list.    *)
CopyOf(f, i, d) == [f EXCEPT !.ins = (f.next :> [f.ins[i] EXCEPT !.def = d, !.orig = <<0, 0>>]) @@ @, !.next = @ + 1]
(* The destructor of a block: its neighbours forget it.                    *)
DeleteBlock(f, b) ==
  LET Emptied == ForEach(LAMBDA h, i : Delete(h, i), f, f.code[b])
      Left(g)    == ForEach(LAMBDA h, p : RemoveSucc(h, p, b), g, g.pred[b])
      Forgot(g)  == ForEach(LAMBDA h, s : RemovePred(h, s, b), g, g.succ[b])
  IN  [Forgot(Left(Emptied)) EXCEPT !.list = Remove(@, b)]

-----------------------------------------------------------------------------
FunctionOf(keys, vals) == [x \in ToSet(keys) |-> vals[PosOf(keys, x)]]
(* A function from a listing: blocks <<number, instructions>>, entry first,*)
(* edges as the branches give them.                                        *)
Targets(in) == in.to
FunOf(name, params, listing) ==
  LET bs  == [k \in DOMAIN listing |-> listing[k][1]]
      all == ForEach(LAMBDA s, x : s \o x[2], <<>>, listing)
      off == [k \in DOMAIN listing |->
                ForEach(LAMBDA n, j : n + Len(listing[j][2]), 100, [j \in 1 .. k - 1 |-> j])]
      code == FunctionOf(bs, [k \in DOMAIN listing |-> [j \in DOMAIN listing[k][2] |-> off[k] + j]])
      succ == FunctionOf(bs, [k \in DOMAIN listing |->
                IF listing[k][2] = <<>> THEN <<>> ELSE Last(listing[k][2]).to])
      pred == [b \in ToSet(bs) |->
                ForEach(LAMBDA s, c : s \o SelectSeq([j \in DOMAIN succ[c] |-> IF succ[c][j] = b THEN c ELSE 0],
                                                       LAMBDA x : x # 0), <<>>, bs)]
      ins == [i \in 101 .. 100 + Len(all) |-> all[i - 100]]
      base == [name |-> name, params |-> params, list |-> bs, code |-> code, pred |-> pred, succ |-> succ,
               ins |-> ins, uses |-> (None :> <<>>), next |-> 200,
               dom |-> <<>>, stores |-> [b \in ToSet(bs) |-> {}], stores1 |-> [b \in ToSet(bs) |-> {}],
               fstores |-> {}, fails |-> FALSE]
  IN  ForEach(LAMBDA f, i : AddUses(f, ins[i].use, i), base, [k \in 1 .. Len(all) |-> 100 + k])
=============================================================================

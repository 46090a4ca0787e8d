----------------------------- MODULE ValueNumber -----------------------------
(***************************************************************************)
(* Value numbering over the dominator tree (src/src/ValueNumber.cpp), with *)
(* constant folding and strength reduction (Instruction.cpp: getHash,      *)
(* isConstExp); tables go down the tree by value.  Common                  *)
(* subexpressions of a block (src/src/ElimComSubexper.cpp).  Constants     *)
(* propagated by a lattice (src/src/CondCopyProp.cpp).                     *)
(***************************************************************************)
EXTENDS IR, Dominance

(* What the pass asks of the control flow of a function: the order of a    *)
(* depth first search, the dominator tree (Dominance has its definition,   *)
(* and Dominators shows that Function.cpp computes it), and the addresses  *)
(* stored to on the way to a block.                                        *)
Edges(f) == [b \in BlockSet(f) |-> ToSet(f.succ[b])]
Reached(f) == ReachableFrom(Entry(f), Edges(f), {})

(* Function::search: children in the order of the successors.              *)
RECURSIVE Search(_, _, _)
Search(f, b, seen) ==
  ForEach(LAMBDA s, c : IF c \in ToSet(s) THEN s ELSE Search(f, c, s), Append(seen, b), f.succ[b])
PreOrder(f) == Search(f, Entry(f), <<>>)

(* Dominators as sets of blocks; an unreachable block has none here.       *)
Dom(f) ==
  LET e == [b \in Reached(f) |-> Edges(f)[b]] IN DominatorsOf(Entry(f), e)
IdomOf(f, dom, b) == CHOOSE d \in DOMAIN dom : IsIdom(dom, d, b)
(* Children of a node of the dominator tree, in the order of the search.   *)
Children(f, dom, b) == SelectSeq(PreOrder(f), LAMBDA c : c # b /\ IsIdom(dom, b, c))

StoreAddrs(f, b) ==
  {f.ins[i].use[1] : i \in {j \in ToSet(f.code[b]) : f.ins[j].cls = "store"}}
OfPreds(f, b) == UNION {f.stores1[p] : p \in ToSet(f.pred[b])}

(* Function::computeStores: one sweep in depth first order, and another in *)
(* the order of the list that adds to stores1 only.  What is found stays   *)
(* for the next time.                                                      *)
ComputeStores(f) ==
  LET first(g, b)  == [g EXCEPT !.stores[b] = @ \cup OfPreds(g, b),
                                !.stores1[b] = @ \cup g.stores[b] \cup OfPreds(g, b) \cup StoreAddrs(g, b),
                                !.fstores = @ \cup OfPreds(g, b) \cup StoreAddrs(g, b)]
      second(g, b) == [g EXCEPT !.stores1[b] = @ \cup OfPreds(g, b),
                                !.fstores = @ \cup OfPreds(g, b)]
  IN  ForEach(second, ForEach(first, f, PreOrder(f)), f.list)

-----------------------------------------------------------------------------

(* getHash of a binary operation: what commutes is put in one order.       *)
BinHash(in) ==
  LET name(o) == IF IsFloat(in.def) THEN o ELSE Str(o)
      a == name(in.use[1])
      b == name(in.use[2])
  IN  IF in.op \in {"add", "and", "or", "mul"}
      THEN <<in.op, "any", {a, b}>> ELSE <<in.op, "in order", <<a, b>>>>

(* A phi: the pairs of block and operand.                                  *)
PhiHash(in) == <<"phi", "any", {<<b, Str(in.src[b])>> : b \in DOMAIN in.src}>>

(* Shifts to the right call themselves shl, too; see ShiftsApart.          *)
ShiftHash(in) == <<"shl", "in order", <<Str(in.use[1]), Str(in.use[2])>>>>

Unhashed == <<"", "", <<>>>>
(* A call of a function that changes nothing: operands by their identity,  *)
(* so that one with a constant equals no other.                            *)
CallHash(u, i, in) ==
  IF in.op \notin DOMAIN u.funs \/ u.essential[in.op] THEN Unhashed
  ELSE IF \E k \in DOMAIN in.use : IsConst(in.use[k]) THEN <<in.op, "this call", i>>
  ELSE <<in.op, "call", in.use>>

Hash(u, f, i) ==
  LET in == f.ins[i]
      st == [k \in DOMAIN in.use |-> Str(in.use[k])]
  IN  CASE in.cls = "bin" -> BinHash(in)
        [] in.cls = "phi" -> PhiHash(in)
        [] in.cls \in {"shl", "ashr"} -> ShiftHash(in)
        [] in.cls = "cmp" -> <<in.op, "in order", st>>
        [] in.cls \in {"load", "xor", "gep"} -> <<in.cls, "in order", st>>
        [] in.cls = "call" -> CallHash(u, i, in)
        [] OTHER -> Unhashed

(* isConstExp, and constVal: doubles, so that an int division leaves a     *)
(* fraction.                                                               *)
IsConstExp(in) ==
  in.cls \in {"bin", "cmp", "xor", "shl", "ashr"} /\ \A k \in DOMAIN in.use : IsConst(in.use[k])
BinConst(op, a, b) ==
  CASE op = "add" -> a + b
    [] op = "sub" -> a - b
    [] op = "mul" -> Quo(a * b, Quarters)
    [] op = "div" -> IF b = 0 THEN 0 ELSE Quo(a * Quarters, b)
    [] op = "mod" -> Quarters * Rem(Quo(a, Quarters), Quo(b, Quarters))
RECURSIVE Pow2(_)
Pow2(k) == IF k <= 0 THEN 1 ELSE 2 * Pow2(k - 1)
ConstVal(in) ==
  LET a == in.use[1]
      b == in.use[2]
  IN  CASE in.cls = "bin"  -> BinConst(in.op, a[2], b[2])
        [] in.cls = "xor"  -> IF a[2] = 0 THEN Quarters ELSE 0
        [] in.cls = "shl"  -> Quarters * IntOf(a) * Pow2(IntOf(b))
        [] in.cls = "ashr" -> Quarters * (IntOf(a) \div Pow2(IntOf(b)))

-----------------------------------------------------------------------------
(* v: f, hash (hash -> operand), num (operand -> operand), stores, sglob   *)
(* (addresses, globals stored to since), loaded, gone (to be removed).     *)
Remember(v, i, h, o) == [v EXCEPT !.num = (o :> o) @@ @, !.hash = (h :> o) @@ @]
Instead(v, i, f, new) ==
  [v EXCEPT !.f = ReplaceUses(f, f.ins[i].def, new), !.num = (f.ins[i].def :> new) @@ @, !.gone = Append(@, i)]

(* A phi goes if its operands are one, or if there is an equal one: and    *)
(* then, too, its uses get one of its own operands.                        *)
NumberPhi(u, v, i) ==
  LET in == v.f.ins[i]
      h  == Hash(u, v.f, i)
      s  == ToSet(in.use)
  IN  IF Cardinality(s) = 1 \/ h \in DOMAIN v.hash
      THEN Instead(v, i, CleanUse(v.f, i), CHOOSE o \in s : TRUE)
      ELSE Remember(v, i, h, in.def)

NumberOperands(v, i) ==
  [v EXCEPT !.f = ForEach(LAMBDA g, o : IF o \in DOMAIN v.num THEN ReplaceUse(g, i, o, v.num[o]) ELSE g,
                          v.f, v.f.ins[i].use)]

(* log2 by shifting ends only if the value is positive.                    *)
IsPower(o) == IsConst(o) /\ IntOf(o) > 0 /\ \E k \in 0 .. 6 : IntOf(o) = Pow2(k)
LogOf(o)   == CHOOSE k \in 0 .. 6 : IntOf(o) = Pow2(k)

IsInt(in, op) == in.cls = "bin" /\ in.op = op /\ ~IsFloat(in.def)
(* The new instruction takes the place; the old one keeps its operands but *)
(* not the uses.  os are its operands as they were before they were        *)
(* numbered, in a copy of the list: they are what is looked at.            *)
Substitute(f, i, os, in) ==
  ReplaceIns(New(DropUses(f, os, i), in), i, f.next)

(* A product with a power of two; the second operand is looked at last.    *)
(* With zero the shift count is not found: log2 recurs for ever.           *)
ReduceMul(f, i, os) ==
  LET in  == f.ins[i]
      ope == IF IsPower(os[2]) THEN 2 ELSE 1
  IN  IF ~IsInt(in, "mul") THEN f
      ELSE IF \E k \in 1 .. 2 : IsConst(os[k]) /\ IntOf(os[k]) = 0 THEN [f EXCEPT !.fails = TRUE]
      ELSE IF ~IsPower(os[ope]) \/ LogOf(os[ope]) = 0 THEN f
      ELSE Substitute(f, i, os, Shl(in.def, os[3 - ope], C(LogOf(os[ope]))))

(* A quotient by two is shifted, for a negative odd number wrongly.        *)
ReduceDiv(f, i, os) ==
  LET in == f.ins[i]
  IN  IF IsInt(in, "div") /\ os[2] = C(2)
      THEN Substitute(f, i, os, Ashr(in.def, os[1], C(1))) ELSE f

(* What decides that a load from the address of an earlier one is needed   *)
(* all the same: stores on the way, each good for one load.                *)
ReloadGlobal(v, b, a) ==
  CASE a \in v.sglob      -> <<TRUE, [v EXCEPT !.sglob = @ \ {a}]>>
    [] a \notin v.sglob /\ a \in v.f.stores[b] -> <<TRUE, [v EXCEPT !.f.stores[b] = @ \ {a}]>>
    [] OTHER              -> <<FALSE, v>>
SameGep(f, a, s) ==
  LET i == DefOf(f, a)
      j == DefOf(f, s)
  IN  i # 0 /\ j # 0 /\ f.ins[i].cls = "gep" /\ f.ins[j].cls = "gep" /\ f.ins[i].use = f.ins[j].use
ReloadLocal(v, b, a) ==
  LET others == {s \in v.f.stores1[b] : SameGep(v.f, a, s) /\ s \notin v.loaded}
  IN  CASE a \in v.stores      -> <<TRUE, [v EXCEPT !.stores = @ \ {a}]>>
        [] a \notin v.stores /\ a \in v.f.stores[b] -> <<TRUE, [v EXCEPT !.f.stores[b] = @ \ {a}]>>
        [] a \notin v.stores /\ a \notin v.f.stores[b] /\ others # {} ->
             <<TRUE, [v EXCEPT !.loaded = @ \cup {CHOOSE s \in others : TRUE}]>>
        [] OTHER               -> <<FALSE, v>>
(* Bug: every load from a known address is taken to be redundant. *)
ReloadNever(v, b, in) == <<FALSE, v>>

Reload(v, b, in) ==
  IF in.cls # "load" THEN <<FALSE, v>>
  ELSE IF IsGlobal(in.use[1]) THEN ReloadGlobal(v, b, in.use[1]) ELSE ReloadLocal(v, b, in.use[1])

(* An instruction with a result and a hash.                                *)
LookUp(u, v, b, i) ==
  LET h  == Hash(u, v.f, i)
      in == v.f.ins[i]
      Loaded(r) == IF r[1] THEN Remember(r[2], i, h, in.def)
                   ELSE Instead(v, i, DropUses(v.f, in.use, i), v.hash[h])
  IN  IF h \notin DOMAIN v.hash THEN Remember(v, i, h, in.def) ELSE Loaded(Reload(v, b, in))
NumberIns(u, v0, b, i) ==
  LET os == v0.f.ins[i].use
      Reduced(v, f) == LookUp(u, [v EXCEPT !.f = f], b, IF f.next = v.f.next THEN i ELSE v.f.next)
      Numbered(v) == IF IsConstExp(v.f.ins[i]) /\ v.f.ins[i].cls # "cmp"
                     THEN Instead(v, i, v.f, Const(ConstVal(v.f.ins[i])))
                     ELSE Reduced(v, ReduceDiv(ReduceMul(v.f, i, os), i, os))
  IN  Numbered(NumberOperands(v0, i))

(* A store of something other than a parameter or global is remembered.    *)
NumberStore(v, in) ==
  IF IsGlobal(in.use[2]) \/ IsParam(in.use[2]) THEN v
  ELSE IF IsGlobal(in.use[1]) THEN [v EXCEPT !.sglob = @ \cup {in.use[1]}]
  ELSE [v EXCEPT !.stores = @ \cup {in.use[1]}]

(* A call of a function of the program: what that stores to itself.        *)
NoteCall(u, v, in) ==
  IF in.cls = "call" /\ in.op \in DOMAIN u.funs
  THEN [v EXCEPT !.sglob = @ \cup u.stored[in.op]] ELSE v

(* The comparison before a negation is left alone.                         *)
Negated(f, b, i) ==
  LET k == PosOf(f.code[b], i)
  IN  f.ins[i].cls = "cmp" /\ k < Len(f.code[b]) /\ f.ins[f.code[b][k + 1]].cls = "xor"

NumberOne(u, v, b, i) ==
  LET in == v.f.ins[i]
      v1 == NoteCall(u, v, in)
  IN  IF Negated(v.f, b, i) THEN v
      ELSE IF in.cls = "phi" THEN NumberPhi(u, v, i)
      ELSE IF in.cls = "store" THEN NumberStore(v, in)
      ELSE IF ~HasDef(in) \/ Hash(u, v.f, i) = Unhashed THEN v1
      ELSE NumberIns(u, v1, b, i)

(* The phis of the successors get the numbers of their operands.           *)
NumberPhisAfter(v, b) ==
  LET phis == ForEach(LAMBDA s, c : s \o Phis(v.f, c), <<>>, v.f.succ[b])
      one(f, i) == ForEach(LAMBDA g, o : IF o \in DOMAIN v.num THEN ReplaceUse(g, i, o, v.num[o]) ELSE g,
                           f, f.ins[i].use)
  IN  [v EXCEPT !.f = ForEach(one, @, phis)]

(* pass(block, hash, valueNumber, stores, storeGlobals): v is what comes   *)
(* down the tree, the result the function.                                 *)
RECURSIVE NumberBlock(_, _, _, _)
NumberBlock(u, dom, v0, b) ==
  LET Down(v, f)  == ForEach(LAMBDA g, c : NumberBlock(u, dom, [v EXCEPT !.f = g], c), f, Children(f, dom, b))
      Cleaned(v)  == Down(v, ForEach(Unlink, v.f, v.gone))
      Numbered(v) == ForEach(LAMBDA w, i : NumberOne(u, w, b, i), v, v.f.code[b])
  IN  Cleaned(NumberPhisAfter(Numbered([v0 EXCEPT !.loaded = {}, !.gone = <<>>]), b))

-----------------------------------------------------------------------------
(* Function::getEssential: whether a call must stay.  Computed when first  *)
(* asked for, here when the program is made; no pass asks before the tree  *)
(* of calls is complete.                                                   *)
RECURSIVE IsEssential(_, _)
IsEssential(u, g) ==
  LET f == u.funs[g]
      touches(in) ==
        IF in.cls = "call"
        THEN in.op \notin DOMAIN u.funs \/ (in.op # g /\ IsEssential(u, in.op))
        ELSE \E k \in DOMAIN in.use : IsGlobal(in.use[k])
  IN  (\E k \in DOMAIN f.params : IsArray(f.params[k])) \/ \E i \in Placed(f) : touches(f.ins[i])

(* calFuncStoreGlobals: the globals each function itself stores to.        *)
StoredGlobals(f) == {a \in UNION {StoreAddrs(f, b) : b \in BlockSet(f)} : IsGlobal(a)}

NumberFunction(u, f) ==
  LET g == ComputeStores(f)
  IN  NumberBlock(u, Dom(g), [f |-> g, hash |-> <<>>, num |-> <<>>, stores |-> {}, sglob |-> {},
                              loaded |-> {}, gone |-> <<>>], Entry(g))

(* The pass over a unit.                                                   *)
ValueNumberPass(u) ==
  LET v == [funs |-> u.funs, essential |-> [g \in DOMAIN u.funs |-> IsEssential(u, g)],
            stored |-> [g \in DOMAIN u.funs |-> StoredGlobals(u.funs[g])]]
  IN  [u EXCEPT !.funs = [g \in DOMAIN @ |-> NumberFunction(v, @[g])]]

-----------------------------------------------------------------------------
(* ElimComSubexpr: equal expressions within a block.  What reaches a block *)
(* from its predecessors starts from an empty vector that others are       *)
(* intersected with, and stays empty; the pass goes over the blocks twice, *)
(* each time from nothing.                                                 *)

(* struct aeb: instruction, operands and, once found again, the temporary. *)
Aeb(i) == [inst |-> i, tmp |-> None]
Equal(f, i, j) ==
  LET a == f.ins[i]
      b == f.ins[j]
  IN  a.cls = b.cls /\ a.op = b.op /\ Len(Uses(b)) = 2
      /\ \A k \in 1 .. 2 : Uses(a)[k] = Uses(b)[k]

(* The first occurrence becomes a computation of a temporary and a store   *)
(* of it "to" its result, the second such a store; without a result there  *)
(* is no type for the temporary.                                           *)
Found(s, b, i, k) ==
  LET f   == s.f
      p   == s.aeb[k].inst
      d   == IF s.aeb[k].tmp = None THEN T(f.next) ELSE s.aeb[k].tmp
      f1  == IF s.aeb[k].tmp # None THEN f
             ELSE LET g == CopyOf([f EXCEPT !.next = @ + 1], p, d)
                      h == InsertBefore(g, b, g.next - 1, p)
                  IN  Unlink(NewBefore(h, b, Store(f.ins[p].def, d), p), p)
  IN  IF ~HasDef(f.ins[i]) THEN [s EXCEPT !.f.fails = TRUE]
      ELSE [s EXCEPT !.f = Unlink(NewBefore(f1, b, Store(f.ins[i].def, d), i), i), !.aeb[k].tmp = d]

(* Anything with two uses counts, a phi and a store too, but no call.      *)
Visit(s, b, i) ==
  LET in   == s.f.ins[i]
      hits == {k \in DOMAIN s.aeb : Equal(s.f, i, s.aeb[k].inst)}
      s1   == IF Len(Uses(in)) # 2 \/ in.cls = "call" THEN s
              ELSE IF hits = {} THEN [s EXCEPT !.aeb = Append(@, Aeb(i))]
              ELSE Found(s, b, i, Min(hits))
  IN  IF HasDef(in)
      THEN [s1 EXCEPT !.aeb = SelectSeq(@, LAMBDA e : in.def \notin ToSet(Uses(s1.f.ins[e.inst])))] ELSE s1

LocalElimCse(f, b) ==
  ForEach(LAMBDA s, i : IF s.f.fails THEN s ELSE Visit(s, b, i), [f |-> f, aeb |-> <<>>], f.code[b]).f

RECURSIVE BreadthFirst(_, _, _)
BreadthFirst(f, queue, seen) ==
  IF queue = <<>> THEN f
  ELSE LET b == Head(queue)
       IN  IF b \in seen THEN BreadthFirst(f, Tail(queue), seen)
           ELSE BreadthFirst(LocalElimCse(f, b), Tail(queue) \o f.succ[b], seen \cup {b})

ElimComSubexprPass(u) ==
  LET first  == [g \in DOMAIN u.funs |-> BreadthFirst(u.funs[g], <<Entry(u.funs[g])>>, {})]
      second == [g \in DOMAIN u.funs |-> ForEach(LocalElimCse, first[g], first[g].list)]
  IN  [u EXCEPT !.funs = second]

-----------------------------------------------------------------------------
(* Constants by a lattice (src/src/CondCopyProp.cpp; getLatticeValue and   *)
(* getInitLatticeValue of Instruction.cpp and Operand.cpp).  A value is    *)
(* <<1, 0>> for unknown, <<0, n>> for the int n, <<-1, 0>> for no constant.*)

Unknown == <<1, 0>>
Varies  == <<-1, 0>>
Known(n) == <<0, n>>

(* Constants as ints; temporaries unknown; globals declared const.         *)
InitLattice(u, o) ==
  CASE IsConst(o) -> Known(IntOf(o))
    [] o[1] \in {"t", "f"} -> Unknown
    [] IsGlobal(o) /\ o[2] \in u.readonly -> Known(u.globals[o[2]][1])
    [] OTHER -> Varies
LatticeOf(u, val, o) == IF o \in DOMAIN val THEN val[o] ELSE InitLattice(u, o)

(* Two operands: one that varies decides, then one unknown.                *)
Meet(a, b, n) ==
  IF -1 \in {a[1], b[1]} THEN Varies ELSE IF a[1] = 0 /\ b[1] = 0 THEN Known(n) ELSE Unknown

BinLattice(op, a, b) ==
  LET x == a[2]
      y == b[2]
  IN  Meet(a, b, CASE op = "add" -> x + y [] op = "sub" -> x - y [] op = "mul" -> x * y
                   [] op = "div" -> IF y = 0 THEN 0 ELSE Quo(x, y)
                   [] op = "mod" -> IF y = 0 THEN 0 ELSE Rem(x, y))
CmpLattice(op, a, b) ==
  LET x == a[2]
      y == b[2]
  IN  Meet(a, b, Bool(CASE op = "e" -> x = y [] op = "ne" -> x # y [] op = "l" -> x < y
                        [] op = "ge" -> x >= y [] op = "g" -> x > y [] op = "le" -> x <= y))
TwoTo(k) == LET p[n \in 0 .. 30] == IF n = 0 THEN 1 ELSE 2 * p[n - 1] IN p[k]
ShlLattice(a, b)  == Meet(a, b, a[2] * TwoTo(b[2]))
AshrLattice(a, b) == Meet(a, b, a[2] \div TwoTo(b[2]))
LoadLattice(u, val, in) == LatticeOf(u, val, in.use[1])
(* The meet over the sources is commented out.                             *)
PhiLattice == Unknown

Lattice(u, val, in) ==
  LET l(k) == LatticeOf(u, val, in.use[k])
  IN  CASE in.cls = "bin"  -> BinLattice(in.op, l(1), l(2))
        [] in.cls = "cmp"  -> CmpLattice(in.op, l(1), l(2))
        [] in.cls = "shl"  -> ShlLattice(l(1), l(2))
        [] in.cls = "ashr" -> AshrLattice(l(1), l(2))
        [] in.cls = "load" -> LoadLattice(u, val, in)
        [] in.cls = "phi"  -> PhiLattice
        [] OTHER           -> Varies

(* The worklist is a stack; what has a known or varying value is on it.    *)
RECURSIVE Propagate(_, _, _, _)
Propagate(u, f, val, work) ==
  IF work = <<>> THEN val
  ELSE LET step(s, i) ==
             LET in == f.ins[i]
                 v  == Lattice(u, s.val, in)
             IN  IF in.def \notin DOMAIN s.val \/ s.val[in.def][1] = -1 \/ s.val[in.def] = v THEN s
                 ELSE [val |-> [s.val EXCEPT ![in.def] = v], work |-> Append(s.work, in.def)]
           s == ForEach(step, [val |-> val, work |-> Front(work)], UsesOf(f, Last(work)))
       IN  Propagate(u, f, s.val, s.work)

(* The operand of every known instruction but a comparison is replaced and *)
(* the instruction taken out.                                              *)
ConstantPropagation(u, f) ==
  LET defs == SelectSeq(ForEach(LAMBDA s, b : s \o f.code[b], <<>>, f.list), LAMBDA i : HasDef(f.ins[i]))
      visit(s, i) ==
        LET v == Lattice(u, s.val, f.ins[i])
        IN  [val |-> (f.ins[i].def :> v) @@ s.val,
             work |-> IF v = Unknown THEN s.work ELSE Append(s.work, f.ins[i].def)]
      first == ForEach(visit, [val |-> <<>>, work |-> <<>>], defs)
      val  == Propagate(u, f, first.val, first.work)
      out  == SelectSeq(defs, LAMBDA i : val[f.ins[i].def][1] = 0 /\ f.ins[i].cls # "cmp")
      swap(g, i) == ForEach(LAMBDA h, j : ReplaceUse(h, j, f.ins[i].def, C(val[f.ins[i].def][2])),
                            g, UsesOf(g, f.ins[i].def))
  IN  ForEach(LAMBDA g, i : Unlink(g, i), ForEach(swap, f, out), out)

CondCopyPropPass(u) == [u EXCEPT !.funs = [g \in DOMAIN @ |-> ConstantPropagation(u, @[g])]]
=============================================================================

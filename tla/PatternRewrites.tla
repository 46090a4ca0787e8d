---------------------------- MODULE PatternRewrites ----------------------------
(***************************************************************************)
(* The passes that look for patterns.  Two in                              *)
(* src/src/SpecialOptimize.cpp: a loop that fills an array with zeros      *)
(* becomes a call of memset, and a block of additions, subtractions and    *)
(* shifts becomes their sum.  Chains of additions balanced                 *)
(* (src/src/TreeHeightBalance.cpp).  And small rewrites late in the        *)
(* sequence of passes (src/src/PeepholeForIR.cpp; swapSrc in               *)
(* src/include/Instruction.h).                                             *)
(***************************************************************************)
EXTENDS ValueNumber

(* phi, load, gep, store and add, each on the one before; what follows,    *)
(* how the loop ends and other phis are not looked at.                     *)
IsNumber(o, n) == o = C(n)
Zeroing(f, b) ==
  LET in(k) == f.ins[f.code[b][k]]
  IN  /\ Len(f.code[b]) > 5
      /\ in(1).cls = "phi" /\ \E k \in DOMAIN Uses(in(1)) : IsNumber(Uses(in(1))[k], 0)
      /\ in(2).cls = "load"
      /\ in(3).cls = "gep" /\ in(3).use = <<in(2).def, in(1).def>>
      /\ in(4).cls = "store" /\ in(4).use[1] = in(3).def /\ IsNumber(in(4).use[2], 0)
      /\ in(5).cls = "bin" /\ in(5).op = "add" /\ in(5).use[1] = in(1).def /\ IsNumber(in(5).use[2], 1)
      /\ Len(f.pred[b]) = 2 /\ Len(f.succ[b]) = 2

Other(s, b) == IF s[1] = b THEN s[2] ELSE s[1]
(* In the block before, the branch and what stands before it make way for  *)
(* the call; its edges to the loop go, an edge to the other successor of   *)
(* the loop it has already.                                                *)
Fill(f, b) ==
  LET p    == Other(f.pred[b], b)
      cmp  == f.code[p][Len(f.code[p]) - 1]
      n    == f.ins[cmp].use[2]
      addr == f.ins[f.code[b][2]].use[1]
      f1   == Unlink(Unlink(f, Last(f.code[p])), cmp)
      d    == f.next
      f2   == [f1 EXCEPT !.next = @ + 3]
      add(g, in) == NewAppend(g, p, in)
  IN  ForEach(add, f2, <<Shl(T(d), n, C(2)), Load(T(d + 1), addr), Bitcast(T(d + 2), T(d + 1)),
                         Call(None, "memset", <<T(d + 2), C(0), T(d), C(0)>>), Br(Other(f.succ[b], b))>>)
Leave(f, b) ==
  LET f1 == ForEach(LAMBDA g, p : RemoveSucc(g, p, b), f, f.pred[b])
      f2 == ForEach(LAMBDA g, c : RemovePred(g, c, b), f1, f1.succ[b])
  IN  [f2 EXCEPT !.list = Remove(@, b)]
FillZeros(f) ==
  LET bs == SelectSeq(f.list, LAMBDA b : Zeroing(f, b))
  IN  ForEach(Leave, ForEach(Fill, f, bs), bs)
SpecialOptimizePass(u) == [u EXCEPT !.funs = [g \in DOMAIN @ |-> FillZeros(@[g])]]

-----------------------------------------------------------------------------
(* The result of a block as a sum: key -> how often.  Two constants are    *)
(* two keys, as they are two objects.                                      *)
Key(o, i, k) == <<o, IF IsConst(o) THEN <<i, k>> ELSE <<0, 0>>>>
Count(m, x)  == IF x \in DOMAIN m THEN m[x] ELSE 0
Plus(m, x, n) == (x :> (Count(m, x) + n)) @@ m
PlusAll(m, m2, n) == [x \in DOMAIN m \cup DOMAIN m2 |-> Count(m, x) + n * Count(m2, x)]

Summand(in) == in.cls = "shl" \/ (in.cls = "bin" /\ in.op \in {"add", "sub"})
Here(f, b, o) == o # None /\ \E i \in ToSet(f.code[b]) : f.ins[i].def = o
(* A shift of what comes from outside the block counts for nothing.        *)
SumOf(f, b, sums, i) ==
  LET in == f.ins[i]
      sign(k) == IF in.op = "sub" /\ k = 2 THEN -1 ELSE 1
      part(m, k) ==
        LET o == in.use[k]
        IN  IF Here(f, b, o) THEN PlusAll(m, sums[o], sign(k)) ELSE Plus(m, Key(o, i, k), sign(k))
      src == IF in.use[1] \in DOMAIN sums THEN sums[in.use[1]] ELSE <<>>
  IN  IF in.cls = "shl"
      THEN IF IsConst(in.use[2]) THEN PlusAll(<<>>, src, 2 ^ IntOf(in.use[2])) ELSE <<>>
      ELSE part(part(<<>>, 1), 2)

(* Until an instruction that is none of these, or one but the last whose   *)
(* result is used in another block.                                        *)
UsedElsewhere(f, b, i) ==
  \E j \in ToSet(UsesOf(f, f.ins[i].def)) : j \in Placed(f) /\ j \notin ToSet(f.code[b])
WholeSum(f, b) ==
  LET body == Front(f.code[b])
      ok == /\ Len(body) > 1
            /\ \A k \in DOMAIN body : Summand(f.ins[body[k]]) /\ ~IsFloat(f.ins[body[k]].def)
            /\ \A k \in 1 .. Len(body) - 1 : ~UsedElsewhere(f, b, body[k])
      sums == ForEach(LAMBDA s, i : (f.ins[i].def :> SumOf(f, b, s, i)) @@ s, <<>>, body)
      all  == sums[f.ins[Last(body)].def]
  IN  IF ~ok THEN <<FALSE, <<>>>> ELSE <<TRUE, [x \in {y \in DOMAIN all : all[y] # 0} |-> all[x]]>>

(* Replaced if nothing is left, or two with one and one with minus one.    *)
Collapse(f, b) ==
  LET w    == WholeSum(f, b)
      sum  == w[2]
      def  == f.ins[Last(Front(f.code[b]))].def
      ones == {x \in DOMAIN sum : sum[x] = 1}
      neg  == CHOOSE x \in DOMAIN sum : sum[x] = -1
      a    == CHOOSE x \in ones : TRUE
      c    == CHOOSE x \in ones \ {a} : TRUE
      d    == f.next
      f1   == New(New([f EXCEPT !.next = @ + 2], Bin("add", T(d), a[1], c[1])), Bin("sub", T(d + 1), T(d), neg[1]))
  IN  IF ~w[1] THEN f
      ELSE IF DOMAIN sum = {}
      THEN [ReplaceUses(f, def, C(0)) EXCEPT !.code[b] = <<Last(@)>>]
      ELSE IF Cardinality(ones) = 2 /\ Cardinality(DOMAIN sum) = 3 /\ \E x \in DOMAIN sum : sum[x] = -1
      THEN [ReplaceUses(f1, def, T(d + 1)) EXCEPT !.code[b] = <<d + 2, d + 3, Last(@)>>]
      ELSE f

(* checkOperandsUse first: users in blocks that are gone are forgotten.    *)
ForgetGone(f) ==
  LET defs == {f.ins[i].def : i \in Placed(f)} \ {None}
  IN  [f EXCEPT !.uses = [o \in DOMAIN @ |->
         IF o \in defs THEN SelectSeq(@[o], LAMBDA j : j \in Placed(f)) ELSE @[o]]]
SpecialOptimizePass1(u) ==
  LET one(f) == LET g == ForgetGone(f) IN ForEach(Collapse, g, g.list)
  IN  [u EXCEPT !.funs = [g \in DOMAIN @ |-> one(@[g])]]

-----------------------------------------------------------------------------
(* TreeHeightBalance: chains of int additions and subtractions in a block  *)
(* summed up operand by operand, repeated ones as a product.               *)

AddSub(in) == in.cls = "bin" /\ in.op \in {"add", "sub"}
Bump(ops, o, n) == (o :> ((IF o \in DOMAIN ops THEN ops[o] ELSE 0) + n)) @@ ops
Sign(in) == IF in.op = "add" THEN 1 ELSE -1

(* s: f, new (numbers of the instructions made), res (the last result).    *)
Emit(s, op, a, b) ==
  LET d == T(s.f.next)
      g == New([s.f EXCEPT !.next = @ + 1], Bin(op, d, a, b))
  IN  [s EXCEPT !.f = g, !.new = Append(@, g.next - 1), !.res = d]

(* One operand and how often it counts; what cancels counts zero times and *)
(* is multiplied with zero.                                                *)
Collect(s, o, n) ==
  LET m == Emit(s, "mul", o, C(IF n < 0 THEN -n ELSE n))
  IN  CASE IsConst(o) -> [s EXCEPT !.val = @ + o[2] * n]
        [] ~IsConst(o) /\ n = 1  -> [s EXCEPT !.adds = Append(@, o)]
        [] ~IsConst(o) /\ n = -1 -> [s EXCEPT !.subs = Append(@, o)]
        [] ~IsConst(o) /\ n > 1  -> [m EXCEPT !.adds = Append(@, m.res)]
        [] OTHER                 -> [m EXCEPT !.subs = Append(@, m.res)]

(* The new instructions stand in place of all between the first and the    *)
(* last of the chain, whatever else was there.                             *)
Relink(code, first, last, new) ==
  SubSeq(code, 1, PosOf(code, first) - 1) \o new \o SubSeq(code, PosOf(code, last) + 1, Len(code))

Convert(f, b, ops, chain) ==
  LET old == f.ins[Last(chain)].def
      none == [f |-> f, new |-> <<>>, res |-> None, adds |-> <<>>, subs |-> <<>>, val |-> 0]
      WithConst(s) == IF s.val = 0 THEN s ELSE [s EXCEPT !.adds = Append(@, Const(s.val))]
      Added(s) == IF s.adds = <<>> THEN [s EXCEPT !.res = C(0)]
                  ELSE ForEach(LAMBDA t, o : Emit(t, "add", t.res, o), [s EXCEPT !.res = Head(s.adds)], Tail(s.adds))
      Less(s)  == ForEach(LAMBDA t, o : Emit(t, "sub", t.res, o), s, s.subs)
      Placed1(s) == [ReplaceUses(s.f, old, s.res) EXCEPT !.code[b] = Relink(@, Head(chain), Last(chain), s.new)]
  IN  Placed1(Less(Added(WithConst(ForEach(LAMBDA s, o : Collect(s, o, ops[o]), none, InOrder(DOMAIN ops, Before))))))

(* t: f, ops, chain, last.  A float or a parameter in front is passed over *)
(* and does not end the chain.                                             *)
NextOf(f, b, i) == f.ins[f.code[b][PosOf(f.code[b], i) + 1]]
Link(t, i) ==
  LET in == t.f.ins[i]
      ops == IF t.chain = <<>> THEN Bump(<<>>, in.use[1], 1) ELSE t.ops
  IN  [t EXCEPT !.ops = Bump(ops, in.use[2], Sign(in)), !.chain = Append(@, i), !.last = in.def]
Close(t, b) ==
  [f |-> Convert(t.f, b, t.ops, t.chain), ops |-> <<>>, chain |-> <<>>, last |-> None]
StepChain(t, b, i) ==
  LET in == t.f.ins[i]
      once == UsersNum(t.f, in.def) = 1
      passed == AddSub(in) /\ (IsGlobal(in.use[1]) \/ IsParam(in.use[1]) \/ IsFloat(in.def))
  IN  IF passed THEN t
      ELSE IF AddSub(in) /\ t.chain = <<>>
      THEN IF once /\ AddSub(NextOf(t.f, b, i)) /\ NextOf(t.f, b, i).use[1] = in.def THEN Link(t, i) ELSE t
      ELSE IF AddSub(in) /\ in.use[1] = t.last /\ once THEN Link(t, i)
      ELSE IF t.chain # <<>> THEN Close(t, b) ELSE t

BalanceBlock(f, b) ==
  ForEach(LAMBDA t, i : StepChain(t, b, i), [f |-> f, ops |-> <<>>, chain |-> <<>>, last |-> None], f.code[b]).f
TreeHeightPass(u) == [u EXCEPT !.funs = [g \in DOMAIN @ |-> ForEach(BalanceBlock, @[g], @[g].list)]]

-----------------------------------------------------------------------------
(* PeepholeForIR.                                                          *)

(* r: f, rmv (to be taken out of the block at its end), add (bitcasts that *)
(* go behind the allocas).                                                 *)

(* A variable that holds the address of an array: where it is only stored  *)
(* to and loaded, and stored to once, what was stored stands for each load.*)
(* A parameter gets a bitcast in between.                                  *)
ArrayVariable(f, i) == f.ins[i].cls = "alloca" /\ f.ins[i].op = "array"
PromoteArray(r, i) ==
  LET us     == UsesOf(r.f, r.f.ins[i].def)
      stores == SelectSeq(us, LAMBDA j : r.f.ins[j].cls = "store")
      loads  == SelectSeq(us, LAMBDA j : r.f.ins[j].cls = "load")
      src    == r.f.ins[stores[1]].use[2]
      d      == T(r.f.next)
      cast   == [r EXCEPT !.f = New([@ EXCEPT !.next = @ + 1], Bitcast(d, src)), !.add = Append(@, r.f.next + 1)]
      new    == IF IsParam(src) THEN d ELSE src
      r1     == IF IsParam(src) THEN cast ELSE r
  IN  IF Len(stores) + Len(loads) # Len(us) \/ stores = <<>> THEN r
      ELSE IF Len(stores) # 1 THEN [r EXCEPT !.f.fails = TRUE]
      ELSE [r1 EXCEPT !.f = ForEach(LAMBDA g, j : ReplaceUses(g, g.ins[j].def, new), @, loads),
                      !.rmv = @ \o <<i, stores[1]>> \o loads]

FoldConstant(r, i) ==
  [r EXCEPT !.f = ReplaceUses(@, @.ins[i].def, Const(ConstVal(@.ins[i]))), !.rmv = Append(@, i)]
DropAddZero(r, i) ==
  LET in == r.f.ins[i]
  IN  IF IsParam(in.use[1]) THEN r
      ELSE [r EXCEPT !.f = DropUse(ReplaceUses(@, in.def, in.use[1]), in.use[1], i), !.rmv = Append(@, i)]
(* A load right behind a store to the same address.                        *)
ForwardStore(r, i, j) ==
  LET st == r.f.ins[i]
      ld == r.f.ins[j]
  IN  IF st.use[1] # ld.use[1] \/ IsParam(st.use[2]) THEN r
      ELSE [r EXCEPT !.f = DropUse(ReplaceUses(@, ld.def, st.use[2]), ld.use[1], j), !.rmv = Append(@, j)]

PairStep(r, i, j) ==
  LET in == r.f.ins[i]
  IN  CASE in.cls = "alloca" -> IF ArrayVariable(r.f, i) THEN PromoteArray(r, i) ELSE r
        [] IsConstExp(in)    -> IF in.cls \in {"cmp", "xor"} THEN r ELSE FoldConstant(r, i)
        [] ~IsConstExp(in) /\ IsAddZero(in) -> DropAddZero(r, i)
        [] in.cls = "store" /\ r.f.ins[j].cls = "load" -> ForwardStore(r, i, j)
        [] OTHER             -> r

BehindAllocas(f, b, i) ==
  LET js == SelectSeq(f.code[b], LAMBDA j : f.ins[j].cls # "alloca")
  IN  IF js = <<>> THEN f ELSE InsertBefore(f, b, i, Head(js))

(* The last instruction of a block is only ever the second of a pair.      *)
RewriteBlock(s, b) ==
  LET code == s.f.code[b]
      Done(r) == [f |-> ForEach(LAMBDA f, i : BehindAllocas(f, b, i), ForEach(Unlink, r.f, r.rmv), Reverse(r.add)),
                  again |-> s.again \/ r.rmv # <<>>]
  IN  Done(ForEach(LAMBDA r, k : PairStep(r, code[k], code[k + 1]), [f |-> s.f, rmv |-> <<>>, add |-> <<>>],
                   [k \in 1 .. Len(code) - 1 |-> k]))

RECURSIVE Rewrite(_)
Rewrite(f) ==
  LET Repeat(s) == IF s.again /\ ~s.f.fails THEN Rewrite(s.f) ELSE s.f
  IN  Repeat(ForEach(RewriteBlock, [f |-> f, again |-> FALSE], f.list))

(* swapSrc: what stands before a branch is taken for a comparison; of a    *)
(* subtraction the operands are swapped and the operation stays.           *)
Mirrored(in) ==
  IF in.cls # "cmp" THEN in.op
  ELSE CASE in.op = "l" -> "g" [] in.op = "le" -> "ge" [] in.op = "g" -> "l" [] in.op = "ge" -> "le" [] OTHER -> in.op
SwapSrc(in) == [in EXCEPT !.op = Mirrored(in), !.use = Reverse(@)]
ZeroSecond(f, b) ==
  LET n == Len(f.code[b])
      i == f.code[b][n - 1]
  IN  IF n = 1 \/ LastIns(f, b).cls # "cond" \/ Len(f.ins[i].use) # 2 \/ ~IsZero(Head(f.ins[i].use)) THEN f
      ELSE [f EXCEPT !.ins[i] = SwapSrc(@)]

(* The copy of the fourth parameter comes first in the entry.              *)
FourthFirst(f) ==
  LET b  == Entry(f)
      is == SelectSeq(f.code[b], LAMBDA i : /\ IsAddZero(f.ins[i]) /\ Len(f.params) >= 4
                                            /\ f.ins[i].use[1] = f.params[4])
  IN  IF is = <<>> THEN f ELSE BehindAllocas(Unlink(f, Head(is)), b, Head(is))

(* Stores to globals that nothing loads.                                   *)
LoadedGlobals(u) ==
  {a \in UNION {{f.ins[i].use[1] : i \in {j \in Placed(f) : f.ins[j].cls = "load"}} : f \in {u.funs[g] : g \in DOMAIN u.funs}} :
     IsGlobal(a)}
CleanOnlyStore(u) ==
  LET loads == LoadedGlobals(u)
      idle(f) == {i \in Placed(f) : f.ins[i].cls = "store" /\ IsGlobal(f.ins[i].use[1]) /\ f.ins[i].use[1] \notin loads}
      one(f) == ForEach(LAMBDA g, i : Unlink(DropUse(g, g.ins[i].use[2], i), i), f, Sorted(idle(f)))
  IN  [u EXCEPT !.funs = [g \in DOMAIN @ |-> one(@[g])]]

PeepholeForIRPass(u) ==
  LET one(f) == FourthFirst(ForEach(ZeroSecond, Rewrite(f), f.list))
  IN  CleanOnlyStore([u EXCEPT !.funs = [g \in DOMAIN @ |-> one(@[g])]])
=============================================================================

--------------------------------- MODULE GenCode ---------------------------------
(***************************************************************************)
(* Intermediate code from the tree: the genCode of every class of node     *)
(* (src/src/Ast.cpp).                                                      *)
(*                                                                         *)
(* Generated so far, g: f (the function), bb (where code goes), entries    *)
(* (the symbol table's), addr (number of an entry -> its address), allocs  *)
(* (in the entry), val (the last value), tl and fl (the branches that are   *)
(* to get their target, if the value is true and if it is false), loops     *)
(* (of the open loops the blocks of the condition and of the end), globals.*)
(* Operands, blocks and instructions take their labels from one counter; a  *)
(* result has the label of its instruction.                                *)
(***************************************************************************)
EXTENDS Tree

ResultOf(t, n) == IF t = FloatT THEN R(n) ELSE T(n)
ConstOf(n)     == IF n.ty = FloatT THEN FloatConst(n.val) ELSE Const(n.val)

EmitIn(g, b, in)     == [g EXCEPT !.f = NewAppend(g.f, b, in)]
EmitValue(g, b, t, in) ==
  [EmitIn(g, b, [in EXCEPT !.def = ResultOf(t, g.f.next)]) EXCEPT !.val = ResultOf(t, g.f.next)]
WithBlock(g)         == [g EXCEPT !.f = NewBlock(g.f)]
InsertBB(g, b)       == [g EXCEPT !.bb = b]
(* backPatch.  A conditional branch is patched where it goes if true; its   *)
(* other target is a block of its own.                                     *)
BackPatch(g, list, b) == [g EXCEPT !.f = ForEach(LAMBDA f, i : [f EXCEPT !.ins[i].to[1] = b], @, list)]

(* A condition's value forks: to blocks nothing is put in, until patched.  *)
(* A copied condition has its original's branches in its lists, too.       *)
Inherited(g, k) == IF g.copied = <<>> THEN <<>> ELSE Head(g.copied)[k]
Listed(g, t, e) ==
  [g EXCEPT !.tl = Append(Inherited(g, 1), t), !.fl = Append(Inherited(g, 2), e),
            !.forks = Append(@, <<<<t>>, <<e>>>>), !.copied = IF @ = <<>> THEN <<>> ELSE Tail(@)]
Forked(g, b, cond) ==
  LET n == g.f.next
      Filled3(f) == NewAppend(NewAppend(f, b, CondBr(n, n + 2, cond)), n + 2, Br(n + 1))
  IN  Listed([g EXCEPT !.f = Filled3(NewBlock(NewBlock(NewBlock(@))))], n + 3, n + 4)

(* Bug: what decides is the second operand alone. *)
MergeNone(a, b) == b

Merge(a, b) == a \o b

(* The second operand is computed in a block of its own, where the first    *)
(* does not decide.                                                        *)
RECURSIVE Gen(_, _), GenAll(_, _), Indexed(_, _, _, _, _)
Undecided(n, h) == IF n.op = "&&" THEN h.tl ELSE h.fl
Both(n, h, r) ==
  IF n.op = "&&" THEN [r EXCEPT !.fl = Merge(h.fl, r.fl)] ELSE [r EXCEPT !.tl = Merge(h.tl, r.tl)]
GenRight(n, h, b) == Both(n, h, Gen(InsertBB(BackPatch(h, Undecided(n, h), b), b), n.kids[2]))
GenLogic(g, n)    == GenRight(n, Gen(WithBlock(g), n.kids[1]), g.f.next)

(* r: [g, vs], the values so far.                                          *)
With(r, h)    == [g |-> h, vs |-> Append(r.vs, h.val)]
GenAll(g, ns) == ForEach(LAMBDA r, n : With(r, Gen(r.g, n)), [g |-> g, vs |-> <<>>], ns)
Widened(g, b, n, o) == IF n.res = BoolT THEN EmitValue(g, b, IntT, Zext(None, o)) ELSE [g EXCEPT !.val = o]
OpNames == [x \in {"+", "-", "*", "/", "%", "<", "<=", ">", ">=", "==", "!="} |->
              CASE x = "+" -> "add" [] x = "-" -> "sub" [] x = "*" -> "mul" [] x = "/" -> "div" [] x = "%" -> "mod"
                [] x = "<" -> "l" [] x = "<=" -> "le" [] x = ">" -> "g" [] x = ">=" -> "ge"
                [] x = "==" -> "e" [] x = "!=" -> "ne"]
ForkOn(g, b)       == Forked(g, b, g.val)
Compared(g, b, n, x, y) == ForkOn(EmitValue(g, b, IntT, Cmp(OpNames[n.op], None, x, y)), b)
RightWide(g, b, n, x, y) == LET h == Widened(g, b, n.kids[2], y) IN Compared(h, b, n, x, h.val)
LeftWide(g, b, n, vs)    == LET h == Widened(g, b, n.kids[1], vs[1]) IN RightWide(h, b, n, h.val, vs[2])
Computed(g, b, n, vs)    == EmitValue(g, b, n.res, Bin(OpNames[n.op], None, vs[1], vs[2]))
Applied(r, b, n)   == IF n.op \in Relational THEN LeftWide(r.g, b, n, r.vs) ELSE Computed(r.g, b, n, r.vs)
GenBinary(g, n)    == Applied(GenAll(g, n.kids), g.bb, n)

(* "!" is asked of whether the operand is not 0.                           *)
NotZeroOf(h)       == EmitValue(h, h.bb, IntT, Cmp("ne", None, h.val, C(0)))
Flip(h)            == EmitValue(h, h.bb, IntT, Xor(None, h.val))
MinusOf(h, t)      == EmitValue(h, h.bb, t, Bin("sub", None, ConstOf(Constant(t, 0)), h.val))
WideIf(h, n)       == IF n.ty = BoolT THEN EmitValue(h, h.bb, IntT, Zext(None, h.val)) ELSE h
Signed(h, n)       == IF n.op = "!" THEN Flip(NotZeroOf(h)) ELSE MinusOf(WideIf(h, n.kids[1]), n.res)
GenUnary(g, n)     == Signed(Gen(g, n.kids[1]), n)

ConvertedTo(h, t) ==
  CASE t = BoolT  -> ForkOn(NotZeroOf(h), h.bb)
    [] t = IntT   -> EmitValue(h, h.bb, IntT, Fptosi(None, h.val))
    [] t = FloatT -> EmitValue(h, h.bb, FloatT, Sitofp(None, h.val))
GenCast(g, n)     == ConvertedTo(Gen(g, n.kids[1]), n.ty)

-----------------------------------------------------------------------------
(* An element's address: one step for every dimension, from the variable's *)
(* address or, of a parameter, from what the variable holds.               *)
Step(g, b, src, o, t, op) == EmitValue(g, b, IntT, [Gep(None, src, o, CellsOf(t)) EXCEPT !.op = op])
IsPointer(t) == t[2] = -1
Origin(g, b, n) ==
  IF IsPointer(n.ty) THEN EmitValue(g, b, IntT, Load(None, g.addr[n.sym])) ELSE [g EXCEPT !.val = g.addr[n.sym]]
(* k indexes are done, t is what the address is of.                        *)
IndexOp(n, k) == IF k = 0 /\ ~IsPointer(n.ty) THEN "first" ELSE "none"
Inward(h, b, n, k, t, src) == Indexed(Step(h, b, src, h.val, ElementT(t), IndexOp(n, k)), b, n, k + 1, ElementT(t))
Indexed(g, b, n, k, t) ==
  IF ~IsArrayT(t) THEN g
  ELSE IF k = Len(n.kids) THEN Step(g, b, g.val, C(0), ElementT(t), "none")
  ELSE Inward(Gen(g, n.kids[k + 1]), b, n, k, t, g.val)
GenAddress(g, n) == Indexed(Origin(g, g.bb, n), g.bb, n, 0, n.ty)
Fetched(h, b, t) == IF IsArrayT(t) THEN h ELSE EmitValue(h, b, t, Load(None, h.val))
GenId(g, n) ==
  IF ~IsArrayT(n.ty) THEN EmitValue(g, g.bb, n.ty, Load(None, g.addr[n.sym]))
  ELSE IF n.kids # <<>> THEN Fetched(GenAddress(g, n), g.bb, GetType(n))
  ELSE IF IsPointer(n.ty) THEN Origin(g, g.bb, n)
  ELSE Step(g, g.bb, g.addr[n.sym], C(0), ElementT(n.ty), "first")

Called(g, e, vs) ==
  IF e.ty = TypeOf("void") THEN EmitIn(g, g.bb, Call(None, e.name, vs))
  ELSE EmitValue(g, g.bb, e.ty, Call(None, e.name, vs))
Returned(r, e) == Called(r.g, e, r.vs)
GenCall(g, n)  == Returned(GenAll(g, n.kids), g.entries[n.sym])

Gen(g, n) ==
  CASE n.k = "const" -> [g EXCEPT !.val = ConstOf(n)]
    [] n.k = "id"    -> GenId(g, n)
    [] n.k = "call"  -> GenCall(g, n)
    [] n.k = "cast"  -> GenCast(g, n)
    [] n.k = "unary" -> GenUnary(g, n)
    [] n.k = "bin" /\ n.op \in {"&&", "||"} -> GenLogic(g, n)
    [] OTHER         -> GenBinary(g, n)

-----------------------------------------------------------------------------
(* The elements of an initial value with their indexes; an empty list ends  *)
(* the walk.                                                               *)
RECURSIVE LeavesOf(_, _)
LeavesOf(n, path) ==
  IF n.k # "list" THEN << <<n, path>> >>
  ELSE IF n.kids = <<>> THEN << <<n, <<>>>> >>
  ELSE FlattenSeq([k \in DOMAIN n.kids |-> LeavesOf(n.kids[k], Append(path, k - 1))])
Leaves(n) ==
  LET all == LeavesOf(n, <<>>)
      end == Min({k \in DOMAIN all : all[k][1].k = "list"} \cup {Len(all) + 1})
  IN  SubSeq(all, 1, end - 1)

(* q: g, near (the address of the last element stored to and how far the   *)
(* one before the next is from it, in bytes).  The elements that memset has *)
(* cleared need no address.                                                *)
ChainOp(near, k, e) == IF near # <<>> /\ ~IsArrayT(e) THEN "last" ELSE IF k = 1 THEN "first" ELSE "none"
Link(r, b, o, e, op, near) ==
  [t |-> e, g |-> EmitValue(r.g, b, IntT, [Gep(None, r.g.val, o, CellsOf(e)) EXCEPT !.op = op, !.init = near])]
Chain(g, b, t, base, path, near) ==
  ForEach(LAMBDA r, k : Link(r, b, C(path[k]), ElementT(r.t), ChainOp(near, k, ElementT(r.t)), near),
          [g |-> [g EXCEPT !.val = base], t |-> t], [k \in DOMAIN path |-> k]).g
DeleteBack(f, b, n) == ForEach(Unlink, f, Reverse(SubSeq(f.code[b], Len(f.code[b]) - n + 1, Len(f.code[b]))))
Skipped(h, b, path, near) ==
  [g |-> [h EXCEPT !.f = DeleteBack(@, b, Len(path))], near |-> IF near = <<>> THEN <<>> ELSE <<near[1], near[2] + WordBytes>>]
Kept(h, b, o)  == [g |-> EmitIn(h, b, Store(h.val, o)), near |-> <<h.val, 0>>]
StoreTo(h, b, path, near, o, memset) ==
  IF memset /\ IsZero(o) THEN Skipped(h, b, path, near) ELSE Kept(h, b, o)
Reach(h, b, t, base, path, near, memset) ==
  StoreTo(Chain(h, b, t, base, path, near), b, path, near, h.val, memset)
StoreElement(q, b, t, base, memset, leaf) == Reach(Gen(q.g, leaf[1]), b, t, base, leaf[2], q.near, memset)

(* memset clears an array of which few elements are not zero.              *)
Cleared(g, b, base, cells) ==
  LET Fill1(h) == EmitIn(h, b, Call(None, "memset", <<h.val, C(0), C(WordBytes * cells), C(0)>>))
  IN  Fill1(EmitValue(g, b, IntT, [Bitcast(None, base) EXCEPT !.op = "i8"]))
UsesMemset(e) == IsArrayT(e.ty) /\ e.notZero < CellsOf(e.ty) \div 2
StoreAll(g, b, e, base, init) ==
  ForEach(LAMBDA q, x : StoreElement(q, b, e.ty, base, UsesMemset(e), x), [g |-> g, near |-> <<>>], Leaves(init)).g
StoreOne(h, b, base) == EmitIn(h, b, Store(base, h.val))
GenInitial(g, e, base, init) ==
  IF init.k # "list" THEN StoreOne(Gen(g, init), g.bb, base)
  ELSE StoreAll(IF UsesMemset(e) THEN Cleared(g, g.bb, base, CellsOf(e.ty)) ELSE g, g.bb, e, base, init)

ParamOf(e, s) == IF IsArrayT(e.ty) THEN A(s) ELSE IF e.ty = FloatT THEN Q(s) ELSE P(s)
ParamLevel == 1
GenGlobal(g, s) ==
  [g EXCEPT !.addr = (s :> G(Len(g.globals) + 1)) @@ @,
            !.globals = LET e == g.entries[s]
                            word(q) == IF e.ty = FloatT \/ (IsArrayT(e.ty) /\ ScalarOf(e.ty) = FloatT) THEN q ELSE Quo(q, Quarters)
                        IN  Append(@, IF ~IsArrayT(e.ty) THEN <<word(e.value)>>
                                      ELSE IF e.words = <<>> THEN ZeroWords(CellsOf(e.ty))
                                      ELSE [k \in 1 .. CellsOf(e.ty) |-> word(e.words[k])])]
(* The entry takes the reservations in the order of the declarations.      *)
LocalIn(e, d) ==
  IF IsArrayT(e.ty) THEN AllocaArray(d, IF IsPointer(e.ty) THEN 1 ELSE CellsOf(e.ty)) ELSE Alloca(d, 1)
Reserved(g, s, i) ==
  [g EXCEPT !.f = [New(g.f, LocalIn(g.entries[s], T(i))) EXCEPT !.code[Entry(g.f)] = InsertAt(@, g.allocs + 1, i)],
            !.allocs = @ + 1, !.addr = (s :> T(i)) @@ @]
Arrives(g, e, s, d) == IF e.level = ParamLevel THEN EmitIn(g, g.bb, Store(d, ParamOf(e, s))) ELSE g
Initialised(g, e, d, init) == IF init = <<>> THEN g ELSE GenInitial(g, e, d, init[1])
GenLocal(g, s, init) ==
  Arrives(Initialised(Reserved(g, s, g.f.next), g.entries[s], T(g.f.next), init), g.entries[s], s, T(g.f.next))
GenDecl(g, n) == IF g.entries[n[2]].level = Global THEN GenGlobal(g, n[2]) ELSE GenLocal(g, n[2], n[3])

-----------------------------------------------------------------------------
RECURSIVE GenStmt(_, _)
WithBlocks(g, n) == ForEach(LAMBDA h, k : WithBlock(h), g, [k \in 1 .. n |-> k])
Aimed(h, then, other) == BackPatch(BackPatch(h, h.tl, then), h.fl, other)
GenCond(g, e, then, other) == Aimed(Gen(g, e), then, other)
ToBlock(h, b)     == EmitIn(h, h.bb, Br(b))
(* A loop: its condition in front and once more at its end.                *)
Body(g, s, cond)  == GenStmt([InsertBB(g, cond + 1) EXCEPT !.loops = Append(@, <<cond, cond + 2>>)], s[3])
Again(h, s, cond)  == GenCond([Body(h, s, cond) EXCEPT !.copied = h.forks], s[2], cond + 1, cond + 2)
Around(g, s, cond) == Again(GenCond([g EXCEPT !.forks = <<>>], s[2], cond + 1, cond + 2), s, cond)
GenWhile(g, s) ==
  [InsertBB(Around(InsertBB(EmitIn(WithBlocks(g, 3), g.bb, Br(g.f.next)), g.f.next), s, g.f.next), g.f.next + 2)
     EXCEPT !.loops = g.loops]
Branch(g, s, b, end) == ToBlock(GenStmt(InsertBB(g, b), s), end)
GenIf(g, s, then)    == InsertBB(Branch(GenCond(WithBlocks(g, 2), s[2], then, then + 1), s[3], then, then + 1), then + 1)
GenIfElse(g, s, then) ==
  InsertBB(Branch(Branch(GenCond(WithBlocks(g, 3), s[2], then, then + 1), s[3], then, then + 2),
                  s[4], then + 1, then + 2), then + 2)
GenJump(g, to)       == InsertBB(WithBlock(EmitIn(g, g.bb, Br(to))), g.f.next + 1)
(* Assignment: the value before the address; the store in the block where  *)
(* both began.                                                             *)
StoreAt(h, b, o)     == EmitIn(h, b, Store(h.val, o))
AssignedTo(h, b, l) ==
  IF IsArrayT(l.ty) THEN StoreAt(GenAddress(h, l), b, h.val) ELSE EmitIn(h, b, Store(h.addr[l.sym], h.val))
Returning(h, b)      == EmitIn(h, b, Ret(h.val))
GenStmt(g, s) ==
  CASE s[1] = "assign" -> AssignedTo(Gen(g, s[3]), g.bb, s[2])
    [] s[1] = "expr"   -> Gen(g, s[2])
    [] s[1] = "block"  -> ForEach(GenStmt, g, s[2])
    [] s[1] = "if"     -> GenIf(g, s, g.f.next)
    [] s[1] = "ifelse" -> GenIfElse(g, s, g.f.next)
    [] s[1] = "while"    -> GenWhile(g, s)
    [] s[1] = "break"    -> GenJump(g, Last(g.loops)[2])
    [] s[1] = "continue" -> GenJump(g, Last(g.loops)[1])
    [] s[1] = "return" /\ s[2] = <<>> -> EmitIn(g, g.bb, Ret(None))
    [] s[1] = "return" /\ s[2] # <<>> -> Returning(Gen(g, s[2][1]), g.bb)
    [] s[1] = "decl"   -> GenDecl(g, s)

-----------------------------------------------------------------------------
(* FunctionDef: after the body, edges and returns from each block's last    *)
(* instruction, what follows a return, and blocks nothing leads to.        *)
IsBranch(in) == in.cls \in {"br", "cond"}
IsEmpty(f, b) == f.code[b] = <<>>
NewEdge(f, b, c) == AddPred(AddSucc(f, b, c), c, b)
RetIn(f, b, o) == NewAppend(f, b, Ret(o))
Default(t) == IF t = FloatT THEN FloatConst(0) ELSE IF t = IntT THEN C(0) ELSE None

LastOnly(f, b) ==
  [f EXCEPT !.code[b] = SelectSeq(@, LAMBDA i : ~IsBranch(f.ins[i]) \/ i = Last(f.code[b]))]
Joined2(f, b, t) ==
  LET in == LastIns(f, b)
      c  == in.to[1]
      ended == CASE in.cls = "br" -> IF IsEmpty(f, c) THEN RetIn(f, c, Default(t)) ELSE f
                 [] in.cls = "cond" -> IF IsEmpty(f, c) THEN RetIn(f, c, None)
                                       ELSE IF IsEmpty(f, in.to[2]) THEN RetIn(f, in.to[2], None) ELSE f
  IN  ForEach(LAMBDA h, x : NewEdge(h, b, x), ended, in.to)
EndBlock(f, b, t) ==
  IF ~IsEmpty(f, b) /\ IsBranch(LastIns(f, b)) THEN Joined2(LastOnly(f, b), b, t)
  ELSE IF (IsEmpty(f, b) \/ LastIns(f, b).cls # "ret") /\ t = TypeOf("void") THEN RetIn(LastOnly(f, b), b, None)
  ELSE IF IsEmpty(f, b) THEN f ELSE LastOnly(f, b)

Rets(f, b) == {k \in DOMAIN f.code[b] : f.ins[f.code[b][k]].cls = "ret"}
CutAfter(f, b) ==
  LET Cut(h) == ForEach(LAMBDA x, c : RemovePred(RemoveSucc(x, b, c), c, b), h, h.succ[b])
  IN  IF Rets(f, b) = {} THEN f
      ELSE Cut(ForEach(Delete, f, SubSeq(f.code[b], Min(Rets(f, b)) + 1, Len(f.code[b]))))
RECURSIVE Pruned(_)
Pruned(f) ==
  LET lost == SelectSeq(f.list, LAMBDA b : b # Entry(f) /\ f.pred[b] = <<>>)
  IN  IF lost = <<>> THEN f ELSE Pruned(DeleteBlock(f, lost[1]))
Finish(f, t) ==
  LET Ended(h) == ForEach(LAMBDA x, b : EndBlock(x, b, t), h, h.list)
      Short(h) == ForEach(CutAfter, h, h.list)
  IN  Pruned(Short(Ended(f)))

(* The declarations of the parameters come first.                          *)
FirstLabel == 1000
NewFunction(name, params, n) ==
  NewBlock([name |-> name, params |-> params, list |-> <<>>, code |-> <<>>, pred |-> <<>>, succ |-> <<>>,
            ins |-> <<>>, uses |-> (None :> <<>>), next |-> n, dom |-> <<>>, stores |-> <<>>, stores1 |-> <<>>,
            fstores |-> {}, fails |-> FALSE])
BeginFunction(g, d) ==
  [g EXCEPT !.f = NewFunction(d[2], Each(LAMBDA s : ParamOf(g.entries[s], s), d[4]), g.f.next),
            !.bb = g.f.next, !.allocs = 0, !.loops = <<>>]
EndFunction(g, name, f) ==
  [g EXCEPT !.funs = (name :> f) @@ @, !.order = Append(@, name), !.f.next = f.next]
Concluded(g, d) == EndFunction(g, d[2], Finish(g.f, d[3]))
GenFunction(g, d) == Concluded(GenStmt(ForEach(LAMBDA h, s : GenLocal(h, s, <<>>), BeginFunction(g, d), d[4]), d[5]), d)

Begin(entries) ==
  [f |-> [next |-> FirstLabel], bb |-> 0, entries |-> entries, addr |-> (0 :> None), allocs |-> 0,
   val |-> None, tl |-> <<>>, fl |-> <<>>, loops |-> <<>>, forks |-> <<>>, copied |-> <<>>,
   globals |-> <<>>, funs |-> <<>>, order |-> <<>>]
GenTop(g, d)  == IF d[1] = "fun" THEN GenFunction(g, d) ELSE GenDecl(g, d)
UnitOf(g)     == [funs |-> g.funs, globals |-> g.globals, order |-> g.order, readonly |-> {}]
GenUnit(tree) == UnitOf(ForEach(GenTop, Begin(tree.entries), tree.seq))
=============================================================================

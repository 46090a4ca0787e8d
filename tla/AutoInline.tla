------------------------------ MODULE AutoInline ------------------------------
(***************************************************************************)
(* Calls replaced by the body of what they call (src/src/AutoInline.cpp);  *)
(* and the order of what was put together (src/src/InsReorder.cpp).        *)
(***************************************************************************)
EXTENDS IR

ManyArguments == 10
TooLong       == 50

InstNum(f) == Cardinality({i \in Placed(f) : f.ins[i].cls \notin {"alloca", "br", "cond"}})
(* Set when a call is made, and never taken back.                          *)
HasRecur(f) == \E i \in DOMAIN f.ins : f.ins[i].cls = "call" /\ f.ins[i].op = f.name

(* decide: num is counted for all functions before the pass begins.        *)
Decide(u, num, in) ==
  /\ in.cls = "call" /\ in.op \in DOMAIN u.funs
  /\ LET g == u.funs[in.op]
     IN  \/ g.name = "set" /\ Len(g.params) = 3
         \/ ~HasRecur(g) /\ (Len(g.params) >= ManyArguments \/ num[g.name] < TooLong)

(* The instructions behind the call and the edges of its block are the new *)
(* block's; phis of the successors name it instead.                        *)
MoveTail(f, b, i, exit) ==
  LET k   == PosOf(f.code[b], i)
      f1  == [NewBlock(f) EXCEPT !.code[exit] = SubSeq(f.code[b], k + 1, Len(f.code[b])), !.code[b] = SubSeq(@, 1, k)]
      resource(g, j) == IF b \in DOMAIN g.ins[j].src
                        THEN RemoveSrc(AddSrc(g, j, exit, g.ins[j].src[b]), j, b) ELSE g
      one(g, c) == ForEach(resource, AddSucc(AddPred(RemovePred(RemoveSucc(g, b, c), c, b), c, exit), exit, c), Phis(g, c))
  IN  ForEach(one, f1, f1.succ[b])

(* ope2ope: an operand of g has a new temporary in its place, made when    *)
(* first met, here all at once.                                            *)
Operands(g) ==
  {o \in UNION {ToSet(g.ins[i].use) \cup {g.ins[i].def} : i \in Placed(g)} : o # None}
Renaming(g, next) ==
  ForEach(LAMBDA m, o : (o :> <<IF IsFloat(o) THEN "f" ELSE "t", next + Cardinality(DOMAIN m) + 1>>) @@ m,
          <<>>, InOrder(Operands(g), Before))

(* A parameter is the argument, but in a phi, a branch or a return a       *)
(* temporary like any other.                                               *)
Argument(ren, g, args, o) ==
  CASE IsGlobal(o) \/ IsConst(o) -> o
    [] IsParam(o) -> args[PosOf(g.params, o)]
    [] OTHER      -> ren[o]
OrConst(ren, o) == IF IsConst(o) THEN o ELSE ren[o]

(* The copy of an instruction; a return becomes the result plus zero and a *)
(* jump.                                                                   *)
CopyIns(ren, at, g, args, in) ==
  LET moved == [in EXCEPT !.to = [k \in DOMAIN @ |-> at[@[k]]], !.orig = <<0, 0>>]
  IN  CASE in.cls = "phi" -> Phi(ren[in.def], [c \in {at[b] : b \in DOMAIN in.src} |->
                                    OrConst(ren, in.src[CHOOSE b \in DOMAIN in.src : at[b] = c])])
        [] in.cls = "br"   -> moved
        [] in.cls = "cond" -> [moved EXCEPT !.use = <<ren[@[1]]>>]
        [] OTHER -> [moved EXCEPT !.def = IF @ = None THEN None ELSE ren[@],
                                  !.use = [k \in DOMAIN @ |-> Argument(ren, g, args, @[k])]]

(* t: f and results, the values returned, by the block that returns them.  *)
CopyOne(t, ren, at, g, args, exit, b, i) ==
  LET in == g.ins[i]
      d  == T(t.f.next)
      t1 == [t EXCEPT !.f = NewAppend([@ EXCEPT !.next = @ + 1], at[b], Bin("add", d, OrConst(ren, in.use[1]), C(0))),
                      !.results = Append(@, <<at[b], d>>)]
      t2 == IF in.use = <<>> THEN t ELSE t1
  IN  IF in.cls # "ret" THEN [t EXCEPT !.f = NewAppend(@, at[b], CopyIns(ren, at, g, args, in))]
      ELSE [t2 EXCEPT !.f = AddPred(AddSucc(NewAppend(@, at[b], Br(exit)), at[b], exit), exit, at[b])]

(* Bug: the first return counts. *)
ResultFirst(f, exit, d, results) == NewFront(f, exit, Bin("add", d, results[1][2], C(0)))

ResultOf(f, exit, d, results) ==
  CASE results = <<>> -> [f EXCEPT !.fails = TRUE]
    [] Len(results) = 1 -> NewFront(f, exit, Bin("add", d, results[1][2], C(0)))
    [] OTHER -> NewFront(f, exit, Phi(d, [b \in {r[1] : r \in ToSet(results)} |->
                                            (CHOOSE r \in ToSet(results) : r[1] = b)[2]]))

(* deal: the call i of f, of function g.                                   *)
Deal(f, i, g) ==
  LET b     == Parent(f, i)
      in    == f.ins[i]
      exit  == f.next
      first == f.next + Len(g.list)
      at    == [c \in BlockSet(g) |-> f.next + PosOf(g.list, c)]
      Edges(e) == [c \in {at[x] : x \in BlockSet(g)} |->
                     LET x == CHOOSE x \in BlockSet(g) : at[x] = c IN [k \in DOMAIN e[x] |-> at[e[x][k]]]]
      Blocks(h) == [ForEach(LAMBDA h1, c : NewBlock(h1), h, g.list) EXCEPT
                      !.next = @ + Cardinality(Operands(g)) + 1, !.pred = Edges(g.pred) @@ @, !.succ = Edges(g.succ) @@ @]
      Copied(t, ren) == ForEach(LAMBDA t1, c : ForEach(LAMBDA t2, j : CopyOne(t2, ren, at, g, in.use, exit, c, j),
                                                       t1, g.code[c]), t, g.list)
      Entered(h, e) == Unlink(AddPred(AddSucc(NewAppend(h, b, Br(e)), b, e), e, b), i)
      Ended(t) == IF in.def = None THEN Entered(t.f, at[Entry(g)])
                  ELSE ResultOf(Entered(t.f, at[Entry(g)]), exit, in.def, t.results)
  IN  Ended(Copied([f |-> Blocks(MoveTail(f, b, i, exit)), results |-> <<>>], Renaming(g, first + 1)))

(* The functions in the order of the unit; the calls of one are chosen     *)
(* before any is dealt with.  What was put in somewhere is dropped.        *)
AutoInlinePass(u) ==
  LET num == [g \in DOMAIN u.funs |-> InstNum(u.funs[g])]
      calls(w, g) == {i \in Placed(w.funs[g]) : Decide(w, num, w.funs[g].ins[i])}
      one(s, g) ==
        LET is == calls(s.u, g)
        IN  [u |-> [s.u EXCEPT !.funs[g] = ForEach(LAMBDA f, i : Deal(f, i, s.u.funs[f.ins[i].op]), @, Sorted(is))],
             used |-> s.used \cup {s.u.funs[g].ins[i].op : i \in is}]
      Without(s) == [s.u EXCEPT !.funs = [g \in DOMAIN @ \ s.used |-> @[g]],
                                !.order = SelectSeq(@, LAMBDA g : g \notin s.used)]
  IN  Without(ForEach(one, [u |-> u, used |-> {}], u.order))

-----------------------------------------------------------------------------
(* Definitions moved next to their uses, in functions of many parameters.  *)
ManyParams == 10

(* s: code (what is back in the block), last (the last one that needs      *)
(* nothing of the block).  An instruction goes behind the last of those it *)
(* needs that are back; one that only needs what comes later is not put    *)
(* back.                                                                   *)
NeedsOf(f, b, i) == ToSet(Uses(f.ins[i])) \cap {f.ins[j].def : j \in ToSet(f.code[b])}
PutAfter(code, j, i) == IF j = 0 THEN <<i>> \o code ELSE InsertAt(code, PosOf(code, j) + 1, i)
Reinsert(f, b, s, i) ==
  LET needs == NeedsOf(f, b, i)
      at    == SelectSeq(s.code, LAMBDA j : f.ins[j].def \in needs)
  IN  IF needs = {} THEN [code |-> PutAfter(s.code, s.last, i), last |-> i]
      ELSE IF at = <<>> THEN s
      ELSE [s EXCEPT !.code = PutAfter(@, Last(at), i)]

Terminator(in) == in.cls \in {"ret", "cond", "br"}
TerminatorLast(f, code) ==
  LET ts == SelectSeq(code, LAMBDA i : Terminator(f.ins[i]))
  IN  IF ts = <<>> THEN code ELSE Append(Remove(code, Last(ts)), Last(ts))

ReorderBlock(f, b) ==
  IF \E i \in ToSet(f.code[b]) : f.ins[i].cls = "call" THEN f
  ELSE [f EXCEPT !.code[b] =
          TerminatorLast(f, ForEach(LAMBDA s, i : Reinsert(f, b, s, i), [code |-> <<>>, last |-> 0], @).code)]

InsReorderPass(u) ==
  [u EXCEPT !.funs = [g \in DOMAIN @ |->
     IF Len(@[g].params) >= ManyParams /\ \A k \in DOMAIN @[g].params : ~IsArray(@[g].params[k])
     THEN ForEach(ReorderBlock, @[g], @[g].list) ELSE @[g]]]
=============================================================================

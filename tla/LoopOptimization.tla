--------------------------- MODULE LoopOptimization ---------------------------
(***************************************************************************)
(* Natural loops, and what does not change in a loop moved in front of it  *)
(* (src/src/LoopOptimization.cpp: pass1, and what pass does before it      *)
(* unrolls).                                                               *)
(***************************************************************************)
EXTENDS IR

(* calculateFinalDomBBSet: blocks known from an earlier call start with    *)
(* what was found then, new ones with all blocks; sets only shrink.        *)
DomOf(dom, b) == IF b \in DOMAIN dom THEN dom[b] ELSE {}
SweepDom(f, dom) ==
  LET meet(d, b) == {x \in UNION {DomOf(d, p) : p \in ToSet(f.pred[b])} :
                       \A p \in ToSet(f.pred[b]) : x \in DomOf(d, p)}
  IN  ForEach(LAMBDA d, b : [d EXCEPT ![b] = meet(d, b) \cup {b}], dom, f.list)
RECURSIVE SettleDom(_, _)
SettleDom(f, dom) ==
  LET d == SweepDom(f, dom) IN IF \A b \in BlockSet(f) : d[b] = dom[b] THEN d ELSE SettleDom(f, d)
CalculateDom(f) ==
  [f EXCEPT !.dom = SettleDom(f, @ @@ [b \in BlockSet(f) |-> IF b = Entry(f) THEN {b} ELSE BlockSet(f)])]

(* getBackEdges, calculateLoopList: edges to a dominator; of those with    *)
(* one head only the first counts (mergeEdge appends to a copy).           *)
BackEdges(f) ==
  ForEach(LAMBDA s, b : s \o [k \in DOMAIN SelectSeq(f.succ[b], LAMBDA c : c \in f.dom[b]) |->
                                <<b, SelectSeq(f.succ[b], LAMBDA c : c \in f.dom[b])[k]>>], <<>>, f.list)
MergeEdges(edges) ==
  ForEach(LAMBDA s, e : IF \E k \in DOMAIN s : s[k][2] = e[2] THEN s ELSE Append(s, e), <<>>, edges)
RECURSIVE Backward(_, _, _)
Backward(f, loop, added) ==
  LET preds == ForEach(LAMBDA s, b : s \o f.pred[b], <<>>, added)
      more  == ForEach(LAMBDA s, p : IF p \in ToSet(loop) \cup ToSet(s) THEN s ELSE Append(s, p), <<>>, preds)
  IN  IF more = <<>> THEN loop ELSE Backward(f, loop \o more, more)
LoopOf(f, e) == IF e[1] = e[2] THEN <<e[2]>> ELSE Backward(f, <<e[2], e[1]>>, <<e[1]>>)
LoopList(f) == LET es == MergeEdges(BackEdges(f)) IN [k \in DOMAIN es |-> LoopOf(f, es[k])]

-----------------------------------------------------------------------------
(* calculateLoopConstant.  A store is one, too, if its address and its     *)
(* value are, whatever else in the loop reads or writes there.             *)
DefinedIn(f, loop, o) == \E b \in ToSet(loop) : \E i \in ToSet(f.code[b]) : f.ins[i].def = o
AmongConsts(f, cs, o) == \E i \in ToSet(cs) : f.ins[i].cls # "store" /\ f.ins[i].def = o
Fixed(f, loop, cs, o) ==
  IsConst(o) \/ IsGlobal(o) \/ ~DefinedIn(f, loop, o) \/ AmongConsts(f, cs, o)
LoopConstant(f, loop, cs, i) ==
  LET in == f.ins[i]
      fixed(k) == Fixed(f, loop, cs, in.use[k])
  IN  CASE in.cls \in {"bin", "gep", "store"} -> fixed(1) /\ fixed(2)
        [] in.cls = "bitcast" -> fixed(1)
        [] in.cls = "alloca"  -> TRUE
        [] in.cls = "call" /\ in.op = "memset" ->
             AmongConsts(f, cs, in.use[1]) /\ (IsConst(in.use[3]) \/ AmongConsts(f, cs, in.use[3]))
        [] OTHER              -> FALSE
(* A block is gone through until nothing but stores is new.                *)
RECURSIVE ConstantsOfBlock(_, _, _, _)
ConstantsOfBlock(f, loop, cs, b) ==
  LET new == ForEach(LAMBDA s, i : IF i \notin ToSet(s) /\ LoopConstant(f, loop, s, i) THEN Append(s, i) ELSE s,
                     cs, f.code[b])
  IN  IF \A k \in Len(cs) + 1 .. Len(new) : f.ins[new[k]].cls = "store" THEN new
      ELSE ConstantsOfBlock(f, loop, new, b)
LoopConstants(f, loop) == ForEach(LAMBDA s, b : ConstantsOfBlock(f, loop, s, b), <<>>, loop)

-----------------------------------------------------------------------------
(* CodePullUp.  A block in front of the loop takes the edges that enter it;*)
(* the first of the targets of a branch that is the head is changed.  Phis *)
(* get the block for a source, with the value of the first that left.      *)
Retarget(in, from, to) ==
  LET at == {k \in DOMAIN in.to : in.to[k] = from}
  IN  IF at = {} THEN in ELSE [in EXCEPT !.to[Min(at)] = to]
ChangePhi(f, loop, pre, olds) ==
  LET move(g, i) == ForEach(LAMBDA h, b : IF b \notin DOMAIN h.ins[i].src THEN h
                                          ELSE AddSrc(RemoveSrc(h, i, b), i, pre, h.ins[i].src[b]), g, olds)
  IN  ForEach(LAMBDA g, b : ForEach(move, g, Phis(g, b)), f, loop)
Preheader(f, loop, back) ==
  LET head == Head(loop)
      pre  == f.next
      olds == SelectSeq(f.pred[head], LAMBDA p : <<p, head>> \notin ToSet(back))
      turn(g, p) == AddPred(AddSucc(RemoveSucc([g EXCEPT !.ins[Last(g.code[p])] = Retarget(@, head, pre)], p, head),
                                    p, pre), pre, p)
      f1 == ForEach(turn, NewBlock(f), olds)
      f2 == NewAppend(AddSucc(AddPred(f1, head, pre), pre, head), pre, Br(head))
  IN  ChangePhi(ForEach(LAMBDA g, p : RemovePred(g, head, p), f2, olds), loop, pre, olds)

Exits(f, loop) == {b \in ToSet(loop) : \E c \in ToSet(f.succ[b]) : c \notin ToSet(loop)}
(* What a block that dominates all exits computes.                         *)
Liftable(f, loop) ==
  SelectSeq(LoopConstants(f, loop), LAMBDA i : \A e \in Exits(f, loop) : Parent(f, i) \in f.dom[e])
PullUpLoop(f, loop, back) ==
  LET is  == Liftable(f, loop)
      pre == f.next
      g   == Preheader(f, loop, back)
  IN  IF is = <<>> THEN f
      ELSE ForEach(LAMBDA h, i : InsertBefore(Unlink(h, i), pre, i, Last(h.code[pre])), g, is)
CodePullUp(f) ==
  LET back == BackEdges(f) IN ForEach(LAMBDA g, loop : PullUpLoop(g, loop, back), f, LoopList(f))

(* dealwithNoPreBB: what follows such a block still names it.              *)
DropWithoutPreds(f) ==
  [f EXCEPT !.list = SelectSeq(@, LAMBDA b : b = f.list[1] \/ f.pred[b] # <<>>)]

Hoist(f) == DropWithoutPreds(CodePullUp(CalculateDom(f)))
LoopOptimizationPass1(u) == [u EXCEPT !.funs = [g \in DOMAIN @ |-> Hoist(@[g])]]
-----------------------------------------------------------------------------
(* Loops of one block unrolled (src/src/LoopUnroll.cpp), after the hoisting.*)
(* A null pointer met on the way is a failure of the pass.                 *)

MaxUnroll == 400
Factor    == 4
Ordered   == {"g", "ge", "l", "le"}

(* calculateInnerLoop keeps the loops that are part of no other loop, the  *)
(* outermost; findLoop those of one block.                                 *)
IsSubset(a, b) == ToSet(a) \subseteq ToSet(b) /\ Len(a) # Len(b)
InnerLoops(loops) ==
  SelectSeq(loops, LAMBDA l : \A k \in DOMAIN loops : ~IsSubset(l, loops[k]))
Bodies(loops) ==
  LET one == SelectSeq(InnerLoops(loops), LAMBDA l : Len(l) = 1) IN [k \in DOMAIN one |-> one[k][1]]
CondOf(f, body) == Head(SelectSeq(f.pred[body], LAMBDA b : b # body))

Cmps(f, b) == SelectSeq(f.code[b], LAMBDA i : f.ins[i].cls = "cmp")

(* isRegionConst: "yes", "no", or "null" if one of them has no definition. *)
RegionConst(f, i, c) ==
  LET home(o) == Parent(f, DefOf(f, o))
  IN  CASE IsConst(c) \/ IsParam(c) -> "yes"
        [] IsGlobal(c)              -> "no"
        [] ~(IsConst(c) \/ IsParam(c) \/ IsGlobal(c)) /\ (DefOf(f, c) = 0 \/ DefOf(f, i) = 0) -> "null"
        [] OTHER -> IF home(c) \in DomOf(f.dom, home(i)) THEN "yes" ELSE "no"

(* getBeginOp: back from the operand to a phi, through operations of two   *)
(* operands one of which is constant; [op, path], op None if there is none *)
(* and "null" after a null pointer.                                        *)
Null == <<"null", 0>>
RECURSIVE BeginOf(_, _, _, _)
BeginOf(f, body, o, path) ==
  LET d  == DefOf(f, o)
      in == f.ins[d]
      u1 == in.use[1]
      u2 == in.use[2]
      c1 == RegionConst(f, u1, u2)
      c2 == RegionConst(f, u2, u1)
      next == CASE c1 = "yes" -> u1 [] c1 = "null" -> Null
                [] c1 = "no" /\ c2 = "yes" -> u2 [] c1 = "no" /\ c2 = "null" -> Null [] OTHER -> None
  IN  IF d = 0 THEN [op |-> Null, path |-> path]
      ELSE IF in.cls = "phi"
      THEN [op |-> in.src[CHOOSE b \in DOMAIN in.src : b # body], path |-> Append(path, d)]
      ELSE IF Len(in.use) # 2 THEN [op |-> None, path |-> Append(path, d)]
      ELSE IF next \in {None, Null} THEN [op |-> next, path |-> Append(path, d)]
      ELSE IF DefOf(f, next) = 0 THEN [op |-> Null, path |-> path]
      ELSE IF Parent(f, DefOf(f, next)) # body THEN [op |-> None, path |-> Append(path, d)]
      ELSE BeginOf(f, body, next, Append(path, d))

-----------------------------------------------------------------------------
(* A copy in which the operands of m are replaced one by one; if all, the  *)
(* others count one more use.                                              *)
Rename(f, i, m, all) ==
  ForEach(LAMBDA g, o : IF o \in DOMAIN m THEN ReplaceUse(g, i, o, m[o])
                        ELSE IF all THEN AddUse(g, o, i) ELSE g, f, Uses(f.ins[i]))
(* A fresh operand of the kind of o.                                       *)
Fresh(o, n) == <<IF IsFloat(o) THEN "f" ELSE "t", n>>
Defs(f, is) == [k \in DOMAIN is |-> f.ins[is[k]].def]

(* A copy of each of is with a new result: [f, is, map (old -> new)].      *)
CopyAll(f, is, old) ==
  ForEach(LAMBDA s, k :
      LET d == IF old[k] = None THEN None ELSE Fresh(old[k], s.f.next)
          g == CopyOf([s.f EXCEPT !.next = @ + 1], is[k], d)
      IN  [f |-> g, is |-> Append(s.is, g.next - 1), map |-> IF d = None THEN s.map ELSE (old[k] :> d) @@ s.map],
    [f |-> f, is |-> <<>>, map |-> <<>>], [k \in DOMAIN is |-> k])

(* The sources of the phis for the body, through m; a source that m does   *)
(* not have is a null pointer.                                             *)
AdvancePhis(f, body, phis, m) ==
  ForEach(LAMBDA g, i :
      IF g.ins[i].src[body] \notin DOMAIN m THEN [g EXCEPT !.fails = TRUE]
      ELSE ReplaceUse(g, i, g.ins[i].src[body], m[g.ins[i].src[body]]), f, phis)

(* One more copy of the body in front of the comparison; t: f, pre (the    *)
(* copy before), map.  In it a phi is what it will be from the back edge.  *)
OneCopy(t, body, phis, cmp, last, final) ==
  LET With(c) ==
        LET new == [k \in DOMAIN c.is |-> IF k > Len(phis) THEN c.is[k] ELSE c.f.next + k - 1]
            map == c.map @@ t.map
            numbers == [k \in DOMAIN new |-> k]
            Ahead == ForEach(LAMBDA g, k :
                       LET i == c.is[k]
                       IN  IF k > Len(phis) THEN g
                           ELSE [New(g, Bin("add", g.ins[i].def, g.ins[phis[k]].src[body], C(0))) EXCEPT !.ins[i].def = None],
                       c.f, numbers)
            Renamed == ForEach(LAMBDA g, k : IF k <= Len(phis) THEN g ELSE Rename(g, new[k], map, TRUE), Ahead, numbers)
            (* The last copy has the results of the body.                  *)
            Restored(f) == ForEach(LAMBDA g, k : IF g.ins[new[k]].def = None THEN g ELSE [g EXCEPT !.ins[new[k]].def = final[k]],
                                   f, numbers)
            Back(f) == [o \in {f.ins[new[k]].def : k \in DOMAIN new} \ {None} |->
                          final[CHOOSE k \in DOMAIN new : f.ins[new[k]].def = o]]
            Ended(f, back) == AdvancePhis(ForEach(LAMBDA g, i : Rename(g, i, back, FALSE), Restored(f), new), body, phis, back)
            Placed2(f) == IF f.fails THEN [t EXCEPT !.f.fails = TRUE]
                          ELSE [f |-> ForEach(LAMBDA g, i : InsertBefore(g, body, i, cmp),
                                              IF last THEN Ended(f, Back(f)) ELSE f, new), pre |-> new, map |-> map]
        IN  Placed2(AdvancePhis(Renamed, body, phis, map))
  IN  With(CopyAll(t.f, t.pre, Defs(t.f, t.pre)))

(* The comparison and the branch behind it make way for a jump, the phis   *)
(* for their values from outside.                                          *)
Flatten(f, body, phis, cmp) ==
  LET one(g, i) ==
        LET in == g.ins[i]
            o  == in.src[CHOOSE b \in DOMAIN in.src : b # body]
            h  == NewBefore([g EXCEPT !.ins[i].def = None], body, Bin("add", in.def, o, C(0)), i)
        IN  Unlink(h, i)
      br == f.code[body][PosOf(f.code[body], cmp) + 1]
      f1 == ForEach(one, f, phis)
      f2 == NewAppend(Unlink(Unlink(f1, cmp), br), body, Br(f.ins[br].to[2]))
  IN  RemoveSucc(RemovePred(f2, body, body), body, body)

(* specialCopyInstructions: the body num times.  The first gets new        *)
(* results; those it had are for the last copy, and lost if there is none. *)
SpecialCopy(f, body, num, whole) ==
  LET cmp  == Head(Cmps(f, body))
      is   == SubSeq(f.code[body], 1, PosOf(f.code[body], cmp) - 1)
      phis == SelectSeq(is, LAMBDA i : f.ins[i].cls = "phi")
      final == Defs(f, is)
      fresh == [k \in DOMAIN is |-> IF final[k] = None THEN None ELSE Fresh(final[k], f.next + k)]
      map  == [o \in ToSet(final) \ {None} |-> fresh[PosOf(final, o)]]
      f1   == [f EXCEPT !.next = @ + Len(is) + 1,
                        !.ins = [i \in DOMAIN @ |-> IF i \in ToSet(is) /\ @[i].def # None
                                                    THEN [@[i] EXCEPT !.def = map[@]] ELSE @[i]]]
      (* The copies of the phis are never placed, but count as users.      *)
      lost == ForEach(LAMBDA g, i : Rename(CopyOf(g, i, None), g.next, map, FALSE), f1, phis)
      f2   == ForEach(LAMBDA g, i : Rename(g, i, map, FALSE), lost, is)
      Ended(g) == IF whole /\ ~g.fails THEN Flatten(g, body, phis, cmp) ELSE g
  IN  Ended(ForEach(LAMBDA t, k : IF t.f.fails THEN t ELSE OneCopy(t, body, phis, cmp, k = num - 1, final),
                    [f |-> f2, pre |-> is, map |-> <<>>], [k \in 1 .. num - 1 |-> k]).f)

-----------------------------------------------------------------------------
(* normalCopyInstructions: what is left over of the count divided by four  *)
(* is done by a copy of the loop in front of it.                           *)
NormalCopy(f0, cond, body, begin, end, stride) ==
  LET outs == SelectSeq(f0.succ[body], LAMBDA b : b # body)
      out  == Last(outs)
      cmp  == Head(Cmps(f0, body))
      is   == SubSeq(f0.code[body], 1, PosOf(f0.code[body], cmp) - 1)
      newCond == f0.next
      resBody == f0.next + 1
      resOut  == f0.next + 2
      f    == NewBlock(NewBlock(NewBlock(f0)))
      x(k) == T(f.next + k)           \* count, count + 1, rest, test, number, next number, tests
      incl == f.ins[cmp].op \in {"le", "ge"}
      br   == Last(f.code[cond])
      (* The block that tells how many times are left over.                *)
      head == <<Bin("sub", x(0), end, begin)>>
              \o (IF incl THEN <<Bin("add", x(1), x(0), C(1))>> ELSE <<>>)
              \o <<Bin("mod", x(2), IF incl THEN x(1) ELSE x(0), C(Factor)), Cmp("e", x(3), x(2), C(0)),
                   CondBr(body, resBody, x(3))>>
      Turned == [AddPred(RemoveSucc(AddSucc(f, cond, newCond), cond, body), newCond, cond) EXCEPT
                   !.ins[br] = Retarget(@, body, newCond), !.next = @ + 9]
      Headed == ForEach(LAMBDA g, in : NewAppend(g, newCond, in), AddSucc(AddSucc(Turned, newCond, body), newCond, resBody), head)
      (* The copy c of the loop, which counts up to the rest.              *)
      resource(g, i) ==
        IF g.ins[i].cls # "phi" THEN g
        ELSE LET a == g.ins[i].src[cond]
                 b == g.ins[i].src[body]
             IN  AddSrc(AddSrc(RemoveSrc(RemoveSrc(g, i, cond), i, body), i, newCond, a), i, resBody, b)
      Renamed(c) == ForEach(LAMBDA g, i : Rename(g, i, c.map, TRUE), ForEach(resource, c.f, c.is), c.is)
      Counter(g) == NewAppend(g, resBody, [Phi(x(4), <<>>) EXCEPT !.src = (newCond :> C(0)) @@ (resBody :> x(5)), !.use = <<C(0), x(5)>>])
      Copied(c)  == ForEach(LAMBDA g, i : Append1(g, resBody, i), Counter(Renamed(c)), c.is)
      Counted(c) == ForEach(LAMBDA g, in : NewAppend(g, resBody, in), Copied(c),
                            <<Bin("add", x(5), x(4), C(1)), Cmp("ne", x(6), x(5), x(2)), CondBr(resBody, resOut, x(6))>>)
      Looped(g)  == AddPred(AddPred(AddSucc(AddSucc(g, resBody, resBody), resBody, resOut), resBody, newCond), resBody, resBody)
      (* Behind it the comparison again.                                   *)
      Tested(g, c) == NewAppend(Append1(ReplaceUse(CopyOf(g, cmp, x(7)), g.next, stride, c.map[stride]), resOut, g.next),
                                resOut, CondBr(body, out, x(7)))
      Left(g)    == AddPred(AddSucc(AddSucc(AddPred(g, resOut, resBody), resOut, out), resOut, body), out, resOut)
      Entered(g) == AddPred(AddPred(RemovePred(g, body, cond), body, newCond), body, resOut)
      follow(g, i, m) ==
        LET a == g.ins[i].src[cond]
            b == g.ins[i].src[body]
        IN  IF g.ins[i].cls # "phi" THEN g
            ELSE IF b \notin DOMAIN m THEN [g EXCEPT !.fails = TRUE]
            ELSE AddSrc(AddSrc(RemoveSrc(g, i, cond), i, newCond, a), i, resOut, m[b])
      leave(g, i, m) ==
        IF body \notin DOMAIN g.ins[i].src \/ g.ins[i].src[body] \notin DOMAIN m THEN [g EXCEPT !.fails = TRUE]
        ELSE AddSrc(g, i, resOut, m[g.ins[i].src[body]])
      Leave(g, m) == ForEach(LAMBDA h, i : leave(h, i, m), g, Phis(g, out))
      Unrolled(g, m) == IF g.fails THEN [f EXCEPT !.fails = TRUE] ELSE Leave(SpecialCopy(g, body, Factor, FALSE), m)
      With(c) == IF stride \notin DOMAIN c.map THEN [f EXCEPT !.fails = TRUE]
                 ELSE Unrolled(ForEach(LAMBDA g, i : follow(g, i, c.map), Entered(Left(Tested(Looped(Counted(c)), c))), is), c.map)
  IN  IF outs = <<>> THEN f
      ELSE IF f.ins[br].cls # "cond" THEN [f EXCEPT !.fails = TRUE]
      ELSE With(CopyAll(Headed, is, Defs(f0, is)))

-----------------------------------------------------------------------------
(* How often "for (i = begin; i < end; i = i + step)" goes, or with <=; 0  *)
(* stands for what does not end, or goes past the limit.                   *)
RECURSIVE Trips(_, _, _, _, _)
Trips(i, end, le, next(_), n) ==
  IF (i < end \/ (le /\ i = end)) /\ n <= MaxUnroll THEN Trips(next(i), end, le, next, n + 1) ELSE n

(* What the comparison says of an end and an operand that changes.         *)
EndAndStride(in) ==
  LET first  == IF in.op \in {"g", "ge"} THEN <<in.use[1], in.use[2]>> ELSE <<in.use[2], in.use[1]>>
  IN  IF IsConst(first[2]) THEN <<first[2], first[1]>> ELSE first

(* The constant or outer operand of the operation that changes it.         *)
StepOf(f, body, in) ==
  LET ok(o) == IsConst(o) \/ IsParam(o) \/ (DefOf(f, o) # 0 /\ Parent(f, DefOf(f, o)) # body)
      us == SelectSeq(in.use, ok)
  IN  IF us = <<>> THEN None ELSE Last(us)

UnrollOne(f, body) ==
  LET cond  == CondOf(f, body)
      cmps  == Cmps(f, cond)
      cmp   == Last(Cmps(f, body))
      es    == EndAndStride(f.ins[cmp])
      le    == f.ins[cmp].op \in {"le", "ge"}
      next(iv, step, i) == IF iv.op = "add" THEN i + IntOf(step) ELSE i * IntOf(step)
      Counted(num) == IF num <= MaxUnroll THEN SpecialCopy(f, body, num, TRUE) ELSE f
      From(b, iv, step) ==
        IF iv.cls # "bin" \/ step = None THEN f
        ELSE IF IsConst(b) /\ IsConst(es[1]) /\ IsConst(step)
        THEN IF iv.op \in {"add", "mul"}
             THEN Counted(Trips(IntOf(b), IntOf(es[1]), le, LAMBDA i : next(iv, step, i), 0)) ELSE f
        ELSE IF iv.op = "add" /\ step = C(1) THEN NormalCopy(f, cond, body, b, es[1], es[2]) ELSE f
      Found(b) == IF b.op = Null THEN [f EXCEPT !.fails = TRUE]
                  ELSE IF b.op = None \/ Len(b.path) # 2 THEN f
                  ELSE From(b.op, f.ins[b.path[1]], StepOf(f, body, f.ins[b.path[1]]))
  IN  IF \/ \E i \in ToSet(f.code[body]) : f.ins[i].cls = "call"
         \/ cmps = <<>> \/ \E k \in DOMAIN cmps : f.ins[cmps[k]].op \notin Ordered
         \/ Cmps(f, body) = <<>> \/ f.ins[cmp].op \notin Ordered
      THEN f
      ELSE Found(BeginOf(f, body, es[2], <<>>))

Unroll(f) ==
  LET bodies == Bodies(LoopList(f))
  IN  IF \E k \in DOMAIN bodies : Len(f.pred[bodies[k]]) # 2 THEN [f EXCEPT !.fails = TRUE]
      ELSE ForEach(LAMBDA g, b : IF g.fails THEN g ELSE UnrollOne(g, b), f, bodies)

LoopOptimizationPass(u) ==
  [u EXCEPT !.funs = [g \in DOMAIN @ |-> Unroll(CalculateDom(Hoist(@[g])))]]
=============================================================================

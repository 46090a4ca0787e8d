------------------------------ MODULE Straighten ------------------------------
(***************************************************************************)
(* Control flow made straight (src/src/Starighten.cpp), with the upkeep of *)
(* phis when their sources' blocks go away (PhiInstruction::changeSrcBlock *)
(* in Instruction.cpp), and unreachable code (src/src/ElimUnreachCode.cpp).*)
(*                                                                         *)
(* s: the function f and ch, the changes: a block that is gone -> blocks   *)
(* that now stand where it stood.                                          *)
(***************************************************************************)
EXTENDS IR

Note(ch, b, c) == (b :> ((IF b \in DOMAIN ch THEN ch[b] ELSE <<>>) \o <<c>>)) @@ ch
DropFrom(f, bs) == [f EXCEPT !.list = SelectSeq(@, LAMBDA b : b \notin bs)]

-----------------------------------------------------------------------------
(* fuseBlock: the instructions of j come behind those of i.                *)
FuseBlock(f, i, j) ==
  LET Cut   == IF LastIns(f, i).cls = "br" THEN Unlink(f, Last(f.code[i])) ELSE f
      Moved == [Cut EXCEPT !.code[i] = @ \o f.code[j], !.code[j] = <<>>, !.succ[i] = <<>>]
      Away  == ForEach(LAMBDA g, c : RemovePred(g, c, i), Moved, f.succ[i])
  IN  DropFrom(ForEach(LAMBDA g, c : AddPred(RemovePred(AddSucc(g, i, c), c, j), c, i), Away, f.succ[j]), {j})

(* pass1: a block with one successor takes it in if it is its only         *)
(* predecessor; started again from the first block until there is none.    *)
Fusible(f, i) == Len(f.succ[i]) = 1 /\ Len(f.pred[f.succ[i][1]]) = 1 /\ f.succ[i][1] # i
RECURSIVE Pass1(_)
Pass1(s) ==
  LET is == SelectSeq(s.f.list, LAMBDA i : Fusible(s.f, i))
  IN  IF is = <<>> THEN s
      ELSE LET i == Head(is)
               j == s.f.succ[i][1]
           IN  Pass1([s EXCEPT !.f = FuseBlock(@, i, j), !.ch = Note(@, j, i)])

(* pass3: a block with nothing but a jump goes, unless changeSrcBlock made *)
(* it (keep).  A conditional branch is turned away from it on both sides.  *)
OnlyJump(f, b) ==
  /\ b # Entry(f) /\ Len(f.code[b]) = 1
  /\ LastIns(f, b).cls = "br" /\ ~LastIns(f, b).keep
Bypass(s, b) ==
  LET to == LastIns(s.f, b).to[1]
      turned(f, p) ==
        [f EXCEPT !.ins[Last(f.code[p])].to = [k \in DOMAIN @ |-> IF @[k] = b THEN to ELSE @[k]],
                  !.succ[p] = IF @[1] = b THEN <<to>> \o Tail(@) ELSE Append(RemoveFirst(@, b), to)]
      turn(t, p) == [t EXCEPT !.f = AddPred(turned(@, p), to, p), !.ch = Note(@, b, p)]
  IN  [ForEach(turn, [s EXCEPT !.f = RemovePred(@, to, b)], s.f.pred[b]) EXCEPT !.f = DropFrom(@, {b})]
Pass3(s) == ForEach(LAMBDA t, b : IF OnlyJump(t.f, b) THEN Bypass(t, b) ELSE t, s, s.f.list)

(* pass5: where a block and its successor, reached from nowhere else,      *)
(* branch on the same condition, the second knows the outcome.  One pair   *)
(* is treated at a time.                                                   *)
SameCondition(f, b, c) ==
  /\ LastIns(f, b).cls = "cond" /\ c # b /\ Len(f.pred[c]) = 1
  /\ LastIns(f, c).cls = "cond" /\ LastIns(f, c).use = LastIns(f, b).use
Pass5(s) ==
  LET f  == s.f
      bs == SelectSeq(f.list, LAMBDA b : \E c \in ToSet(f.succ[b]) : SameCondition(f, b, c))
  IN  IF bs = <<>> THEN s
      ELSE LET b == Head(bs)
               c == f.succ[b][Min({k \in 1 .. Len(f.succ[b]) : SameCondition(f, b, f.succ[b][k])})]
               side  == IF LastIns(f, b).to[1] = c THEN 1 ELSE 2
               other == LastIns(f, c).to[3 - side]
           IN  [s EXCEPT !.f = Unlink(NewAppend(RemovePred(RemoveSucc(@, c, other), other, c), c,
                                                Br(LastIns(f, c).to[side])), Last(f.code[c]))]

(* pass4: what a search from the entry does not visit.                     *)
RECURSIVE ReachedBy(_, _)
ReachedBy(f, bs) ==
  LET more == bs \cup UNION {ToSet(f.succ[b]) : b \in bs} IN IF more = bs THEN bs ELSE ReachedBy(f, more)
Unreached(f) == BlockSet(f) \ ReachedBy(f, {Entry(f)})
Pass4(s) ==
  LET out == Unreached(s.f)
      forget(f, b) == ForEach(LAMBDA g, c : RemovePred(g, c, b), f, f.succ[b])
  IN  [s EXCEPT !.f = DropFrom(ForEach(forget, @, Sorted(out)), out)]

-----------------------------------------------------------------------------
(* checkPhiPreds: sources from blocks that are no predecessors go, and a   *)
(* phi with one source left is replaced by it.                             *)
CheckPhi1(f, b, i) ==
  LET gone == SelectSeq(Sorted(DOMAIN f.ins[i].src), LAMBDA c : c \notin ToSet(f.pred[b]))
      Resolved(g, o) == Unlink(ReplaceUses(DropUse(g, o, i), f.ins[i].def, o), i)
      Checked(g) == IF Cardinality(DOMAIN g.ins[i].src) # 1 THEN g
                    ELSE IF Uses(g.ins[i]) = <<>> THEN [g EXCEPT !.fails = TRUE]
                    ELSE Resolved(g, Head(Uses(g.ins[i])))
  IN  Checked(ForEach(LAMBDA h, c : RemoveSrc(h, i, c), f, gone))
CheckPhiPreds(f) ==
  ForEach(LAMBDA g, b : ForEach(LAMBDA h, i : CheckPhi1(h, b, i), g, Phis(g, b)), f, f.list)

SetOriginBranch(f) ==
  [f EXCEPT !.ins = [i \in DOMAIN @ |->
     IF @[i].cls = "cond" /\ i \in {Last(f.code[b]) : b \in {c \in BlockSet(f) : f.code[c] # <<>>}}
     THEN [@[i] EXCEPT !.orig = f.ins[i].to] ELSE @[i]]]

(* Which of the original targets of a branch the changes lead t to.        *)
RECURSIVE OriginSide(_, _, _, _)
OriginSide(in, ch, t, fuel) ==
  IF in.orig[1] = t THEN 1 ELSE IF in.orig[2] = t THEN 2
  ELSE IF fuel = 0 THEN 0
  ELSE OriginSide(in, ch, IF t \in DOMAIN ch THEN ch[t][1] ELSE t, fuel - 1)

(* A block between c and b, which the phis of b see in place of c; the     *)
(* branch of c that once went to "from" goes there.                        *)
SplitForPhi(f, ch, b, c, from) ==
  LET n  == f.next
      in == LastIns(f, c)
      at == OriginSide(in, ch, from, 9)
      side == IF at # 0 THEN at ELSE OriginSide(in, <<>>, b, 0)
      Turned == [AddSucc(NewBlock(f), c, n) EXCEPT
                   !.succ[c] = RemoveLast(@, b),
                   !.ins[Last(f.code[c])].to = IF side = 0 THEN @ ELSE [@ EXCEPT ![side] = n]]
      Linked == NewAppend(AddPred(Turned, n, c), n, [Br(b) EXCEPT !.keep = TRUE])
  IN  AddSucc([Linked EXCEPT !.pred[b] = Append(RemoveLast(@, c), n)], n, b)

(* changeSrcBlock: t has f and split, the blocks made for phis of b.       *)
Transfer(t, ch, b, i, from) ==
  LET o == t.f.ins[i].src[from]
      one(w, c) ==
        IF c \notin DOMAIN w.f.ins[i].src \/ w.f.ins[i].src[c] = o
        THEN [w EXCEPT !.f = AddSrc(w.f, i, c, o)]
        ELSE IF c \in DOMAIN w.split THEN [w EXCEPT !.f = AddSrc(w.f, i, w.split[c], o)]
        ELSE [w EXCEPT !.f = AddSrc(SplitForPhi(@, ch, b, c, from), i, w.f.next, o),
                       !.split = (c :> w.f.next) @@ @]
  IN  [ForEach(one, t, ch[from]) EXCEPT !.f = RemoveSrc(@, i, from)]
RECURSIVE ChangeSrcBlock(_, _, _, _)
ChangeSrcBlock(t, ch, b, i) ==
  LET gone == DOMAIN t.f.ins[i].src \cap DOMAIN ch
  IN  IF gone = {} \/ t.f.fails THEN t ELSE ChangeSrcBlock(Transfer(t, ch, b, i, Min(gone)), ch, b, i)
(* Bug: the phis are not told of the changes. *)
CheckPhiNot(f, ch) == f

CheckPhi(f, ch) ==
  ForEach(LAMBDA g, b : ForEach(LAMBDA t, i : ChangeSrcBlock(t, ch, b, i), [f |-> g, split |-> <<>>], Phis(g, b)).f,
          f, f.list)
-----------------------------------------------------------------------------
(* Starighten::pass over a function, until a round changes nothing.        *)
Noted(s, t)  == [t EXCEPT !.again = s.again \/ t.f # s.f]
Ran(Do(_), s) == Noted(s, Do(s))
Round(f) == Ran(Pass4, Ran(Pass5, Ran(Pass3, Ran(Pass1, [f |-> f, ch |-> <<>>, again |-> FALSE]))))
RECURSIVE StraightenFunction(_, _)
StraightenFunction(f, fuel) ==
  LET Repeat(again, g) == IF ~again \/ g.fails THEN g
                          ELSE IF fuel = 0 THEN [g EXCEPT !.fails = TRUE]
                          ELSE StraightenFunction(g, fuel - 1)
      Ended(s) == Repeat(s.again, CheckPhiPreds(CheckPhi(s.f, s.ch)))
  IN  Ended(Round(SetOriginBranch(CheckPhiPreds(f))))
MaxRounds == 12
StraightenPass(u) == [u EXCEPT !.funs = [g \in DOMAIN @ |-> StraightenFunction(@[g], MaxRounds)]]

(* checkCond: the comparison of a branch is repeated right before it; the  *)
(* copy's operands count the use.                                          *)
RepeatCondition(f, b) ==
  LET br == Last(f.code[b])
      o  == f.ins[br].use[1]
      d  == DefOf(f, o)
      before == f.code[b][Len(f.code[b]) - 1]
      g  == NewBefore([f EXCEPT !.next = @ + 1], b,
                      [f.ins[d] EXCEPT !.def = T(f.next)], br)
  IN  IF LastIns(f, b).cls # "cond" THEN f
      ELSE IF Len(f.code[b]) > 1 /\ f.ins[before].cls = "cmp" THEN f
      ELSE IF d = 0 THEN [f EXCEPT !.fails = TRUE]
      ELSE ReplaceUse(g, br, o, T(f.next))
CheckCondPass(u) == [u EXCEPT !.funs = [g \in DOMAIN @ |-> ForEach(RepeatCondition, @[g], @[g].list)]]

-----------------------------------------------------------------------------
(* ElimUnreachCode::pass1: unreachable blocks one by one, with their edges *)
(* on both sides.                                                          *)
DropUnreached(f) ==
  LET bs == SelectSeq(f.list, LAMBDA b : b \in Unreached(f))
      cut(g, b) == ForEach(LAMBDA h, c : RemovePred(h, c, b),
                           ForEach(LAMBDA h, p : RemoveSucc(h, p, b), g, g.pred[b]), g.succ[b])
  IN  DropFrom(ForEach(cut, f, bs), ToSet(bs))

(* pass2: comparisons of constants; the branches that use them become      *)
(* jumps, the phis of the other side are left to checkPhiPreds.            *)
Decided(in) == in.cls = "cmp" /\ IsConst(in.use[1]) /\ IsConst(in.use[2])
Outcome(in) ==
  LET a == in.use[1][2]
      b == in.use[2][2]
  IN  CASE in.op = "e" -> a = b [] in.op = "ne" -> a # b [] in.op = "l" -> a < b
        [] in.op = "le" -> a <= b [] in.op = "g" -> a > b [] in.op = "ge" -> a >= b
DecideBranch(f, j, side) ==
  LET b == Parent(f, j)
      to == f.ins[j].to[side]
      other == f.ins[j].to[3 - side]
      g == RemovePred(RemoveSucc(NewAppend(f, b, Br(to)), b, other), other, b)
  IN  IF j \notin Placed(f) \/ f.ins[j].cls # "cond" \/ Last(f.code[b]) # j THEN f ELSE Unlink(g, j)
DecideCmp(f, i) ==
  LET in == f.ins[i]
      us == UsesOf(f, in.def)
      f1 == IF \A k \in DOMAIN us : f.ins[us[k]].cls = "cond" THEN Unlink(f, i) ELSE f
  IN  ForEach(LAMBDA g, j : DecideBranch(g, j, IF Outcome(in) THEN 1 ELSE 2), f1, us)
ElimUnreachPass(u) ==
  LET one(f) == LET g == DropUnreached(f)
                IN  ForEach(DecideCmp, g, Sorted({i \in Placed(g) : Decided(g.ins[i])}))
  IN  [u EXCEPT !.funs = [g \in DOMAIN @ |-> one(@[g])]]
=============================================================================

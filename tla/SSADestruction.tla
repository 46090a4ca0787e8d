---------------------------- MODULE SSADestruction ----------------------------
(***************************************************************************)
(* How phis become copies (src/src/SSADestruction.cpp).  A predecessor     *)
(* with that block as its only successor gets the copies at its end; an    *)
(* edge from any other is split by a new block that holds them.  The       *)
(* copies of a block are then put in an order.                             *)
(*                                                                         *)
(* A copy "def = src + 0" is a record.  The successors of a block are a    *)
(* list with the target of a taken branch first, as its branch instruction *)
(* has them; both lists may name a block twice.                            *)
(***************************************************************************)
EXTENDS Integers, FiniteSets, SequencesExt

CONSTANTS
  N,        \* number of blocks of the function
  Var,      \* the operands that phis define
  Const,    \* other operands
  Inputs    \* the functions to consider: records [succ, phis]

Value   == Var \cup Const
Block   == 1 .. N
MaxSucc == 2
AnyBlock == 1 .. N + MaxSucc * N      \* with those that split an edge
CopyOf(d, s) == [def |-> d, src |-> s]
Copy    == [def : Var, src : Value]

(* phis: block -> the phis it begins with, each with its sources *)
ASSUME NAssumption == N \in Nat \ {0}
ASSUME InputsAssumption ==
  \A in \in Inputs :
    /\ in.succ \in [Block -> Seq(Block)]
    /\ \A b \in Block : Len(in.succ[b]) =< MaxSucc
    /\ in.phis \in [Block -> Seq([def : Var, src : [Block -> Value]])]

VARIABLES
  input,          \* succ and phis as the pass found them, constant
  phis,           \* block -> its phis
  succ, pred,     \* block -> list of blocks
  branch,         \* block -> the targets its branch instruction names
  nblocks,        \* number of blocks
  cur,            \* the block whose phis are taken
  preds,          \* those of its predecessors not treated yet
  copyInss,       \* block -> the copies to insert, in the order of the phis
  pending,        \* the blocks whose copies are not ordered yet
  block,          \* the block whose copies are being ordered
  ins, temp,      \* its copies not placed yet and those placed
  code,           \* block -> the copies at its end
  pc

graph == <<succ, pred, branch, nblocks>>
vars  == <<input, phis, graph, cur, preds, copyInss, pending, block, ins, temp, code, pc>>

(* How often b is in a list. *)
Times(l, b) == Cardinality({k \in 1 .. Len(l) : l[k] = b})

(* The source of every edge to b, in the order of the blocks. *)
EdgeSources(sc, b) ==
  LET upTo[c \in 0 .. N] ==
        IF c = 0 THEN <<>> ELSE upTo[c - 1] \o [k \in 1 .. Times(sc[c], b) |-> c]
  IN  upTo[N]

Init ==
  /\ input \in Inputs
  /\ phis = input.phis
  /\ succ = [b \in AnyBlock |-> IF b \in Block THEN input.succ[b] ELSE <<>>]
  /\ pred = [b \in AnyBlock |-> IF b \in Block THEN EdgeSources(input.succ, b) ELSE <<>>]
  /\ branch = succ
  /\ nblocks = N
  /\ cur = 1
  /\ preds = <<>>
  /\ copyInss = [b \in AnyBlock |-> <<>>]
  /\ pending = {}
  /\ block = 1
  /\ ins = <<>> /\ temp = <<>>
  /\ code = [b \in AnyBlock |-> <<>>]
  /\ pc = "block"

SkipBlock ==
  /\ pc = "block"
  /\ cur \in Block
  /\ phis[cur] = <<>>
  /\ cur' = cur + 1
  /\ UNCHANGED <<input, phis, graph, preds, copyInss, pending, block, ins, temp, code, pc>>

BeginBlock ==
  /\ pc = "block"
  /\ cur \in Block
  /\ phis[cur] # <<>>
  /\ preds' = pred[cur]
  /\ pc' = "preds"
  /\ UNCHANGED <<input, phis, graph, cur, copyInss, pending, block, ins, temp, code>>

(* The copies that the phis of cur stand for when p branches to it. *)
CopiesFrom(p) ==
  [k \in 1 .. Len(phis[cur]) |-> CopyOf(phis[cur][k].def, phis[cur][k].src[p])]

(* A predecessor with one successor takes the copies itself.               *)
CollectCopies ==
  /\ pc = "preds"
  /\ preds # <<>>
  /\ Len(succ[Head(preds)]) = 1
  /\ copyInss' = [copyInss EXCEPT ![Head(preds)] = @ \o CopiesFrom(Head(preds))]
  /\ preds' = Tail(preds)
  /\ UNCHANGED <<input, phis, graph, cur, pending, block, ins, temp, code, pc>>

(* removeSucc and addSucc: in front if the first successor goes.           *)
ReplaceSucc(l, old, new) ==
  IF l[1] = old THEN <<new>> \o RemoveFirst(l, old) ELSE RemoveFirst(l, old) \o <<new>>

(* Bug: the true branch whatever the edge. *)
RetargetTrue(l, old, new) == <<new, l[2]>>

(* setTrueBranch, or else setFalseBranch. *)
Retarget(l, old, new) == IF l[1] = old THEN <<new, l[2]>> ELSE <<l[1], new>>

(* The edge from a predecessor with several successors is split.           *)
SplitEdge ==
  /\ pc = "preds"
  /\ preds # <<>>
  /\ Len(succ[Head(preds)]) # 1
  /\ LET p   == Head(preds)
         new == nblocks + 1
     IN  /\ nblocks' = new
         /\ succ' = [succ EXCEPT ![new] = <<cur>>, ![p] = ReplaceSucc(@, cur, new)]
         /\ branch' = [branch EXCEPT ![new] = <<cur>>, ![p] = Retarget(@, cur, new)]
         /\ pred' = [pred EXCEPT ![cur] = RemoveFirst(@ \o <<new>>, p), ![new] = <<p>>]
         /\ copyInss' = [copyInss EXCEPT ![new] = CopiesFrom(p)]
  /\ preds' = Tail(preds)
  /\ UNCHANGED <<input, phis, cur, pending, block, ins, temp, code, pc>>

RemovePhis ==
  /\ pc = "preds"
  /\ preds = <<>>
  /\ phis' = [phis EXCEPT ![cur] = <<>>]
  /\ cur' = cur + 1
  /\ pc' = "block"
  /\ UNCHANGED <<input, graph, preds, copyInss, pending, block, ins, temp, code>>

StartOrder ==
  /\ pc = "block"
  /\ cur \notin Block
  /\ pending' = {b \in AnyBlock : copyInss[b] # <<>>}
  /\ pc' = "next"
  /\ UNCHANGED <<input, phis, graph, cur, preds, copyInss, block, ins, temp, code>>

Defs(s) == {s[k].def : k \in 1 .. Len(s)}

(* The copies in s that read one of D, in their order. *)
Reading(s, D) ==
  LET upTo[n \in 0 .. Len(s)] ==
        IF n = 0 THEN <<>> ELSE IF s[n].src \in D THEN Append(upTo[n - 1], s[n]) ELSE upTo[n - 1]
  IN  upTo[Len(s)]

(* The copies of a block that read nothing the others define come first    *)
(* in temp; the map is sorted by address, so the block is arbitrary.       *)
OrderBlock(b) ==
  /\ pc = "next"
  /\ b \in pending
  /\ pending' = pending \ {b}
  /\ block' = b
  /\ temp' = Reading(copyInss[b], Value \ Defs(copyInss[b]))
  /\ ins' = Reading(copyInss[b], Defs(copyInss[b]))
  /\ pc' = "place"
  /\ UNCHANGED <<input, phis, graph, cur, preds, copyInss, code>>

(* Bug: the copy goes before the one that reads what it defines. *)
PlacedBefore(c) ==
  IF c.def \in {temp[k].src : k \in 1 .. Len(temp)}
  THEN InsertAt(temp, SelectInSeq(temp, LAMBDA t : t.src = c.def), c)
  ELSE <<c>> \o temp

(* Every other copy goes right after the first one that reads what it      *)
(* defines, or in front if there is none yet.                              *)
Placed(c) ==
  IF c.def \in {temp[k].src : k \in 1 .. Len(temp)}
  THEN InsertAt(temp, SelectInSeq(temp, LAMBDA t : t.src = c.def) + 1, c)
  ELSE <<c>> \o temp

PlaceCopy ==
  /\ pc = "place"
  /\ ins # <<>>
  /\ temp' = Placed(Head(ins))
  /\ ins' = Tail(ins)
  /\ UNCHANGED <<input, phis, graph, cur, preds, copyInss, pending, block, code, pc>>

InsertCopies ==
  /\ pc = "place"
  /\ ins = <<>>
  /\ code' = [code EXCEPT ![block] = temp]
  /\ temp' = <<>>
  /\ pc' = "next"
  /\ UNCHANGED <<input, phis, graph, cur, preds, copyInss, pending, block, ins>>

Finish ==
  /\ pc = "next"
  /\ pending = {}
  /\ pc' = "done"
  /\ UNCHANGED <<input, phis, graph, cur, preds, copyInss, pending, block, ins, temp, code>>

Next ==
  \/ SkipBlock
  \/ BeginBlock
  \/ CollectCopies
  \/ SplitEdge
  \/ RemovePhis
  \/ StartOrder
  \/ \E b \in AnyBlock : OrderBlock(b)
  \/ PlaceCopy
  \/ InsertCopies
  \/ Finish

Spec == Init /\ [][Next]_vars

-----------------------------------------------------------------------------
ListsAgree ==
  /\ succ = branch
  /\ \A p, b \in AnyBlock : Times(succ[p], b) = Times(pred[b], p)

(* Following the k-th edge of block p of the function found: the block the *)
(* edge leads to now, if it is a new one, and where the edge ends.         *)
Through(p, k) == branch[p][k]
EndOf(p, k)   == IF Through(p, k) > N THEN branch[Through(p, k)][1] ELSE Through(p, k)
OnEdge(p, k)  == code[p] \o (IF Through(p, k) > N THEN code[Through(p, k)] ELSE <<>>)

PhiCopies(p, b) ==
  [n \in 1 .. Len(input.phis[b]) |->
     CopyOf(input.phis[b][n].def, input.phis[b][n].src[p])]

(* The graph: a position of the list of successors holds what it held or a *)
(* new block that leads there.  There are at most as many new blocks as    *)
(* positions, and those not made yet have no edges.                        *)
TypeInv ==
  /\ input \in Inputs
  /\ nblocks \in N .. N + MaxSucc * N
  /\ succ \in [AnyBlock -> Seq(AnyBlock)]
  /\ pred \in [AnyBlock -> Seq(AnyBlock)]
  /\ copyInss \in [AnyBlock -> Seq(Copy)]
  /\ code \in [AnyBlock -> Seq(Copy)]
  /\ cur \in 1 .. N + 1
  /\ phis = [b \in Block |-> IF b < cur THEN <<>> ELSE input.phis[b]]
  /\ pc \in {"block", "preds", "next", "place", "done"}

Split(p, k) == succ[p][k] > N

EdgeLeads(p, k) ==
  IF Split(p, k)
  THEN succ[p][k] =< nblocks /\ succ[succ[p][k]] = <<input.succ[p][k]>>
  ELSE succ[p][k] = input.succ[p][k]

OnSomeEdge(q) == \E p \in Block : \E k \in 1 .. Len(succ[p]) : succ[p][k] = q

NoEdges(q) == succ[q] = <<>> /\ pred[q] = <<>> /\ copyInss[q] = <<>>

GraphInv ==
  /\ \A p \in Block : Len(succ[p]) = Len(input.succ[p])
  /\ \A p \in Block : \A k \in 1 .. Len(succ[p]) : EdgeLeads(p, k)
  /\ \A q \in N + 1 .. nblocks : OnSomeEdge(q)
  /\ \A q \in AnyBlock : q > nblocks => NoEdges(q)

(* The walk: whose copies have been taken, in the block itself or in one   *)
(* that splits the edge.                                                   *)
Taken(p, b) == b < cur \/ (b = cur /\ pc = "preds" /\ Times(preds, p) = 0)

Collected(p) ==
  copyInss[p] = IF Len(succ[p]) = 1 /\ Taken(p, input.succ[p][1])
                THEN PhiCopies(p, input.succ[p][1]) ELSE <<>>

Walked(p, k) ==
  /\ Split(p, k) =>
       /\ Len(succ[p]) # 1
       /\ input.succ[p][k] < cur \/ (input.succ[p][k] = cur /\ pc = "preds")
       /\ copyInss[succ[p][k]] = PhiCopies(p, input.succ[p][k])
  /\ Len(succ[p]) # 1 /\ succ[p][k] < cur => input.phis[succ[p][k]] = <<>>

Left(p) ==
  IF Len(succ[p]) = 1 THEN Times(preds, p) =< Times(succ[p], cur)
                      ELSE Times(preds, p) = Times(succ[p], cur)

WalkInv ==
  /\ pc \in {"next", "place", "done"} => cur = N + 1
  /\ \A p \in Block : Collected(p)
  /\ \A p \in Block : \A k \in 1 .. Len(succ[p]) : Walked(p, k)
  /\ pc = "preds" => cur \in Block /\ preds \in Seq(Block) /\ \A p \in Block : Left(p)

(* The order: a block that is done has the copies it was to get.           *)
SameCopies(s, t) == Len(s) = Len(t) /\ ToSet(s) = ToSet(t)

Placing ==
  /\ block \in AnyBlock
  /\ temp \in Seq(Copy)
  /\ ins \in Seq(Copy)
  /\ SameCopies(temp \o ins, copyInss[block])

OrderInv ==
  /\ pc \in {"block", "preds"} => code = [b \in AnyBlock |-> <<>>]
  /\ pc \in {"next", "place", "done"} =>
       \A b \in AnyBlock :
         b \notin pending /\ (pc = "place" => b # block) => SameCopies(code[b], copyInss[b])
  /\ pc = "place" => Placing
  /\ pc = "done" => pending = {}

IInv ==
  /\ TypeInv
  /\ ListsAgree
  /\ GraphInv
  /\ WalkInv
  /\ OrderInv

(* The block lists agree with each other and with the branch instructions, *)
(* also between two splits: an edge is as often in the list of its source  *)
(* as in that of its target.  At the end every edge leads where it led, and *)
(* what runs on the way are the copies of the phis at its end for its      *)
(* source: each once, and none of another edge.                            *)
EdgesKept ==
  ListsAgree /\
  (pc = "done" =>
    \A p \in Block : \A k \in 1 .. Len(input.succ[p]) :
      LET b == input.succ[p][k] IN
        /\ EndOf(p, k) = b
        /\ Len(OnEdge(p, k)) = Len(PhiCopies(p, b))
        /\ ToSet(OnEdge(p, k)) = ToSet(PhiCopies(p, b)))

(* The values after the copies s have been executed one after the other.   *)
Run(s) == FoldLeft(LAMBDA val, c : [val EXCEPT ![c.def] = val[c.src]], [v \in Value |-> v], s)

(* Phis read all their sources at once. *)
AtOnce(s) ==
  [v \in Value |->
     IF v \in Defs(s) THEN (CHOOSE c \in ToSet(s) : c.def = v).src ELSE v]

AllEdgesRight == \A p \in Block : \A k \in 1 .. Len(input.succ[p]) :
                   Run(OnEdge(p, k)) = AtOnce(PhiCopies(p, input.succ[p][k]))

(* Which copies s reads the result of: a copy's source, if s defines it.   *)
Feeds(s, c, d) == c.def = d.src /\ c # d

(* No copy reads what another defines that reads what a third defines; or  *)
(* at most three in a row do and nothing is read twice or by its reader.   *)
Shallow(s) ==
  \A c, d, e \in ToSet(s) : Feeds(s, c, d) => ~Feeds(s, d, e)
Narrow(s) ==
  /\ \A c, d, e \in ToSet(s) : Feeds(s, c, d) /\ Feeds(s, c, e) => d = e
  /\ \A c, d, e, f \in ToSet(s) : ~(Feeds(s, c, d) /\ Feeds(s, d, e) /\ Feeds(s, e, f))

(* Then the copies do what the phis did, which read all their sources at   *)
(* once.  Elsewhere, if two phis exchange their values for one, the order  *)
(* insertCopyInsts finds is wrong.                                         *)
ShortChainsRight ==
  pc = "done" /\ (\A p \in Block : \A k \in 1 .. Len(input.succ[p]) :
                    Shallow(PhiCopies(p, input.succ[p][k])) \/ Narrow(PhiCopies(p, input.succ[p][k])))
    => AllEdgesRight
==============================================================================

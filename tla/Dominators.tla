------------------------------ MODULE Dominators ------------------------------
(***************************************************************************)
(* Dominator trees and dominance frontiers (src/src/Function.cpp): a depth *)
(* first search numbers the blocks, semidominators are computed against    *)
(* that order in a forest that grows from its end, and immediate           *)
(* dominators in that order in a tree that grows from its root.            *)
(*                                                                         *)
(* The code has all of it twice, forward from the entry for Mem2reg and    *)
(* value numbering, and backward from an exit made for the purpose for     *)
(* dead code elimination; a direction is chosen here, and edge and back    *)
(* are the edges as that direction sees them.  The frontiers of both are   *)
(* kept in the same sets, which nobody clears: the forward computation is  *)
(* the first and finds them empty, a backward one adds to what the forward *)
(* and earlier backward ones left.                                         *)
(***************************************************************************)
EXTENDS Dominance, Sequences, FiniteSetsExt

CONSTANTS
  N,        \* number of blocks
  Graphs,   \* the control flow graphs to consider: block -> set of blocks
  Stale(_)  \* graph -> what domFrontier may hold before a backward computation

Block == 1 .. N
Entry == 1
Exit  == N + 1      \* the block computeReverseDomFrontier makes
None  == 0

ASSUME NAssumption == N \in Nat \ {0}
ASSUME GraphsAssumption == Graphs \subseteq [Block -> SUBSET Block]
ASSUME StaleAssumption == \A g \in Graphs : Stale(g) \subseteq [Block -> SUBSET Block]

VARIABLES
  root,          \* Entry or Exit
  edge, back,    \* the edges in the direction of the search, and against it
  left,          \* what domFrontier held to begin with, constant
  preOrder2DFS,  \* the blocks in the order they were found
  parent,        \* block -> its parent in the search tree
  stack,         \* the blocks search() is in
  sdoms,         \* number -> number
  ancestors,     \* number -> number, the forest computeSdom links
  idoms,         \* number -> number
  domFrontier,   \* block -> set of blocks
  cur,           \* the number, or block, a loop has come to
  pc

graph == <<root, edge, back, left>>
vars  == <<graph, preOrder2DFS, parent, stack, sdoms, ancestors, idoms, domFrontier, cur, pc>>

Node   == DOMAIN edge
Number == 1 .. Cardinality(Node)
Found  == {preOrder2DFS[i] : i \in 1 .. Len(preOrder2DFS)}

(* BasicBlock::order, set when the tree node is made. *)
Order(b) == CHOOSE i \in 1 .. Len(preOrder2DFS) : preOrder2DFS[i] = b

Against(e) == [b \in DOMAIN e |-> {c \in DOMAIN e : b \in e[c]}]

(* The graph with the exit, a successor of every block that returns.       *)
WithExit(e) ==
  [b \in Block \cup {Exit} |->
     IF b = Exit THEN {} ELSE IF e[b] = {} THEN {Exit} ELSE e[b]]

(* As the passes before leave it, nothing precedes the entry, every block  *)
(* is reachable, and for the backward direction, every block reaches a     *)
(* return.                                                                 *)
Init ==
  /\ \E g \in Graphs :
       /\ \/ /\ root = Entry
             /\ edge = g
             /\ back = Against(g)
          \/ /\ root = Exit
             /\ back = WithExit(g)
             /\ edge = Against(back)
       /\ back[root] = {}
       /\ ReachableFrom(root, edge, {}) = Node
       /\ \/ root = Entry /\ left = [b \in Node |-> {}]
          \/ root = Exit /\ \E s \in Stale(g) :
               left = [b \in Node |-> IF b = Exit THEN {} ELSE s[b]]
  /\ preOrder2DFS = <<root>>
  /\ parent = [b \in Node |-> None]
  /\ stack = <<root>>
  /\ sdoms = [i \in Number |-> i]
  /\ ancestors = [i \in Number |-> None]
  /\ idoms = [i \in Number |-> 1]
  /\ domFrontier = left
  /\ cur = 1
  /\ pc = "search"

Top == stack[Len(stack)]

-----------------------------------------------------------------------------
(* computeDFSTree                                                          *)

Visit(b) ==
  /\ preOrder2DFS' = Append(preOrder2DFS, b)
  /\ parent' = [parent EXCEPT ![b] = Top]
  /\ stack' = Append(stack, b)

(* search: the successors are taken in the order of a list, whatever that  *)
(* order is.                                                               *)
Search ==
  /\ pc = "search"
  /\ stack # <<>>
  /\ \E b \in edge[Top] \ Found : Visit(b)
  /\ UNCHANGED <<graph, sdoms, ancestors, idoms, domFrontier, cur, pc>>

SearchReturn ==
  /\ pc = "search"
  /\ stack # <<>>
  /\ edge[Top] \subseteq Found
  /\ stack' = SubSeq(stack, 1, Len(stack) - 1)
  /\ UNCHANGED <<graph, preOrder2DFS, parent, sdoms, ancestors, idoms, domFrontier, cur, pc>>

StartSdom ==
  /\ pc = "search"
  /\ stack = <<>>
  /\ sdoms' = [i \in Number |-> i]
  /\ ancestors' = [i \in Number |-> None]
  /\ cur' = Cardinality(Node)
  /\ pc' = "sdom"
  /\ UNCHANGED <<graph, preOrder2DFS, parent, stack, idoms, domFrontier>>

-----------------------------------------------------------------------------
(* computeSdom                                                             *)

(* The least sdoms on the way from v to the root of its tree, v included   *)
(* and the root not, unless v is the root.                                 *)
Eval[v \in Number] ==
  IF ancestors[v] = None \/ ancestors[ancestors[v]] = None THEN sdoms[v]
  ELSE Min({sdoms[v], Eval[ancestors[v]]})

Link(s) == ancestors' = [ancestors EXCEPT ![s] = Order(parent[preOrder2DFS[s]])]

ComputeSdom ==
  /\ pc = "sdom"
  /\ cur > 1
  /\ sdoms' = [sdoms EXCEPT ![cur] =
                 Min({cur} \cup {Eval[Order(b)] : b \in back[preOrder2DFS[cur]]})]
  /\ Link(cur)
  /\ cur' = cur - 1
  /\ UNCHANGED <<graph, preOrder2DFS, parent, stack, idoms, domFrontier, pc>>

StartIdom ==
  /\ pc = "sdom"
  /\ cur = 1
  /\ idoms' = [idoms EXCEPT ![1] = 1]
  /\ cur' = 2
  /\ pc' = "idom"
  /\ UNCHANGED <<graph, preOrder2DFS, parent, stack, sdoms, ancestors, domFrontier>>

-----------------------------------------------------------------------------
(* computeIdom                                                             *)

(* The numbers on the way from i to the root of the dominator tree. *)
TreePath[i \in Number] == IF i = 1 THEN {1} ELSE {i} \cup TreePath[idoms[i]]

(* Bug: the semidominator is taken for the immediate dominator. *)
LCASecond(i, j) == j

LCA(i, j) == Max(TreePath[i] \cap TreePath[j])

ComputeIdom ==
  /\ pc = "idom"
  /\ cur \in Number
  /\ idoms' = [idoms EXCEPT ![cur] = LCA(Order(parent[preOrder2DFS[cur]]), sdoms[cur])]
  /\ cur' = cur + 1
  /\ UNCHANGED <<graph, preOrder2DFS, parent, stack, sdoms, ancestors, domFrontier, pc>>

StartFrontier ==
  /\ pc = "idom"
  /\ cur \notin Number
  /\ cur' = 1
  /\ pc' = "frontier"
  /\ UNCHANGED <<graph, preOrder2DFS, parent, stack, sdoms, ancestors, idoms, domFrontier>>

-----------------------------------------------------------------------------
(* computeDomFrontier                                                      *)

(* Bug: the walk ends at the parent of the predecessor. *)
RunnersOne(p, b) == {Order(p)} \ {idoms[Order(b)]}

(* The walk from p up the dominator tree to the parent of b. *)
Runners(p, b) == TreePath[Order(p)] \ TreePath[idoms[Order(b)]]

(* One block of block_list. *)
ComputeDomFrontier ==
  /\ pc = "frontier"
  /\ cur \in Node
  /\ domFrontier' =
       [b \in Node |->
          domFrontier[b] \cup
            IF Cardinality(back[cur]) >= 2 /\ (\E p \in back[cur] : Order(b) \in Runners(p, cur))
            THEN {cur} ELSE {}]
  /\ cur' = cur + 1
  /\ UNCHANGED <<graph, preOrder2DFS, parent, stack, sdoms, ancestors, idoms, pc>>

EndFrontier ==
  /\ pc = "frontier"
  /\ cur \notin Node
  /\ pc' = "done"
  /\ UNCHANGED <<graph, preOrder2DFS, parent, stack, sdoms, ancestors, idoms, domFrontier, cur>>

Next ==
  \/ Search
  \/ SearchReturn
  \/ StartSdom
  \/ ComputeSdom
  \/ StartIdom
  \/ ComputeIdom
  \/ StartFrontier
  \/ ComputeDomFrontier
  \/ EndFrontier

Spec == Init /\ [][Next]_vars

-----------------------------------------------------------------------------
(* What the code relies on.                                                *)

(* A search tree of n blocks, as numbers in the order they were found: pn  *)
(* is the parent, e the edges, and last the last descendant, so that the   *)
(* descendants of i are i .. last[i].                                      *)
SearchTree(n, pn, last, e) ==
  /\ n \in Nat \ {0}
  /\ pn \in [2 .. n -> 1 .. n]
  /\ last \in [1 .. n -> 1 .. n]
  /\ e \in [1 .. n -> SUBSET (1 .. n)]
  /\ last[1] = n
  /\ \A i \in 1 .. n : 1 \notin e[i] /\ i =< last[i] /\ \A j \in e[i] : j =< last[i]
  /\ \A i \in 1 .. n : \A j \in i .. last[i] : last[j] =< last[i]
  /\ \A i \in 2 .. n : pn[i] < i /\ i =< last[pn[i]] /\ i \in e[pn[i]]
  /\ \A i \in 2 .. n : \A k \in 1 .. i - 1 : i =< last[k] => k =< pn[i]

(* The blocks from which w is reached through blocks above it, w included. *)
Above(n, e, w) ==
  {u \in 1 .. n : \A S \in SUBSET (1 .. n) :
     w \in S /\ (\A x \in w + 1 .. n : e[x] \cap S # {} => x \in S) => u \in S}

(* What leads into them, the least of which is the semidominator of w.     *)
Into(n, e, w) == {v \in 1 .. n : e[v] \cap Above(n, e, w) # {}}
Semi(n, e, w) == Min(Into(n, e, w))

(* The tree and the edges of this search. *)
ParentOf == [i \in 2 .. Len(preOrder2DFS) |-> Order(parent[preOrder2DFS[i]])]
EdgesOf  == [i \in 1 .. Len(preOrder2DFS) |-> {Order(c) : c \in edge[preOrder2DFS[i]]}]

GraphInv ==
  /\ Cardinality(Node) \in Nat
  /\ Node = Number
  /\ edge \in [Node -> SUBSET Node]
  /\ back \in [Node -> SUBSET Node]
  /\ \A b, c \in Node : c \in edge[b] <=> b \in back[c]
  /\ left \in [Node -> SUBSET Node]
  /\ root = Entry => left = [b \in Node |-> {}]
  /\ root \in Node
  /\ back[root] = {}
  /\ ReachableFrom(root, edge, {}) = Node

(* The blocks are numbered once, each after its parent. *)
OrderInv ==
  /\ preOrder2DFS \in Seq(Node) \ {<<>>}
  /\ preOrder2DFS[1] = root
  /\ \A i, j \in 1 .. Len(preOrder2DFS) : preOrder2DFS[i] = preOrder2DFS[j] => i = j
  /\ parent \in [Node -> Node \cup {None}]
  /\ \A i \in 2 .. Len(preOrder2DFS) :
       \E k \in 1 .. i - 1 :
         parent[preOrder2DFS[i]] = preOrder2DFS[k] /\ preOrder2DFS[i] \in edge[preOrder2DFS[k]]

(* The descendants of a block on the stack go on to the last block found;  *)
(* those of another are complete.                                          *)
OnStack == {i \in 1 .. Len(preOrder2DFS) : \E k \in 1 .. Len(stack) : stack[k] = preOrder2DFS[i]}

Spans(last) ==
  LET L == Len(preOrder2DFS)
  IN  /\ last \in [1 .. L -> 1 .. L]
      /\ last[1] = L
      /\ \A i \in 1 .. L : i =< last[i] /\ \A j \in i .. last[i] : last[j] =< last[i]
      /\ \A i \in 2 .. L : i =< last[ParentOf[i]]
      /\ \A i \in 2 .. L : \A k \in 1 .. i - 1 : i =< last[k] => k =< ParentOf[i]
      /\ \A i \in OnStack : last[i] = L
      /\ \A i \in (1 .. L) \ OnStack :
           /\ edge[preOrder2DFS[i]] \subseteq Found
           /\ \A c \in edge[preOrder2DFS[i]] : Order(c) =< last[i]
           /\ \A j \in OnStack : i < j => last[i] < j

SearchInv ==
  pc = "search" =>
    /\ stack \in Seq(Found)
    /\ stack # <<>> => stack[1] = root
    /\ \A j, k \in 1 .. Len(stack) : j < k => Order(stack[j]) < Order(stack[k])
    /\ \E last \in [1 .. Len(preOrder2DFS) -> 1 .. Len(preOrder2DFS)] : Spans(last)
    /\ idoms = [i \in Number |-> 1]
    /\ domFrontier = left

TreeInv ==
  pc # "search" =>
    /\ Found = Node
    /\ Len(preOrder2DFS) = Cardinality(Node)
    /\ \E last \in [Number -> Number] :
         SearchTree(Cardinality(Node), ParentOf, last, EdgesOf)

(* From the end down to cur, the semidominators are those of the           *)
(* definition and the blocks are linked to their parents.                  *)
SdomInv ==
  /\ pc \in {"sdom", "idom", "frontier", "done"} => sdoms \in [Number -> Number]
  /\ pc = "sdom" =>
       /\ cur \in Number
       /\ ancestors \in [Number -> Number \cup {None}]
       /\ \A i \in Number :
            IF i =< cur THEN sdoms[i] = i /\ ancestors[i] = None
            ELSE sdoms[i] = Semi(Cardinality(Node), EdgesOf, i) /\ ancestors[i] = ParentOf[i]
       /\ idoms = [i \in Number |-> 1]
       /\ domFrontier = left

(* The immediate dominators are found up to cur. *)
IdomInv ==
  /\ pc \in {"idom", "frontier", "done"} =>
       /\ idoms \in [Number -> Number]
       /\ \A i \in Number \ {1} :
            /\ idoms[i] < i
            /\ pc # "idom" \/ i < cur =>
                 \A dom \in {DominatorsOf(root, edge)} :
                   dom[preOrder2DFS[i]] =
                     {preOrder2DFS[i]} \cup dom[preOrder2DFS[idoms[i]]]
  /\ pc = "idom" =>
       /\ cur \in 2 .. Cardinality(Node) + 1
       /\ \A i \in Number \ {1} : sdoms[i] = Semi(Cardinality(Node), EdgesOf, i)
       /\ domFrontier = left

(* And the frontiers hold, of the blocks before cur, those they should,    *)
(* besides what they held to begin with.                                   *)
FrontierInv ==
  /\ pc = "frontier" =>
       /\ cur \in 1 .. Cardinality(Node) + 1
       /\ \A dom \in {DominatorsOf(root, edge)} :
            domFrontier = [b \in Node |-> left[b] \cup {c \in FrontierOf(edge, dom, b) : c < cur}]
  /\ pc = "done" =>
       \A dom \in {DominatorsOf(root, edge)} :
         domFrontier = [b \in Node |-> left[b] \cup FrontierOf(edge, dom, b)]

IInv ==
  /\ pc \in {"search", "sdom", "idom", "frontier", "done"}
  /\ GraphInv
  /\ OrderInv
  /\ SearchInv
  /\ TreeInv
  /\ SdomInv
  /\ IdomInv
  /\ FrontierInv

-----------------------------------------------------------------------------
(* The immediate dominators are those of the definition. *)
IdomsRight ==
  pc = "done" =>
    \A dom \in {DominatorsOf(root, edge)} :
      \A i \in Number \ {1} : IsIdom(dom, preOrder2DFS[idoms[i]], preOrder2DFS[i])

(* So are the frontiers: forward they are just those of the definition,    *)
(* and backward what was there before is added to, by just those.          *)
FrontierRight ==
  pc = "done" =>
    \A dom \in {DominatorsOf(root, edge)} :
      \A b \in Node :
        domFrontier[b] = FrontierOf(edge, dom, b) \cup (IF root = Entry THEN {} ELSE left[b])
==============================================================================

------------------------------ MODULE MCDeadCode ------------------------------
(* DeadCode on every well-formed graph of four blocks, with three value    *)
(* instructions: v1, which may feed one conditional branch or return, v2,  *)
(* a phi or not, that may use v1, and v3, a call with side effects that    *)
(* may use v2.  v3 is in the last block: the graphs are all there are, so  *)
(* its place relative to the others is not restricted.  In some functions  *)
(* v3 is no such call and the whole function is useless.                   *)
EXTENDS DeadCode, TLC

CONSTANTS v1, v2, v3

MCValue == {v1, v2, v3}

(* What computeDomFrontier and computeReverseDomFrontier find for b in g.  *)
ForwardIn(g, b) ==
  {c \in Block : LET p == {d \in Block : c \in g[d]} IN
     /\ Cardinality(p) >= 2
     /\ \E d \in p : d = b \/ Entry \notin Reaching(g, {d}, {b})
     /\ b = c \/ Entry \in Reaching(g, {c}, {b})}
BackwardIn(g, b) ==
  LET exits == {d \in Block : g[d] = {}} IN
  {c \in Block :
     /\ Cardinality(g[c]) >= 2
     /\ \E d \in g[c] : d = b \/ d \notin Reaching(g, exits, {b})
     /\ b = c \/ c \in Reaching(g, exits, {b})}

(* The frontiers Mem2reg and the first call leave if a block that has a    *)
(* single successor now, not the last block, could go there as well then.  *)
MCStale(g) ==
  {[b \in Block |-> ForwardIn(h, b) \cup BackwardIn(h, b)] :
     h \in {[g EXCEPT ![c] = @ \cup {N}] :
             c \in {c \in Block : Cardinality(g[c]) = 1 /\ N \notin g[c]}}}

MCGraphs == [Block -> {S \in SUBSET Block : Cardinality(S) =< 2 /\ Entry \notin S}]

(* h1, h2 the blocks of v1 and v2; a, c, u the users of v1, v2 and v1 *)
Fun(h1, h2, phi, r, a, c, u) ==
  [home |-> (v1 :> h1 @@ v2 :> h2 @@ v3 :> N), phi |-> phi,
   essential |-> {v3}, retEssential |-> r,
   operands |-> [i \in Ins |->
     IF i = v2 THEN a ELSE IF i = v3 THEN c ELSE IF i \in u THEN {v1} ELSE {}]]

MCFunctions ==
  {Fun(Entry, h2, phi, TRUE, {}, c, {}) :
     h2 \in Block, phi \in SUBSET {v2}, c \in SUBSET {v2}}
  \cup
  {Fun(h1, h2, phi, r, {v1}, {v2}, {T(b)}) :
     h1 \in Block, h2 \in Block, phi \in SUBSET {v2}, r \in BOOLEAN, b \in Block}
  \cup
  {[Fun(h1, N, {}, FALSE, {}, {}, {T(b)}) EXCEPT !.essential = {}] :
     h1 \in Block, b \in Block}
==============================================================================

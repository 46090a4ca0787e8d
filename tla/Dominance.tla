------------------------------- MODULE Dominance -------------------------------
(***************************************************************************)
(* What dominator trees and dominance frontiers are: the definitions that  *)
(* Function.cpp computes efficiently and that the passes over the tree     *)
(* rely on.  A graph e is a function from blocks to sets of blocks.        *)
(***************************************************************************)
EXTENDS Integers, FiniteSets

(* The blocks on a path from r along e that avoids A. *)
ReachableFrom(r, e, A) ==
  LET step[k \in 0 .. Cardinality(DOMAIN e)] ==
        IF k = 0 THEN {r} \ A
        ELSE LET before == step[k - 1] IN before \cup ((UNION {e[b] : b \in before}) \ A)
  IN  step[Cardinality(DOMAIN e)]

(* The blocks every path from r to a block goes through. *)
DominatorsOf(r, e) ==
  LET without == [d \in DOMAIN e |-> ReachableFrom(r, e, {d})]
  IN  [b \in DOMAIN e |-> {d \in DOMAIN e : b \notin without[d]}]

(* d is the strict dominator of b that all others dominate. *)
IsIdom(dom, d, b) == d \in dom[b] \ {b} /\ dom[b] \ {b} \subseteq dom[d]

(* The children of b in the dominator tree. *)
TreeChildren(dom, b) == {c \in DOMAIN dom : IsIdom(dom, b, c)}

(* The frontier of b is where its dominance ends: the blocks of which it   *)
(* dominates a predecessor and which it does not strictly dominate.        *)
FrontierOf(e, dom, b) ==
  {c \in DOMAIN e : /\ \E p \in DOMAIN e : c \in e[p] /\ b \in dom[p]
                    /\ b \notin dom[c] \ {c}}
================================================================================

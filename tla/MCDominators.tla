----------------------------- MODULE MCDominators -----------------------------
(* Dominators on every graph of N blocks with at most two successors each. *)
(* Some numbering gives every block but the first a predecessor of lower   *)
(* number, as the search itself does, so no other numbering is looked at.  *)
EXTENDS Dominators

MCGraphs ==
  {g \in [Block -> {s \in SUBSET (Block \ {Entry}) : Cardinality(s) =< 2}] :
     \A b \in Block \ {Entry} : \E p \in 1 .. b - 1 : b \in g[p]}

(* Before the first backward computation the frontiers are the forward     *)
(* ones, before the second those and the ones the first one added.         *)
MCStale(g) ==
  LET r == Against(WithExit(g))
  IN  UNION {{[b \in Block |-> FrontierOf(g, f, b)],
              [b \in Block |-> FrontierOf(g, f, b) \cup FrontierOf(r, d, b)]} :
             f \in {DominatorsOf(Entry, g)}, d \in {DominatorsOf(Exit, r)}}
==============================================================================

----------------------------- MODULE MCLinearScan -----------------------------
(* LinearScan with the fewest registers a class can do with, as many as    *)
(* one instruction can need.                                               *)
EXTENDS LinearScan

Operands(k) == {<<>>} \cup {<<a>> : a \in 1 .. k - 1}
Pairs(k)    == {x \in (1 .. k - 1) \X (1 .. k - 1) : x[1] =< x[2]}

(* Every program of five instructions with at most two operands each, with *)
(* all results integers or all results floats.                             *)
MCUnmixed ==
  {[code |-> [k \in 1 .. 5 |-> Op(k, u[k])], fpu |-> f] :
     u \in Operands(1) \X (Operands(2) \cup Pairs(2)) \X (Operands(3) \cup Pairs(3))
             \X (Operands(4) \cup Pairs(4)) \X (Operands(5) \cup Pairs(5)),
     f \in {{}, 1 .. 5}}

(* Programs that mix integers and floats: four definitions, and four       *)
(* instructions with one operand each.                                     *)
MCMixed ==
  {[code |-> [k \in 1 .. 8 |-> Op(k, IF k =< 4 THEN <<>> ELSE <<u[k]>>)], fpu |-> f] :
     u \in {u \in [5 .. 8 -> 1 .. 7] : \A k \in 5 .. 8 : u[k] < k},
     f \in {{1}, {1, 6}}}

MCPrograms == MCUnmixed \cup MCMixed
==============================================================================

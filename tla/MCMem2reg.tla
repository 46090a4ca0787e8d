------------------------------- MODULE MCMem2reg -------------------------------
(* Mem2reg on every graph of N blocks with at most two successors each,    *)
(* numbered such that every block but the first has a predecessor of lower *)
(* number.  The second block's jumps are conditional branches with equal   *)
(* targets.  The first block stores to A, and its parameter to B if some   *)
(* block loads B without storing to it before; every other block may do    *)
(* one of three things, with constants and temporaries of its own.         *)
EXTENDS Mem2reg

A == 1
B == 2
T(b) == Temp(10 * b)
U(b) == Temp(10 * b + 1)

StoreA(b) == <<Store(A, Const(b))>>
AToB(b)   == <<Load(A, T(b)), Store(B, T(b)), Load(B, U(b)), Use(U(b)), Store(A, Const(b))>>
BToA(b)   == <<Load(B, T(b)), Store(A, T(b)), Load(A, U(b)), Store(A, U(b)), Store(B, Const(b))>>
Bodies(b) == {IF b = N THEN StoreA(b) ELSE <<>>, AToB(b), BToA(b)}

Targets(b) ==
  {<<>>} \cup {IF b = 2 THEN <<c, c>> ELSE <<c>> : c \in 2 .. N}
         \cup {p \in (2 .. N) \X (2 .. N) : p[1] < p[2]}

MCGraphs ==
  {g \in [Block -> UNION {Targets(b) : b \in Block}] :
     /\ \A b \in Block : g[b] \in Targets(b)
     /\ \A b \in Block \ {Entry} : \E p \in 1 .. b - 1 : b \in ToSet(g[p])}

FirstBody(c) ==
  IF \E b \in DOMAIN c : c[b] = BToA(b) THEN <<Store(A, Const(1)), Store(B, Param(1))>> ELSE StoreA(1)

Inner == {c \in [Block \ {Entry} -> UNION {Bodies(b) : b \in Block}] :
            \A b \in DOMAIN c : c[b] \in Bodies(b)}

MCCodes == {[b \in Block |-> IF b = Entry THEN FirstBody(c) ELSE c[b]] : c \in Inner}
================================================================================

--------------------------- MODULE MCSSADestruction ---------------------------
(* SSADestruction on functions of three blocks: every graph whose first    *)
(* block nothing precedes, and every set of copies on a single edge.       *)
EXTENDS SSADestruction, TLC

CONSTANTS v1, v2, v3, v4, v5, k1, k2, k3, m1, m2, m3

MCVar   == {v1, v2, v3, v4, v5}
MCConst == {k1, k2, k3, m1, m2, m3}

Vars == <<v1, v2, v3, v4, v5>>
K    == <<k1, k2, k3>>
M    == <<m1, m2, m3>>
Phi(d, s) == [def |-> d, src |-> s]

(* A phi in every block that has a predecessor, and two in one of them,    *)
(* with a different constant for each source block.                        *)
Lists == {<<>>} \cup {<<b>> : b \in 2 .. 3} \cup {<<b, c>> : b \in 2 .. 3, c \in 2 .. 3}

AllGraphs ==
  {[succ |-> sc,
    phis |-> [b \in Block |->
       IF \A c \in Block : b \notin ToSet(sc[c]) THEN <<>>
       ELSE IF b = 2 THEN <<Phi(v1, K)>> ELSE <<Phi(v2, K), Phi(v3, M)>>]] :
     sc \in [Block -> Lists]}

(* Five phis, each of which may take any of the five values or a constant: *)
(* every pattern of copies that read what others define, in every order.   *)
AllCopies ==
  {[succ |-> <<<<2>>, <<3>>, <<>>>>,
    phis |-> <<<<>>, [n \in 1 .. 5 |-> Phi(Vars[n], [b \in Block |-> s[n]])], <<>>>>] :
     s \in [1 .. 5 -> MCVar \cup {k1}]}

MCInputs == AllGraphs \cup AllCopies
==============================================================================

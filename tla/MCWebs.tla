-------------------------------- MODULE MCWebs --------------------------------
(* Webs with five definitions, the last one possibly of another register,  *)
(* and three uses: enough for a chain of merges in every order, with an    *)
(* erased web that absorbs another one.  Only the third may be dead.       *)
EXTENDS Webs

CONSTANTS r1, r2, u1, u2, u3

MCUse       == {u1, u2, u3}
MCRegister  == {r1, r2}
MCRegisters == {[d \in Def |-> r1], [d \in Def |-> IF d = N THEN r2 ELSE r1]}
MCChains    == {c \in [Def -> SUBSET Use] : \A d \in Def : c[d] = {} => d = 3}
==============================================================================

--------------------------- MODULE MCLiveVariables ---------------------------
(* LiveVariables on every control flow graph of three blocks whose         *)
(* terminators have at most two targets, and every choice of the bodies    *)
(* below over one register: no access, a use, one instruction that uses    *)
(* and defines, and a use that a definition of the same block kills.       *)
EXTENDS LiveVariables

CONSTANT r

Access(u, d) == [use |-> u, def |-> d]

MCReg == {r}

MCBodies ==
  { <<>>,
    <<Access({r}, {})>>,
    <<Access({r}, {r})>>,
    <<Access({}, {r}), Access({r}, {})>> }
==============================================================================

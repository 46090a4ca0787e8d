----------------------------- MODULE MCColorGraph -----------------------------
(* ColorGraph with two integer and two float registers, one of the latter  *)
(* blocked, on every interference graph over four more webs: all virtual,  *)
(* or the first bound to an integer or to a float register.  Two colours   *)
(* and four webs are what it takes for a triangle, which cannot be         *)
(* coloured, to meet webs of low degree and a bound web.                   *)
EXTENDS ColorGraph

MCBound ==
  {[w \in 4 .. 7 |-> IF w = 4 THEN c ELSE NoColor] : c \in {NoColor, 1, 2}}
==============================================================================

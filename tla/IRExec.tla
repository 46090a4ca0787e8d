-------------------------------- MODULE IRExec --------------------------------
(***************************************************************************)
(* What a program in the intermediate language means: the reference the    *)
(* passes are held to.  A unit is [funs, globals]: name -> function, and   *)
(* for global n the cells it begins with.  A run reads a list of numbers   *)
(* with "getint", writes with "putint", and ends with what main returns.   *)
(* Addresses are cells; floats are in quarters, as constants are.          *)
(***************************************************************************)
EXTENDS IR

Junk == 77            \* what a cell holds that nothing was stored to

(* The value of an operand, as a float or as an int.                       *)
Val(env, o, fl) ==
  IF ~IsConst(o) THEN env[o] ELSE IF fl \/ IsFloat(o) THEN o[2] ELSE IntOf(o)

Arith(op, a, b) ==
  CASE op = "add" -> a + b
    [] op = "sub" -> a - b
    [] op = "mul" -> a * b
    [] op = "div" -> IF b = 0 THEN 0 ELSE Quo(a, b)
    [] op = "mod" -> IF b = 0 THEN a ELSE Rem(a, b)
FloatArith(op, a, b) ==
  CASE op = "add" -> a + b
    [] op = "sub" -> a - b
    [] op = "mul" -> Quo(a * b, Quarters)
    [] op = "div" -> IF b = 0 THEN 0 ELSE Quo(a * Quarters, b)
Holds(op, a, b) ==
  CASE op = "e" -> a = b [] op = "ne" -> a # b [] op = "l" -> a < b
    [] op = "le" -> a <= b [] op = "g" -> a > b [] op = "ge" -> a >= b
Power2(k) == CASE k = 0 -> 1 [] k = 1 -> 2 [] k = 2 -> 4 [] k = 3 -> 8 [] k = 4 -> 16

(* The cell of global n: globals lie one after the other.                  *)
GlobalBase(u, n) == 1 + ForEach(LAMBDA s, k : s + Len(u.globals[k]), 0, [k \in 1 .. n - 1 |-> k])
GlobalCells(u)   == ForEach(LAMBDA s, g : s \o g, <<>>, u.globals)
GlobalEnv(u)     == [g \in {G(n) : n \in DOMAIN u.globals} |-> GlobalBase(u, g[2])]

(* The result of an instruction that touches neither memory nor control.   *)
Result(in, env) ==
  LET fl == IsFloat(in.def)
      a  == Val(env, in.use[1], fl)
      b  == Val(env, in.use[2], fl)
      cf == IsFloat(in.use[1]) \/ IsFloat(in.use[2])
      i1 == Val(env, in.use[1], FALSE)
  IN  CASE in.cls = "bin"     -> IF fl THEN FloatArith(in.op, a, b) ELSE Arith(in.op, a, b)
        [] in.cls = "cmp"     -> Bool(Holds(in.op, Val(env, in.use[1], cf), Val(env, in.use[2], cf)))
        [] in.cls = "zext"    -> i1
        [] in.cls = "bitcast" -> i1
        [] in.cls = "xor"     -> 1 - i1
        [] in.cls = "gep"     -> i1 + Val(env, in.use[2], FALSE) * in.n
        [] in.cls = "fptosi"  -> Quo(Val(env, in.use[1], TRUE), Quarters)
        [] in.cls = "sitofp"  -> i1 * Quarters
        [] in.cls = "shl"     -> i1 * Power2(Val(env, in.use[2], FALSE))
        [] in.cls = "ashr"    -> i1 \div Power2(Val(env, in.use[2], FALSE))

(* w: [mem, out, in, fuel, ok, ret].  A fault, as reading an operand that  *)
(* has no value yet, a phi without a source for the edge or the end of a   *)
(* block without a branch, ends the run with its name in ok.               *)
Fault(w, why) == [w EXCEPT !.ok = why]
Burn(w)       == [w EXCEPT !.fuel = @ - 1]
Known(in, env) == \A k \in DOMAIN in.use : IsConst(in.use[k]) \/ in.use[k] \in DOMAIN env

PutInt(w, v)  == [w EXCEPT !.out = Append(@, v)]
Fill(w, a, n) == [w EXCEPT !.mem = [k \in DOMAIN @ |-> IF k \in a .. a + n - 1 THEN 0 ELSE @[k]]]

RECURSIVE RunFrom(_, _, _, _, _, _), CallFun(_, _, _, _)

(* The phis of b take their values together.                               *)
EnterBlock(u, f, from, b, env, w) ==
  LET ps  == Phis(f, b)
      src(i) == f.ins[i].src[from]
  IN  IF \E k \in DOMAIN ps : from \notin DOMAIN f.ins[ps[k]].src THEN Fault(w, "phi")
      ELSE IF \E k \in DOMAIN ps : ~IsConst(src(ps[k])) /\ src(ps[k]) \notin DOMAIN env THEN Fault(w, "undefined")
      ELSE RunFrom(u, f, b, Len(ps) + 1,
             [o \in {f.ins[ps[k]].def : k \in DOMAIN ps} |->
                 LET i == CHOOSE i \in ToSet(ps) : f.ins[i].def = o IN Val(env, src(i), IsFloat(o))] @@ env,
             w)

(* An instruction that does not end its block; r: [env, w].                *)
Carry(u, f, r, i) ==
  LET in   == f.ins[i]
      w    == r.w
      a(j) == Val(r.env, in.use[j], FALSE)
      go(v, w2) == [env |-> IF HasDef(in) THEN (in.def :> v) @@ r.env ELSE r.env, w |-> Burn(w2)]
      fault(why) == [r EXCEPT !.w = Fault(w, why)]
      Back(w2)  == IF w2.ok # "ok" THEN [r EXCEPT !.w = w2] ELSE go(w2.ret, w2)
  IN  IF w.ok # "ok" THEN r ELSE IF w.fuel = 0 THEN fault("fuel") ELSE IF ~Known(in, r.env) THEN fault("undefined")
      ELSE
      CASE in.cls = "phi"  -> fault("phi")
        [] in.cls = "load" -> IF a(1) \in DOMAIN w.mem THEN go(w.mem[a(1)], w) ELSE fault("address")
        [] in.cls = "store" -> IF a(1) \in DOMAIN w.mem THEN go(0, [w EXCEPT !.mem[a(1)] = a(2)]) ELSE fault("address")
        [] in.cls = "alloca" -> go(Len(w.mem) + 1,
                                   [w EXCEPT !.mem = @ \o [j \in 1 .. in.n |-> Junk]])
        [] in.cls = "call" /\ in.op \in {"putint", "putfloat"} -> go(0, PutInt(w, a(1)))
        [] in.cls = "call" /\ in.op \in {"getint", "getfloat"} ->
             go(IF w.in = <<>> THEN 0 ELSE Head(w.in), [w EXCEPT !.in = IF @ = <<>> THEN @ ELSE Tail(@)])
        [] in.cls = "call" /\ in.op = "memset" -> go(0, Fill(w, a(1), a(3) \div WordBytes))
        [] in.cls = "call" /\ in.op \in DOMAIN u.funs ->
             Back(CallFun(u, u.funs[in.op], [j \in DOMAIN in.use |-> a(j)], Burn(w)))
        [] OTHER -> go(Result(in, r.env), w)

(* The rest of a block, up to its first branch or return.                  *)
IsEnd(in) == in.cls \in {"br", "cond", "ret"}
RunFrom(u, f, b, k, env, w) ==
  LET ends == {j \in k .. Len(f.code[b]) : IsEnd(f.ins[f.code[b][j]])}
      stop == IF ends = {} THEN Len(f.code[b]) + 1 ELSE Min(ends)
      in   == f.ins[f.code[b][stop]]
      Leave(r) ==
        IF r.w.ok # "ok" THEN r.w ELSE IF ends = {} THEN Fault(r.w, "end")
        ELSE IF r.w.fuel = 0 THEN Fault(r.w, "fuel") ELSE IF ~Known(in, r.env) THEN Fault(r.w, "undefined")
        ELSE CASE in.cls = "br"   -> EnterBlock(u, f, b, in.to[1], r.env, Burn(r.w))
               [] in.cls = "cond" ->
                    EnterBlock(u, f, b, in.to[IF Val(r.env, in.use[1], FALSE) # 0 THEN 1 ELSE 2], r.env, Burn(r.w))
               [] in.cls = "ret"  -> [r.w EXCEPT !.ret = IF in.use = <<>> THEN 0 ELSE Val(r.env, in.use[1], FALSE)]
  IN  Leave(ForEach(LAMBDA r, i : Carry(u, f, r, i), [env |-> env, w |-> w], SubSeq(f.code[b], k, stop - 1)))

CallFun(u, f, args, w) ==
  EnterBlock(u, f, 0, Entry(f),
             [o \in ToSet(f.params) |-> args[PosOf(f.params, o)]] @@ GlobalEnv(u), w)

(* What can be seen of a run.                                              *)
Run(u, input, fuel) ==
  LET w == CallFun(u, u.funs["main"], <<>>,
                   [mem |-> GlobalCells(u), out |-> <<>>, in |-> input, fuel |-> fuel, ok |-> "ok", ret |-> 0])
  IN  [ok |-> w.ok, out |-> w.out, ret |-> w.ret]
=============================================================================

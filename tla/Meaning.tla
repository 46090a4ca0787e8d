-------------------------------- MODULE Meaning --------------------------------
(***************************************************************************)
(* The source language and what a program in it means: the abstract        *)
(* specification the compiler is held to.  A program that is given some    *)
(* input writes certain numbers, one after the other, the last one what    *)
(* main returns, and stops.                                                *)
(*                                                                         *)
(* Syntax, for which Tree has names: expressions <<"num", n>>, <<"real",   *)
(* quarters>>, <<"id", x, indexes>>, <<"call", g, arguments>>, <<"!", e>>, *)
(* <<"neg", e>> and <<operator, e1, e2>>; statements as under Exec; a      *)
(* declaration <<"decl", type, name, dimensions, initial value>>, the last *)
(* empty, an expression or <<"list", elements>>; a function <<"fun", type, *)
(* name, parameters <<type, name, dimensions>>, body>>.  A program is a    *)
(* sequence of declarations and functions.                                 *)
(***************************************************************************)
EXTENDS IRExec

CONSTANT Programs     \* pairs of a program and its input

VARIABLES
  want,               \* what is to be written
  said                \* what has been

Comparisons == [x \in {"<", "<=", ">", ">=", "==", "!="} |->
                  CASE x = "<" -> "l" [] x = "<=" -> "le" [] x = ">" -> "g" [] x = ">=" -> "ge"
                    [] x = "==" -> "e" [] x = "!=" -> "ne"]
Arithmetics == [x \in {"+", "-", "*", "/", "%"} |->
                  CASE x = "+" -> "add" [] x = "-" -> "sub" [] x = "*" -> "mul" [] x = "/" -> "div" [] x = "%" -> "mod"]
Product(s)  == ForEach(LAMBDA n, d : n * d, 1, s)
EnvFind(env, x) == env[Max({k \in DOMAIN env : x \in DOMAIN env[k]})][x]

-----------------------------------------------------------------------------
(* A value: its type, the number, and the dimensions that are left if it   *)
(* is the address of an array.  The world w: mem, out, in, env (a sequence  *)
(* of scopes: name -> value, the address of a variable), flow (how the last *)
(* statement ended) and val (the last value).                              *)
Value0(ty, v) == [ty |-> ty, v |-> v, dims |-> <<>>]
Whole(v)        == Value0("int", v)
AsFloat(x)    == IF x.ty = "float" THEN x.v ELSE Quarters * x.v
To(ty, x) ==
  IF x.dims # <<>> \/ x.ty = ty \/ ty = "void" THEN x
  ELSE IF ty = "float" THEN Value0(ty, Quarters * x.v) ELSE Value0(ty, Quo(x.v, Quarters))
Truth(x)      == x.v # 0

(* The operators, with the usual conversions.                              *)
Apply(op, a, b) ==
  LET fl == "float" \in {a.ty, b.ty}
  IN  CASE op \in DOMAIN Comparisons -> Whole(Bool(Holds(Comparisons[op], AsFloat(a), AsFloat(b))))
        [] op \in DOMAIN Arithmetics /\ fl -> Value0("float", FloatArith(Arithmetics[op], AsFloat(a), AsFloat(b)))
        [] OTHER -> Whole(Arith(Arithmetics[op], a.v, b.v))

Yields(w, x) == [w EXCEPT !.val = x]
Writes(w, x) == Yields([w EXCEPT !.out = Append(@, x.v)], Whole(0))
Takes(w, ty) == Yields([w EXCEPT !.in = IF @ = <<>> THEN @ ELSE Tail(@)],
                       Value0(ty, IF w.in = <<>> THEN 0 ELSE Head(w.in)))
Bind(w, x, b) == [w EXCEPT !.env[Len(w.env)] = (x :> b) @@ @]
Enters(w)     == [w EXCEPT !.env = Append(@, <<>>)]
Leaves(w)     == [w EXCEPT !.env = Front(@)]

RECURSIVE Eval(_, _, _), EvalAll(_, _, _), Exec(_, _, _), ExecAll(_, _, _), Invoke(_, _, _, _), Loop(_, _, _)

(* The address and remaining dimensions of a variable with indexes.        *)
Spot(w, b, vs) ==
  LET at == ForEach(LAMBDA a, k : a + vs[k].v * Product(SubSeq(b.dims, k + 1, Len(b.dims))), b.v,
                    [k \in DOMAIN vs |-> k])
  IN  [b EXCEPT !.v = at, !.dims = SubSeq(@, Len(vs) + 1, Len(@))]
Fetched(w, b) == IF b.dims = <<>> THEN Yields(w, Value0(b.ty, w.mem[b.v])) ELSE Yields(w, b)

(* fs: the program's functions.  r: [w, vs], a world and some values.      *)
EvalAll(fs, w, es) ==
  LET Next1(r, w2) == [w |-> w2, vs |-> Append(r.vs, w2.val)]
  IN  ForEach(LAMBDA r, e : Next1(r, Eval(fs, r.w, e)), [w |-> w, vs |-> <<>>], es)

Eval(fs, w, e) ==
  LET Both(r)    == Yields(r.w, Apply(e[1], r.vs[1], r.vs[2]))
      Found(r)   == Fetched(r.w, Spot(r.w, EnvFind(r.w.env, e[2]), r.vs))
      Answer(w1) == Yields(w1, Whole(Bool(Truth(w1.val))))
      Right(w1)  == IF Truth(w1.val) = (e[1] = "&&") THEN Answer(Eval(fs, w1, e[3])) ELSE Answer(w1)
      Denied(w1) == Yields(w1, Whole(Bool(~Truth(w1.val))))
      Minus(w1)  == Yields(w1, Value0(w1.val.ty, -w1.val.v))
      Called(r)  == CASE e[2] = "getint"   -> Takes(r.w, "int")
                      [] e[2] = "getfloat" -> Takes(r.w, "float")
                      [] e[2] = "putint"   -> Writes(r.w, To("int", r.vs[1]))
                      [] e[2] = "putfloat" -> Writes(r.w, To("float", r.vs[1]))
                      [] OTHER             -> Invoke(fs, r.w, fs[e[2]], r.vs)
  IN  CASE e[1] = "num"  -> Yields(w, Whole(e[2]))
        [] e[1] = "real" -> Yields(w, Value0("float", e[2]))
        [] e[1] = "id"   -> Found(EvalAll(fs, w, e[3]))
        [] e[1] = "call" -> Called(EvalAll(fs, w, e[3]))
        [] e[1] = "!"    -> Denied(Eval(fs, w, e[2]))
        [] e[1] = "neg"  -> Minus(Eval(fs, w, e[2]))
        [] e[1] \in {"&&", "||"} -> Right(Eval(fs, w, e[2]))
        [] OTHER -> Both(EvalAll(fs, w, <<e[2], e[3]>>))

-----------------------------------------------------------------------------
(* New cells, and the elements of an initial value in the order of memory: *)
(* a list in braces stands for one element of the array, what is missing   *)
(* is zero.                                                                *)
Grow(w, ty, x, dims, v) ==
  Bind([w EXCEPT !.mem = @ \o [k \in 1 .. Product(dims) |-> v]], x,
       [ty |-> ty, v |-> Len(w.mem) + 1, dims |-> dims])
Zeros(n) == [k \in 1 .. n |-> <<"num", 0>>]
RECURSIVE Laid(_, _)
Laid(items, dims) ==
  LET Add(s, e) == IF e[1] = "list" THEN s \o Laid(e[2], Tail(dims)) ELSE Append(s, e)
      Padded(s) == s \o Zeros(Product(dims) - Len(s))
  IN  Padded(ForEach(Add, <<>>, items))
Declared(fs, w, d, v, dims) ==
  LET Put1(w2, at) == [w2 EXCEPT !.mem[at] = To(d[2], w2.val).v]
      es == IF d[5][1] = "list" THEN Laid(d[5][2], dims) ELSE <<d[5]>>
      base == Len(w.mem)
      Fills(w2) == ForEach(LAMBDA g, k : Put1(Eval(fs, g, es[k]), base + k), w2, [k \in DOMAIN es |-> k])
  IN  IF d[5] = <<>> THEN Grow(w, d[2], d[3], dims, v) ELSE Fills(Grow(w, d[2], d[3], dims, v))
Sizes(fs, w, es) == Each(LAMBDA e : Eval(fs, w, e).val.v, es)

Exec(fs, w, s) ==
  LET Chosen(w1, t) == IF Truth(w1.val) THEN Exec(fs, w1, t) ELSE w1
      Either(w1)    == IF Truth(w1.val) THEN Exec(fs, w1, s[3]) ELSE Exec(fs, w1, s[4])
      Stored(v, r)  == [r.w EXCEPT !.mem[Spot(r.w, EnvFind(r.w.env, s[2][2]), r.vs).v] =
                                      To(EnvFind(r.w.env, s[2][2]).ty, v).v]
      Target(w1)    == Stored(w1.val, EvalAll(fs, w1, s[2][3]))
      Ends(w1)      == [w1 EXCEPT !.flow = "return"]
  IN  CASE s[1] = "assign" -> Target(Eval(fs, w, s[3]))
        [] s[1] = "expr"   -> Eval(fs, w, s[2])
        [] s[1] = "block"  -> Leaves(ExecAll(fs, Enters(w), s[2]))
        [] s[1] = "if"     -> Chosen(Eval(fs, w, s[2]), s[3])
        [] s[1] = "ifelse" -> Either(Eval(fs, w, s[2]))
        [] s[1] = "while"  -> Loop(fs, w, s)
        [] s[1] \in {"break", "continue"} -> [w EXCEPT !.flow = s[1]]
        [] s[1] = "return" -> IF s[2] = <<>> THEN Ends(Yields(w, Whole(0))) ELSE Ends(Eval(fs, w, s[2][1]))
        [] s[1] = "decl"   -> Declared(fs, w, s, Junk, Sizes(fs, w, s[4]))
ExecAll(fs, w, ss) == ForEach(LAMBDA g, s : IF g.flow = "next" THEN Exec(fs, g, s) ELSE g, w, ss)
Loop(fs, w, s) ==
  LET Again(w2) == IF w2.flow = "return" THEN w2
                   ELSE IF w2.flow = "break" THEN [w2 EXCEPT !.flow = "next"]
                   ELSE Loop(fs, [w2 EXCEPT !.flow = "next"], s)
      Tested(w1) == IF Truth(w1.val) THEN Again(Exec(fs, w1, s[3])) ELSE w1
  IN  Tested(Eval(fs, w, s[2]))

(* A call: the parameters are new variables, an array one is the address.  *)
Invoke(fs, w, fn, vs) ==
  LET Param(g, k) ==
        LET p == fn[4][k]
        IN  IF p[3] = <<>> THEN Grow(g, p[1], p[2], <<>>, To(p[1], vs[k]).v)
            ELSE Bind(g, p[2], [ty |-> p[1], v |-> vs[k].v, dims |-> Sizes(fs, g, p[3])])
      Back(g) == [g EXCEPT !.env = w.env, !.flow = "next", !.val = To(fn[2], @)]
      Inside  == [w EXCEPT !.env = <<w.env[1], <<>>>>, !.val = Whole(0)]
  IN  Back(Exec(fs, ForEach(Param, Inside, [k \in DOMAIN vs |-> k]), fn[5]))

FunsOf(p) == LET fs == SelectSeq(p, LAMBDA d : d[1] = "fun")
             IN  [g \in {fs[k][3] : k \in DOMAIN fs} |-> CHOOSE d \in ToSet(fs) : d[3] = g]
Means(p, in) ==
  LET start == [mem |-> <<>>, out |-> <<>>, in |-> in, env |-> << <<>> >>, flow |-> "next", val |-> Whole(0)]
      data  == SelectSeq(p, LAMBDA d : d[1] = "decl")
      Ready(fs) == ForEach(LAMBDA w, d : Declared(fs, w, d, 0, Sizes(fs, w, d[4])), start, data)
      Done(w)   == Append(w.out, w.val.v)
  IN  Done(Invoke(FunsOf(p), Ready(FunsOf(p)), FunsOf(p)["main"], <<>>))

-----------------------------------------------------------------------------
Init == /\ \E p \in Programs : want = Means(p[1], p[2])
        /\ said = <<>>
Say  == /\ Len(said) < Len(want)
        /\ said' = Append(said, want[Len(said) + 1])
        /\ UNCHANGED want
Spec == Init /\ [][Say]_<<want, said>> /\ WF_<<want, said>>(Say)
=============================================================================

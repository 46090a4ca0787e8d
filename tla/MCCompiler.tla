------------------------------- MODULE MCCompiler -------------------------------
(***************************************************************************)
(* Programs for the compiler, each after its text, and for some of them    *)
(* the functions that the passes of "-O" on the intermediate code leave,   *)
(* as the compiler prints them.                                            *)
(***************************************************************************)
EXTENDS Compiler

(* A copy, as SSA destruction writes it, and the addresses of elements.     *)
Is(d, o) == Bin("add", d, o, C(0))
AtRow(d, o, k, size) == [Gep(d, o, k, size) EXCEPT !.op = "first"]
At1(d, o, k) == AtRow(d, o, k, 1)
Bytes(d, o)  == [Bitcast(d, o) EXCEPT !.op = "i8"]
At2(d, o, k, near) == [At1(d, o, k) EXCEPT !.op = "last", !.init = <<near, 0>>]

a == Var("a")
b == Var("b")
i == Var("i")
n == Var("n")
s == Var("s")
x == Var("x")
y == Var("y")
Plus(e, f)  == Two("+", e, f)
Minus(e, f) == Two("-", e, f)
Less(e, f)  == Two("<", e, f)
Put(e)      == Do(Calls("putint", <<e>>))
PutFloat(e) == Do(Calls("putfloat", <<e>>))
GetInt      == Calls("getint", <<>>)
GetFloat    == Calls("getfloat", <<>>)
IntVar(v, e) == Decl("int", v, <<>>, e)
FloatVar(v, e) == Decl("float", v, <<>>, e)
Count(v, k) == Assign(v, Plus(v, Num(k)))
Main(ss)    == Fun("int", "main", <<>>, Block(ss))
IntP(v)     == <<"int", v, <<>>>>
FltP(v)     == <<"float", v, <<>>>>

(* int g = 5; int k = 3 * 4;                                               *)
(* int main() { int x = getint(); int y = getint(); putint(x % y);         *)
(*   putint(x * 300 - y / 2 + g - k); putint(!x + 1); y = 1 * y + 0;       *)
(*   if (x > y) putint(-x); else { putint(-700); g = g + 301; }            *)
(*   return g; }                                                           *)
Arith1 == <<
  IntVar("g", Num(5)), IntVar("k", Two("*", Num(3), Num(4))),
  Main(<<IntVar("x", GetInt), IntVar("y", GetInt), Put(Two("%", x, y)),
    Put(Minus(Plus(Minus(Two("*", x, Num(300)), Two("/", y, Num(2))), Var("g")), Var("k"))),
    Put(Plus(Not(x), Num(1))), Assign(y, Plus(Two("*", Num(1), y), Num(0))),
    IfElse(Two(">", x, y), Put(Neg(x)), Block(<<Put(Neg(Num(700))), Count(Var("g"), 301)>>)),
    Returns(Var("g"))>>)>>

(* int g = 0;                                                              *)
(* int fact(int n) { if (n <= 1) return 1; return n * fact(n - 1); }       *)
(* void note(int a, int b) { if (a == b) return; g = g + a - b; }          *)
(* int six(int a, int b, int x, int y, int n, int s)                       *)
(*   { note(n, a); return (a - b) * x + y * (n - s); }                     *)
(* int main() { g = 1; note(7, 7); int x = six(1, 2, 3, 4, 500, fact(3));   *)
(*   putint(x); return g + x; }                                            *)
Six == Fun("int", "six", <<IntP("a"), IntP("b"), IntP("x"), IntP("y"), IntP("n"), IntP("s")>>,
  Block(<<Do(Calls("note", <<n, a>>)),
    Returns(Plus(Two("*", Minus(a, b), x), Two("*", y, Minus(n, s))))>>))
Functions1 == <<
  IntVar("g", Num(0)),
  Fun("int", "fact", <<IntP("n")>>,
    Block(<<If(Two("<=", n, Num(1)), Returns(Num(1))), Returns(Two("*", n, Calls("fact", <<Minus(n, Num(1))>>)))>>)),
  Fun("void", "note", <<IntP("a"), IntP("b")>>,
    Block(<<If(Two("==", a, b), Leave), Assign(Var("g"), Minus(Plus(Var("g"), a), b))>>)),
  Six,
  Main(<<Assign(Var("g"), Num(1)), Do(Calls("note", <<Num(7), Num(7)>>)),
    IntVar("x", Calls("six", <<Num(1), Num(2), Num(3), Num(4), Num(500), Calls("fact", <<Num(3)>>)>>)),
    Put(x), Returns(Plus(Var("g"), x))>>)>>

(* int g[2][3] = {{1}, 4, 5};                                              *)
(* int sum(int a[], int n) { int s = 0; int i = 0;                         *)
(*   while (i < n) { s = s + a[i]; i = i + 1; } return s; }                *)
(* int corner(int b[][3], int n) { b[n][1] = b[n][1] + 10; return b[n][2]; } *)
(* int window(int n) { int x[6] = {n, 0, 7}; x[n] = x[n] + 2;              *)
(*   return sum(x, 3) * 10 + x[5]; }                                       *)
(* int main() { int n = getint(); int y[2][2] = {{1, n}, {3}};             *)
(*   putint(sum(g[1], 3)); putint(window(n)); putint(corner(g, n));         *)
(*   return y[n][0] + y[0][n] + y[1][1] + g[n][1]; }                       *)
Ints(v, k, e) == Decl("int", v, <<Num(k)>>, e)
Square(v, k, e) == Decl("int", v, <<Num(2), Num(k)>>, e)
Arrays1 == <<
  Square("g", 3, Elements(<<Elements(<<Num(1)>>), Num(4), Num(5)>>)),
  Fun("int", "sum", <<<<"int", "a", <<Num(0)>>>>, IntP("n")>>,
    Block(<<IntVar("s", Num(0)), IntVar("i", Num(0)),
      While(Less(i, n), Block(<<Assign(s, Plus(s, At("a", <<i>>))), Count(i, 1)>>)), Returns(s)>>)),
  Fun("int", "corner", <<<<"int", "b", <<Num(0), Num(3)>>>>, IntP("n")>>,
    Block(<<Count(At("b", <<n, Num(1)>>), 10), Returns(At("b", <<n, Num(2)>>))>>)),
  Fun("int", "window", <<IntP("n")>>,
    Block(<<Ints("x", 6, Elements(<<n, Num(0), Num(7)>>)), Count(At("x", <<n>>), 2),
      Returns(Plus(Two("*", Calls("sum", <<x, Num(3)>>), Num(10)), At("x", <<Num(5)>>)))>>)),
  Main(<<IntVar("n", GetInt), Square("y", 2, Elements(<<Elements(<<Num(1), n>>), Elements(<<Num(3)>>)>>)),
    Put(Calls("sum", <<At("g", <<Num(1)>>), Num(3)>>)), Put(Calls("window", <<n>>)), Put(Calls("corner", <<Var("g"), n>>)),
    Returns(Plus(Plus(Plus(At("y", <<n, Num(0)>>), At("y", <<Num(0), n>>)), At("y", <<Num(1), Num(1)>>)),
                 At("g", <<n, Num(1)>>)))>>)>>

(* float g = 1.5; float h[2] = {0.5, 2};                                   *)
(* float half(float x) { return x / 2; }                                   *)
(* float mix(float a, float b, float x, float y, float n, float s)         *)
(*   { return (a - b) * x + y * n - s; }                                   *)
(* int main() { float a = getfloat(); int n = a; float b = n;              *)
(*   putfloat(a * n + half(b) - g); putfloat(mix(a, b, 1.25, 4, 0.5, a));   *)
(*   if (a < b || a >= 2.5) putint(a); else h[1] = h[0] + h[1];            *)
(*   if (h[0]) putfloat(-h[1]); return half(g); }                          *)
Floats1 == <<
  FloatVar("g", Real(6)), Decl("float", "h", <<Num(2)>>, Elements(<<Real(2), Num(2)>>)),
  Fun("float", "half", <<FltP("x")>>, Block(<<Returns(Two("/", x, Num(2)))>>)),
  Fun("float", "mix", <<FltP("a"), FltP("b"), FltP("x"), FltP("y"), FltP("n"), FltP("s")>>,
    Block(<<Returns(Minus(Plus(Two("*", Minus(a, b), x), Two("*", y, n)), s))>>)),
  Main(<<FloatVar("a", GetFloat), IntVar("n", a), FloatVar("b", n),
    PutFloat(Minus(Plus(Two("*", a, n), Calls("half", <<b>>)), Var("g"))),
    PutFloat(Calls("mix", <<a, b, Real(5), Num(4), Real(2), a>>)),
    IfElse(Two("||", Less(a, b), Two(">=", a, Real(10))), Put(a),
           Assign(At("h", <<Num(1)>>), Plus(At("h", <<Num(0)>>), At("h", <<Num(1)>>)))),
    If(At("h", <<Num(0)>>), PutFloat(Neg(At("h", <<Num(1)>>)))), Returns(Calls("half", <<Var("g")>>))>>)>>

(* int main() { int n = getint(); int i = 0; int s = 0;                    *)
(*   while (!s || i < 9 && s <= 20)                                       *)
(*   { i = i + 1; if (i == 2) continue; if (i > n) break;                   *)
(*     int x = 0; while (x < i) { x = x + 1; if (x == 2) break; s = s + x; } *)
(*     s = s + i; }                                                         *)
(*   if (n && i < 3 || s != 4) { putint(i); return s; putint(0); }          *)
(*   return 300; }                                                          *)
Control1 == <<
  Main(<<IntVar("n", GetInt), IntVar("i", Num(0)), IntVar("s", Num(0)),
    While(Two("||", Not(s), Two("&&", Less(i, Num(9)), Two("<=", s, Num(20)))),
      Block(<<Count(i, 1), If(Two("==", i, Num(2)), Continue), If(Two(">", i, n), Break),
        IntVar("x", Num(0)),
        While(Less(x, i), Block(<<Count(x, 1), If(Two("==", x, Num(2)), Break), Assign(s, Plus(s, x))>>)),
        Assign(s, Plus(s, i))>>)),
    If(Two("||", Two("&&", n, Less(i, Num(3))), Two("!=", s, Num(4))),
       Block(<<Put(i), Returns(s), Put(Num(0))>>)),
    Returns(Num(300))>>)>>

(* int x = 1; const int N = 2;                                             *)
(* int f(int x) { { int x = 9; x = x + 1; putint(x); } return x * N; }     *)
(* int main() { int y = x; int a[N + 1] = {4, y, y + 1};                   *)
(*   { int x = 2; y = y + x; { int x = 3; y = y * x; } x = y; y = x + 1; }   *)
(*   while (y > 8) { int y = 8; x = x + y; if (x > 10) break; }            *)
(*   return f(x) + y + a[2]; }                                             *)
Scopes1 == <<
  IntVar("x", Num(1)), IntVar("N", Num(2)),
  Fun("int", "f", <<IntP("x")>>,
    Block(<<Block(<<IntVar("x", Num(9)), Count(x, 1), Put(x)>>), Returns(Two("*", x, Var("N")))>>)),
  Main(<<IntVar("y", x), Ints("a", 3, Elements(<<Num(4), y, Plus(y, Num(1))>>)),
    Block(<<IntVar("x", Num(2)), Assign(y, Plus(y, x)), Block(<<IntVar("x", Num(3)), Assign(y, Two("*", y, x))>>),
            Assign(x, y), Assign(y, Plus(x, Num(1)))>>),
    While(Two(">", y, Num(8)), Block(<<IntVar("y", Num(8)), Assign(x, Plus(x, y)), If(Two(">", x, Num(10)), Break)>>)),
    Returns(Plus(Plus(Calls("f", <<x>>), y), At("a", <<Num(2)>>)))>>)>>

(* int far(int n) { int x[70]; int s = 7; x[0] = n; x[n * 69] = x[0] + s;  *)
(*   { int y = x[69]; s = s + y; } return s; }                             *)
(* int main() { int n = 1; int b[3] = {2, n}; return far(n) + b[n]; }      *)
Frames1 == <<
  Fun("int", "far", <<IntP("n")>>,
    Block(<<Decl("int", "x", <<Num(70)>>, <<>>), IntVar("s", Num(7)), Assign(At("x", <<Num(0)>>), n),
      Assign(At("x", <<Two("*", n, Num(69))>>), Plus(At("x", <<Num(0)>>), s)),
      Block(<<IntVar("y", At("x", <<Num(69)>>)), Assign(s, Plus(s, y))>>), Returns(s)>>)),
  Main(<<IntVar("n", Num(1)), Ints("b", 3, Elements(<<Num(2), n>>)),
    Returns(Plus(Calls("far", <<n>>), At("b", <<n>>)))>>)>>

(* int f(int a, int b, int n, int s, int x, int y) {                        *)
(*   if (y <= 0) return a * b + n; return f(b, n, s, x, a, y - 1) - b * s; } *)
(* main reads a to j, prints f of five, and the loop's and their values; an *)
(* array pushes what is spilled out of the reach of an immediate.          *)
Name9 == <<"a", "b", "c", "d", "e", "g", "h", "i", "j">>
Press1 == <<
  Fun("int", "f", <<IntP("a"), IntP("b"), IntP("n"), IntP("s"), IntP("x"), IntP("y")>>,
    Block(<<If(Two("<=", y, Num(0)), Returns(Plus(Two("*", a, b), n))),
      Returns(Minus(Calls("f", <<b, n, s, x, a, Minus(y, Num(1))>>), Two("*", b, s)))>>)),
  Main([j \in 1 .. 9 |-> IntVar(Name9[j], GetInt)] \o <<
    Put(Calls("f", <<a, b, Var("c"), Var("d"), Var("e"), Num(2)>>)), Ints("v", 70, <<>>),
    Assign(At("v", <<a>>), Var("c")), IntVar("k", Num(3)),
    While(Two(">", Var("k"), Num(0)), Block(<<Put(a), Assign(Var("k"), Minus(Var("k"), Num(1))), Assign(a, Plus(a, b))>>)),
    Put(Minus(a, Two("*", b, Var("c")))), Put(Plus(Two("*", Var("d"), Var("e")), Var("g"))),
    Put(Minus(Plus(Two("*", Var("h"), Num(8)), i), Var("j"))), Put(Minus(a, Var("j"))), Put(At("v", <<Num(7)>>)),
    Returns(Plus(Plus(Plus(Plus(Plus(Plus(b, Var("c")), Var("g")), Var("d")), Var("e")), Var("h")), i))>>)>>

(* int g[2][3] = {{1, 2, 3}, {4, 5, 6}};                                   *)
(* int main() { int n = getint(); int x[4][2] = {};                        *)
(*   x[n][0] = n + 7; x[2][1] = g[n][0] * 8;                               *)
(*   while (n < 3) { n = n + 1; x[n][0] = x[2][1]; putint(g[1][3 - n]); }  *)
(*   return x[3][0] + g[1][0]; }                                           *)
Grid1 == <<
  Square("g", 3, Elements(<<Elements(<<Num(1), Num(2), Num(3)>>), Elements(<<Num(4), Num(5), Num(6)>>)>>)),
  Main(<<IntVar("n", GetInt), Decl("int", "x", <<Num(4), Num(2)>>, Elements(<<>>)),
    Assign(At("x", <<n, Num(0)>>), Plus(n, Num(7))),
    Assign(At("x", <<Num(2), Num(1)>>), Two("*", At("g", <<n, Num(0)>>), Num(8))),
    While(Less(n, Num(3)), Block(<<Count(n, 1), Assign(At("x", <<n, Num(0)>>), At("x", <<Num(2), Num(1)>>)),
                                   Put(At("g", <<Num(1), Minus(Num(3), n)>>))>>)),
    Returns(Plus(At("x", <<Num(3), Num(0)>>), At("g", <<Num(1), Num(0)>>)))>>)>>

Press1O ==
  "f" :> FunOf("f", <<P(1), P(2), P(3), P(4), P(5), P(6)>>, <<
    <<143, <<Is(T(188), P(4)), Is(T(185), P(1)), Is(T(186), P(2)), Is(T(187), P(3)), Is(T(189), P(5)),
           Is(T(190), P(6)), Cmp("le", T(13), T(190), C(0)), CondBr(150, 154, T(13))>>>>,
    <<150, <<Bin("mul", T(20), T(185), T(186)), Bin("add", T(21), T(20), T(187)), Ret(T(21))>>>>,
    <<154, <<Bin("sub", T(29), T(190), C(1)),
           Call(T(30), "f", <<T(186), T(187), T(188), T(189), T(185), T(29)>>),
           Bin("mul", T(36), T(186), T(188)), Bin("sub", T(37), T(30), T(36)), Ret(T(37))>>>>>>) @@
  "main" :> FunOf("main", <<>>, <<
    <<155, <<AllocaArray(T(165), 70), Call(T(38), "getint", <<>>), Call(T(40), "getint", <<>>),
           Call(T(42), "getint", <<>>), Call(T(44), "getint", <<>>), Call(T(46), "getint", <<>>),
           Call(T(48), "getint", <<>>), Call(T(50), "getint", <<>>), Call(T(52), "getint", <<>>),
           Call(T(54), "getint", <<>>), Call(T(61), "f", <<T(38), T(40), T(42), T(44), T(46), C(2)>>),
           Call(None, "putint", <<T(61)>>), At1(T(64), T(165), T(38)), Store(T(64), T(42)),
           Is(T(211), C(3)), Is(T(212), T(38)), Br(168)>>>>,
    <<168, <<Call(None, "putint", <<T(212)>>), Bin("sub", T(73), T(211), C(1)),
           Bin("add", T(78), T(212), T(40)), Cmp("g", T(174), T(73), C(0)), CondBr(240, 169, T(174))>>>>,
    <<240, <<Is(T(211), T(73)), Is(T(212), T(78)), Br(168)>>>>,
    <<169, <<Bin("mul", T(85), T(40), T(42)), Bin("sub", T(86), T(78), T(85)),
           Call(None, "putint", <<T(86)>>), Bin("mul", T(93), T(44), T(46)),
           Bin("add", T(94), T(93), T(48)), Call(None, "putint", <<T(94)>>), Shl(T(96), T(50), C(3)),
           Bin("add", T(231), T(52), T(96)), Bin("sub", T(232), T(231), T(54)),
           Call(None, "putint", <<T(232)>>), Bin("sub", T(107), T(78), T(54)),
           Call(None, "putint", <<T(107)>>), At1(T(108), T(165), C(7)), Load(T(178), T(108)),
           Call(None, "putint", <<T(178)>>), Bin("add", T(233), T(40), T(42)),
           Bin("add", T(234), T(233), T(44)), Bin("add", T(235), T(234), T(46)),
           Bin("add", T(236), T(235), T(48)), Bin("add", T(237), T(236), T(50)),
           Bin("add", T(238), T(237), T(52)), Ret(T(238))>>>>>>)

Functions1O ==
  "fact" :> FunOf("fact", <<P(1)>>, <<
    <<73, <<Is(T(108), P(1)), Cmp("le", T(4), T(108), C(1)), CondBr(75, 79, T(4))>>>>,
    <<75, <<Ret(C(1))>>>>,
    <<79, <<Bin("sub", T(8), T(108), C(1)), Call(T(9), "fact", <<T(8)>>), Bin("mul", T(11), T(108), T(9)),
           Ret(T(11))>>>>>>) @@
  "main" :> FunOf("main", <<>>, <<
    <<95, <<Store(G(1), C(1)), Store(G(1), C(1)), Call(T(65), "fact", <<C(3)>>), Store(G(1), C(1)),
           Store(G(1), C(500)), Bin("sub", T(171), C(500), T(65)), Shl(T(172), T(171), C(2)),
           Bin("add", T(186), T(172), C(-3)), Load(T(106), G(1)), Call(None, "putint", <<T(186)>>),
           Bin("add", T(72), T(106), T(186)), Ret(T(72))>>>>>>)

Frames1O ==
  "main" :> FunOf("main", <<>>, <<
    <<37, <<AllocaArray(T(39), 3), At1(T(40), T(39), C(0)), Store(T(40), C(2)), At2(T(41), T(39), C(1), T(40)),
           Store(T(41), C(1)), At2(T(42), T(39), C(2), T(41)), Store(T(42), C(0)), AllocaArray(T(57), 70),
           At1(T(59), T(57), C(0)), Store(T(59), C(1)), At1(T(63), T(57), C(69)), Store(T(63), C(8)),
           Load(T(43), T(41)), Bin("add", T(29), C(15), T(43)), Ret(T(29))>>>>>>)

Scopes1O ==
  "main" :> FunOf("main", <<>>, <<
    <<64, <<AllocaArray(T(66), 3), Load(T(92), G(1)), At1(T(67), T(66), C(0)), Store(T(67), C(4)),
           At2(T(68), T(66), C(1), T(67)), Store(T(68), T(92)), Bin("add", T(22), T(92), C(1)),
           At2(T(69), T(66), C(2), T(68)), Store(T(69), T(22)), Bin("add", T(29), T(92), C(2)),
           Bin("mul", T(35), T(29), C(3)), Bin("add", T(41), T(35), C(1)), Cmp("g", T(43), T(41), C(8)),
           CondBr(132, 134, T(43))>>>>,
    <<132, <<Is(T(112), T(92)), Br(73)>>>>,
    <<73, <<Bin("add", T(49), T(112), C(8)), Cmp("g", T(51), T(49), C(10)), CondBr(135, 83, T(51))>>>>,
    <<135, <<Is(T(116), T(49)), Br(74)>>>>,
    <<74, <<Call(None, "putint", <<C(10)>>), Shl(T(125), T(116), C(1)), Bin("add", T(128), T(41), T(125)),
           Load(T(90), T(69)), Bin("add", T(60), T(128), T(90)), Ret(T(60))>>>>,
    <<83, <<Cmp("g", T(131), T(41), C(8)), CondBr(133, 136, T(131))>>>>,
    <<133, <<Is(T(112), T(49)), Br(73)>>>>,
    <<136, <<Is(T(116), T(49)), Br(74)>>>>,
    <<134, <<Is(T(116), T(92)), Br(74)>>>>>>)

Arith1O ==
  "main" :> FunOf("main", <<>>, <<
    <<48, <<Load(T(59), G(1)), Call(T(3), "getint", <<>>), Call(T(5), "getint", <<>>),
           Bin("mod", T(9), T(3), T(5)), Call(None, "putint", <<T(9)>>), Bin("mul", T(11), T(3), C(300)),
           Ashr(T(25), T(5), C(1)), Bin("add", T(78), T(11), T(59)), Bin("add", T(79), T(78), C(-12)),
           Bin("sub", T(80), T(79), T(25)), Call(None, "putint", <<T(80)>>), Cmp("ne", T(51), T(3), C(0)),
           Xor(T(30), T(51)), Bin("add", T(32), T(30), C(1)), Call(None, "putint", <<T(32)>>),
           Cmp("g", T(39), T(3), T(5)), CondBr(52, 57, T(39))>>>>,
    <<52, <<Bin("sub", T(41), C(0), T(3)), Call(None, "putint", <<T(41)>>), Is(T(70), T(59)), Br(54)>>>>,
    <<54, <<Ret(T(70))>>>>,
    <<57, <<Call(None, "putint", <<C(-700)>>), Bin("add", T(46), T(59), C(301)), Is(T(70), T(46)), Br(54)>>>>>>)

Control1O ==
  "main" :> FunOf("main", <<>>, <<
    <<52, <<Call(T(0), "getint", <<>>), Is(T(144), C(0)), Is(T(145), C(0)), Br(56)>>>>,
    <<56, <<Cmp("ne", T(60), T(144), C(0)), Xor(T(5), T(60)), Cmp("ne", T(12), T(5), C(0)),
           CondBr(174, 185, T(12))>>>>,
    <<174, <<Is(T(147), T(144)), Is(T(148), T(145)), Br(57)>>>>,
    <<57, <<Bin("add", T(16), T(148), C(1)), Cmp("e", T(18), T(16), C(2)), CondBr(173, 75, T(18))>>>>,
    <<173, <<Is(T(144), T(147)), Is(T(145), T(16)), Br(56)>>>>,
    <<75, <<Cmp("g", T(21), T(16), T(0)), CondBr(177, 81, T(21))>>>>,
    <<177, <<Is(T(159), T(147)), Is(T(160), T(16)), Br(58)>>>>,
    <<58, <<Cmp("ne", T(46), T(0), C(0)), CondBr(126, 125, T(46))>>>>,
    <<126, <<Cmp("l", T(44), T(160), C(3)), CondBr(123, 125, T(44))>>>>,
    <<123, <<Call(None, "putint", <<T(160)>>), Ret(T(159))>>>>,
    <<125, <<Cmp("ne", T(48), T(159), C(4)), CondBr(123, 135, T(48))>>>>,
    <<135, <<Ret(C(300))>>>>,
    <<81, <<Cmp("g", T(25), T(16), C(0)), CondBr(180, 182, T(25))>>>>,
    <<180, <<Is(T(151), C(0)), Is(T(152), T(147)), Br(85)>>>>,
    <<85, <<Bin("add", T(29), T(151), C(1)), Cmp("e", T(31), T(29), C(2)), CondBr(183, 94, T(31))>>>>,
    <<183, <<Is(T(156), T(152)), Br(86)>>>>,
    <<86, <<Bin("add", T(41), T(156), T(16)), Cmp("ne", T(112), T(41), C(0)), Xor(T(103), T(112)),
           Cmp("ne", T(104), T(103), C(0)), CondBr(175, 186, T(104))>>>>,
    <<175, <<Is(T(147), T(41)), Is(T(148), T(16)), Br(57)>>>>,
    <<186, <<Is(T(162), T(41)), Is(T(163), T(16)), Br(111)>>>>,
    <<111, <<Cmp("l", T(106), T(163), C(9)), CondBr(116, 178, T(106))>>>>,
    <<116, <<Cmp("le", T(108), T(162), C(20)), CondBr(176, 179, T(108))>>>>,
    <<176, <<Is(T(147), T(162)), Is(T(148), T(163)), Br(57)>>>>,
    <<179, <<Is(T(159), T(162)), Is(T(160), T(163)), Br(58)>>>>,
    <<178, <<Is(T(159), T(162)), Is(T(160), T(163)), Br(58)>>>>,
    <<94, <<Bin("add", T(36), T(152), T(29)), Cmp("l", T(98), T(29), T(16)), CondBr(181, 184, T(98))>>>>,
    <<181, <<Is(T(151), T(29)), Is(T(152), T(36)), Br(85)>>>>,
    <<184, <<Is(T(156), T(36)), Br(86)>>>>,
    <<182, <<Is(T(156), T(147)), Br(86)>>>>,
    <<185, <<Is(T(162), T(144)), Is(T(163), T(145)), Br(111)>>>>>>)

Grid1O ==
  "main" :> FunOf("main", <<>>, <<
    <<30, <<AllocaArray(T(32), 8), Call(T(1), "getint", <<>>), Bytes(T(33), T(32)),
           Call(None, "memset", <<T(33), C(0), C(32), C(0)>>), Bin("add", T(8), T(1), C(7)),
           AtRow(T(5), T(32), T(1), 2), Gep(T(34), T(5), C(0), 1), Store(T(34), T(8)),
           AtRow(T(11), G(1), T(1), 3), Gep(T(35), T(11), C(0), 1), Load(T(36), T(35)),
           Shl(T(12), T(36), C(3)), AtRow(T(9), T(32), C(2), 2), Gep(T(37), T(9), C(1), 1),
           Store(T(37), T(12)), Cmp("l", T(14), T(1), C(3)), CondBr(65, 40, T(14))>>>>,
    <<40, <<AtRow(T(26), T(32), C(3), 2), Gep(T(54), T(26), C(0), 1), Load(T(55), T(54)),
           Bin("add", T(29), T(55), C(4)), Ret(T(29))>>>>,
    <<65, <<AtRow(T(25), G(1), C(1), 3), Is(T(60), T(1)), Br(39)>>>>,
    <<39, <<Bin("add", T(18), T(60), C(1)), Load(T(45), T(37)), AtRow(T(20), T(32), T(18), 2),
           Gep(T(46), T(20), C(0), 1), Store(T(46), T(45)), Bin("sub", T(24), C(3), T(18)),
           Gep(T(47), T(25), T(24), 1), Load(T(48), T(47)), Call(None, "putint", <<T(48)>>),
           Cmp("l", T(50), T(18), C(3)), CondBr(68, 40, T(50))>>>>,
    <<68, <<Is(T(60), T(18)), Br(39)>>>>>>)

Plain == [f \in {} |-> <<>>]      \* without "-O"
MCInputs == <<
  <<Arith1, <<7, 3>>, Plain>>, <<Arith1, <<-2, 5>>, Plain>>, <<Functions1, <<>>, Plain>>, <<Arrays1, <<1>>, Plain>>,
  <<Floats1, <<5>>, Plain>>, <<Floats1, <<12>>, Plain>>, <<Control1, <<1>>, Plain>>, <<Control1, <<3>>, Plain>>,
  <<Scopes1, <<>>, Plain>>, <<Frames1, <<>>, Plain>>, <<Grid1, <<1>>, Plain>>,
  <<Arith1, <<7, 3>>, Arith1O>>, <<Functions1, <<>>, Functions1O>>, <<Control1, <<1>>, Control1O>>,
  <<Control1, <<3>>, Control1O>>, <<Scopes1, <<>>, Scopes1O>>, <<Frames1, <<>>, Frames1O>>,
  <<Grid1, <<1>>, Grid1O>>, <<Press1, [k \in 1 .. 9 |-> 7 * k], Press1O>>>>
=============================================================================

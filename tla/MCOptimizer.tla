------------------------------ MODULE MCOptimizer ------------------------------
(***************************************************************************)
(* Families of programs for Optimizer, each written as Mem2reg leaves what *)
(* the front end makes of it: loops turned so that the test comes last,    *)
(* parameters copied in the entry, globals loaded once and stored before   *)
(* calls that use them, array parameters behind a variable.                *)
(***************************************************************************)
EXTENDS Optimizer, TLC

X == T(1)
Y == T(2)
Read == <<Call(X, "getint", <<>>), Call(Y, "getint", <<>>)>>
Put(o) == Call(None, "putint", <<o>>)
Copied(d, o) == Bin("add", d, o, C(0))
Main(listing) == "main" :> FunOf("main", <<>>, listing)
Unit(funs, globals, order) ==
  [funs |-> funs, globals |-> globals, order |-> order, readonly |-> {}]
Alone(listing) == Unit(Main(listing), <<>>, <<"main">>)

(* Sums, products and what they have in common, with a join.               *)
Arithmetic(op1, op2, op3, k) == Alone(<<
  <<1, Read \o <<Bin(op1, T(3), X, Y), Bin(op2, T(4), T(3), C(k)), Cmp("l", T(5), T(4), Y), CondBr(2, 3, T(5))>> >>,
  <<2, <<Bin(op3, T(6), Y, X), Bin(op1, T(13), X, Y), Put(T(6)), Put(T(13)), Br(4)>> >>,
  <<3, <<Bin("add", T(7), X, Y), Bin(op3, T(8), T(7), C(k)), Bin("add", T(12), T(8), X), Br(4)>> >>,
  <<4, <<Phi(T(9), 2 :> T(6) @@ 3 :> T(12)), Bin("add", T(10), X, T(9)), Put(T(4)), Put(T(10)), Ret(T(9))>> >> >>)
Sums == {Arithmetic(a, b, c, k) : a \in {"add", "sub"}, b \in {"add", "mul"}, c \in {"sub", "mod"}, k \in {2, 3}}

(* A counted loop of one block: unrolled whole, by four, or not.           *)
CountTo(op, n, op2, k) == Alone(<<
  <<1, Read \o <<Cmp(op, T(3), C(0), n), CondBr(2, 3, T(3))>> >>,
  <<2, <<Phi(T(5), 1 :> Y @@ 2 :> T(6)), Phi(T(4), 1 :> C(0) @@ 2 :> T(7)), Bin(op2, T(6), T(5), k),
         Bin("add", T(7), T(4), C(1)), Cmp(op, T(8), T(7), n), CondBr(2, 3, T(8))>> >>,
  <<3, <<Phi(T(9), 1 :> Y @@ 2 :> T(6)), Put(T(9)), Ret(C(0))>> >> >>)
Counting == {CountTo(op, n, op2, k) : op \in {"l", "le"}, n \in {X, C(3)}, op2 \in {"add", "sub"}, k \in {X, T(4)}}

(* A loop of several blocks with something that does not change, always    *)
(* computed and computed on one side only.                                 *)
Invariant(op, o) == Alone(<<
  <<1, Read \o <<Cmp("l", T(3), C(0), X), CondBr(2, 6, T(3))>> >>,
  <<2, <<Phi(T(4), 1 :> C(0) @@ 5 :> T(12)), Phi(T(5), 1 :> Y @@ 5 :> T(11)), Bin(op, T(6), X, Y),
         Cmp(o, T(7), T(4), Y), CondBr(3, 4, T(7))>> >>,
  <<3, <<Bin("add", T(8), T(5), T(6)), Bin("add", T(13), Y, C(5)), Bin("add", T(14), T(8), T(13)), Br(5)>> >>,
  <<4, <<Bin("sub", T(9), T(5), T(4)), Br(5)>> >>,
  <<5, <<Phi(T(11), 3 :> T(14) @@ 4 :> T(9)), Bin("add", T(12), T(4), C(1)), Cmp("l", T(15), T(12), X), CondBr(2, 6, T(15))>> >>,
  <<6, <<Phi(T(16), 1 :> Y @@ 5 :> T(11)), Put(T(16)), Ret(C(0))>> >> >>)
Hoisting == {Invariant(op, o) : op \in {"add", "mul"}, o \in {"l", "g"}}

(* Conditions that are constant or asked again, and empty blocks.          *)
Branching(o, c, op) == Alone(<<
  <<1, Read \o <<Cmp(o, T(3), X, Y), CondBr(2, 3, T(3))>> >>,
  <<2, <<Bin("add", T(4), X, C(1)), CondBr(5, 6, T(3))>> >>,
  <<3, <<Br(4)>> >>,
  <<4, <<Phi(T(5), 3 :> X @@ 7 :> T(6)), Cmp("l", T(9), c, C(3)), CondBr(8, 9, T(9))>> >>,
  <<5, <<Bin(op, T(7), T(4), Y), Br(7)>> >>,
  <<6, <<Bin(op, T(8), Y, T(4)), Br(7)>> >>,
  <<7, <<Phi(T(6), 5 :> T(7) @@ 6 :> T(8)), Put(T(6)), Br(4)>> >>,
  <<8, <<Br(9)>> >>,
  <<9, <<Phi(T(10), 4 :> X @@ 8 :> Y), Bin("add", T(11), T(10), T(5)), Put(T(11)), Ret(C(0))>> >> >>)
Flow == {Branching(o, c, op) : o \in {"l", "ne"}, c \in {X, C(2), C(5)}, op \in {"add", "sub"}}

(* A function that changes a global, one with two returns.                 *)
Inc == "inc" :> FunOf("inc", <<P(1)>>, <<
  <<1, <<Copied(T(3), P(1)), Load(T(1), G(1)), Bin("add", T(2), T(1), T(3)), Store(G(1), T(2)), Ret(None)>> >> >>)
Two(op) == "two" :> FunOf("two", <<P(1)>>, <<
  <<1, <<Copied(T(4), P(1)), Cmp("g", T(1), T(4), C(2)), CondBr(2, 3, T(1))>> >>,
  <<2, <<Bin(op, T(2), T(4), C(4)), Ret(T(2))>> >>,
  <<3, <<Bin("sub", T(3), T(4), C(1)), Ret(T(3))>> >> >>)
Calls(op, a, o) == Unit(Inc @@ Two(op) @@ Main(<<
  <<1, <<Load(T(3), G(1))>> \o Read \o <<Call(T(4), "two", <<a>>), Cmp(o, T(5), X, Y), CondBr(2, 3, T(5))>> >>,
  <<2, <<Store(G(1), T(3)), Call(None, "inc", <<T(4)>>), Load(T(6), G(1)), Put(T(6)), Br(3)>> >>,
  <<3, <<Phi(T(7), 1 :> T(3) @@ 2 :> T(6)), Bin("add", T(8), T(7), T(3)), Put(T(8)), Call(T(9), "two", <<a>>),
         Bin("add", T(10), T(9), T(8)), Put(T(10)), Ret(C(0))>> >> >>), <<<<5>>>>, <<"inc", "two", "main">>)
Calling == {Calls(op, a, o) : op \in {"add", "mul"}, a \in {X, C(1)}, o \in {"l", "e"}}

(* An array filled with zeros in a loop, and what is stored to it later.   *)
Zero == "zero" :> FunOf("zero", <<A(1), P(2)>>, <<
  <<1, <<AllocaArray(T(1), 1), Store(T(1), A(1)), Copied(T(8), P(2)), Cmp("l", T(2), C(0), T(8)), CondBr(2, 3, T(2))>> >>,
  <<2, <<Phi(T(3), 1 :> C(0) @@ 2 :> T(6)), Load(T(4), T(1)), Gep(T(5), T(4), T(3), 1), Store(T(5), C(0)),
         Bin("add", T(6), T(3), C(1)), Cmp("l", T(7), T(6), T(8)), CondBr(2, 3, T(7))>> >>,
  <<3, <<Ret(None)>> >> >>)
Filled(at, n, i) == Unit(Zero @@ Main(<<
  <<1, Read \o <<Gep(T(3), G(1), C(0), 1), Call(None, "zero", <<T(3), n>>), Gep(T(4), G(1), C(i), 1), Load(T(5), T(4)), Put(T(5)),
       Gep(T(6), G(1), C(at), 1), Store(T(6), Y), Load(T(7), T(4)), Put(T(7)), Load(T(8), T(6)), Ret(T(8))>> >> >>),
  <<<<4, 5, 6, 7>>>>, <<"zero", "main">>)
Arrays == {Filled(at, n, i) : at \in {0, 2}, n \in {C(3), C(2)}, i \in {1, 2}}

(* Ten parameters and a call of itself: reordered, not inlined.            *)
N(k) == T(10 + k)
Many(op) == "many" :> FunOf("many", [k \in 1 .. 10 |-> P(k)], <<
  <<1, [k \in 1 .. 10 |-> Copied(N(k), P(k))] \o <<Cmp("l", T(1), N(1), C(1)), CondBr(2, 3, T(1))>> >>,
  <<2, <<Bin("add", T(2), N(2), N(10)), Bin("mul", T(4), T(2), N(3)), Bin(op, T(3), N(3), N(4)), Bin("add", T(5), T(4), T(3)),
         Bin(op, T(6), T(5), N(9)), Ret(T(6))>> >>,
  <<3, <<Bin("sub", T(7), N(1), C(1)),
         Call(T(8), "many", <<T(7), N(3), N(2), N(4), N(5), N(6), N(7), N(8), N(9), N(10)>>), Ret(T(8))>> >> >>)
CallMany(op, c) == Unit(Many(op) @@ Main(<<
  <<1, Read \o <<Bin("sub", T(4), X, Y), Bin("sub", T(5), X, Y),
                 Call(T(3), "many", <<c, X, T(5), T(5), C(2), C(3), C(4), T(4), Y, C(5)>>), Put(T(3)), Ret(C(0))>> >> >>),
  <<>>, <<"many", "main">>)
Reordering == {CallMany(op, c) : op \in {"add", "sub"}, c \in {C(0), C(2)}}

MCPrograms == Sums \cup Counting \cup Hoisting \cup Flow \cup Calling \cup Arrays \cup Reordering
MCInputs   == {<<x, y>> : x \in {-2, 3, 6}, y \in {1, 4}}
================================================================================

---------------------------------- MODULE Tree ----------------------------------
(***************************************************************************)
(* The parser's actions (src/src/parser.y, which src/src/parser.cpp holds   *)
(* once more), the constructors of the tree (src/src/Ast.cpp,              *)
(* src/include/Ast.h) and the symbol table (src/src/SymbolTable.cpp).      *)
(*                                                                         *)
(* From the syntax of a program, names for which are below, to a tree: a    *)
(* node of an expression is a record with its type, the type of the operand *)
(* its value goes to, and the conversions the constructors put in; a        *)
(* statement is a tuple, as in the syntax.  Constants are doubles in the    *)
(* code, here in quarters.                                                 *)
(***************************************************************************)
EXTENDS IR

Num(n)        == <<"num", n>>
Real(q)       == <<"real", q>>
Var(x)        == <<"id", x, <<>>>>
At(x, is)     == <<"id", x, is>>
Calls(g, as)  == <<"call", g, as>>
Not(e)        == <<"!", e>>
Neg(e)        == <<"neg", e>>
Two(op, a, b) == <<op, a, b>>
Assign(l, e)  == <<"assign", l, e>>
Do(e)         == <<"expr", e>>
Block(ss)     == <<"block", ss>>
If(c, s)      == <<"if", c, s>>
IfElse(c, s, t) == <<"ifelse", c, s, t>>
While(c, s)   == <<"while", c, s>>
Break         == <<"break">>
Continue      == <<"continue">>
Returns(e)    == <<"return", <<e>>>>
Leave         == <<"return", <<>>>>
Decl(ty, x, dims, init)  == <<"decl", ty, x, dims, init>>
Elements(es)             == <<"list", es>>
Fun(ty, g, params, body) == <<"fun", ty, g, params, body>>

-----------------------------------------------------------------------------
(* Types.  An array parameter has -1 for its first dimension.              *)
IntT   == <<"int">>
FloatT == <<"float">>
BoolT  == <<"bool">>
TypeOf(name)   == <<name>>
ArrayT(n, t)   == <<"array", n, t>>
ElementT(t)    == t[3]
IsArrayT(t)    == t[1] = "array"
IsIntT(t)      == t[1] \in {"int", "bool"}
RECURSIVE CellsOf(_), ScalarOf(_)
ScalarOf(t)    == IF IsArrayT(t) THEN ScalarOf(ElementT(t)) ELSE t
CellsOf(t)     == IF IsArrayT(t) THEN t[2] * CellsOf(ElementT(t)) ELSE 1
Arrays(t, ns)  == ForEach(LAMBDA a, n : ArrayT(n, a), t, Reverse(ns))

(* Entries: the types of a function's parameters in params; value and      *)
(* words are what the parser knows of initial values, whatever is stored   *)
(* later; notZero counts.                                                  *)
Entry0 == [name |-> "", ty |-> IntT, level |-> 0, params |-> <<>>, value |-> 0, words |-> <<>>, notZero |-> 0]
Global == 0

(* p: scopes (name -> number of an entry), entries, ret (the result type of *)
(* the function), node (what the last production gave).                    *)
RECURSIVE LookUpFrom(_, _, _)
LookUpFrom(p, k, x) == IF x \in DOMAIN p.scopes[k] THEN p.scopes[k][x] ELSE LookUpFrom(p, k - 1, x)
Lookup(p, x)  == LookUpFrom(p, Len(p.scopes), x)
Level(p)      == Len(p.scopes) - 1

(* The name stays with the entry the scope has already.                    *)
Install(p, e) ==
  [p EXCEPT !.entries = Append(@, e), !.scopes[Len(p.scopes)] = @ @@ (e.name :> Len(p.entries) + 1)]
Opened(p)     == [p EXCEPT !.scopes = Append(@, <<>>)]
Closed(p)     == [p EXCEPT !.scopes = Front(@)]

-----------------------------------------------------------------------------
Node0 == [k |-> "none", op |-> "", ty |-> IntT, res |-> IntT, kids |-> <<>>, sym |-> 0, val |-> 0]
Constant(t, q) == [Node0 EXCEPT !.k = "const", !.ty = t, !.res = t, !.val = q]
IsZeroNode(n)  == n.k = "const" /\ n.val = 0
IsOneNode(n)   == n.k = "const" /\ n.val = Quarters
Cast(n, t)     == [Node0 EXCEPT !.k = "cast", !.ty = t, !.res = t, !.kids = <<n>>]
IdNode(t, s, is) ==
  [Node0 EXCEPT !.k = "id", !.ty = t, !.res = IF t = FloatT THEN FloatT ELSE IntT, !.kids = is, !.sym = s]

(* getType: of an indexed array what the indexes leave.                    *)
GetType(n) == IF n.k = "id" THEN ForEach(LAMBDA t, i : ElementT(t), n.ty, n.kids) ELSE n.ty
IsFloatN(n) == GetType(n) = FloatT
IsIntN(n)   == IsIntT(GetType(n))

(* An int meets a float.                                                   *)
Balanced(a, b) ==
  IF IsFloatN(a) /\ IsIntN(b) THEN <<a, Cast(b, FloatT)>>
  ELSE IF IsIntN(a) /\ IsFloatN(b) THEN <<Cast(a, FloatT), b>> ELSE <<a, b>>
Two1(op, t, res, kids) == [Node0 EXCEPT !.k = "bin", !.op = op, !.ty = t, !.res = res, !.kids = kids]
Relational == {"<", "<=", ">", ">=", "==", "!="}
NotZero(n) == Two1("!=", BoolT, BoolT, <<n, Constant(FloatT, 0)>>)
Branching(n) ==
  IF GetType(n) = IntT THEN Cast(n, BoolT) ELSE IF IsFloatN(n) THEN NotZero(n) ELSE n

(* BinaryExpr.  A comparison of an int with a float has type float.        *)
Binary(op, res, a, b) ==
  CASE op \in {"&&", "||"} -> Two1(op, BoolT, res, <<Branching(a), Branching(b)>>)
    [] op \in Relational   -> Two1(op, IF IsIntN(a) /\ IsFloatN(b) THEN FloatT ELSE BoolT, res, Balanced(a, b))
    [] OTHER               -> Two1(op, IF IsFloatN(a) \/ IsFloatN(b) THEN FloatT ELSE IntT, res, Balanced(a, b))

(* alge_simple: the operands have been through it when they were built, so *)
(* that one level is enough.  1 / n is 1 for any constant n.  const_fold    *)
(* comes to no constant beyond this.                                       *)
Simplified(n) ==
  LET l == n.kids[1]
      r == n.kids[2]
      Times(c, x) == IF IsZeroNode(c) THEN Constant(n.ty, 0) ELSE IF IsOneNode(c) THEN x ELSE n
  IN  CASE n.k # "bin" -> n
        [] n.op = "+" /\ IsZeroNode(l) -> r
        [] n.op \in {"+", "-"} /\ IsZeroNode(r) -> l
        [] n.op = "*" /\ l.k = "const" -> Times(l, r)
        [] n.op = "*" /\ l.k # "const" /\ r.k = "const" -> Times(r, l)
        [] n.op = "/" /\ IsOneNode(l) /\ r.k = "const" -> l
        [] OTHER -> n
Arithmetic(op, a, b) ==
  IF op # "%" /\ (IsFloatN(a) \/ IsFloatN(b)) THEN Binary(op, FloatT, a, b) ELSE Simplified(Binary(op, IntT, a, b))

(* A "!" under another one or under a "-" counts as bool from then on.     *)
Inner(n) == IF n.k = "unary" /\ n.op = "!" /\ n.ty = IntT THEN [n EXCEPT !.ty = BoolT] ELSE n
Unary(op, t, res, n) == [Node0 EXCEPT !.k = "unary", !.op = op, !.ty = t, !.res = res, !.kids = <<Inner(n)>>]
Denied(n)  == Unary("!", IntT, BoolT, IF IsFloatN(n) THEN NotZero(n) ELSE n)
Negated(n) == Unary("neg", GetType(n), GetType(n), n)

(* CallExpr, AssignStmt, ReturnStmt, DeclStmt: converted to what is wanted.*)
Converted(t, n) == IF (t = FloatT /\ IsIntN(n)) \/ (IsIntT(t) /\ IsFloatN(n)) THEN Cast(n, t) ELSE n
CallNode(e, s, as) ==
  [Node0 EXCEPT !.k = "call", !.ty = e.ty, !.res = e.ty, !.sym = s,
                !.kids = ForEach(LAMBDA s1, n : Append(s1, Converted(e.params[Len(s1) + 1], n)), <<>>, as)]

RECURSIVE Expr(_, _)
Expr(p, e) ==
  LET all(es) == Each(LAMBDA f : Expr(p, f), es)
  IN  CASE e[1] = "num"  -> Constant(IntT, Quarters * e[2])
        [] e[1] = "real" -> Constant(FloatT, e[2])
        [] e[1] = "id"   -> IdNode(p.entries[Lookup(p, e[2])].ty, Lookup(p, e[2]), all(e[3]))
        [] e[1] = "call" -> CallNode(p.entries[Lookup(p, e[2])], Lookup(p, e[2]), all(e[3]))
        [] e[1] = "!"    -> Denied(Expr(p, e[2]))
        [] e[1] = "neg"  -> Negated(Expr(p, e[2]))
        [] e[1] \in Relational \cup {"&&", "||"} -> Binary(e[1], BoolT, Expr(p, e[2]), Expr(p, e[3]))
        [] OTHER         -> Arithmetic(e[1], Expr(p, e[2]), Expr(p, e[3]))

(* getValue: of a variable what it was declared with, of a call -1, and    *)
(* quotients of ints with their fraction.                                  *)
RECURSIVE ValueOf(_, _)
ValueOf(p, n) ==
  LET a == ValueOf(p, n.kids[1])
      b == ValueOf(p, n.kids[2])
      Whole(q) == Quarters * Quo(q, Quarters)
  IN  CASE n.k = "const" -> n.val
        [] n.k = "id"    -> p.entries[n.sym].value
        [] n.k = "cast"  -> IF n.ty = BoolT THEN -Quarters ELSE Whole(a)
        [] n.k = "unary" -> IF n.op = "neg" THEN -a ELSE Quarters * Bool(a = 0)
        [] n.k = "bin" /\ n.op = "+" -> a + b
        [] n.k = "bin" /\ n.op = "-" -> a - b
        [] n.k = "bin" /\ n.op = "*" -> Quo(a * b, Quarters)
        [] n.k = "bin" /\ n.op = "/" -> IF b = 0 THEN 0 ELSE Quo(a * Quarters, b)
        [] n.k = "bin" /\ n.op = "%" -> Quarters * Rem(Quo(a, Quarters), Quo(b, Quarters))
        [] OTHER -> -Quarters

-----------------------------------------------------------------------------
(* Initial values.  s: frames (open lists, the innermost last, those that   *)
(* no brace opened too), left (open braces), words, notZero, done.         *)
ListNode(t, ns) == [Node0 EXCEPT !.k = "list", !.ty = t, !.kids = ns]
Top(s)        == Last(s.frames)
AddExpr(s, n) == [s EXCEPT !.frames[Len(s.frames)].kids = Append(@, n)]
PushList(s, t) == [s EXCEPT !.frames = Append(@, ListNode(t, <<>>))]
PopList(s) ==
  LET rest == [s EXCEPT !.frames = Front(@)]
  IN  IF Len(s.frames) = 1 THEN [rest EXCEPT !.done = Top(s)] ELSE AddExpr(rest, Top(s))
IsFull(n)     == Len(n.kids) = n.ty[2]
RECURSIVE PopFull(_), Descend(_), PopTo(_, _)
PopFull(s) ==
  IF s.frames # <<>> /\ IsFull(Top(s)) /\ Len(s.frames) # s.left THEN PopFull(PopList(s)) ELSE s
Descend(s) ==
  IF IsArrayT(ElementT(Top(s).ty)) THEN Descend(PushList(s, ElementT(Top(s).ty))) ELSE s
PopTo(s, depth) == IF Len(s.frames) > depth THEN PopTo(PopList(s), depth) ELSE s
ZeroWords(n)  == [k \in 1 .. n |-> 0]

Word1(t, q)   == IF t = FloatT THEN q ELSE Quarters * Quo(q, Quarters)
Padding(s, t) == ZeroWords((-Len(s.words)) % CellsOf(t))
InnerT(s, t)  == IF s.frames = <<>> THEN t ELSE ElementT(Top(s).ty)
InitScalar(s, n, q) ==
  PopFull([AddExpr(s, Converted(ElementT(Top(s).ty), n)) EXCEPT !.words = Append(@, q), !.notZero = @ + Bool(q # 0)])
InitEmpty(s, t) ==
  LET blank == [s EXCEPT !.words = @ \o ZeroWords(CellsOf(t))]
  IN  IF s.frames = <<>> THEN [blank EXCEPT !.done = ListNode(t, <<>>)]
      ELSE PopFull(AddExpr(blank, ListNode(t, <<>>)))
Brace(s, t)   == [PushList(s, t) EXCEPT !.left = @ + 1]
Unbrace(s, t, depth) ==
  LET Padded(s1) == [s1 EXCEPT !.words = @ \o Padding(s1, t)]
  IN  Padded(PopFull(PopTo([s EXCEPT !.left = @ - 1], depth)))
RECURSIVE InitVal(_, _, _, _)
InitVal(p, t, s, e) ==
  CASE e[1] # "list" -> InitScalar(Descend(s), Expr(p, e), ValueOf(p, Expr(p, e)))
    [] e[1] = "list" /\ e[2] = <<>> -> InitEmpty(s, InnerT(s, t))
    [] OTHER -> Unbrace(ForEach(LAMBDA g, x : InitVal(p, t, g, x), Brace(s, InnerT(s, t)), e[2]),
                        InnerT(s, t), Len(s.frames))
InitList(p, t, e) ==
  InitVal(p, t, [frames |-> <<>>, left |-> 0, words |-> <<>>, notZero |-> 0, done |-> Node0], e)

(* fill: every list gets as many elements as its type says.                *)
RECURSIVE Filled(_)
Filled(n) ==
  LET t == ElementT(n.ty)
      more(x) == [n EXCEPT !.kids = @ \o [k \in 1 .. n.ty[2] - Len(@) |-> x]]
  IN  IF ~IsArrayT(t) THEN more(Constant(t, 0))
      ELSE [n EXCEPT !.kids = Each(Filled, more(ListNode(t, <<>>)).kids)]

-----------------------------------------------------------------------------
(* Declarations.  A list whose elements the parser takes for zero is not   *)
(* filled.                                                                 *)
DeclaredAs(p, d) == [Entry0 EXCEPT !.name = d[3], !.level = Level(p),
                       !.ty = Arrays(TypeOf(d[2]), Each(LAMBDA e : Quo(ValueOf(p, Expr(p, e)), Quarters), d[4]))]
Gives(p, n)  == [p EXCEPT !.node = n]
Made(p, e, init) == Gives(Install(p, e), <<"decl", Len(p.entries) + 1, init>>)
DeclareList(p, e, s) ==
  Made(p, [e EXCEPT !.words = s.words, !.notZero = s.notZero],
       <<IF s.notZero = 0 \/ s.done.kids = <<>> THEN s.done ELSE Filled(s.done)>>)
DeclareSingle(p, e, n) == Made(p, [e EXCEPT !.value = Word1(e.ty, ValueOf(p, n))], <<Converted(e.ty, n)>>)
DeclareEntry(p, e, init) ==
  CASE init = <<>> -> Made(p, e, <<>>)
    [] init # <<>> /\ IsArrayT(e.ty) -> DeclareList(p, e, InitList(p, e.ty, init))
    [] OTHER -> DeclareSingle(p, e, Expr(p, init))
Declare(p, d) == DeclareEntry(p, DeclaredAs(p, d), d[5])

(* A condition.  With "else" and in "while" a float is made an int first.  *)
Condition(k, n) ==
  IF GetType(n) = IntT THEN Cast(n, BoolT)
  ELSE IF ~IsFloatN(n) THEN n ELSE IF k = "if" THEN NotZero(n) ELSE Cast(Cast(n, IntT), BoolT)

RECURSIVE Stmt(_, _)
AssignTo(p, l, e)   == Gives(p, <<"assign", l, Converted(GetType(l), Expr(p, e))>>)
Gather(q, seq)      == [q EXCEPT !.seq = Append(seq, q.node)]
Member(p, s)        == Gather(Stmt(p, s), p.seq)
BlockOf(q, seq)     == Gives([Closed(q) EXCEPT !.seq = seq], <<"block", q.seq>>)
Guarded(q, s, c)    == Gives(q, <<s[1], c, q.node>>)
Branches(q, c, n)   == Gives(q, <<"ifelse", c, n, q.node>>)
Otherwise(q, s, c)  == Branches(Stmt(q, s[4]), c, q.node)
ConditionOf(p, s)   == Condition(s[1], Expr(p, s[2]))
Stmt(p, s) ==
  CASE s[1] = "assign" -> AssignTo(p, Expr(p, s[2]), s[3])
    [] s[1] = "expr"   -> Gives(p, <<s[1], Expr(p, s[2])>>)
    [] s[1] = "block"  -> BlockOf(ForEach(Member, [Opened(p) EXCEPT !.seq = <<>>], s[2]), p.seq)
    [] s[1] \in {"if", "while"} -> Guarded(Stmt(p, s[3]), s, ConditionOf(p, s))
    [] s[1] = "ifelse" -> Otherwise(Stmt(p, s[3]), s, ConditionOf(p, s))
    [] s[1] \in {"break", "continue"} -> Gives(p, s)
    [] s[1] = "return" -> Gives(p, <<s[1], IF s[2] = <<>> THEN <<>> ELSE <<Converted(p.ret, Expr(p, s[2][1]))>>>>)
    [] s[1] = "decl"   -> Declare(p, s)

(* FuncFParam: an array parameter has no first dimension.                  *)
Param(p, d) ==
  Install(p, [DeclaredAs(p, <<"decl", d[1], d[2], IF d[3] = <<>> THEN <<>> ELSE Tail(d[3]), <<>>>>) EXCEPT
                !.ty = IF d[3] = <<>> THEN @ ELSE ArrayT(-1, @)])
(* The function is known before its body, its parameters in a scope of     *)
(* their own.                                                              *)
Announced(q, d, numbers) ==
  [Install(Closed(q), [Entry0 EXCEPT !.name = d[3], !.ty = TypeOf(d[2]),
                                      !.params = Each(LAMBDA s : q.entries[s].ty, numbers)])
     EXCEPT !.scopes = Append(@, Last(q.scopes))]
Defined(q, d, numbers) == Gives(Closed(q), <<"fun", d[3], TypeOf(d[2]), numbers, q.node>>)
FuncDef(p, d) ==
  LET numbers == [k \in DOMAIN d[4] |-> Len(p.entries) + k]
  IN  Defined(Stmt(Announced(ForEach(Param, [Opened(p) EXCEPT !.ret = TypeOf(d[2])], d[4]), d, numbers), d[5]), d, numbers)

(* The runtime's functions are in the table before the program.            *)
Sysy == <<[Entry0 EXCEPT !.name = "getint"], [Entry0 EXCEPT !.name = "getfloat", !.ty = FloatT],
          [Entry0 EXCEPT !.name = "putint", !.ty = TypeOf("void"), !.params = <<IntT>>],
          [Entry0 EXCEPT !.name = "putfloat", !.ty = TypeOf("void"), !.params = <<FloatT>>]>>
Start == [scopes |-> <<[x \in {Sysy[k].name : k \in DOMAIN Sysy} |-> CHOOSE k \in DOMAIN Sysy : Sysy[k].name = x]>>,
          entries |-> Sysy, ret |-> IntT, node |-> <<>>, seq |-> <<>>]
CompUnit(p, d) == Gather(IF d[1] = "fun" THEN FuncDef(p, d) ELSE Declare(p, d), p.seq)
Parse(program) == ForEach(CompUnit, Start, program)
=============================================================================

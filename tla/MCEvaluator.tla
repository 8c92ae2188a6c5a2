----------------------------- MODULE MCEvaluator -----------------------------
(***************************************************************************)
(* Programs for the evaluator.  Scope 1 is the namespace of the unit,      *)
(* scope 2 that of a function whose text is compiled, with a local         *)
(* variable y and, in one program, one called c; scope 3 is a second       *)
(* namespace or an enumeration.  The literals have the types the program   *)
(* says, the sizes of the integers are 3, 4, 5 and 6 bits.                 *)
(***************************************************************************)
EXTENDS OrdinaryCalls

MCWidth == <<3, 4, 5, 6>>
MCScale == 2
MCText == <<2, 1, 0>>

N(op, name, type, num, kids) == [op |-> op, name |-> name, type |-> type, num |-> num, kids |-> kids]
Op(op, kids) == N(op, None, None, 0, kids)
Lit(type, n) == N("literal", None, type, n, <<>>)
I(n) == Lit("int", n)
Id(x) == N("id", x, None, 0, <<>>)
Dot(x, member) == N("dot", member, None, 0, <<Id(x)>>)
Cast(type, e) == N("cast", None, type, 0, <<e>>)
Invoke1(f, e) == Op("invoke", <<Id(f), e>>)
Invoke2(f, e1, e2) == Op("invoke", <<Id(f), e1, e2>>)
Type(t) == N("type", None, t, 0, <<>>)
Of(f, t) == Op("templateId", <<Id(f), Type(t)>>)
Var(type, x, kids) == N("construction", x, type, 0, kids)
Put(x, e) == Op("assignment", <<Id(x), e>>)
Ret(e) == Op("return", <<e>>)
Simply(e) == Op("simple", <<e>>)
If(kids) == Op("if", kids)
Stmts(kids) == Op("compound", kids)
For(init, condition, increment, body) == Op("for", <<init, condition, increment, body>>)
Eq(x, n) == Op("equal", <<Id(x), I(n)>>)
Less(x, e) == Op("less", <<Id(x), e>>)
Plus(x, e) == Op("add", <<Id(x), e>>)

Fun(params, returnType, kids) ==
  [params |-> params, typeParams |-> <<>>, returnType |-> returnType, body |-> Stmts(kids),
   usings |-> {}, constexpr |-> TRUE, intrinsic |-> FALSE]
P(type, x) == [type |-> type, name |-> x]
X == <<P("int", "x")>>

Scope(parent, symbols) == [parent |-> parent, alive |-> TRUE, symbols |-> symbols]
Group(fs) == [Symbol("function", None, Unset) EXCEPT !.functions = fs]
Const(type, node) == [Symbol("constant", type, Unset) EXCEPT !.node = node]
Enumerator(node) == [Const("int", node) EXCEPT !.kind = "enumConstant"]
Container(s) == [Symbol("container", None, Unset) EXCEPT !.scope = s]
Local == Symbol("local", "int", Unset)

(* The functions f, g and h of a program, in this order.                   *)
FunctionNames == <<"f", "g", "h">>
Groups(functions) ==
  [x \in {FunctionNames[i] : i \in DOMAIN functions} |->
     Group({i \in DOMAIN functions : FunctionNames[i] = x})]

R(kind, node, type, fun, scope, name) ==
  [kind |-> kind, node |-> node, type |-> type, fun |-> fun, scope |-> scope, name |-> name, files |-> <<{}>>]
Call1(node) == R("call", node, None, 1, 2, None)
Value(type, node, scope) == R("value", node, type, 0, scope, None)
Declared(x) == R("constant", NoNode, None, 0, 1, x)
Enumerated(x) == R("enumConstant", NoNode, None, 0, 3, x)

Program(outside, members, functions, requests) ==
  [scopes |-> <<Scope(0, Groups(functions) @@ outside), Scope(1, "y" :> Local), Scope(1, members)>>,
   functions |-> functions, requests |-> requests]
Empty == [x \in {} |-> Unset]
Simple(functions, requests) == Program(Empty, Empty, functions, requests)

(***************************************************************************)
(* Plain programs.                                                         *)
(***************************************************************************)
Sum == Simple(
  <<Fun(X, "int",
      <<Var("int", "s", <<>>),
        For(Var("int", "i", <<I(0)>>), Less("i", Id("x")), Op("prefixInc", <<Id("i")>>),
            Stmts(<<If(<<Eq("i", 1), Op("continue", <<>>)>>),
                   If(<<Eq("i", 4), Op("break", <<>>)>>),
                   Put("s", Plus("s", Id("i")))>>)),
        Ret(Id("s"))>>)>>,
  <<Call1(Invoke1("f", I(3))), Call1(Invoke1("f", I(6))), Call1(Invoke1("f", Id("y"))), Call1(Op("negate", <<Invoke1("f", I(0))>>))>>)

Skip == Simple(
  <<Fun(X, "int",
      <<Var("int", "i", <<Id("x")>>), Var("int", "s", <<I(0)>>),
        Op("while", <<Less("i", I(6)),
           Stmts(<<Simply(Op("postfixInc", <<Id("i")>>)), If(<<Eq("i", 3), Op("continue", <<>>)>>),
                  If(<<Eq("i", 5), Stmts(<<Op("break", <<>>)>>), Put("s", Plus("s", Id("i")))>>)>>)>>),
        Op("do", <<Stmts(<<Put("s", Op("sub", <<Id("s"), I(3)>>)), If(<<Eq("s", 1), Op("continue", <<>>)>>)>>),
                   Op("greater", <<Id("s"), I(2)>>)>>),
        Ret(Id("s"))>>)>>,
  <<Call1(Invoke1("f", I(0))), Call1(Invoke1("f", I(5)))>>)

Factorial == Simple(
  <<Fun(X, "int", <<If(<<Less("x", I(2)), Ret(I(1)), Ret(Op("mul", <<Id("x"), Invoke1("f", Op("sub", <<Id("x"), I(1)>>))>>))>>)>>),
    Fun(X, "int", <<Op("while", <<Lit("bool", 1), Stmts(<<If(<<Eq("x", 2), Ret(Invoke1("f", Id("x")))>>), Put("x", Plus("x", I(1)))>>)>>)>>)>>,
  <<Call1(Invoke1("f", I(3))), Call1(Plus("y", Invoke1("f", I(1)))), Call1(Invoke1("f", Invoke1("f", I(3)))),
    Call1(Invoke1("g", I(0)))>>)

Forever == Simple(
  <<Fun(X, "int", <<For(Op("simple", <<Id("x")>>), NoNode, NoNode,
                        Stmts(<<Put("x", Plus("x", I(1))), If(<<Eq("x", 4), Stmts(<<Ret(Id("x"))>>)>>)>>))>>),
    Fun(X, "int", <<Op("do", <<Stmts(<<Op("break", <<>>)>>), Lit("bool", 1)>>), If(<<Eq("x", 0), Ret(I(1))>>)>>),
    Fun(X, "int", <<Op("do", <<Stmts(<<If(<<Eq("x", 0), Ret(I(1))>>), Op("break", <<>>)>>), Op("equal", <<I(1), I(1)>>)>>)>>)>>,
  <<Call1(Invoke1("f", I(0))), Call1(Invoke1("g", I(0))), Call1(Invoke1("h", I(0))), Call1(Invoke1("h", I(1)))>>)

Shifts == Simple(
  <<Fun(X, "int", <<If(<<Op("conjunction", <<Less("x", I(9)), Op("not", <<Eq("x", 5)>>)>>),
                         Ret(Op("shiftLeft", <<Id("x"), I(2)>>))>>),
                    Put("x", Op("bitXor", <<Op("complement", <<Id("x")>>), Op("rem", <<Id("x"), I(4)>>)>>)),
                    Simply(Op("postfixDec", <<Id("x")>>)), Simply(Op("prefixDec", <<Id("x")>>)),
                    Ret(Op("div", <<Id("x"), I(2)>>))>>)>>,
  <<Call1(Invoke1("f", I(2))), Call1(Invoke1("f", I(7))), Call1(Invoke1("f", I(5))), Call1(Invoke1("f", I(9)))>>)

Bare == Simple(
  <<Fun(X, "int",
      <<Var("int", "s", <<>>),
        For(Var("int", "i", <<>>), Less("i", Id("x")), Op("postfixInc", <<Id("i")>>),
            If(<<Eq("i", 1), Op("continue", <<>>), Put("s", Plus("s", Cast("int", Invoke1("g", Id("i")))))>>)),
        Put("s", Plus("s", I(1))), Ret(Id("s"))>>),
    Fun(X, "int", <<If(<<Less("x", I(1)), Ret(I(2))>>), Ret(Id("x"))>>),
    Fun(X, "int", <<If(<<Op("equal", <<Invoke1("g", Id("x")), I(2)>>), Ret(I(1))>>), Ret(I(3))>>)>>,
  <<Call1(Invoke1("f", I(3))), Call1(Invoke1("h", I(0))), Call1(Invoke1("h", I(4)))>>)

(***************************************************************************)
(* Constants.                                                              *)
(***************************************************************************)
Named == Program(
  ("c" :> Const("int", Op("sub", <<Id("d"), I(1)>>))) @@ ("d" :> Const("int", Op("mul", <<Dot("E", "a"), I(3)>>)))
    @@ ("E" :> Container(3)),
  ("a" :> Enumerator(I(2))) @@ ("b" :> Enumerator(Plus("a", I(1)))),
  <<Fun(X, "int", <<Op("while", <<Op("notEqual", <<Dot("E", "a"), Dot("E", "b")>>), Stmts(<<Ret(Plus("x", Id("c")))>>)>>)>>)>>,
  <<Declared("c"), Declared("d"), Enumerated("b"), Enumerated("a"), Call1(Invoke1("f", I(1))), Value("int", Id("c"), 2)>>)

Cycle == Program(("c" :> Const("int", Plus("d", I(1)))) @@ ("d" :> Const("int", Plus("c", I(1)))), Empty, <<>>,
                 <<Declared("c"), Declared("d")>>)

Unfound == Program(
  ("c" :> Const("int", Plus("z", I(1)))) @@ ("d" :> Const("void", I(1))), Empty,
  <<Fun(X, "int", <<Ret(Plus("x", Id("c")))>>)>>,
  <<[Call1(Invoke1("f", Id("c"))) EXCEPT !.scope = 1], [Call1(Invoke1("f", Id("c"))) EXCEPT !.scope = 1],
    Call1(Invoke1("f", I(1))), [Call1(Invoke1("f", Id("d"))) EXCEPT !.scope = 1], Declared("d")>>)

Namesakes == Program(
  ("c" :> Const("int", Plus("d", Dot("N", "c")))) @@ ("d" :> Const("int", Dot("N", "c"))) @@ ("N" :> Container(3)),
  "c" :> Const("int", I(1)), <<>>, <<Declared("d")>>)

Hidden == Program(
  "y" :> Const("int", I(2)), Empty, <<Fun(X, "int", <<Ret(Plus("x", Id("y")))>>)>>,
  <<Declared("y"), Call1(Invoke1("f", Id("y")))>>)

(***************************************************************************)
(* Programs that are not plain.                                            *)
(***************************************************************************)
Assigned == Simple(
  <<Fun(X, "int", <<Put("x", Op("add", <<I(2), Plus("x", Invoke1("g", I(1)))>>)), Ret(Id("x"))>>),
    Fun(X, "int", <<Simply(Id("x")), Ret(Id("x"))>>),
    Fun(X, "int", <<Put("x", Op("add", <<Lit("bool", 0), Invoke1("f", I(1))>>)), Ret(Id("x"))>>)>>,
  <<Call1(Invoke1("f", I(1))), Call1(Invoke1("h", I(1))), Value("int", Invoke1("f", I(1)), 2)>>)

Asked == Simple(
  <<Fun(X, "int",
      <<Var("bool", "b", <<>>),
        Put("b", Op("conjunction", <<Lit("bool", 1), Op("conjunction", <<Lit("bool", 1), Invoke1("g", Id("x"))>>)>>)),
        If(<<Id("b"), Ret(I(1))>>), Ret(I(2))>>),
    Fun(X, "bool",
      <<Op("while", <<Less("x", I(3)), Put("x", Plus("x", I(1)))>>), If(<<Eq("x", 3), Ret(Lit("bool", 1))>>),
        Ret(Lit("bool", 0))>>)>>,
  <<Call1(Invoke1("f", I(1)))>>)

Swapped == Simple(
  <<Fun(<<P("int", "x"), P("int", "z")>>, "int", <<Ret(Op("sub", <<Id("x"), Id("z")>>))>>)>>,
  <<Call1(Invoke2("f", I(5), I(2)))>>)

LateBlock == Simple(
  <<Fun(X, "int", <<Stmts(<<Put("x", I(1))>>), Var("int", "z", <<Id("x")>>), Ret(Id("z"))>>)>>,
  <<Call1(Invoke1("f", Op("add", <<I(2), I(3)>>)))>>)

Caller == Simple(
  <<Fun(X, "int", <<Ret(Plus("x", Id("z")))>>), Fun(<<P("int", "z")>>, "int", <<Ret(Invoke1("f", Id("z")))>>)>>,
  <<Call1(Invoke1("g", I(5)))>>)

Narrow == Simple(
  <<Fun(X, "int", <<Var("sbyte", "z", <<Lit("sbyte", 3)>>), Put("z", Lit("sbyte", 2)), Ret(Id("z"))>>),
    Fun(<<>>, "int", <<Ret(Op("add", <<Lit("sbyte", 3), Lit("sbyte", 3)>>))>>),
    Fun(X, "int", <<Var("bool", "b", <<>>), Put("b", Lit("bool", 1)), Ret(Id("x"))>>)>>,
  <<Call1(Invoke1("f", I(1))), Call1(Op("invoke", <<Id("g")>>)), Call1(Invoke1("h", I(1)))>>)

Casts == Simple(
  <<Fun(<<P("sbyte", "x")>>, "sbyte", <<Ret(Cast("sbyte", Op("add", <<Id("x"), I(1)>>)))>>)>>,
  <<Call1(Invoke1("f", Cast("sbyte", I(3)))), Value("int", Cast("void", I(1)), 2)>>)

RunTime == Simple(
  <<Fun(X, "int", <<Ret(Cast("int", Id("y")))>>)>>,
  <<Call1(Invoke1("f", I(1)))>>)

Eager == Simple(
  <<Fun(X, "int", <<If(<<Op("disjunction", <<Eq("x", 0), Op("less", <<Op("div", <<I(6), Id("x")>>), I(2)>>)>>), Ret(I(1))>>),
                    Ret(I(2))>>)>>,
  <<Call1(Invoke1("f", I(4))), Call1(Invoke1("f", I(2))), Call1(Invoke1("f", I(0)))>>)

Template(params, kids) == [Fun(params, "T", kids) EXCEPT !.typeParams = <<"T">>]
T1 == <<P("T", "x")>>
Templates == Simple(
  <<Template(T1, <<Var("T", "z", <<Id("x")>>), Ret(Id("z"))>>),
    Fun(X, "int", <<Ret(Op("invoke", <<Of("f", "int"), Id("x")>>))>>),
    Template(<<>>, <<Ret(I(1))>>)>>,
  <<Call1(Op("invoke", <<Of("f", "sbyte"), Lit("sbyte", 2)>>)), [Call1(Invoke1("g", I(7))) EXCEPT !.fun = 2],
    Call1(Op("invoke", <<Of("f", "sbyte"), Lit("sbyte", 2)>>)), Call1(Op("invoke", <<Of("y", "sbyte"), I(2)>>))>>)

Strings == Simple(
  <<Fun(<<P("charPtr", "s")>>, "int",
      <<Var("int", "n", <<>>),
        Op("while", <<Op("notEqual", <<Op("deref", <<Id("s")>>), Lit("char", 0)>>),
           Stmts(<<Op("simple", <<Op("postfixInc", <<Id("s")>>)>>), Put("n", Plus("n", I(1)))>>)>>),
        Ret(Id("n"))>>),
    Fun(<<P("charPtr", "s")>>, "charPtr", <<Ret(Op("prefixInc", <<Id("s")>>))>>),
    Fun(<<P("charPtr", "s")>>, "char", <<Ret(Op("deref", <<Id("s")>>))>>)>>,
  <<Call1(Invoke1("f", Lit("charPtr", 1))), [Call1(Invoke1("g", Lit("charPtr", 1))) EXCEPT !.fun = 2],
    [Call1(Invoke1("h", Lit("null", 0))) EXCEPT !.fun = 3], [Call1(Invoke1("h", Lit("charPtr", 3))) EXCEPT !.fun = 3],
    [Call1(Invoke1("h", Lit("charPtr", 4))) EXCEPT !.fun = 3]>>)

NotPointer == Simple(<<>>, <<Value("bool", Op("not", <<Lit("charPtr", 1)>>), 2)>>)

Refused == Simple(
  <<Fun(X, "int", <<Op("switch", <<>>), Ret(I(1))>>),
    [Fun(X, "int", <<Ret(I(1))>>) EXCEPT !.constexpr = FALSE],
    Fun(X, "void", <<Op("simple", <<>>)>>)>>,
  <<Call1(Invoke1("f", I(1))), Call1(Invoke1("g", I(1))), [Call1(Invoke1("h", I(1))) EXCEPT !.fun = 3],
    Call1(Invoke1("h", I(1))), Call1(Invoke1("z", I(1))), Call1(Plus("f", I(1))), Call1(Dot("f", "x")),
    Call1(Op("prefixInc", <<I(1)>>)), Call1(Op("postfixInc", <<I(1)>>)), Call1(Op("deref", <<I(1)>>)),
    Value("int", Op("implication", <<>>), 2)>>)

Broken == Simple(
  <<Fun(X, "int", <<Op("break", <<>>), Ret(I(1))>>),
    Fun(X, "int", <<Var("int", "z", <<I(1), I(2)>>), Ret(Id("z"))>>),
    Fun(X, "int", <<Var("int", "z", <<>>), Var("int", "z", <<>>), Var("void", "v", <<>>), Ret(Id("z"))>>)>>,
  <<Call1(Invoke1("f", I(1))), Call1(Invoke1("g", I(1))), Call1(Invoke1("h", I(1))), Value("bool", Op("div", <<I(1), I(0)>>), 2)>>)

Returning == Simple(
  <<Fun(X, "int", <<Op("return", <<>>)>>), Fun(X, "int", <<Put("g", I(1)), Ret(I(1))>>),
    Fun(X, "int", <<If(<<Id("x"), Ret(I(1)), Ret(I(2))>>)>>)>>,
  <<Call1(Plus("y", Invoke1("f", I(1)))), Call1(Op("add", <<I(2), Invoke1("f", I(1))>>)), Call1(Invoke1("g", I(1))),
    Call1(Invoke1("h", I(1))), Value("bool", I(1), 2)>>)

Intrinsic == Simple(
  <<[Fun(<<>>, "bool", <<>>) EXCEPT !.intrinsic = TRUE, !.constexpr = FALSE]>>,
  <<Value("bool", Op("invoke", <<Id("f")>>), 2)>>)

Using == [Program(("N" :> Container(3)) @@ ("f" :> Group({1})), "c" :> Const("int", I(3)),
                  <<[Fun(X, "int", <<Ret(Op("mul", <<Id("x"), Id("c")>>))>>) EXCEPT !.usings = {3}]>>,
                  <<R("constant", NoNode, None, 0, 3, "c"), Call1(Invoke1("f", I(2)))>>)
            EXCEPT !.functions[1].usings = {3}]

Overloads ==
  [Simple(<<Fun(X, "int", <<Ret(I(1))>>), Fun(<<P("long", "x")>>, "long", <<Ret(Lit("long", 2))>>)>>,
          <<Call1(Invoke1("f", I(3))), Call1(Invoke1("f", Lit("sbyte", 3))), [Call1(Invoke1("f", Lit("uint", 3))) EXCEPT !.fun = 2]>>)
     EXCEPT !.scopes[1].symbols = "f" :> Group({1, 2})]

MCPrograms ==
  <<Sum, Skip, Factorial, Forever, Shifts, Bare, Named, Cycle, Unfound, Namesakes, Hidden, Assigned, Asked, Swapped, LateBlock, Caller,
    Narrow, Casts, RunTime, Eager, Templates, Strings, NotPointer, Refused, Broken, Returning, Intrinsic, Using,
    Overloads>>
===========================================================================

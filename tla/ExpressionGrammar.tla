-------------------------- MODULE ExpressionGrammar --------------------------
(***************************************************************************)
(* The grammars of Cm.Parser from which the other grammars of the language *)
(* are made: identifiers, basic types, literals, type expressions,         *)
(* template identifiers and expressions.  The tree of a rule is its        *)
(* AddRule call in CreateRules; what its actions do to the ParsingContext  *)
(* is in its class.                                                        *)
(***************************************************************************)
EXTENDS Grammar, TLC

Keywords ==
  {"abstract", "and", "as", "axiom", "base", "bool", "break", "byte", "case", "cast", "catch",
   "cdecl", "char", "class", "concept", "const", "constexpr", "construct", "continue", "default",
   "delegate", "delete", "destroy", "do", "double", "else", "enum", "explicit", "extern", "false",
   "float", "for", "goto", "if", "inline", "int", "interface", "internal", "is", "long",
   "namespace", "new", "not", "nothrow", "null", "operator", "or", "override", "private",
   "protected", "public", "return", "sbyte", "short", "sizeof", "static", "suppress", "switch",
   "this", "throw", "true", "try", "typedef", "typename", "uchar", "uint", "ulong", "ushort",
   "using", "virtual", "void", "wchar", "where", "while"}

(* A literal is one symbol here; TextGrammars has the literals themselves. *)
Literals == {"1", "true", "false", "null"}

Name == Diff(Word, OneOf(Keywords))
Identifier == Token(Name)
QualifiedId == Token(Node("Qualified", List(Name, Ch("."))))
BasicType ==
  AnyKey({"bool", "sbyte", "byte", "short", "ushort", "int", "uint", "long", "ulong", "float",
          "double", "char", "wchar", "uchar", "void"})
Literal == OneOf(Literals)

(* One level of binary operators. *)
Binary(operand, operators) ==
  Cat(<<R(operand), Star(Cat(<<operators, Must(R(operand))>>))>>)

(* Mutant of Operator: not refused where a declaration may begin.          *)
OperatorAnywhere(name, p) == Op(name, <<>>, p)

Operator(name, p) == Op(name, <<Pass("operator")>>, p)

Expression == R("Equivalence")
Equivalence == Binary("Implication", Op("<=>", <<Pass("axiom")>>, Str(<<"<", "=", ">">>)))
Implication ==
  Cat(<<R("Disjunction"),
             Opt(Cat(<<Op("=>", <<Pass("axiom")>>, Str(<<"=", ">">>)), Must(R("Implication"))>>))>>)
Disjunction == Binary("Conjunction", Operator("||", Str(<<"|", "|">>)))
Conjunction == Binary("BitOr", Operator("&&", Str(<<"&", "&">>)))
BitOr == Binary("BitXor", Operator("|", Diff(Ch("|"), Str(<<"|", "|">>))))
BitXor == Binary("BitAnd", Operator("^", Ch("^")))
BitAnd == Binary("Equality", Operator("&", Diff(Ch("&"), Str(<<"&", "&">>))))
Equality ==
  Binary("Relational", Alt(<<Operator("==", Str(<<"=", "=">>)), Operator("!=", Str(<<"!", "=">>))>>))

Comparison(name, p) == Op(name, <<Pass("operator"), Push("isOrAs", FALSE)>>, p)
TypeTest(name) ==
  Cat(<<Op(name, <<Pass("operator"), Push("isOrAs", TRUE)>>, Key(name)), R("TypeExpr")>>)
RightOperand(p) == Alt(<<p, Do(<<Pass("isOrAs")>>, Empty)>>)
Relational ==
  Cat(<<R("Shift"), Star(Do(<<Pop("isOrAs")>>, Alt(<<
    Cat(<<Alt(<<Comparison("<=", Diff(Str(<<"<", "=">>), Str(<<"<", "=", ">">>))),
                     Comparison(">=", Str(<<">", "=">>)),
                     Comparison("<", Diff(Ch("<"), Alt(<<Str(<<"<", "<">>), Str(<<"<", "=", ">">>)>>))),
                     Comparison(">", Diff(Ch(">"), Str(<<">", ">">>)))>>),
               RightOperand(R("Shift"))>>),
    Cat(<<Alt(<<TypeTest("is"), TypeTest("as")>>), RightOperand(Unused(R("Shift")))>>)>>)))>>)

Shift ==
  Cat(<<R("Additive"), Star(Cat(<<
    Alt(<<Op("<<", <<Pass("shift")>>, Str(<<"<", "<">>)), Op(">>", <<Pass("shift")>>, Str(<<">", ">">>))>>),
    Do(<<Push("arguments", TRUE)>>, Empty),
    DoElse(<<Pop("arguments")>>, Must(R("Additive")), <<Pop("arguments")>>)>>))>>)
Additive == Binary("Multiplicative", Alt(<<Operator("+", Ch("+")), Operator("-", Ch("-"))>>))
Multiplicative ==
  Binary("Prefix", Alt(<<Operator("*", Ch("*")), Operator("/", Ch("/")), Operator("%", Ch("%"))>>))

PrefixOp(name, p) == Op(name, <<Pass("prefix")>>, p)
Prefix ==
  Alt(<<Cat(<<
          Alt(<<Op("++", <<>>, Str(<<"+", "+">>)), Op("--", <<>>, Str(<<"-", "-">>)),
                PrefixOp("-", Ch("-")), PrefixOp("+", Ch("+")),
                PrefixOp("!", Diff(Ch("!"), Str(<<"!", "=">>))), PrefixOp("~", Ch("~")),
                PrefixOp("&", Diff(Ch("&"), Str(<<"&", "&">>))), PrefixOp("*", Ch("*"))>>),
          R("Prefix")>>),
        R("Postfix")>>)

(* The character that marks where the editor wants completions. *)
Completion ==
  Action(Ch("completion"), <<Push("completion", TRUE)>>, <<>>, <<"node", "completion">>)
Member == Alt(<<R("Identifier"), Completion>>)
Postfix ==
  Cat(<<R("Primary"), Star(Alt(<<
    Node("post++", Str(<<"+", "+">>)), Node("post--", Str(<<"-", "-">>)),
    Node(".", Cat(<<Ch("."), Member>>)), Node("->", Cat(<<Str(<<"-", ">">>), Member>>)),
    Node("call", Cat(<<Ch("("), R("ArgumentList"), Must(Ch(")"))>>)),
    Node("index", Do(<<Pop("simpleStatement"), Pop("lvalue")>>, Cat(<<
      Do(<<Push("lvalue", FALSE), Push("simpleStatement", FALSE)>>, Ch("[")),
      Must(R("Expression")), Must(Ch("]"))>>)))>>))>>)
Primary ==
  Alt(<<Cat(<<Ch("("), R("Expression"), Ch(")")>>),
        R("Literal"), R("BasicType"), R("SizeOfExpr"), R("CastExpr"), R("ConstructExpr"), R("NewExpr"),
        R("TemplateId"), R("Identifier"), Node("this", Key("this")), Node("base", Key("base")),
        Node("typename", Cat(<<Key("typename"), Ch("("), R("Expression"), Ch(")")>>)), Completion>>)

Parenthesised(p) == Cat(<<Must(Ch("(")), p, Must(Ch(")"))>>)
InAngles(p) == Cat(<<Must(Ch("<")), p, Must(Ch(">"))>>)

SizeOfExpr == Node("sizeof", Cat(<<Key("sizeof"), Parenthesised(Must(R("Expression")))>>))
CastExpr ==
  Node("cast", Cat(<<Key("cast"), InAngles(Must(R("TypeExpr"))), Parenthesised(Must(R("Expression")))>>))
ConstructExpr ==
  Node("construct",
       Cat(<<Key("construct"), InAngles(Must(R("TypeExpr"))), Parenthesised(R("ExpressionList"))>>))
NewExpr ==
  Node("new", Cat(<<Key("new"), Must(R("TypeExpr")), Parenthesised(R("ArgumentList"))>>))
ArgumentList == Opt(R("ExpressionList"))
ExpressionList ==
  Cat(<<Do(<<Push("arguments", TRUE)>>, Empty),
             DoElse(<<Pop("arguments")>>, List(R("Expression"), Ch(",")), <<Pop("arguments")>>)>>)
InvokeExpr ==
  Cat(<<Alt(<<R("TemplateId"), R("Identifier")>>),
             Star(Node(".", Cat(<<Ch("."), Must(R("Identifier"))>>))),
             Node("call", Cat(<<Ch("("), R("ArgumentList"), Must(Ch(")"))>>))>>)

(* Mutant of TypeExpr: the flag stays when there is no type expression.    *)
TypeExprKeepingFlag ==
  Cat(<<Do(<<Push("typeExpr", TRUE)>>, Empty), Do(<<Pop("typeExpr")>>, R("PrefixTypeExpr"))>>)

TypeExpr ==
  Cat(<<Do(<<Push("typeExpr", TRUE)>>, Empty),
             DoElse(<<Pop("typeExpr")>>, R("PrefixTypeExpr"), <<Pop("typeExpr")>>)>>)
PrefixTypeExpr ==
  Alt(<<Node("const", Cat(<<Key("const"), R("PostfixTypeExpr")>>)), R("PostfixTypeExpr")>>)
PostfixTypeExpr ==
  Cat(<<R("PrimaryTypeExpr"), Star(Alt(<<
    Node(".", Cat(<<Ch("."), Member>>)),
    Node("rvalueRef", Str(<<"&", "&">>)), Node("ref", Ch("&")), Node("pointer", Ch("*")),
    Node("array", Cat(<<Ch("["), R("Expression"), Ch("]")>>))>>))>>)
PrimaryTypeExpr ==
  Alt(<<R("BasicType"), R("TemplateId"), R("Identifier"),
        Cat(<<Ch("("), Must(R("PrefixTypeExpr")), Ch(")")>>)>>)

TemplateId ==
  Cat(<<Do(<<Push("templateId", TRUE)>>, Empty),
    DoElse(<<Pop("templateId")>>,
           Node("template", Cat(<<R("QualifiedId"), Ch("<"), List(R("TypeExpr"), Ch(",")), Ch(">")>>)),
           <<Pop("templateId")>>)>>)
TemplateParameter ==
  Node("template parameter", Cat(<<R("Identifier"), Opt(Cat(<<Ch("="), R("TypeExpr")>>))>>))
TemplateParameterList == Cat(<<Ch("<"), List(R("TemplateParameter"), Ch(",")), Must(Ch(">"))>>)

IdentifierRules == [Identifier |-> Identifier, QualifiedId |-> QualifiedId]
TypeRules ==
  [BasicType |-> BasicType, TypeExpr |-> TypeExpr, PrefixTypeExpr |-> PrefixTypeExpr,
   PostfixTypeExpr |-> PostfixTypeExpr, PrimaryTypeExpr |-> PrimaryTypeExpr]
TemplateRules ==
  [TemplateId |-> TemplateId, TemplateParameter |-> TemplateParameter,
   TemplateParameterList |-> TemplateParameterList]
OperatorRules ==
  [Literal |-> Literal, Expression |-> Expression, Equivalence |-> Equivalence,
   Implication |-> Implication, Disjunction |-> Disjunction, Conjunction |-> Conjunction,
   BitOr |-> BitOr, BitXor |-> BitXor, BitAnd |-> BitAnd, Equality |-> Equality,
   Relational |-> Relational, Shift |-> Shift, Additive |-> Additive,
   Multiplicative |-> Multiplicative, Prefix |-> Prefix, Postfix |-> Postfix, Primary |-> Primary,
   SizeOfExpr |-> SizeOfExpr, CastExpr |-> CastExpr, ConstructExpr |-> ConstructExpr,
   NewExpr |-> NewExpr, ArgumentList |-> ArgumentList, ExpressionList |-> ExpressionList,
   InvokeExpr |-> InvokeExpr]
ExpressionRules == OperatorRules @@ TypeRules @@ TemplateRules @@ IdentifierRules
=============================================================================

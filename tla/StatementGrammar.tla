-------------------------- MODULE StatementGrammar --------------------------
(***************************************************************************)
(* The statements of the language (Cm.Parser/Statement.cpp).               *)
(***************************************************************************)
EXTENDS ExpressionGrammar

Statement ==
  Alt(<<R("LabeledStatement"), R("ControlStatement"), R("TypedefStatement"), R("SimpleStatement"),
        R("AssignmentStatement"), R("ConstructionStatement"), R("DeleteStatement"), R("DestroyStatement"),
        R("ThrowStatement"), R("TryStatement"), R("AssertStatement"), R("ConditionalCompilationStatement")>>)
LabelId == Name
Label == Node("label", Cat(<<R("LabelId"), Ch(":")>>))
TargetLabel == Node("label", R("LabelId"))
LabeledStatement == Node("labeled", Cat(<<R("Label"), R("Statement")>>))

(* Mutant of SimpleStatement: the semicolon can be left out.               *)
SimpleStatementUnended ==
  DoElse(<<Pop("simpleStatement")>>,
    Node("simple", Cat(<<Do(<<Push("simpleStatement", TRUE)>>, Empty),
      Alt(<<Cat(<<R("Expression"), Ch(";")>>), Opt(Ch(";"))>>)>>)),
    <<Pop("simpleStatement")>>)

SimpleStatement ==
  DoElse(<<Pop("simpleStatement")>>,
    Node("simple", Cat(<<Do(<<Push("simpleStatement", TRUE)>>, Empty),
      Alt(<<Cat(<<R("Expression"), Ch(";")>>), Ch(";")>>)>>)),
    <<Pop("simpleStatement")>>)
ControlStatement ==
  Alt(<<R("ReturnStatement"), R("ConditionalStatement"), R("SwitchStatement"), R("WhileStatement"),
        R("DoStatement"), R("RangeForStatement"), R("ForStatement"), R("CompoundStatement"),
        R("BreakStatement"), R("ContinueStatement"), R("GotoCaseStatement"), R("GotoDefaultStatement"),
        R("GotoStatement")>>)

Condition == Parenthesised(Must(R("Expression")))
End == Must(Ch(";"))

ReturnStatement == Node("return", Cat(<<Key("return"), Opt(R("Expression")), End>>))
ConditionalStatement ==
  Node("if", Cat(<<Key("if"), Condition, Must(R("Statement")),
                        Opt(Cat(<<Key("else"), R("Statement")>>))>>))
SwitchStatement ==
  Node("switch", Cat(<<Key("switch"), Condition, Must(Ch("{")),
                            Star(Alt(<<R("CaseStatement"), R("DefaultStatement")>>)), Must(Ch("}"))>>))
CaseStatement == Node("case", Cat(<<R("CaseList"), Star(R("Statement"))>>))
DefaultStatement == Node("default", Cat(<<Key("default"), Must(Ch(":")), Star(R("Statement"))>>))
CaseList == Plus(Cat(<<Key("case"), Must(R("Expression")), Must(Ch(":"))>>))
GotoCaseStatement == Node("goto case", Cat(<<Key("goto"), Key("case"), Must(R("Expression")), End>>))
GotoDefaultStatement == Node("goto default", Cat(<<Key("goto"), Key("default"), Ch(";")>>))
WhileStatement == Node("while", Cat(<<Key("while"), Condition, Must(R("Statement"))>>))
DoStatement ==
  Node("do", Cat(<<Key("do"), Must(R("Statement")), Must(Key("while")), Condition, End>>))

(* Mutant of RangeForStatement: the colon is expected.                     *)
RangeForExpectingColon ==
  Node("range for", Cat(<<Key("for"), Ch("("), R("TypeExpr"), R("Identifier"), Must(Ch(":")),
                               Must(R("Expression")), Must(Ch(")")), Must(R("Statement"))>>))

RangeForStatement ==
  Node("range for", Cat(<<Key("for"), Ch("("), R("TypeExpr"), R("Identifier"), Ch(":"),
                               Must(R("Expression")), Must(Ch(")")), Must(R("Statement"))>>))
ForStatement ==
  Node("for", Cat(<<Key("for"), Must(Ch("(")), Must(R("ForInitStatement")),
                         Node("condition", Opt(R("Expression"))), End,
                         Node("increment", Opt(R("Expression"))), Must(Ch(")")), Must(R("Statement"))>>))
ForInitStatement ==
  Alt(<<R("AssignmentStatement"), R("ConstructionStatement"), Node("simple", Ch(";"))>>)
CompoundStatement ==
  Node("compound", Cat(<<Ch("{"), Star(R("Statement")), Must(Ch("}"))>>))
BreakStatement == Node("break", Cat(<<Key("break"), End>>))
ContinueStatement == Node("continue", Cat(<<Key("continue"), End>>))
GotoStatement == Node("goto", Cat(<<Key("goto"), Must(R("TargetLabel")), End>>))
TypedefStatement ==
  Node("typedef", Cat(<<Key("typedef"), Must(R("TypeExpr")), Must(R("Identifier")), End>>))
AssignmentStatement ==
  Node("assign", Cat(<<
    Do(<<Push("lvalue", TRUE)>>, Empty),
    DoElse(<<Pop("lvalue")>>, R("Expression"), <<Pop("lvalue")>>),
    Ch("="), Must(R("Expression")), End>>))
ConstructionStatement ==
  Node("construction", Cat(<<R("TypeExpr"), Must(R("Identifier")),
    Opt(Alt(<<Cat(<<Ch("("), R("ArgumentList"), Must(Ch(")"))>>),
              Cat(<<Ch("="), Must(R("Expression"))>>)>>)), End>>))
DeleteStatement == Node("delete", Cat(<<Key("delete"), Must(R("Expression")), End>>))
DestroyStatement == Node("destroy", Cat(<<Key("destroy"), Must(R("Expression")), End>>))
ThrowStatement == Node("throw", Cat(<<Key("throw"), Must(R("Expression")), End>>))
TryStatement == Node("try", Cat(<<Key("try"), Must(R("CompoundStatement")), Must(R("Handlers"))>>))
Handlers == Plus(R("Handler"))
Handler ==
  Node("catch", Cat(<<Key("catch"), Must(Ch("(")), Must(R("TypeExpr")), Opt(R("Identifier")),
                           Must(Ch(")")), Must(R("CompoundStatement"))>>))
AssertStatement == Node("assert", Cat(<<Ch("#"), Key("assert"), Must(R("Expression")), End>>))

ConditionalCompilationStatement ==
  Node("conditional compilation", Cat(<<
    Ch("#"), Key("if"), Must(Ch("(")), R("ConditionalCompilationExpr"), Must(Ch(")")),
    Star(R("Statement")),
    Star(Cat(<<Ch("#"), Key("elif"), Must(Ch("(")), R("ConditionalCompilationExpr"), Must(Ch(")")),
               Star(R("Statement"))>>)),
    Opt(Cat(<<Ch("#"), Key("else"), Star(R("Statement"))>>)),
    Must(Ch("#")), Must(Key("endif"))>>))
ConditionalCompilationExpr == R("ConditionalCompilationDisjunction")
ConditionalCompilationDisjunction ==
  Cat(<<R("ConditionalCompilationConjunction"),
        Star(Node("||", Cat(<<Str(<<"|", "|">>), R("ConditionalCompilationConjunction")>>)))>>)
ConditionalCompilationConjunction ==
  Cat(<<R("ConditionalCompilationPrefix"),
        Star(Node("&&", Cat(<<Str(<<"&", "&">>), R("ConditionalCompilationPrefix")>>)))>>)
ConditionalCompilationPrefix ==
  Alt(<<Node("!", Cat(<<Ch("!"), Must(R("ConditionalCompilationPrefix"))>>)),
        Must(R("ConditionalCompilationPrimary"))>>)
ConditionalCompilationPrimary ==
  Alt(<<R("ConditionalCompilationSymbol"),
        Cat(<<Ch("("), R("ConditionalCompilationExpr"), Ch(")")>>)>>)
ConditionalCompilationSymbol == Node("defined", R("Symbol"))
Symbol == Name

StatementRules ==
  [Statement |-> Statement, LabelId |-> LabelId, Label |-> Label, TargetLabel |-> TargetLabel,
   LabeledStatement |-> LabeledStatement, SimpleStatement |-> SimpleStatement,
   ControlStatement |-> ControlStatement, ReturnStatement |-> ReturnStatement,
   ConditionalStatement |-> ConditionalStatement, SwitchStatement |-> SwitchStatement,
   CaseStatement |-> CaseStatement, DefaultStatement |-> DefaultStatement, CaseList |-> CaseList,
   GotoCaseStatement |-> GotoCaseStatement, GotoDefaultStatement |-> GotoDefaultStatement,
   WhileStatement |-> WhileStatement, DoStatement |-> DoStatement, RangeForStatement |-> RangeForStatement,
   ForStatement |-> ForStatement, ForInitStatement |-> ForInitStatement,
   CompoundStatement |-> CompoundStatement, BreakStatement |-> BreakStatement,
   ContinueStatement |-> ContinueStatement, GotoStatement |-> GotoStatement,
   TypedefStatement |-> TypedefStatement, AssignmentStatement |-> AssignmentStatement,
   ConstructionStatement |-> ConstructionStatement, DeleteStatement |-> DeleteStatement,
   DestroyStatement |-> DestroyStatement, ThrowStatement |-> ThrowStatement, TryStatement |-> TryStatement,
   Handlers |-> Handlers, Handler |-> Handler, AssertStatement |-> AssertStatement,
   ConditionalCompilationStatement |-> ConditionalCompilationStatement,
   ConditionalCompilationExpr |-> ConditionalCompilationExpr,
   ConditionalCompilationDisjunction |-> ConditionalCompilationDisjunction,
   ConditionalCompilationConjunction |-> ConditionalCompilationConjunction,
   ConditionalCompilationPrefix |-> ConditionalCompilationPrefix,
   ConditionalCompilationPrimary |-> ConditionalCompilationPrimary,
   ConditionalCompilationSymbol |-> ConditionalCompilationSymbol, Symbol |-> Symbol]
=============================================================================

----------------------------- MODULE CppGrammar -----------------------------
(*****************************************************************************)
(* The part of C++ that the actions of a grammar file are written in         *)
(* (Cm.Parsing.Cpp).                                                         *)
(*****************************************************************************)
EXTENDS StdLib

CppKeywords ==
  {"alignas", "alignof", "asm", "auto", "bool", "break", "case", "catch", "char", "char16_t",
   "char32_t", "class", "const", "const_cast", "constexpr", "continue", "decltype", "default",
   "delete", "do", "double", "dynamic_cast", "else", "enum", "explicit", "export", "extern", "false",
   "float", "for", "friend", "goto", "if", "inline", "int", "long", "mutable", "namespace", "new",
   "noexcept", "nullptr", "operator", "private", "protected", "public", "register", "reinterpret_cast",
   "return", "short", "signed", "sizeof", "static", "static_assert", "static_cast", "struct", "switch",
   "template", "this", "thread_local", "throw", "true", "try", "typedef", "typeid", "typename",
   "union", "unsigned", "using", "virtual", "void", "volatile", "wchar_t", "while"}

(* IdentifierGrammar *)
Identifier == Diff(R("identifier"), R("Keyword"))
QualifiedId == Token(Cat(<<Opt(Str(<<":", ":">>)), List(R("Identifier"), Str(<<":", ":">>))>>))

CppIdentifierRules ==
  [Identifier |-> Identifier, QualifiedId |-> QualifiedId]

(* KeywordGrammar *)
Keyword == KeywordList(CppKeywords)

CppKeywordRules ==
  [Keyword |-> Keyword]

(* LiteralGrammar *)
Literal ==
  Alt(<<R("IntegerLiteral"), R("CharacterLiteral"), R("FloatingLiteral"), R("StringLiteral"),
        R("BooleanLiteral"), R("PointerLiteral")>>)
IntegerLiteral ==
  Alt(<<Node("Literal", Token(Cat(<<R("DecimalLiteral"), Opt(R("IntegerSuffix"))>>))),
        Node("Literal", Token(Cat(<<R("OctalLiteral"), Opt(R("IntegerSuffix"))>>))),
        Node("Literal", Token(Cat(<<R("HexadecimalLiteral"), Opt(R("IntegerSuffix"))>>)))>>)
DecimalLiteral == Token(Cat(<<OneOf(Digits \ {"0"}), Star(Digit)>>))
OctalLiteral == Token(Cat(<<Ch("0"), Star(R("OctalDigit"))>>))
OctalDigit == OneOf(OctalDigits)
HexadecimalLiteral == Token(Cat(<<Alt(<<Str(<<"0", "x">>), Str(<<"0", "X">>)>>), Plus(HexDigit)>>))
IntegerSuffix ==
  Alt(<<Token(Cat(<<R("UnsignedSuffix"), Opt(Alt(<<R("LongLongSuffix"), R("LongSuffix")>>))>>)),
        Token(Cat(<<R("LongLongSuffix"), Opt(R("UnsignedSuffix"))>>)),
        Token(Cat(<<R("LongSuffix"), Opt(R("UnsignedSuffix"))>>))>>)
UnsignedSuffix == Alt(<<Ch("u"), Ch("U")>>)
LongLongSuffix == Alt(<<Ch("ll"), Ch("LL")>>)
LongSuffix == Alt(<<Ch("l"), Ch("L")>>)
CharacterLiteral ==
  Alt(<<Node("Literal", R("NarrowCharacterLiteral")), Node("Literal", R("UniversalCharacterLiteral")),
        Node("Literal", R("WideCharacterLiteral"))>>)
NarrowCharacterLiteral == Token(Cat(<<Ch("'"), R("CCharSequence"), Ch("'")>>))
UniversalCharacterLiteral ==
  Alt(<<Token(Cat(<<Ch("u"), Ch("'"), R("CCharSequence"), Ch("'")>>)),
        Token(Cat(<<Ch("U"), Ch("'"), R("CCharSequence"), Ch("'")>>))>>)
WideCharacterLiteral == Token(Cat(<<Ch("L"), Ch("'"), R("CCharSequence"), Ch("'")>>))
CCharSequence == Token(Plus(R("CChar")))
CChar == Alt(<<NoneOf({"'", "bs", "nl"}), R("EscapeSequence")>>)
EscapeSequence ==
  Alt(<<R("SimpleEscapeSequence"), R("OctalEscapeSequence"), R("HexadecimalEscapeSequence")>>)
SimpleEscapeSequence ==
  Alt(<<Str(<<"bs", "'">>), Str(<<"bs", "dq">>), Str(<<"bs", "?">>), Str(<<"bs", "bs">>),
        Str(<<"bs", "a">>), Str(<<"bs", "b">>), Str(<<"bs", "f">>), Str(<<"bs", "n">>),
        Str(<<"bs", "r">>), Str(<<"bs", "t">>), Str(<<"bs", "v">>)>>)
OctalEscapeSequence == Cat(<<Ch("bs"), R("OctalDigit"), Opt(R("OctalDigit")), Opt(R("OctalDigit"))>>)
HexadecimalEscapeSequence == Cat(<<Str(<<"bs", "x">>), Plus(HexDigit)>>)
FloatingLiteral ==
  Alt(<<Node("Literal",
             Token(Cat(<<R("FractionalConstant"), Opt(R("ExponentPart")), Opt(R("FloatingSuffix"))>>))),
        Node("Literal",
             Token(Cat(<<R("DigitSequence"), R("ExponentPart"), Opt(R("FloatingSuffix"))>>)))>>)
FractionalConstant ==
  Alt(<<Cat(<<Opt(R("DigitSequence")), Ch("."), R("DigitSequence")>>),
        Cat(<<R("DigitSequence"), Ch(".")>>)>>)
DigitSequence == Plus(Digit)
ExponentPart == Cat(<<Alt(<<Ch("e"), Ch("E")>>), Opt(R("Sign")), R("DigitSequence")>>)
Sign == Alt(<<Ch("+"), Ch("-")>>)
FloatingSuffix == OneOf({"f", "F", "l", "L"})
StringLiteral ==
  Node("Literal", Token(Cat(<<Opt(R("EncodingPrefix")), Ch("dq"), Opt(R("SCharSequence")), Ch("dq")>>)))
EncodingPrefix == Alt(<<Str(<<"u", "8">>), Ch("u"), Ch("U"), Ch("L")>>)
SCharSequence == Plus(R("SChar"))
SChar == Alt(<<NoneOf({"dq", "bs", "nl"}), R("EscapeSequence")>>)
BooleanLiteral == Alt(<<Node("Literal", Key("true")), Node("Literal", Key("false"))>>)
PointerLiteral == Node("Literal", Key("nullptr"))

CppLiteralRules ==
  [Literal |-> Literal, IntegerLiteral |-> IntegerLiteral, DecimalLiteral |-> DecimalLiteral,
   OctalLiteral |-> OctalLiteral, OctalDigit |-> OctalDigit, HexadecimalLiteral |-> HexadecimalLiteral,
   IntegerSuffix |-> IntegerSuffix, UnsignedSuffix |-> UnsignedSuffix,
   LongLongSuffix |-> LongLongSuffix, LongSuffix |-> LongSuffix, CharacterLiteral |-> CharacterLiteral,
   NarrowCharacterLiteral |-> NarrowCharacterLiteral,
   UniversalCharacterLiteral |-> UniversalCharacterLiteral,
   WideCharacterLiteral |-> WideCharacterLiteral, CCharSequence |-> CCharSequence, CChar |-> CChar,
   EscapeSequence |-> EscapeSequence, SimpleEscapeSequence |-> SimpleEscapeSequence,
   OctalEscapeSequence |-> OctalEscapeSequence, HexadecimalEscapeSequence |-> HexadecimalEscapeSequence,
   FloatingLiteral |-> FloatingLiteral, FractionalConstant |-> FractionalConstant,
   DigitSequence |-> DigitSequence, ExponentPart |-> ExponentPart, Sign |-> Sign,
   FloatingSuffix |-> FloatingSuffix, StringLiteral |-> StringLiteral,
   EncodingPrefix |-> EncodingPrefix, SCharSequence |-> SCharSequence, SChar |-> SChar,
   BooleanLiteral |-> BooleanLiteral, PointerLiteral |-> PointerLiteral]

(* ExpressionGrammar *)
Expression ==
  Cat(<<R("AssignmentExpression"),
        Star(Cat(<<Ch(","), Node("BinaryOpExpr", R("AssignmentExpression"))>>))>>)
ConstantExpression == R("Expression")
AssignmentExpression ==
  Alt(<<Node("BinaryOpExpr",
             Cat(<<R("LogicalOrExpression"), R("AssingmentOp"), Must(R("AssignmentExpression"))>>)),
        R("ConditionalExpression"), R("ThrowExpression")>>)
AssingmentOp ==
  Alt(<<Ch("="), Str(<<"*", "=">>), Str(<<"/", "=">>), Str(<<"%", "=">>), Str(<<"+", "=">>),
        Str(<<"-", "=">>), Str(<<">", ">", "=">>), Str(<<"<", "<", "=">>), Str(<<"&", "=">>),
        Str(<<"^", "=">>), Str(<<"|", "=">>)>>)
ThrowExpression == Node("ThrowExpr", Cat(<<Key("throw"), Opt(R("AssignmentExpression"))>>))
ConditionalExpression ==
  Cat(<<R("LogicalOrExpression"),
        Opt(Node("ConditionalExpr",
                 Cat(<<Ch("?"), Must(R("Expression")), Ch(":"), Must(R("AssignmentExpression"))>>)))>>)
LogicalOrExpression ==
  Cat(<<R("LogicalAndExpression"),
        Star(Cat(<<Str(<<"|", "|">>), Node("BinaryOpExpr", Must(R("LogicalAndExpression")))>>))>>)
LogicalAndExpression ==
  Cat(<<R("InclusiveOrExpression"),
        Star(Cat(<<Str(<<"&", "&">>), Node("BinaryOpExpr", Must(R("InclusiveOrExpression")))>>))>>)
InclusiveOrExpression ==
  Cat(<<R("ExclusiveOrExpression"),
        Star(Cat(<<Diff(Ch("|"), Str(<<"|", "|">>)),
                   Node("BinaryOpExpr", Must(R("ExclusiveOrExpression")))>>))>>)
ExclusiveOrExpression ==
  Cat(<<R("AndExpression"), Star(Cat(<<Ch("^"), Node("BinaryOpExpr", Must(R("AndExpression")))>>))>>)
AndExpression ==
  Cat(<<R("EqualityExpression"),
        Star(Cat(<<Diff(Ch("&"), Str(<<"&", "&">>)),
                   Node("BinaryOpExpr", Must(R("EqualityExpression")))>>))>>)
EqualityExpression ==
  Cat(<<R("RelationalExpression"),
        Star(Cat(<<R("EqOp"), Node("BinaryOpExpr", Must(R("RelationalExpression")))>>))>>)
EqOp == Alt(<<Str(<<"=", "=">>), Str(<<"!", "=">>)>>)
RelationalExpression ==
  Cat(<<R("ShiftExpression"),
        Star(Cat(<<R("RelOp"), Node("BinaryOpExpr", Must(R("ShiftExpression")))>>))>>)
RelOp ==
  Alt(<<Str(<<"<", "=">>), Str(<<">", "=">>), Diff(Ch("<"), Str(<<"<", "<">>)),
        Diff(Ch(">"), Str(<<">", ">">>))>>)
ShiftExpression ==
  Cat(<<R("AdditiveExpression"),
        Star(Cat(<<R("ShiftOp"), Node("BinaryOpExpr", Must(R("AdditiveExpression")))>>))>>)
ShiftOp ==
  Alt(<<Diff(Str(<<"<", "<">>), Str(<<"<", "<", "=">>)),
        Diff(Str(<<">", ">">>), Str(<<">", ">", "=">>))>>)
AdditiveExpression ==
  Cat(<<R("MultiplicativeExpression"),
        Star(Cat(<<R("AddOp"), Node("BinaryOpExpr", Must(R("MultiplicativeExpression")))>>))>>)
AddOp ==
  Alt(<<Diff(Ch("+"), Str(<<"+", "=">>)),
        Diff(Ch("-"), Alt(<<Str(<<"-", "=">>), Str(<<"-", ">">>)>>))>>)
MultiplicativeExpression ==
  Cat(<<R("PmExpression"), Star(Cat(<<R("MulOp"), Node("BinaryOpExpr", Must(R("PmExpression")))>>))>>)
MulOp ==
  Alt(<<Diff(Ch("*"), Str(<<"*", "=">>)), Diff(Ch("/"), Str(<<"/", "=">>)),
        Diff(Ch("%"), Str(<<"%", "=">>))>>)
PmExpression ==
  Cat(<<R("CastExpression"),
        Star(Cat(<<R("PmOp"), Node("BinaryOpExpr", Must(R("CastExpression")))>>))>>)
PmOp == Alt(<<Str(<<".", "*">>), Str(<<"-", ">", "*">>)>>)
CastExpression ==
  Alt(<<Node("CastExpr", Cat(<<Ch("("), R("TypeId"), Ch(")"), R("CastExpression")>>)),
        R("UnaryExpression")>>)
UnaryExpression ==
  Alt(<<R("PostfixExpression"), R("PostCastExpression"),
        Node("PreIncrementExpr", Cat(<<Str(<<"+", "+">>), Must(R("UnaryExpression"))>>)),
        Node("PreDecrementExpr", Cat(<<Str(<<"-", "-">>), Must(R("UnaryExpression"))>>)),
        Node("UnaryOpExpr", Cat(<<R("UnaryOperator"), Must(R("CastExpression"))>>)),
        Node("SizeOfExpr", Cat(<<Key("sizeof"), Ch("("), Must(R("TypeId")), Must(Ch(")"))>>)),
        Node("SizeOfExpr", Cat(<<Key("sizeof"), Must(R("UnaryExpression"))>>)), R("NewExpression"),
        R("DeleteExpression")>>)
UnaryOperator ==
  Alt(<<Diff(Ch("*"), Str(<<"*", "=">>)), Diff(Ch("&"), Str(<<"&", "=">>)),
        Diff(Ch("+"), Str(<<"+", "=">>)), Diff(Ch("-"), Str(<<"-", "=">>)),
        Diff(Ch("!"), Str(<<"!", "=">>)), Ch("~")>>)
NewExpression ==
  Node("NewExpr",
       Cat(<<Opt(Str(<<":", ":">>)), Key("new"), Opt(R("NewPlacement")),
             Alt(<<R("NewTypeId"), Cat(<<Ch("("), R("TypeId"), Ch(")")>>)>>),
             Opt(R("NewInitializer"))>>))
NewTypeId ==
  Cat(<<Node("TypeId", Empty), Alt(<<R("TypeSpecifierSeq"), R("TypeName")>>), Opt(R("NewDeclarator"))>>)
NewDeclarator == Alt(<<Cat(<<R("PtrOperator"), Opt(R("NewDeclarator"))>>), R("DirectNewDeclarator")>>)
DirectNewDeclarator ==
  Cat(<<Ch("["), R("Expression"), Ch("]"), Star(Cat(<<Ch("["), R("ConstantExpression"), Ch("]")>>))>>)
NewPlacement == Cat(<<Ch("("), R("ExpressionList"), Ch(")")>>)
NewInitializer == Cat(<<Ch("("), Opt(R("ExpressionList")), Ch(")")>>)
DeleteExpression ==
  Node("DeleteExpr",
       Cat(<<Opt(Str(<<":", ":">>)), Key("delete"), Opt(Cat(<<Ch("["), Ch("]")>>)),
             R("CastExpression")>>))
PostfixExpression ==
  Alt(<<Cat(<<R("PrimaryExpression"),
              Star(Alt(<<Node("IndexExpr", Cat(<<Ch("["), Must(R("Expression")), Must(Ch("]"))>>)),
                         Node("InvokeExpr", Cat(<<Ch("("), Opt(R("ExpressionList")), Must(Ch(")"))>>)),
                         Node("MemberAccessExpr",
                              Cat(<<Diff(Ch("."), Str(<<".", "*">>)), Must(R("IdExpression"))>>)),
                         Node("PtrMemberAccessExpr",
                              Cat(<<Diff(Str(<<"-", ">">>), Str(<<"-", ">", "*">>)),
                                    Must(R("IdExpression"))>>)),
                         Node("PostIncrementExpr", Str(<<"+", "+">>)),
                         Node("PostDecrementExpr", Str(<<"-", "-">>))>>))>>),
        Node("InvokeExpr",
             Cat(<<R("TypeSpecifierOrTypeName"), Ch("("), Opt(R("ExpressionList")), Ch(")")>>))>>)
TypeSpecifierOrTypeName == Alt(<<R("SimpleTypeSpecifier"), R("TypeName")>>)
PostCastExpression ==
  Alt(<<Node("PostCastExpr",
             Cat(<<Key("dynamic_cast"), Must(Ch("<")), Must(R("TypeId")), Must(Ch(">")), Must(Ch("(")),
                   Must(R("Expression")), Must(Ch(")"))>>)),
        Node("PostCastExpr",
             Cat(<<Key("static_cast"), Must(Ch("<")), Must(R("TypeId")), Must(Ch(">")), Must(Ch("(")),
                   Must(R("Expression")), Must(Ch(")"))>>)),
        Node("PostCastExpr",
             Cat(<<Key("reinterpret_cast"), Must(Ch("<")), Must(R("TypeId")), Must(Ch(">")),
                   Must(Ch("(")), Must(R("Expression")), Must(Ch(")"))>>)),
        Node("PostCastExpr",
             Cat(<<Key("const_cast"), Must(Ch("<")), Must(R("TypeId")), Must(Ch(">")), Must(Ch("(")),
                   Must(R("Expression")), Must(Ch(")"))>>)),
        Node("TypeIdExpr",
             Cat(<<Key("typeid"), Must(Ch("(")), Must(R("Expression")), Must(Ch(")"))>>))>>)
ExpressionList == List(R("AssignmentExpression"), Ch(","))
PrimaryExpression ==
  Alt(<<R("Literal"), Node("ThisAccess", Key("this")), Cat(<<Ch("("), R("Expression"), Must(Ch(")"))>>),
        R("IdExpression")>>)
IdExpression ==
  Alt(<<Node("IdExpr", Token(Cat(<<R("QualifiedId"), Str(<<":", ":">>), R("OperatorFunctionId")>>))),
        Node("IdExpr", Token(Cat(<<Opt(Str(<<":", ":">>)), R("OperatorFunctionId")>>))),
        Node("IdExpr", R("QualifiedId"))>>)
OperatorFunctionId == Cat(<<Key("operator"), R("Operator")>>)
Operator ==
  Alt(<<Cat(<<Ch("["), Ch("]")>>), Cat(<<Ch("("), Ch(")")>>), Str(<<"-", ">", "*">>), Str(<<"-", ">">>),
        Ch(","), Str(<<"-", "-">>), Str(<<"+", "+">>), Str(<<"|", "|">>), Str(<<"&", "&">>),
        Str(<<"<", "=">>), Str(<<">", "=">>), Str(<<"!", "=">>), Str(<<"=", "=">>),
        Str(<<"<", "<", "=">>), Str(<<">", ">", "=">>), Str(<<"<", "<">>), Str(<<">", ">">>),
        Str(<<"|", "=">>), Str(<<"&", "=">>), Str(<<"^", "=">>), Str(<<"%", "=">>), Str(<<"/", "=">>),
        Str(<<"*", "=">>), Str(<<"-", "=">>), Str(<<"+", "=">>), Ch("<"), Ch(">"), Ch("="), Ch("!"),
        Ch("~"), Ch("|"), Ch("&"), Ch("^"), Ch("%"), Ch("/"), Ch("*"), Ch("-"), Ch("+"),
        Cat(<<Key("new"), Ch("["), Ch("]")>>), Cat(<<Key("delete"), Ch("["), Ch("]")>>), Key("new"),
        Key("delete")>>)

CppExpressionRules ==
  [Expression |-> Expression, ConstantExpression |-> ConstantExpression,
   AssignmentExpression |-> AssignmentExpression, AssingmentOp |-> AssingmentOp,
   ThrowExpression |-> ThrowExpression, ConditionalExpression |-> ConditionalExpression,
   LogicalOrExpression |-> LogicalOrExpression, LogicalAndExpression |-> LogicalAndExpression,
   InclusiveOrExpression |-> InclusiveOrExpression, ExclusiveOrExpression |-> ExclusiveOrExpression,
   AndExpression |-> AndExpression, EqualityExpression |-> EqualityExpression, EqOp |-> EqOp,
   RelationalExpression |-> RelationalExpression, RelOp |-> RelOp, ShiftExpression |-> ShiftExpression,
   ShiftOp |-> ShiftOp, AdditiveExpression |-> AdditiveExpression, AddOp |-> AddOp,
   MultiplicativeExpression |-> MultiplicativeExpression, MulOp |-> MulOp,
   PmExpression |-> PmExpression, PmOp |-> PmOp, CastExpression |-> CastExpression,
   UnaryExpression |-> UnaryExpression, UnaryOperator |-> UnaryOperator,
   NewExpression |-> NewExpression, NewTypeId |-> NewTypeId, NewDeclarator |-> NewDeclarator,
   DirectNewDeclarator |-> DirectNewDeclarator, NewPlacement |-> NewPlacement,
   NewInitializer |-> NewInitializer, DeleteExpression |-> DeleteExpression,
   PostfixExpression |-> PostfixExpression, TypeSpecifierOrTypeName |-> TypeSpecifierOrTypeName,
   PostCastExpression |-> PostCastExpression, ExpressionList |-> ExpressionList,
   PrimaryExpression |-> PrimaryExpression, IdExpression |-> IdExpression,
   OperatorFunctionId |-> OperatorFunctionId, Operator |-> Operator]

(* StatementGrammar *)
Statement ==
  Alt(<<R("LabeledStatement"), R("EmptyStatement"), R("CompoundStatement"), R("SelectionStatement"),
        R("IterationStatement"), R("JumpStatement"), R("DeclarationStatement"), R("TryStatement"),
        R("ExpressionStatement")>>)
LabeledStatement ==
  Alt(<<Node("LabeledStatement",
             Cat(<<R("Label"), Diff(Ch(":"), Str(<<":", ":">>)), Must(R("Statement"))>>)),
        Node("CaseStatement",
             Cat(<<Key("case"), Must(R("ConstantExpression")), Must(Ch(":")), Must(R("Statement"))>>)),
        Node("DefaultStatement", Cat(<<Key("default"), Must(Ch(":")), Must(R("Statement"))>>))>>)
Label == R("Identifier")
EmptyStatement == Node("EmptyStatement", Ch(";"))
ExpressionStatement == Node("ExpressionStatement", Cat(<<R("Expression"), Must(Ch(";"))>>))
CompoundStatement == Cat(<<Node("CompoundStatement", Ch("{")), Star(R("Statement")), Must(Ch("}"))>>)
SelectionStatement == Alt(<<R("IfStatement"), R("SwitchStatement")>>)
IfStatement ==
  Node("IfStatement",
       Cat(<<Key("if"), Must(Ch("(")), Must(R("Condition")), Must(Ch(")")), Must(R("Statement")),
             Opt(Cat(<<Key("else"), Must(R("Statement"))>>))>>))
SwitchStatement ==
  Cat(<<Key("switch"), Must(Ch("(")), Must(R("Condition")), Must(Ch(")")),
        Node("SwitchStatement", Must(R("Statement")))>>)
IterationStatement == Alt(<<R("WhileStatement"), R("DoStatement"), R("ForStatement")>>)
WhileStatement ==
  Cat(<<Key("while"), Must(Ch("(")), Must(R("Condition")), Must(Ch(")")),
        Node("WhileStatement", Must(R("Statement")))>>)
DoStatement ==
  Cat(<<Key("do"), Must(R("Statement")), Must(Key("while")), Must(Ch("(")), Must(R("Expression")),
        Must(Ch(")")), Node("DoStatement", Must(Ch(";")))>>)
ForStatement ==
  Cat(<<Key("for"), Must(Ch("(")), Must(R("ForInitStatement")), Opt(R("Condition")), Must(Ch(";")),
        Opt(R("Expression")), Must(Ch(")")), Node("ForStatement", Must(R("Statement")))>>)
ForInitStatement == Alt(<<R("EmptyStatement"), R("ExpressionStatement"), R("SimpleDeclaration")>>)
JumpStatement ==
  Alt(<<R("BreakStatement"), R("ContinueStatement"), R("ReturnStatement"), R("GotoStatement")>>)
BreakStatement == Cat(<<Key("break"), Node("BreakStatement", Must(Ch(";")))>>)
ContinueStatement == Cat(<<Key("continue"), Node("ContinueStatement", Must(Ch(";")))>>)
ReturnStatement == Cat(<<Key("return"), Opt(R("Expression")), Node("ReturnStatement", Must(Ch(";")))>>)
GotoStatement == Cat(<<Key("goto"), Must(R("GotoTarget")), Node("GotoStatement", Must(Ch(";")))>>)
GotoTarget == R("Identifier")
DeclarationStatement == Node("DeclarationStatement", R("BlockDeclaration"))
Condition ==
  Alt(<<Cat(<<R("TypeId"), R("Declarator"), Ch("="),
              Node("ConditionWithDeclarator", R("AssignmentExpression"))>>), R("Expression")>>)
TryStatement ==
  Cat(<<Key("try"), Node("TryStatement", Must(R("CompoundStatement"))), Must(R("HandlerSeq"))>>)
HandlerSeq == Cat(<<Must(R("Handler")), Opt(R("HandlerSeq"))>>)
Handler ==
  Cat(<<Key("catch"), Must(Ch("(")), Must(R("ExceptionDeclaration")), Must(Ch(")")),
        Node("Handler", Must(R("CompoundStatement")))>>)
ExceptionDeclaration ==
  Cat(<<Node("ExceptionDeclaration", Empty),
        Alt(<<Cat(<<R("TypeSpecifierSeq"), Alt(<<R("Declarator"), R("AbstractDeclarator"), Empty>>)>>),
              Str(<<".", ".", ".">>)>>)>>)

CppStatementRules ==
  [Statement |-> Statement, LabeledStatement |-> LabeledStatement, Label |-> Label,
   EmptyStatement |-> EmptyStatement, ExpressionStatement |-> ExpressionStatement,
   CompoundStatement |-> CompoundStatement, SelectionStatement |-> SelectionStatement,
   IfStatement |-> IfStatement, SwitchStatement |-> SwitchStatement,
   IterationStatement |-> IterationStatement, WhileStatement |-> WhileStatement,
   DoStatement |-> DoStatement, ForStatement |-> ForStatement, ForInitStatement |-> ForInitStatement,
   JumpStatement |-> JumpStatement, BreakStatement |-> BreakStatement,
   ContinueStatement |-> ContinueStatement, ReturnStatement |-> ReturnStatement,
   GotoStatement |-> GotoStatement, GotoTarget |-> GotoTarget,
   DeclarationStatement |-> DeclarationStatement, Condition |-> Condition,
   TryStatement |-> TryStatement, HandlerSeq |-> HandlerSeq, Handler |-> Handler,
   ExceptionDeclaration |-> ExceptionDeclaration]

(* DeclaratorGrammar *)
InitDeclaratorList == Cat(<<Node("InitDeclaratorList", Empty), List(R("InitDeclarator"), Ch(","))>>)
InitDeclarator == Node("InitDeclarator", Cat(<<R("Declarator"), Opt(R("Initializer"))>>))
Declarator == Alt(<<R("DirectDeclarator"), Cat(<<R("PtrOperator"), R("Declarator")>>)>>)
DirectDeclarator ==
  Cat(<<R("DeclaratorId"),
        Star(Cat(<<Ch("["), Opt(R("ConstantExpression")), Ch("]"), Ch("("), R("Declarator"),
                   Ch(")")>>))>>)
DeclaratorId == Alt(<<R("IdExpression"), R("TypeName")>>)
TypeId ==
  Cat(<<Node("TypeId", Empty), Alt(<<R("TypeSpecifierSeq"), R("TypeName")>>),
        Opt(R("AbstractDeclarator"))>>)
Type == Cat(<<Node("Type", Empty), Alt(<<Plus(R("TypeSpecifier")), R("TypeName")>>)>>)
TypeSpecifierSeq == Plus(R("TypeSpecifier"))
AbstractDeclarator ==
  Alt(<<Cat(<<R("PtrOperator"), Opt(R("AbstractDeclarator"))>>), R("DirectAbstractDeclarator")>>)
DirectAbstractDeclarator ==
  Plus(Alt(<<Cat(<<Ch("["), Opt(R("ConstantExpression")), Ch("]")>>),
             Cat(<<Ch("("), R("AbstractDeclarator"), Ch(")")>>)>>))
PtrOperator == Alt(<<Cat(<<Ch("*"), Opt(R("CVQualifierSeq"))>>), Ch("&")>>)
CVQualifierSeq == Plus(R("CVQualifier"))
Initializer ==
  Alt(<<Cat(<<Ch("="), Node("Initializer", R("InitializerClause"))>>),
        Node("Initializer", Cat(<<Ch("("), R("ExpressionList"), Ch(")")>>))>>)
InitializerClause ==
  Alt(<<Node("AssignInit", R("AssignmentExpression")),
        Cat(<<Node("AssignInit", Ch("{")), R("InitializerList"), Ch("}")>>),
        Cat(<<Ch("{"), Node("AssignInit", Ch("}"))>>)>>)
InitializerList == List(R("InitializerClause"), Ch(","))

CppDeclaratorRules ==
  [InitDeclaratorList |-> InitDeclaratorList, InitDeclarator |-> InitDeclarator,
   Declarator |-> Declarator, DirectDeclarator |-> DirectDeclarator, DeclaratorId |-> DeclaratorId,
   TypeId |-> TypeId, Type |-> Type, TypeSpecifierSeq |-> TypeSpecifierSeq,
   AbstractDeclarator |-> AbstractDeclarator, DirectAbstractDeclarator |-> DirectAbstractDeclarator,
   PtrOperator |-> PtrOperator, CVQualifierSeq |-> CVQualifierSeq, Initializer |-> Initializer,
   InitializerClause |-> InitializerClause, InitializerList |-> InitializerList]

(* DeclarationGrammar *)
BlockDeclaration ==
  Alt(<<R("NamespaceAliasDefinition"), R("UsingDirective"), R("UsingDeclaration"),
        R("SimpleDeclaration")>>)
SimpleDeclaration ==
  Cat(<<Node("SimpleDeclaration", Empty), Opt(R("DeclSpecifierSeq")), Opt(R("InitDeclaratorList")),
        Ch(";")>>)
DeclSpecifierSeq == Alt(<<Plus(R("DeclSpecifier")), R("TypeName")>>)
DeclSpecifier == Alt(<<R("StorageClassSpecifier"), R("TypeSpecifier"), R("Typedef")>>)
StorageClassSpecifier ==
  Node("StorageClassSpecifier", KeywordList({"auto", "extern", "mutable", "register", "static"}))
TypeSpecifier == Alt(<<R("SimpleTypeSpecifier"), R("CVQualifier")>>)
SimpleTypeSpecifier ==
  Node("TypeSpecifier",
       KeywordList({"bool", "char", "double", "float", "int", "long", "short", "signed", "unsigned",
                    "void", "wchar_t"}))
TypeName ==
  Cat(<<Node("TypeName", R("QualifiedId")), Opt(Cat(<<Ch("<"), R("TemplateArgumentList"), Ch(">")>>))>>)
TemplateArgumentList == List(R("TemplateArgument"), Ch(","))
TemplateArgument == Alt(<<R("TypeId"), R("AssignmentExpression")>>)
Typedef == Node("Typedef", Key("typedef"))
CVQualifier == Alt(<<Node("Const", Key("const")), Node("Volatile", Key("volatile"))>>)
NamespaceAliasDefinition ==
  Cat(<<Key("namespace"), R("Identifier"), Ch("="), R("QualifiedId"), Node("NamespaceAlias", Ch(";"))>>)
UsingDeclaration == Cat(<<Key("using"), R("QualifiedId"), Node("UsingDeclaration", Ch(";"))>>)
UsingDirective ==
  Cat(<<Key("using"), Key("namespace"), R("QualifiedId"), Node("UsingDirective", Ch(";"))>>)

CppDeclarationRules ==
  [BlockDeclaration |-> BlockDeclaration, SimpleDeclaration |-> SimpleDeclaration,
   DeclSpecifierSeq |-> DeclSpecifierSeq, DeclSpecifier |-> DeclSpecifier,
   StorageClassSpecifier |-> StorageClassSpecifier, TypeSpecifier |-> TypeSpecifier,
   SimpleTypeSpecifier |-> SimpleTypeSpecifier, TypeName |-> TypeName,
   TemplateArgumentList |-> TemplateArgumentList, TemplateArgument |-> TemplateArgument,
   Typedef |-> Typedef, CVQualifier |-> CVQualifier,
   NamespaceAliasDefinition |-> NamespaceAliasDefinition, UsingDeclaration |-> UsingDeclaration,
   UsingDirective |-> UsingDirective]

CppRules ==
  CppDeclarationRules @@ CppDeclaratorRules @@ CppStatementRules @@ CppExpressionRules @@
  CppLiteralRules @@ CppKeywordRules @@ CppIdentifierRules @@ StdLibRules
=============================================================================

---------------------------- MODULE NodeLayouts -----------------------------
(***************************************************************************)
(* What each class of the syntax tree does in Write, Read, Clone and       *)
(* Accept (src/Cm.Ast/*.cpp), as four sequences of steps on its members.   *)
(*                                                                         *)
(* Printing and naming (ToString, Print, Name) are left out.               *)
(***************************************************************************)
EXTENDS NodeClasses, SequencesExt

Step(do, member, by) == [do |-> do, member |-> member, by |-> by, flags |-> {}, unless |-> ""]

\* Write and Clone: a value, a child, a child behind a flag that says whether
\* it is there, the nodes of a list after a count of four bytes or of one.
Value(m) == Step("value", m, "")
Child(m) == Step("child", m, "")
Maybe(m) == Step("maybe", m, "")
Each(m)  == Step("each", m, "")
Few(m)   == Step("few", m, "")
AsBase(class) == Step("base", "", class)

\* Read: a value with one of the reader's functions, a child of a class, a
\* child of a class behind a flag.
Get(m, function) == Step("get", m, function)
Sub(m, class)    == Step("sub", m, class)
Opt(m, class)    == Step("opt", m, class)

\* Clone only: parts that an instance leaves out, the body that the instance
\* of a class keeps for later, a group id the constructor makes, test
\* functions taken out, a node made without a span, a Clone that throws.
NotInClass(step)    == [step EXCEPT !.unless = "class"]
NotInFunction(step) == [step EXCEPT !.unless = "function"]
BodyOrSource        == Step("body", "body", "")
Made(m)             == Step("made", m, "")
MovingTests(m)      == Step("tests", m, "")
NoSpan              == Step("no span", "", "")
Fails               == Step("fails", "", "")

\* Accept: children visited, always or if the visitor asks for all the flags.
See(m)          == Step("see", m, "")
SeeIf(m, flags) == [Step("see", m, "") EXCEPT !.flags = flags]

Row(writes, reads, clones, walks) == [writes |-> writes, reads |-> reads, clones |-> clones, walks |-> walks]
Part(writes, reads)               == [writes |-> writes, reads |-> reads]
Inherits(clones, walks)           == [clones |-> clones, walks |-> walks]
Leaf      == Inherits(<<>>, <<>>)
Operator  == Inherits(<<Child("left"), Child("right")>>, <<See("left"), See("right")>>)
Operand   == Inherits(<<Child("child")>>, <<See("child")>>)
Closed(m) == Inherits(<<Child(m)>>, <<>>)
Literal(function) == Row(<<Value("value")>>, <<Get("value", function)>>, <<Value("value")>>, <<>>)

BasicTypeLayouts == [
    BoolNode |-> Leaf, SByteNode |-> Leaf, ByteNode |-> Leaf, ShortNode |-> Leaf, UShortNode |-> Leaf,
    IntNode |-> Leaf, UIntNode |-> Leaf, LongNode |-> Leaf, ULongNode |-> Leaf, FloatNode |-> Leaf]

LastBasicTypeLayouts == [
    DoubleNode |-> Leaf, CharNode |-> Leaf, WCharNode |-> Leaf, UCharNode |-> Leaf, VoidNode |-> Leaf]

ClassLayout == [
    ClassNode |-> Row(
        <<Value("specifiers"), Child("id"), Each("templateParameters"),
            Each("baseClassOrImplIntfTypeExprs"), Maybe("constraint"), Each("members")>>,
        <<Get("specifiers", "Specifiers"), Sub("id", "IdentifierNode"), Each("templateParameters"),
            Each("baseClassOrImplIntfTypeExprs"), Opt("constraint", "WhereConstraintNode"),
            Each("members")>>,
        <<Value("specifiers"), Child("id"), NotInClass(Each("templateParameters")),
            Each("baseClassOrImplIntfTypeExprs"), Maybe("constraint"), Each("members")>>,
        <<SeeIf("templateParameters", {"content"}), SeeIf("members", {"content"})>>)]

InitializerLayouts == [
    InitializerNode |-> Part(<<Each("arguments")>>, <<Each("arguments")>>),
    MemberInitializerNode |-> Row(
        <<AsBase("InitializerNode"), Child("memberId")>>,
        <<AsBase("InitializerNode"), Sub("memberId", "IdentifierNode")>>,
        <<Each("arguments"), Child("memberId")>>, <<>>),
    BaseInitializerNode |-> Inherits(<<Each("arguments")>>, <<>>),
    ThisInitializerNode |-> Inherits(<<Each("arguments")>>, <<>>)]

StaticConstructorLayout == [
    StaticConstructorNode |-> Row(
        <<AsBase("FunctionNode"), Each("initializers")>>,
        <<AsBase("FunctionNode"), Each("initializers")>>,
        <<Value("specifiers"), Made("groupId"), Each("initializers"), Maybe("constraint"), BodyOrSource>>,
        <<SeeIf("body", {"bodies"})>>)]

ConstructorLayout == [
    ConstructorNode |-> Row(
        <<AsBase("FunctionNode"), Each("initializers")>>,
        <<AsBase("FunctionNode"), Each("initializers")>>,
        <<Value("specifiers"), Made("groupId"), Each("initializers"), Each("parameters"),
            Maybe("constraint"), BodyOrSource>>,
        <<See("parameters"), SeeIf("body", {"bodies"})>>)]

DestructorLayout == [
    DestructorNode |-> Row(
        <<AsBase("FunctionNode")>>, <<AsBase("FunctionNode")>>,
        <<Value("specifiers"), Made("groupId"), BodyOrSource, Maybe("constraint")>>,
        <<SeeIf("body", {"bodies"})>>)]

MemberFunctionLayout == [
    MemberFunctionNode |-> Row(
        <<AsBase("FunctionNode"), Value("isConst")>>, <<AsBase("FunctionNode"), Get("isConst", "Bool")>>,
        <<Value("specifiers"), Child("returnTypeExpr"), Child("groupId"), Each("parameters"),
            Maybe("constraint"), BodyOrSource, Value("isConst")>>,
        <<See("parameters"), SeeIf("body", {"bodies"})>>)]

ConversionLayouts == [
    ConversionFunctionNode |-> Row(
        <<AsBase("MemberFunctionNode")>>, <<AsBase("MemberFunctionNode")>>,
        <<Value("specifiers"), Child("returnTypeExpr"), Made("groupId"), Maybe("constraint"), BodyOrSource,
            Value("isConst")>>,
        <<SeeIf("body", {"bodies"})>>),
    MemberVariableNode |-> Row(
        <<Value("specifiers"), Child("typeExpr"), Child("id")>>,
        <<Get("specifiers", "Specifiers"), Sub("typeExpr", "Node"), Sub("id", "IdentifierNode")>>,
        <<Value("specifiers"), Child("typeExpr"), Child("id")>>, <<>>)]

CompileUnitLayout == [
    CompileUnitNode |-> Row(
        <<Value("filePath"), Child("globalNs")>>,
        <<Get("filePath", "String"), Sub("globalNs", "NamespaceNode")>>,
        <<Value("filePath"), Child("globalNs")>>, <<See("globalNs")>>)]

CompoundConstraintLayouts == [
    BinaryConstraintNode |-> Part(
        <<Child("left"), Child("right")>>,
        <<Sub("left", "ConstraintNode"), Sub("right", "ConstraintNode")>>),
    DisjunctiveConstraintNode |-> Inherits(<<Child("left"), Child("right")>>, <<>>),
    ConjunctiveConstraintNode |-> Inherits(<<Child("left"), Child("right")>>, <<>>)]

SimpleConstraintLayouts == [
    WhereConstraintNode |-> Row(
        <<Child("constraint")>>, <<Sub("constraint", "ConstraintNode")>>, <<Child("constraint")>>,
        <<See("constraint")>>),
    PredicateConstraintNode |-> Row(
        <<Child("invokeExpr")>>, <<Sub("invokeExpr", "Node")>>, <<Child("invokeExpr")>>, <<>>),
    IsConstraintNode |-> Row(
        <<Child("typeExpr"), Child("conceptOrTypeName")>>,
        <<Sub("typeExpr", "Node"), Sub("conceptOrTypeName", "Node")>>,
        <<Child("typeExpr"), Child("conceptOrTypeName")>>, <<>>)]

ParameterConstraintLayouts == [
    MultiParamConstraintNode |-> Row(
        <<Child("conceptId"), Each("typeExprNodes")>>,
        <<Sub("conceptId", "IdentifierNode"), Each("typeExprNodes")>>,
        <<Child("conceptId"), Each("typeExprNodes")>>, <<>>),
    TypenameConstraintNode |-> Row(
        <<Child("typeId")>>, <<Sub("typeId", "Node")>>, <<Child("typeId")>>, <<>>)]

SignatureLayouts == [
    ConstructorConstraintNode |-> Row(
        <<Child("typeParamId"), Each("parameters")>>,
        <<Sub("typeParamId", "IdentifierNode"), Each("parameters")>>,
        <<Child("typeParamId"), Each("parameters")>>, <<>>),
    DestructorConstraintNode |-> Row(
        <<Child("typeParamId")>>, <<Sub("typeParamId", "IdentifierNode")>>, <<Child("typeParamId")>>,
        <<>>),
    MemberFunctionConstraintNode |-> Row(
        <<Child("returnTypeExpr"), Child("typeParamId"), Child("functionGroupId"), Each("parameters")>>,
        <<Sub("returnTypeExpr", "Node"), Sub("typeParamId", "IdentifierNode"), Sub("functionGroupId",
            "FunctionGroupIdNode"), Each("parameters")>>,
        <<Child("returnTypeExpr"), Child("typeParamId"), Child("functionGroupId"), Each("parameters")>>,
        <<>>)]

FunctionConstraintLayouts == [
    FunctionConstraintNode |-> Row(
        <<Child("returnTypeExpr"), Child("functionGroupId"), Each("parameters")>>,
        <<Sub("returnTypeExpr", "Node"), Sub("functionGroupId", "FunctionGroupIdNode"),
            Each("parameters")>>,
        <<Child("returnTypeExpr"), Child("functionGroupId"), Each("parameters")>>, <<>>),
    AxiomStatementNode |-> Row(
        <<Child("expression"), Value("text")>>, <<Sub("expression", "Node"), Get("text", "String")>>,
        <<Child("expression"), Value("text")>>, <<>>)]

AxiomLayouts == [
    AxiomNode |-> Row(
        <<Maybe("id"), Each("parameters"), Each("axiomStatements")>>,
        <<Opt("id", "IdentifierNode"), Each("parameters"), Each("axiomStatements")>>,
        <<Maybe("id"), Each("parameters"), Each("axiomStatements")>>, <<See("axiomStatements")>>),
    ConceptIdNode |-> Row(
        <<Child("id"), Each("typeParameters")>>, <<Sub("id", "IdentifierNode"), Each("typeParameters")>>,
        <<Child("id"), Each("typeParameters")>>, <<>>)]

ConceptLayouts == [
    ConceptNode |-> Row(
        <<Value("specifiers"), Child("id"), Each("typeParameters"), Maybe("refinement"),
            Each("constraints"), Each("axioms")>>,
        <<Get("specifiers", "Specifiers"), Sub("id", "IdentifierNode"), Each("typeParameters"),
            Opt("refinement", "ConceptIdNode"), Each("constraints"), Each("axioms")>>,
        <<Value("specifiers"), Child("id"), Each("typeParameters"), Maybe("refinement"),
            Each("constraints"), Each("axioms")>>,
        <<>>),
    CCConstraintNode |-> Inherits(<<Fails>>, <<See("node")>>)]

ConstantLayout == [
    ConstantNode |-> Row(
        <<Value("specifiers"), Child("typeExpr"), Child("id"), Child("value")>>,
        <<Get("specifiers", "Specifiers"), Sub("typeExpr", "Node"), Sub("id", "IdentifierNode"),
            Sub("value", "Node")>>,
        <<NoSpan, Value("specifiers"), Child("typeExpr"), Child("id"), Child("value")>>, <<>>)]

DelegateLayouts == [
    DelegateNode |-> Row(
        <<Value("specifiers"), Child("returnTypeExpr"), Child("id"), Each("parameters")>>,
        <<Get("specifiers", "Specifiers"), Sub("returnTypeExpr", "Node"), Sub("id", "IdentifierNode"),
            Each("parameters")>>,
        <<Value("specifiers"), Child("returnTypeExpr"), Child("id"), Each("parameters")>>, <<>>),
    ClassDelegateNode |-> Row(
        <<Value("specifiers"), Child("returnTypeExpr"), Child("id"), Each("parameters")>>,
        <<Get("specifiers", "Specifiers"), Sub("returnTypeExpr", "Node"), Sub("id", "IdentifierNode"),
            Each("parameters")>>,
        <<Value("specifiers"), Child("returnTypeExpr"), Child("id"), Each("parameters")>>, <<>>)]

EnumLayouts == [
    EnumTypeNode |-> Row(
        <<Value("specifiers"), Child("id"), Each("constants")>>,
        <<Get("specifiers", "Specifiers"), Sub("id", "IdentifierNode"), Each("constants")>>,
        <<Value("specifiers"), Child("id"), Maybe("underlyingType"), Each("constants")>>,
        <<See("constants")>>),
    EnumConstantNode |-> Row(
        <<Child("id"), Child("value")>>, <<Sub("id", "IdentifierNode"), Sub("value", "Node")>>,
        <<Child("id"), Child("value")>>, <<>>)]

LogicalLayouts == [
    EquivalenceNode |-> Operator, ImplicationNode |-> Operator, DisjunctionNode |-> Operator,
    ConjunctionNode |-> Operator, BitOrNode |-> Operator, BitXorNode |-> Operator, BitAndNode |-> Operator]

RelationalLayouts == [
    EqualNode |-> Operator, NotEqualNode |-> Operator, LessNode |-> Operator, GreaterNode |-> Operator,
    LessOrEqualNode |-> Operator, GreaterOrEqualNode |-> Operator, ShiftLeftNode |-> Operator]

ArithmeticLayouts == [
    ShiftRightNode |-> Operator, AddNode |-> Operator, SubNode |-> Operator, MulNode |-> Operator,
    DivNode |-> Operator, RemNode |-> Operator]

InvokeLayouts == [
    InvokeNode |-> Row(
        <<AsBase("UnaryNode"), Each("arguments")>>, <<AsBase("UnaryNode"), Each("arguments")>>,
        <<Child("child"), Each("arguments")>>, <<SeeIf("arguments", {"arguments"})>>),
    IndexNode |-> Row(
        <<AsBase("UnaryNode"), Child("index")>>, <<AsBase("UnaryNode"), Sub("index", "Node")>>,
        <<Child("child"), Child("index")>>, <<>>)]

DotLayouts == [
    DotNode |-> Row(
        <<AsBase("UnaryNode"), Child("memberId")>>, <<AsBase("UnaryNode"), Sub("memberId", "Node")>>,
        <<Child("child"), Child("memberId")>>, <<See("child")>>),
    ArrowNode |-> Row(
        <<AsBase("UnaryNode"), Child("memberId")>>, <<AsBase("UnaryNode"), Sub("memberId", "Node")>>,
        <<Child("child"), Child("memberId")>>, <<>>)]

UnaryLayouts == [
    PostfixIncNode |-> Closed("child"), PostfixDecNode |-> Closed("child"), DerefNode |-> Closed("child"),
    AddrOfNode |-> Closed("child"), NotNode |-> Operand, UnaryPlusNode |-> Operand]

PrefixLayouts == [
    UnaryMinusNode |-> Operand, ComplementNode |-> Operand, PrefixIncNode |-> Operand,
    PrefixDecNode |-> Operand, SizeOfNode |-> Closed("child"), TypeNameNode |-> Closed("child")]

CastLayouts == [
    CastNode |-> Row(
        <<Child("targetTypeExpr"), Child("sourceExpr")>>,
        <<Sub("targetTypeExpr", "Node"), Sub("sourceExpr", "Node")>>,
        <<Child("targetTypeExpr"), Child("sourceExpr")>>, <<>>),
    IsNode |-> Row(
        <<Child("expr"), Child("typeExpr")>>, <<Sub("expr", "Node"), Sub("typeExpr", "Node")>>,
        <<Child("expr"), Child("typeExpr")>>, <<>>),
    AsNode |-> Row(
        <<Child("expr"), Child("typeExpr")>>, <<Sub("expr", "Node"), Sub("typeExpr", "Node")>>,
        <<Child("expr"), Child("typeExpr")>>, <<>>)]

NewLayouts == [
    NewNode |-> Row(
        <<Child("typeExpr"), Each("arguments")>>, <<Sub("typeExpr", "Node"), Each("arguments")>>,
        <<Child("typeExpr"), Each("arguments")>>, <<>>),
    ConstructNode |-> Row(
        <<Child("typeExpr"), Each("arguments")>>, <<Sub("typeExpr", "Node"), Each("arguments")>>,
        <<Child("typeExpr"), Each("arguments")>>, <<>>),
    ThisNode |-> Leaf, BaseNode |-> Leaf, CCNode |-> Leaf]

FunctionGroupIdLayout == [
    FunctionGroupIdNode |-> Row(
        <<Value("functionGroupId")>>, <<Get("functionGroupId", "String")>>, <<Value("functionGroupId")>>,
        <<>>)]

FunctionLayout == [
    FunctionNode |-> Row(
        <<Value("specifiers"), Maybe("returnTypeExpr"), Child("groupId"), Each("templateParameters"),
            Each("parameters"), Maybe("constraint"), Maybe("body")>>,
        <<Get("specifiers", "Specifiers"), Opt("returnTypeExpr", "Node"), Sub("groupId",
            "FunctionGroupIdNode"), Each("templateParameters"), Each("parameters"), Opt("constraint",
            "WhereConstraintNode"), Opt("body", "CompoundStatementNode")>>,
        <<Value("specifiers"), Child("returnTypeExpr"), Child("groupId"),
            NotInFunction(Each("templateParameters")), Each("parameters"), Maybe("constraint"),
            Child("body")>>,
        <<SeeIf("templateParameters", {"content"}), See("parameters"), SeeIf("body", {"bodies"})>>)]

IdentifierLayout == [
    IdentifierNode |-> Row(
        <<Value("identifier")>>, <<Get("identifier", "String")>>, <<Value("identifier")>>, <<>>)]

InterfaceLayout == [
    InterfaceNode |-> Row(
        <<Value("specifiers"), Child("id"), Each("members")>>,
        <<Get("specifiers", "Specifiers"), Sub("id", "IdentifierNode"), Each("members")>>,
        <<Value("specifiers"), Child("id"), Each("members")>>, <<SeeIf("members", {"content"})>>)]

IntrinsicLayouts == [
    SameConstraintNode |-> Inherits(<<NoSpan>>, <<>>), DerivedConstraintNode |-> Inherits(<<NoSpan>>, <<>>),
    ConvertibleConstraintNode |-> Inherits(<<NoSpan>>, <<>>),
    ExplicitlyConvertibleConstraintNode |-> Inherits(<<NoSpan>>, <<>>),
    CommonConstraintNode |-> Inherits(<<NoSpan>>, <<>>),
    NonReferenceTypeConstraintNode |-> Inherits(<<NoSpan>>, <<>>)]

SmallLiteralLayouts == [
    BooleanLiteralNode |-> Literal("Bool"), SByteLiteralNode |-> Literal("SByte"),
    ByteLiteralNode |-> Literal("Byte"), ShortLiteralNode |-> Literal("Short")]

LargeLiteralLayouts == [
    UShortLiteralNode |-> Literal("UShort"), IntLiteralNode |-> Literal("Int"),
    UIntLiteralNode |-> Literal("UInt"), LongLiteralNode |-> Literal("Long")]

FloatingLiteralLayouts == [
    ULongLiteralNode |-> Literal("ULong"), FloatLiteralNode |-> Literal("Float"),
    DoubleLiteralNode |-> Literal("Double")]

TextLiteralLayouts == [
    CharLiteralNode |-> Literal("Char"), StringLiteralNode |-> Literal("String"),
    WStringLiteralNode |-> Literal("String"), UStringLiteralNode |-> Literal("String")]

NullLiteralLayout == [
    NullLiteralNode |-> Leaf]

NamespaceLayout == [
    NamespaceNode |-> Row(
        <<Child("id"), Each("members")>>, <<Sub("id", "IdentifierNode"), Each("members")>>,
        <<Child("id"), MovingTests("members")>>, <<See("members")>>)]

UsingLayouts == [
    AliasNode |-> Row(
        <<Child("id"), Child("qid")>>, <<Sub("id", "IdentifierNode"), Sub("qid", "IdentifierNode")>>,
        <<Child("id"), Child("qid")>>, <<>>),
    NamespaceImportNode |-> Row(<<Child("ns")>>, <<Sub("ns", "IdentifierNode")>>, <<Child("ns")>>, <<>>)]

RootLayouts == [
    Node |-> Row(<<>>, <<>>, <<Fails>>, <<>>),
    UnaryNode |-> Row(<<Child("child")>>, <<Sub("child", "Node")>>, <<Fails>>, <<See("child")>>)]

BinaryLayout == [
    BinaryNode |-> Row(
        <<Child("left"), Child("right")>>, <<Sub("left", "Node"), Sub("right", "Node")>>, <<Fails>>,
        <<See("left"), See("right")>>)]

ParameterLayout == [
    ParameterNode |-> Row(
        <<Child("typeExpr"), Maybe("id")>>, <<Sub("typeExpr", "Node"), Opt("id", "IdentifierNode")>>,
        <<Maybe("id"), Child("typeExpr")>>, <<>>)]

LabelLayouts == [
    LabelNode |-> Row(<<Value("label")>>, <<Get("label", "String")>>, <<Value("label")>>, <<>>),
    StatementNode |-> Part(<<Maybe("labelNode")>>, <<Opt("labelNode", "LabelNode")>>),
    SimpleStatementNode |-> Row(
        <<AsBase("StatementNode"), Maybe("expr")>>, <<AsBase("StatementNode"), Opt("expr", "Node")>>,
        <<Maybe("expr"), Maybe("labelNode")>>, <<SeeIf("expr", {"expressions"})>>)]

ReturnLayout == [
    ReturnStatementNode |-> Row(
        <<AsBase("StatementNode"), Maybe("expr")>>, <<AsBase("StatementNode"), Opt("expr", "Node")>>,
        <<Maybe("expr"), Maybe("labelNode")>>, <<SeeIf("expr", {"expressions"})>>)]

ConditionalLayout == [
    ConditionalStatementNode |-> Row(
        <<AsBase("StatementNode"), Child("condition"), Child("thenS"), Maybe("elseS")>>,
        <<AsBase("StatementNode"), Sub("condition", "Node"), Sub("thenS", "StatementNode"), Opt("elseS",
            "StatementNode")>>,
        <<Maybe("elseS"), Child("condition"), Child("thenS"), Maybe("labelNode")>>,
        <<SeeIf("condition", {"expressions"}), SeeIf("thenS", {"content"}), SeeIf("elseS", {"content"})>>)]

SwitchLayout == [
    SwitchStatementNode |-> Row(
        <<AsBase("StatementNode"), Child("condition"), Each("caseStatements"), Maybe("defaultStatement")>>,
        <<AsBase("StatementNode"), Sub("condition", "Node"), Each("caseStatements"), Opt("defaultStatement",
            "StatementNode")>>,
        <<Child("condition"), Each("caseStatements"), Maybe("defaultStatement"), Maybe("labelNode")>>,
        <<SeeIf("condition", {"content", "expressions"}), SeeIf("caseStatements", {"content"}),
            SeeIf("defaultStatement", {"content"})>>)]

CaseLayouts == [
    CaseStatementNode |-> Row(
        <<AsBase("StatementNode"), Each("expressions"), Each("statements")>>,
        <<AsBase("StatementNode"), Each("expressions"), Each("statements")>>,
        <<Each("expressions"), Each("statements"), Maybe("labelNode")>>,
        <<SeeIf("expressions", {"content", "expressions"}), SeeIf("statements", {"content"})>>),
    DefaultStatementNode |-> Row(
        <<AsBase("StatementNode"), Each("statements")>>, <<AsBase("StatementNode"), Each("statements")>>,
        <<Each("statements"), Maybe("labelNode")>>, <<See("statements")>>)]

WhileLayouts == [
    GotoCaseStatementNode |-> Row(
        <<AsBase("StatementNode"), Child("targetCaseExpr")>>,
        <<AsBase("StatementNode"), Sub("targetCaseExpr", "Node")>>,
        <<Child("targetCaseExpr"), Maybe("labelNode")>>, <<SeeIf("targetCaseExpr", {"expressions"})>>),
    GotoDefaultStatementNode |-> Inherits(<<Maybe("labelNode")>>, <<>>),
    WhileStatementNode |-> Row(
        <<AsBase("StatementNode"), Child("condition"), Child("statement")>>,
        <<AsBase("StatementNode"), Sub("condition", "Node"), Sub("statement", "StatementNode")>>,
        <<Child("condition"), Child("statement"), Maybe("labelNode")>>,
        <<SeeIf("condition", {"expressions"}), SeeIf("statement", {"content"})>>)]

DoLayout == [
    DoStatementNode |-> Row(
        <<AsBase("StatementNode"), Child("statement"), Child("condition")>>,
        <<AsBase("StatementNode"), Sub("statement", "StatementNode"), Sub("condition", "Node")>>,
        <<Child("statement"), Child("condition"), Maybe("labelNode")>>,
        <<SeeIf("statement", {"content"}), SeeIf("condition", {"expressions"})>>)]

ForLayout == [
    ForStatementNode |-> Row(
        <<AsBase("StatementNode"), Child("init"), Maybe("condition"), Maybe("increment"), Child("action")>>,
        <<AsBase("StatementNode"), Sub("init", "StatementNode"), Opt("condition", "Node"), Opt("increment",
            "Node"), Sub("action", "StatementNode")>>,
        <<Maybe("condition"), Maybe("increment"), Child("init"), Child("action"), Maybe("labelNode")>>,
        <<SeeIf("init", {"content"}), SeeIf("condition", {"expressions"}), SeeIf("increment",
            {"expressions"}), SeeIf("action", {"content"})>>)]

CompoundLayouts == [
    RangeForStatementNode |-> Row(
        <<AsBase("StatementNode"), Child("varTypeExpr"), Child("varId"), Child("container"),
            Child("action")>>,
        <<AsBase("StatementNode"), Sub("varTypeExpr", "Node"), Sub("varId", "IdentifierNode"),
            Sub("container", "Node"), Sub("action", "StatementNode")>>,
        <<Child("varTypeExpr"), Child("varId"), Child("container"), Child("action"), Maybe("labelNode")>>,
        <<SeeIf("container", {"expressions"})>>),
    CompoundStatementNode |-> Row(
        <<AsBase("StatementNode"), Each("statements"), Value("beginBraceSpan"), Value("endBraceSpan")>>,
        <<AsBase("StatementNode"), Each("statements"), Get("beginBraceSpan", "Span"), Get("endBraceSpan",
            "Span")>>,
        <<Each("statements"), Value("beginBraceSpan"), Value("endBraceSpan"), Maybe("labelNode")>>,
        <<SeeIf("statements", {"content"})>>)]

JumpLayouts == [
    BreakStatementNode |-> Inherits(<<Maybe("labelNode")>>, <<>>),
    ContinueStatementNode |-> Inherits(<<Maybe("labelNode")>>, <<>>),
    GotoStatementNode |-> Row(
        <<AsBase("StatementNode"), Child("target"), Value("isExceptionHandlingGoto")>>,
        <<AsBase("StatementNode"), Sub("target", "LabelNode"), Get("isExceptionHandlingGoto", "Bool")>>,
        <<Child("target"), Value("isExceptionHandlingGoto"), Maybe("labelNode")>>, <<>>),
    TypedefStatementNode |-> Row(
        <<AsBase("StatementNode"), Child("typeExpr"), Child("id")>>,
        <<AsBase("StatementNode"), Sub("typeExpr", "Node"), Sub("id", "IdentifierNode")>>,
        <<Child("typeExpr"), Child("id"), Maybe("labelNode")>>, <<>>)]

AssignmentLayouts == [
    AssignmentStatementNode |-> Row(
        <<AsBase("StatementNode"), Child("targetExpr"), Child("sourceExpr")>>,
        <<AsBase("StatementNode"), Sub("targetExpr", "Node"), Sub("sourceExpr", "Node")>>,
        <<Child("targetExpr"), Child("sourceExpr"), Maybe("labelNode")>>,
        <<SeeIf("targetExpr", {"expressions"}), SeeIf("sourceExpr", {"expressions"})>>),
    ConstructionStatementNode |-> Row(
        <<AsBase("StatementNode"), Child("typeExpr"), Child("id"), Each("arguments")>>,
        <<AsBase("StatementNode"), Sub("typeExpr", "Node"), Sub("id", "IdentifierNode"),
            Each("arguments")>>,
        <<Child("typeExpr"), Child("id"), Each("arguments"), Maybe("labelNode")>>,
        <<SeeIf("arguments", {"expressions", "arguments"})>>)]

DeleteLayouts == [
    DeleteStatementNode |-> Row(
        <<AsBase("StatementNode"), Child("pointerExpr")>>,
        <<AsBase("StatementNode"), Sub("pointerExpr", "Node")>>,
        <<Child("pointerExpr"), Maybe("labelNode")>>, <<SeeIf("pointerExpr", {"expressions"})>>),
    DestroyStatementNode |-> Row(
        <<AsBase("StatementNode"), Child("pointerExpr")>>,
        <<AsBase("StatementNode"), Sub("pointerExpr", "Node")>>,
        <<Child("pointerExpr"), Maybe("labelNode")>>, <<SeeIf("pointerExpr", {"expressions"})>>),
    ThrowStatementNode |-> Row(
        <<AsBase("StatementNode"), Child("exceptionExpr")>>,
        <<AsBase("StatementNode"), Sub("exceptionExpr", "Node")>>,
        <<Child("exceptionExpr"), Maybe("labelNode")>>, <<SeeIf("exceptionExpr", {"expressions"})>>)]

TryLayout == [
    TryStatementNode |-> Row(
        <<AsBase("StatementNode"), Child("tryBlock"), Each("handlers")>>,
        <<AsBase("StatementNode"), Sub("tryBlock", "CompoundStatementNode"), Each("handlers")>>,
        <<Child("tryBlock"), Each("handlers"), Maybe("labelNode")>>, <<>>)]

CatchLayouts == [
    CatchNode |-> Row(
        <<Child("exceptionTypeExpr"), Maybe("exceptionId"), Child("catchBlock"), Value("catchId")>>,
        <<Sub("exceptionTypeExpr", "Node"), Opt("exceptionId", "IdentifierNode"), Sub("catchBlock",
            "CompoundStatementNode"), Get("catchId", "Int")>>,
        <<Maybe("exceptionId"), Child("exceptionTypeExpr"), Child("catchBlock"), Value("catchId")>>, <<>>),
    ExitTryStatementNode |-> Inherits(<<Fails>>, <<>>),
    BeginCatchStatementNode |-> Inherits(<<Fails>>, <<>>),
    AssertStatementNode |-> Row(
        <<AsBase("StatementNode"), Child("assertExpr")>>,
        <<AsBase("StatementNode"), Sub("assertExpr", "Node")>>,
        <<Child("assertExpr"), Maybe("labelNode")>>, <<>>)]

CondCompExprLayouts == [
    CondCompSymbolNode |-> Row(<<Value("symbol")>>, <<Get("symbol", "String")>>, <<Value("symbol")>>, <<>>),
    CondCompBinExprNode |-> Part(
        <<Child("left"), Child("right")>>,
        <<Sub("left", "CondCompExprNode"), Sub("right", "CondCompExprNode")>>),
    CondCompDisjunctionNode |-> Operator, CondCompConjunctionNode |-> Operator]

CondCompNotLayouts == [
    CondCompNotNode |-> Row(
        <<Child("subject")>>, <<Sub("subject", "CondCompExprNode")>>, <<Child("subject")>>,
        <<See("subject")>>),
    CondCompPrimaryNode |-> Row(
        <<Child("symbolNode")>>, <<Sub("symbolNode", "CondCompSymbolNode")>>, <<Child("symbolNode")>>,
        <<>>)]

CondCompPartLayout == [
    CondCompilationPartNode |-> Row(
        <<Maybe("expr"), Each("statements")>>, <<Opt("expr", "CondCompExprNode"), Each("statements")>>,
        <<Maybe("expr"), Each("statements")>>, <<See("statements")>>)]

CondCompLayout == [
    CondCompStatementNode |-> Row(
        <<AsBase("StatementNode"), Child("ifPart"), Each("elifParts"), Maybe("elsePart")>>,
        <<AsBase("StatementNode"), Sub("ifPart", "CondCompilationPartNode"), Each("elifParts"), Opt("elsePart",
            "CondCompilationPartNode")>>,
        <<Child("ifPart"), Each("elifParts"), Maybe("elsePart"), Maybe("labelNode")>>, <<>>)]

TemplateLayouts == [
    TemplateParameterNode |-> Row(
        <<Child("id"), Maybe("defaultTemplateArgument")>>,
        <<Sub("id", "IdentifierNode"), Opt("defaultTemplateArgument", "Node")>>,
        <<Maybe("defaultTemplateArgument"), Child("id")>>, <<>>),
    TemplateIdNode |-> Row(
        <<Child("subject"), Each("templateArguments")>>,
        <<Sub("subject", "Node"), Each("templateArguments")>>,
        <<Child("subject"), Each("templateArguments")>>, <<>>)]

DerivedTypeLayout == [
    DerivedTypeExprNode |-> Row(
        <<Value("derivations"), Child("baseTypeExprNode"), Few("arrayDimensionNodes")>>,
        <<Get("derivations", "DerivationList"), Sub("baseTypeExprNode", "Node"),
            Few("arrayDimensionNodes")>>,
        <<Value("derivations"), Child("baseTypeExprNode"), Each("arrayDimensionNodes")>>, <<>>)]

TypedefLayout == [
    TypedefNode |-> Row(
        <<Value("specifiers"), Child("typeExpr"), Child("id")>>,
        <<Get("specifiers", "Specifiers"), Sub("typeExpr", "Node"), Sub("id", "IdentifierNode")>>,
        <<Value("specifiers"), Child("typeExpr"), Child("id")>>, <<>>)]

-----------------------------------------------------------------------------
(* The layouts as one table.  A function a class does not define is the one  *)
(* of its base class; a step AsBase is the base class's function called from *)
(* the class's own.                                                          *)

Layouts == 
  BasicTypeLayouts @@ LastBasicTypeLayouts @@ ClassLayout @@ InitializerLayouts @@ StaticConstructorLayout @@
  ConstructorLayout @@ DestructorLayout @@ MemberFunctionLayout @@ ConversionLayouts @@ CompileUnitLayout @@
  CompoundConstraintLayouts @@ SimpleConstraintLayouts @@ ParameterConstraintLayouts @@ SignatureLayouts @@
  FunctionConstraintLayouts @@ AxiomLayouts @@ ConceptLayouts @@ ConstantLayout @@ DelegateLayouts @@ EnumLayouts @@
  LogicalLayouts @@ RelationalLayouts @@ ArithmeticLayouts @@ InvokeLayouts @@ DotLayouts @@ UnaryLayouts @@
  PrefixLayouts @@ CastLayouts @@ NewLayouts @@ FunctionGroupIdLayout @@ FunctionLayout @@ IdentifierLayout @@
  InterfaceLayout @@ IntrinsicLayouts @@ SmallLiteralLayouts @@ LargeLiteralLayouts @@ FloatingLiteralLayouts @@
  TextLiteralLayouts @@ NullLiteralLayout @@ NamespaceLayout @@ UsingLayouts @@ RootLayouts @@ BinaryLayout @@
  ParameterLayout @@ LabelLayouts @@ ReturnLayout @@ ConditionalLayout @@ SwitchLayout @@ CaseLayouts @@ WhileLayouts @@
  DoLayout @@ ForLayout @@ CompoundLayouts @@ JumpLayouts @@ AssignmentLayouts @@ DeleteLayouts @@ TryLayout @@
  CatchLayouts @@ CondCompExprLayouts @@ CondCompNotLayouts @@ CondCompPartLayout @@ CondCompLayout @@
  TemplateLayouts @@ DerivedTypeLayout @@ TypedefLayout

\* The row of a class, empty if it defines none of the functions.
RowOf(c) == (Layouts @@ (c :> [f \in {} |-> <<>>]))[c]

RECURSIVE Steps(_, _), StepsOf(_, _, _)
StepsOf(row, c, f) ==
  IF f \in DOMAIN row
  THEN FlattenSeq([i \in DOMAIN row[f] |-> IF row[f][i].do = "base" THEN Steps(row[f][i].by, f) ELSE <<row[f][i]>>])
  ELSE IF Classes[c].base = "" THEN <<>> ELSE Steps(Classes[c].base, f)
Steps(c, f) == StepsOf(RowOf(c), c, f)

Writes == [c \in DOMAIN Classes |-> Steps(c, "writes")]
Reads  == [c \in DOMAIN Classes |-> Steps(c, "reads")]
Clones == [c \in DOMAIN Classes |-> Steps(c, "clones")]
Walks  == [c \in DOMAIN Classes |-> Steps(c, "walks")]
=============================================================================

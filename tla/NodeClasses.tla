---------------------------- MODULE NodeClasses -----------------------------
(***************************************************************************)
(* The classes of the abstract syntax tree (src/Cm.Ast/*.hpp): for each    *)
(* class its base class, the NodeType its GetNodeType returns and the data *)
(* members that hold values (strings, numbers, specifiers, spans), child   *)
(* nodes or lists of nodes.  A class with the type "" inherits it.         *)
(*                                                                         *)
(* Predicates, ranks and printing are left out, and so are the pointers to *)
(* a compile unit, which are neither written to a library nor copied.      *)
(***************************************************************************)
EXTENDS Naturals, Sequences, FiniteSets, TLC

Class(base, nodeType, members) == [base |-> base, type |-> nodeType, members |-> members]

ValueOf(type) == [kind |-> "value", of |-> type]
NodeOf(class) == [kind |-> "node", of |-> class]
ListOf(class) == [kind |-> "list", of |-> class]
NoMembers == [m \in {} |-> ValueOf("")]

Plain(nodeType)     == Class("Node", nodeType, NoMembers)
Unary(nodeType)     == Class("UnaryNode", nodeType, NoMembers)
Binary(nodeType)    == Class("BinaryNode", nodeType, NoMembers)
Statement(nodeType) == Class("StatementNode", nodeType, NoMembers)

BasicTypeNodes == [
    BoolNode |-> Plain("boolNode"), SByteNode |-> Plain("sbyteNode"), ByteNode |-> Plain("byteNode"),
    ShortNode |-> Plain("shortNode"), UShortNode |-> Plain("ushortNode"), IntNode |-> Plain("intNode"),
    UIntNode |-> Plain("uintNode"), LongNode |-> Plain("longNode"), ULongNode |-> Plain("ulongNode"),
    FloatNode |-> Plain("floatNode"), DoubleNode |-> Plain("doubleNode"), CharNode |-> Plain("charNode"),
    WCharNode |-> Plain("wcharNode")]

LastBasicTypeNodes == [
    UCharNode |-> Plain("ucharNode"), VoidNode |-> Plain("voidNode")]

ClassNodes == [
    ClassNode |-> Class("Node", "classNode",
        [specifiers |-> ValueOf("Specifiers"), id |-> NodeOf("IdentifierNode"),
         templateParameters |-> ListOf("TemplateParameterNode"),
         baseClassOrImplIntfTypeExprs |-> ListOf("Node"), constraint |-> NodeOf("WhereConstraintNode"),
         members |-> ListOf("Node")]),
    InitializerNode |-> Class("Node", "", [arguments |-> ListOf("Node")]),
    MemberInitializerNode |-> Class("InitializerNode", "memberInitializerNode",
        [memberId |-> NodeOf("IdentifierNode")]),
    BaseInitializerNode |-> Class("InitializerNode", "baseInitializerNode", NoMembers),
    ThisInitializerNode |-> Class("InitializerNode", "thisInitializerNode", NoMembers),
    StaticConstructorNode |-> Class("FunctionNode", "staticConstructorNode",
        [initializers |-> ListOf("InitializerNode")]),
    ConstructorNode |-> Class("FunctionNode", "constructorNode",
        [initializers |-> ListOf("InitializerNode")])]

MemberNodes == [
    DestructorNode |-> Class("FunctionNode", "destructorNode", NoMembers),
    MemberFunctionNode |-> Class("FunctionNode", "memberFunctionNode", [isConst |-> ValueOf("bool")]),
    ConversionFunctionNode |-> Class("MemberFunctionNode", "conversionFunctionNode", NoMembers),
    MemberVariableNode |-> Class("Node", "memberVariableNode",
        [specifiers |-> ValueOf("Specifiers"), typeExpr |-> NodeOf("Node"), id |-> NodeOf("IdentifierNode")])]

CompileUnitNodes == [
    CompileUnitNode |-> Class("Node", "compileUnitNode",
        [filePath |-> ValueOf("string"), globalNs |-> NodeOf("NamespaceNode")])]

ConstraintNodes == [
    ConstraintNode |-> Class("Node", "", NoMembers),
    BinaryConstraintNode |-> Class("ConstraintNode", "",
        [left |-> NodeOf("ConstraintNode"), right |-> NodeOf("ConstraintNode")]),
    DisjunctiveConstraintNode |-> Class("BinaryConstraintNode", "disjunctiveConstraintNode", NoMembers),
    ConjunctiveConstraintNode |-> Class("BinaryConstraintNode", "conjunctiveConstraintNode", NoMembers),
    WhereConstraintNode |-> Class("ConstraintNode", "whereConstraintNode",
        [constraint |-> NodeOf("ConstraintNode")]),
    PredicateConstraintNode |-> Class("ConstraintNode", "predicateConstraintNode",
        [invokeExpr |-> NodeOf("Node")]),
    IsConstraintNode |-> Class("ConstraintNode", "isConstraintNode",
        [typeExpr |-> NodeOf("Node"), conceptOrTypeName |-> NodeOf("Node")]),
    MultiParamConstraintNode |-> Class("ConstraintNode", "multiParamConstraintNode",
        [conceptId |-> NodeOf("IdentifierNode"), typeExprNodes |-> ListOf("Node")])]

SignatureNodes == [
    TypenameConstraintNode |-> Class("ConstraintNode", "typenameConstraintNode",
        [typeId |-> NodeOf("Node")]),
    SignatureConstraintNode |-> Class("ConstraintNode", "", NoMembers),
    ConstructorConstraintNode |-> Class("SignatureConstraintNode", "constructorConstraintNode",
        [typeParamId |-> NodeOf("IdentifierNode"), parameters |-> ListOf("ParameterNode")]),
    DestructorConstraintNode |-> Class("SignatureConstraintNode", "destructorConstraintNode",
        [typeParamId |-> NodeOf("IdentifierNode")]),
    MemberFunctionConstraintNode |-> Class("SignatureConstraintNode", "memberFunctionConstraintNode",
        [returnTypeExpr |-> NodeOf("Node"), typeParamId |-> NodeOf("IdentifierNode"),
         functionGroupId |-> NodeOf("FunctionGroupIdNode"), parameters |-> ListOf("ParameterNode")]),
    FunctionConstraintNode |-> Class("SignatureConstraintNode", "functionConstraintNode",
        [returnTypeExpr |-> NodeOf("Node"), functionGroupId |-> NodeOf("FunctionGroupIdNode"),
         parameters |-> ListOf("ParameterNode")]),
    AxiomStatementNode |-> Class("Node", "axiomStatementNode",
        [expression |-> NodeOf("Node"), text |-> ValueOf("string")]),
    AxiomNode |-> Class("Node", "axiomNode",
        [id |-> NodeOf("IdentifierNode"), parameters |-> ListOf("ParameterNode"),
         axiomStatements |-> ListOf("AxiomStatementNode")])]

ConceptNodes == [
    ConceptIdNode |-> Class("Node", "conceptIdNode",
        [id |-> NodeOf("IdentifierNode"), typeParameters |-> ListOf("Node")]),
    ConceptNode |-> Class("Node", "conceptNode",
        [specifiers |-> ValueOf("Specifiers"), id |-> NodeOf("IdentifierNode"), typeParameters |-> ListOf("Node"),
         refinement |-> NodeOf("ConceptIdNode"), constraints |-> ListOf("ConstraintNode"),
         axioms |-> ListOf("Node")]),
    CCConstraintNode |-> Class("ConstraintNode", "ccConstraintNode", [node |-> NodeOf("Node")])]

ConstantNodes == [
    ConstantNode |-> Class("Node", "constantNode",
        [specifiers |-> ValueOf("Specifiers"), typeExpr |-> NodeOf("Node"), id |-> NodeOf("IdentifierNode"),
         value |-> NodeOf("Node")])]

DelegateNodes == [
    DelegateNode |-> Class("Node", "delegateNode",
        [specifiers |-> ValueOf("Specifiers"), returnTypeExpr |-> NodeOf("Node"), id |-> NodeOf("IdentifierNode"),
         parameters |-> ListOf("ParameterNode")]),
    ClassDelegateNode |-> Class("Node", "classDelegateNode",
        [specifiers |-> ValueOf("Specifiers"), returnTypeExpr |-> NodeOf("Node"), id |-> NodeOf("IdentifierNode"),
         parameters |-> ListOf("ParameterNode")])]

EnumNodes == [
    EnumTypeNode |-> Class("Node", "enumTypeNode",
        [specifiers |-> ValueOf("Specifiers"), id |-> NodeOf("IdentifierNode"), underlyingType |-> NodeOf("Node"),
         constants |-> ListOf("Node")]),
    EnumConstantNode |-> Class("Node", "enumConstantNode",
        [id |-> NodeOf("IdentifierNode"), value |-> NodeOf("Node")])]

LogicalNodes == [
    EquivalenceNode |-> Binary("equivalenceNode"), ImplicationNode |-> Binary("implicationNode"),
    DisjunctionNode |-> Binary("disjunctionNode"), ConjunctionNode |-> Binary("conjunctionNode"),
    BitOrNode |-> Binary("bitOrNode"), BitXorNode |-> Binary("bitXorNode"),
    BitAndNode |-> Binary("bitAndNode"), EqualNode |-> Binary("equalNode"),
    NotEqualNode |-> Binary("notEqualNode"), LessNode |-> Binary("lessNode"),
    GreaterNode |-> Binary("greaterNode"), LessOrEqualNode |-> Binary("lessOrEqualNode")]

ArithmeticNodes == [
    GreaterOrEqualNode |-> Binary("greaterOrEqualNode"), ShiftLeftNode |-> Binary("shiftLeftNode"),
    ShiftRightNode |-> Binary("shiftRightNode"), AddNode |-> Binary("addNode"),
    SubNode |-> Binary("subNode"), MulNode |-> Binary("mulNode"), DivNode |-> Binary("divNode"),
    RemNode |-> Binary("remNode"),
    InvokeNode |-> Class("UnaryNode", "invokeNode", [arguments |-> ListOf("Node")]),
    IndexNode |-> Class("UnaryNode", "indexNode", [index |-> NodeOf("Node")])]

UnaryNodes == [
    DotNode |-> Class("UnaryNode", "dotNode", [memberId |-> NodeOf("Node")]),
    ArrowNode |-> Class("UnaryNode", "arrowNode", [memberId |-> NodeOf("Node")]),
    PostfixIncNode |-> Unary("postfixIncNode"), PostfixDecNode |-> Unary("postfixDecNode"),
    DerefNode |-> Unary("derefNode"), AddrOfNode |-> Unary("addrOfNode"), NotNode |-> Unary("notNode"),
    UnaryPlusNode |-> Unary("unaryPlusNode"), UnaryMinusNode |-> Unary("unaryMinusNode"),
    ComplementNode |-> Unary("complementNode"), PrefixIncNode |-> Unary("prefixIncNode")]

ConversionNodes == [
    PrefixDecNode |-> Unary("prefixDecNode"), SizeOfNode |-> Unary("sizeOfNode"),
    TypeNameNode |-> Unary("typeNameNode"),
    CastNode |-> Class("Node", "castNode",
        [targetTypeExpr |-> NodeOf("Node"), sourceExpr |-> NodeOf("Node")]),
    IsNode |-> Class("Node", "isNode", [expr |-> NodeOf("Node"), typeExpr |-> NodeOf("Node")]),
    AsNode |-> Class("Node", "isNode", [expr |-> NodeOf("Node"), typeExpr |-> NodeOf("Node")]),
    NewNode |-> Class("Node", "newNode", [typeExpr |-> NodeOf("Node"), arguments |-> ListOf("Node")]),
    ConstructNode |-> Class("Node", "constructNode",
        [typeExpr |-> NodeOf("Node"), arguments |-> ListOf("Node")]),
    ThisNode |-> Plain("thisNode"), BaseNode |-> Plain("baseNode")]

CCNodes == [
    CCNode |-> Plain("ccNode")]

FunctionNodes == [
    FunctionGroupIdNode |-> Class("Node", "functionGroupIdNode", [functionGroupId |-> ValueOf("string")]),
    FunctionNode |-> Class("Node", "functionNode",
        [specifiers |-> ValueOf("Specifiers"), returnTypeExpr |-> NodeOf("Node"),
         groupId |-> NodeOf("FunctionGroupIdNode"), templateParameters |-> ListOf("TemplateParameterNode"),
         parameters |-> ListOf("ParameterNode"), constraint |-> NodeOf("WhereConstraintNode"),
         body |-> NodeOf("CompoundStatementNode"), bodySource |-> NodeOf("CompoundStatementNode")])]

IdentifierNodes == [
    IdentifierNode |-> Class("Node", "identifierNode", [identifier |-> ValueOf("string")])]

InterfaceNodes == [
    InterfaceNode |-> Class("Node", "interfaceNode",
        [specifiers |-> ValueOf("Specifiers"), id |-> NodeOf("IdentifierNode"), members |-> ListOf("Node")])]

IntrinsicNodes == [
    IntrinsicConstraintNode |-> Class("ConstraintNode", "intrinsicConstraintNode", NoMembers),
    SameConstraintNode |-> Class("IntrinsicConstraintNode", "", NoMembers),
    DerivedConstraintNode |-> Class("IntrinsicConstraintNode", "", NoMembers),
    ConvertibleConstraintNode |-> Class("IntrinsicConstraintNode", "", NoMembers),
    ExplicitlyConvertibleConstraintNode |-> Class("IntrinsicConstraintNode", "", NoMembers),
    CommonConstraintNode |-> Class("IntrinsicConstraintNode", "", NoMembers),
    NonReferenceTypeConstraintNode |-> Class("IntrinsicConstraintNode", "", NoMembers),
    SameConceptNode |-> Class("ConceptNode", "", NoMembers),
    DerivedConceptNode |-> Class("ConceptNode", "", NoMembers),
    ConvertibleConceptNode |-> Class("ConceptNode", "", NoMembers),
    ExplicitlyConvertibleConceptNode |-> Class("ConceptNode", "", NoMembers),
    CommonConceptNode |-> Class("ConceptNode", "", NoMembers),
    NonReferenceTypeConceptNode |-> Class("ConceptNode", "", NoMembers)]

IntegerLiteralNodes == [
    BooleanLiteralNode |-> Class("Node", "booleanLiteralNode", [value |-> ValueOf("bool")]),
    SByteLiteralNode |-> Class("Node", "sbyteLiteralNode", [value |-> ValueOf("int8")]),
    ByteLiteralNode |-> Class("Node", "byteLiteralNode", [value |-> ValueOf("uint8")]),
    ShortLiteralNode |-> Class("Node", "shortLiteralNode", [value |-> ValueOf("int16")]),
    UShortLiteralNode |-> Class("Node", "ushortLiteralNode", [value |-> ValueOf("uint16")]),
    IntLiteralNode |-> Class("Node", "intLiteralNode", [value |-> ValueOf("int32")]),
    UIntLiteralNode |-> Class("Node", "uintLiteralNode", [value |-> ValueOf("uint32")]),
    LongLiteralNode |-> Class("Node", "longLiteralNode", [value |-> ValueOf("int64")]),
    ULongLiteralNode |-> Class("Node", "ulongLiteralNode", [value |-> ValueOf("uint64")])]

OtherLiteralNodes == [
    FloatLiteralNode |-> Class("Node", "floatLiteralNode", [value |-> ValueOf("float")]),
    DoubleLiteralNode |-> Class("Node", "doubleLiteralNode", [value |-> ValueOf("double")]),
    CharLiteralNode |-> Class("Node", "charLiteralNode", [value |-> ValueOf("char")]),
    StringLiteralNode |-> Class("Node", "stringLiteralNode", [value |-> ValueOf("string")]),
    WStringLiteralNode |-> Class("Node", "wstringLiteralNode", [value |-> ValueOf("string")]),
    UStringLiteralNode |-> Class("Node", "ustringLiteralNode", [value |-> ValueOf("string")]),
    NullLiteralNode |-> Plain("nullLiteralNode")]

NamespaceNodes == [
    NamespaceNode |-> Class("Node", "namespaceNode",
        [id |-> NodeOf("IdentifierNode"), members |-> ListOf("Node")]),
    AliasNode |-> Class("Node", "aliasNode",
        [id |-> NodeOf("IdentifierNode"), qid |-> NodeOf("IdentifierNode")]),
    NamespaceImportNode |-> Class("Node", "namespaceImportNode", [ns |-> NodeOf("IdentifierNode")])]

BaseNodes == [
    Node |-> Class("", "", NoMembers), UnaryNode |-> Class("Node", "", [child |-> NodeOf("Node")]),
    BinaryNode |-> Class("Node", "", [left |-> NodeOf("Node"), right |-> NodeOf("Node")])]

ParameterNodes == [
    ParameterNode |-> Class("Node", "parameterNode",
        [typeExpr |-> NodeOf("Node"), id |-> NodeOf("IdentifierNode")])]

BranchNodes == [
    LabelNode |-> Class("Node", "labelNode", [label |-> ValueOf("string")]),
    StatementNode |-> Class("Node", "", [labelNode |-> NodeOf("LabelNode")]),
    SimpleStatementNode |-> Class("StatementNode", "simpleStatementNode", [expr |-> NodeOf("Node")]),
    ReturnStatementNode |-> Class("StatementNode", "returnStatementNode", [expr |-> NodeOf("Node")]),
    ConditionalStatementNode |-> Class("StatementNode", "conditionalStatementNode",
        [condition |-> NodeOf("Node"), thenS |-> NodeOf("StatementNode"), elseS |-> NodeOf("StatementNode")]),
    SwitchStatementNode |-> Class("StatementNode", "switchStatementNode",
        [condition |-> NodeOf("Node"), caseStatements |-> ListOf("StatementNode"),
         defaultStatement |-> NodeOf("StatementNode")]),
    CaseStatementNode |-> Class("StatementNode", "caseStatementNode",
        [expressions |-> ListOf("Node"), statements |-> ListOf("StatementNode")])]

LoopNodes == [
    DefaultStatementNode |-> Class("StatementNode", "defaultStatementNode",
        [statements |-> ListOf("StatementNode")]),
    GotoCaseStatementNode |-> Class("StatementNode", "gotoCaseStatementNode",
        [targetCaseExpr |-> NodeOf("Node")]),
    GotoDefaultStatementNode |-> Statement("gotoDefaultStatementNode"),
    WhileStatementNode |-> Class("StatementNode", "whileStatementNode",
        [condition |-> NodeOf("Node"), statement |-> NodeOf("StatementNode")]),
    DoStatementNode |-> Class("StatementNode", "doStatementNode",
        [statement |-> NodeOf("StatementNode"), condition |-> NodeOf("Node")]),
    ForStatementNode |-> Class("StatementNode", "forStatementNode",
        [init |-> NodeOf("StatementNode"), condition |-> NodeOf("Node"), increment |-> NodeOf("Node"),
         action |-> NodeOf("StatementNode")]),
    RangeForStatementNode |-> Class("StatementNode", "rangeForStatementNode",
        [varTypeExpr |-> NodeOf("Node"), varId |-> NodeOf("IdentifierNode"), container |-> NodeOf("Node"),
         action |-> NodeOf("StatementNode")])]

SimpleStatementNodes == [
    CompoundStatementNode |-> Class("StatementNode", "compoundStatementNode",
        [statements |-> ListOf("StatementNode"), beginBraceSpan |-> ValueOf("Span"),
         endBraceSpan |-> ValueOf("Span")]),
    BreakStatementNode |-> Statement("breakStatementNode"),
    ContinueStatementNode |-> Statement("continueStatementNode"),
    GotoStatementNode |-> Class("StatementNode", "gotoStatementNode",
        [target |-> NodeOf("LabelNode"), isExceptionHandlingGoto |-> ValueOf("bool")]),
    TypedefStatementNode |-> Class("StatementNode", "typedefStatementNode",
        [typeExpr |-> NodeOf("Node"), id |-> NodeOf("IdentifierNode")]),
    AssignmentStatementNode |-> Class("StatementNode", "assignmentStatementNode",
        [targetExpr |-> NodeOf("Node"), sourceExpr |-> NodeOf("Node")]),
    ConstructionStatementNode |-> Class("StatementNode", "constructionStatementNode",
        [typeExpr |-> NodeOf("Node"), id |-> NodeOf("IdentifierNode"), arguments |-> ListOf("Node")]),
    DeleteStatementNode |-> Class("StatementNode", "deleteStatementNode", [pointerExpr |-> NodeOf("Node")])]

HandlerNodes == [
    DestroyStatementNode |-> Class("StatementNode", "destroyStatementNode",
        [pointerExpr |-> NodeOf("Node")]),
    ThrowStatementNode |-> Class("StatementNode", "throwStatementNode", [exceptionExpr |-> NodeOf("Node")]),
    TryStatementNode |-> Class("StatementNode", "tryStatementNode",
        [tryBlock |-> NodeOf("CompoundStatementNode"), handlers |-> ListOf("Node")]),
    CatchNode |-> Class("Node", "catchNode",
        [exceptionTypeExpr |-> NodeOf("Node"), exceptionId |-> NodeOf("IdentifierNode"),
         catchBlock |-> NodeOf("CompoundStatementNode"), catchId |-> ValueOf("int32")]),
    ExitTryStatementNode |-> Statement("exitTryNode"),
    BeginCatchStatementNode |-> Statement("beginCatchStatementNode"),
    AssertStatementNode |-> Class("StatementNode", "assertStatementNode", [assertExpr |-> NodeOf("Node")]),
    CondCompSymbolNode |-> Class("Node", "condCompSymbolNode", [symbol |-> ValueOf("string")]),
    CondCompExprNode |-> Class("Node", "", NoMembers)]

CondCompNodes == [
    CondCompBinExprNode |-> Class("CondCompExprNode", "",
        [left |-> NodeOf("CondCompExprNode"), right |-> NodeOf("CondCompExprNode")]),
    CondCompDisjunctionNode |-> Class("CondCompBinExprNode", "condCompDisjunctionNode", NoMembers),
    CondCompConjunctionNode |-> Class("CondCompBinExprNode", "condCompConjunctionNode", NoMembers),
    CondCompNotNode |-> Class("CondCompExprNode", "condCompNotNode",
        [subject |-> NodeOf("CondCompExprNode")]),
    CondCompPrimaryNode |-> Class("CondCompExprNode", "condCompPrimaryNode",
        [symbolNode |-> NodeOf("CondCompSymbolNode")]),
    CondCompilationPartNode |-> Class("Node", "condCompilationPartNode",
        [expr |-> NodeOf("CondCompExprNode"), statements |-> ListOf("StatementNode")]),
    CondCompStatementNode |-> Class("StatementNode", "condCompStatementNode",
        [ifPart |-> NodeOf("CondCompilationPartNode"), elifParts |-> ListOf("CondCompilationPartNode"),
         elsePart |-> NodeOf("CondCompilationPartNode")])]

TemplateNodes == [
    TemplateParameterNode |-> Class("Node", "templateParameterNode",
        [id |-> NodeOf("IdentifierNode"), defaultTemplateArgument |-> NodeOf("Node")]),
    TemplateIdNode |-> Class("Node", "templateIdNode",
        [subject |-> NodeOf("Node"), templateArguments |-> ListOf("Node")])]

DerivedTypeNodes == [
    DerivedTypeExprNode |-> Class("Node", "derivedTypeExprNode",
        [derivations |-> ValueOf("DerivationList"), baseTypeExprNode |-> NodeOf("Node"),
         arrayDimensionNodes |-> ListOf("Node")])]

TypedefNodes == [
    TypedefNode |-> Class("Node", "typedefNode",
        [specifiers |-> ValueOf("Specifiers"), typeExpr |-> NodeOf("Node"), id |-> NodeOf("IdentifierNode")])]

-----------------------------------------------------------------------------
(* The class hierarchy as one table, and what a class inherits. *)

Classes == 
  BasicTypeNodes @@ LastBasicTypeNodes @@ ClassNodes @@ MemberNodes @@ CompileUnitNodes @@ ConstraintNodes @@
  SignatureNodes @@ ConceptNodes @@ ConstantNodes @@ DelegateNodes @@ EnumNodes @@ LogicalNodes @@ ArithmeticNodes @@
  UnaryNodes @@ ConversionNodes @@ CCNodes @@ FunctionNodes @@ IdentifierNodes @@ InterfaceNodes @@ IntrinsicNodes @@
  IntegerLiteralNodes @@ OtherLiteralNodes @@ NamespaceNodes @@ BaseNodes @@ ParameterNodes @@ BranchNodes @@
  LoopNodes @@ SimpleStatementNodes @@ HandlerNodes @@ CondCompNodes @@ TemplateNodes @@ DerivedTypeNodes @@
  TypedefNodes

RECURSIVE Ancestors(_)
Ancestors(c) == IF c = "" THEN {} ELSE {c} \cup Ancestors(Classes[c].base)

IsA == [c \in DOMAIN Classes |-> Ancestors(c)]

RECURSIVE InheritedType(_)
InheritedType(row) == IF row.type # "" \/ row.base = "" THEN row.type ELSE InheritedType(Classes[row.base])

NodeType == [c \in DOMAIN Classes |-> InheritedType(Classes[c])]

RECURSIVE AllMembers(_)
AllMembers(row) == row.members @@ (IF row.base = "" THEN NoMembers ELSE AllMembers(Classes[row.base]))

Members == [c \in DOMAIN Classes |-> AllMembers(Classes[c])]

(* The factory (Factory.cpp): the class created for a node type read from a  *)
(* library.  Every type is registered with the class that has it; asNode is  *)
(* registered with AsNode, although an AsNode says that its type is isNode.  *)
Unregistered == {"exitTryNode", "beginCatchStatementNode", "ccConstraintNode", "intrinsicConstraintNode"}

CreatorsOf(classes) ==
  ("asNode" :> "AsNode") @@
  [t \in {classes[c].type : c \in DOMAIN classes} \ (Unregistered \cup {""}) |->
     CHOOSE c \in DOMAIN classes \ {"AsNode"} : classes[c].type = t]
Creates == CreatorsOf(Classes)
=============================================================================

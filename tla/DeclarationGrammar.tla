------------------------- MODULE DeclarationGrammar -------------------------
(*****************************************************************************)
(* The declarations of the language: functions, classes, interfaces,         *)
(* delegates, enumerations, constants, concepts, and the compile unit.       *)
(*****************************************************************************)
EXTENDS StatementGrammar

SpecifierWords ==
  {"public", "protected", "private", "internal", "static", "virtual", "override", "abstract",
   "suppress", "default", "explicit", "extern", "inline", "constexpr", "cdecl", "nothrow", "throw",
   "new", "unit_test"}

(* A constructor or destructor bears the name of its class, a constraint on *)
(* construction that of the first type parameter: in the texts, these words. *)
ClassNames     == {"C"}
TypeParameters == {"T"}
Owned(S)       == Token(Diff(OneOf(S), OneOf(Keywords)))
ClassName      == Owned(ClassNames)
TypeParameter  == Owned(TypeParameters)

(* Specifiers one of which is static. *)
StaticSpecifiers ==
  Cat(<<Star(AnyKey(SpecifierWords \ {"static"})), Key("static"), R("Specifiers")>>)

(* Passes only after the completion character was parsed. *)
Completed == Do(<<Pass("completion")>>, Empty)

(* SpecifierGrammar *)
Specifiers == Star(R("Specifier"))
Specifier == AnyKey(SpecifierWords)

SpecifierRules ==
  [Specifiers |-> Specifiers, Specifier |-> Specifier]

(* ParameterGrammar *)
ParameterList == Cat(<<Ch("("), Opt(List(R("Parameter"), Ch(","))), Must(Ch(")"))>>)
Parameter == Node("Parameter", Cat(<<R("TypeExpr"), Opt(R("Identifier"))>>))

ParameterRules ==
  [ParameterList |-> ParameterList, Parameter |-> Parameter]

(* ConstantGrammar *)
Constant ==
  Node("Constant",
       Cat(<<R("Specifiers"), Key("const"), R("TypeExpr"), R("Identifier"), Ch("="),
             Must(R("Expression")), Must(Ch(";"))>>))

ConstantRules ==
  [Constant |-> Constant]

(* TypedefGrammar *)
Typedef ==
  Node("Typedef",
       Cat(<<R("Specifiers"), Key("typedef"), Must(R("TypeExpr")), Must(R("Identifier")),
             Must(Ch(";"))>>))

TypedefRules ==
  [Typedef |-> Typedef]

(* DelegateGrammar *)
Delegate ==
  Cat(<<Node("Delegate",
             Cat(<<R("Specifiers"), Key("delegate"), Must(R("TypeExpr")), Must(R("Identifier"))>>)),
        Must(R("ParameterList")), Must(Ch(";"))>>)
ClassDelegate ==
  Cat(<<Node("ClassDelegate",
             Cat(<<R("Specifiers"), Key("class"), Key("delegate"), Must(R("TypeExpr")),
                   Must(R("Identifier"))>>)), Must(R("ParameterList")), Must(Ch(";"))>>)

DelegateRules ==
  [Delegate |-> Delegate, ClassDelegate |-> ClassDelegate]

(* EnumerationGrammar *)
EnumType ==
  Cat(<<Node("EnumType", Cat(<<R("Specifiers"), Key("enum"), Must(R("Identifier"))>>)),
        Opt(R("UnderlyingType")), Must(Ch("{")), R("EnumConstants"), Must(Ch("}"))>>)
UnderlyingType == Cat(<<Ch(":"), R("TypeExpr")>>)
EnumConstants == List(Must(R("EnumConstant")), Ch(","))
EnumConstant ==
  Cat(<<R("Identifier"),
        Alt(<<Cat(<<Ch("="), Node("EnumConstant", R("Expression"))>>), Node("EnumConstant", Empty)>>)>>)

EnumerationRules ==
  [EnumType |-> EnumType, UnderlyingType |-> UnderlyingType, EnumConstants |-> EnumConstants,
   EnumConstant |-> EnumConstant]

(* InterfaceGrammar *)
Interface ==
  Cat(<<Node("Interface", Cat(<<R("Specifiers"), Key("interface"), Must(R("Identifier"))>>)),
        Must(Ch("{")), R("InterfaceContent"), Must(Ch("}"))>>)
InterfaceContent == Star(R("InterfaceMemFun"))
InterfaceMemFun ==
  Cat(<<Node("MemberFunction",
             Cat(<<Opt(R("InterfaceMemFunSpecifiers")), R("TypeExpr"),
                   R("InterfaceFunctionGroupId")>>)), R("ParameterList"), Opt(Key("const")),
        Must(Ch(";"))>>)
InterfaceMemFunSpecifiers == Alt(<<Key("throw"), Key("nothrow")>>)
InterfaceFunctionGroupId == Node("FunctionGroupId", Token(Diff(Word, OneOf(Keywords))))

InterfaceRules ==
  [Interface |-> Interface, InterfaceContent |-> InterfaceContent, InterfaceMemFun |-> InterfaceMemFun,
   InterfaceMemFunSpecifiers |-> InterfaceMemFunSpecifiers,
   InterfaceFunctionGroupId |-> InterfaceFunctionGroupId]

(* FunctionGrammar *)
Function ==
  Cat(<<R("Specifiers"), R("TypeExpr"), Node("Function", R("FunctionGroupId")),
        Opt(R("TemplateParameterList")), R("ParameterList"), Opt(R("WhereConstraint")),
        Alt(<<R("CompoundStatement"), Ch(";")>>)>>)
FunctionGroupId ==
  Alt(<<Node("FunctionGroupId", Token(Diff(Word, OneOf(Keywords)))), R("OperatorFunctionGroupId")>>)
OperatorFunctionGroupId ==
  Cat(<<Key("operator"),
        Alt(<<Node("FunctionGroupId",
                   Diff(Str(<<"<", "<">>),
                        Cat(<<Ch("<"), Ch("<"), List(R("TypeExpr"), Ch(",")), Ch(">")>>))),
              Node("FunctionGroupId", Str(<<">", ">">>)), Node("FunctionGroupId", Str(<<"=", "=">>)),
              Node("FunctionGroupId", Ch("=")), Node("FunctionGroupId", Ch("<")),
              Node("FunctionGroupId", Str(<<"+", "+">>)), Node("FunctionGroupId", Str(<<"-", "-">>)),
              Node("FunctionGroupId", Str(<<"-", ">">>)), Node("FunctionGroupId", Ch("+")),
              Node("FunctionGroupId", Ch("-")), Node("FunctionGroupId", Ch("*")),
              Node("FunctionGroupId", Ch("/")), Node("FunctionGroupId", Ch("%")),
              Node("FunctionGroupId", Ch("&")), Node("FunctionGroupId", Ch("|")),
              Node("FunctionGroupId", Ch("^")), Node("FunctionGroupId", Ch("!")),
              Node("FunctionGroupId", Ch("~")), Node("FunctionGroupId", Str(<<"[", "]">>)),
              Node("FunctionGroupId", Str(<<"(", ")">>))>>)>>)

FunctionRules ==
  [Function |-> Function, FunctionGroupId |-> FunctionGroupId,
   OperatorFunctionGroupId |-> OperatorFunctionGroupId]

(* ConceptGrammar *)
Concept ==
  Cat(<<Do(<<Push("concept", TRUE)>>, Empty),
    DoElse(<<Pop("concept")>>, Cat(<<
      Node("Concept", Cat(<<R("Specifiers"), Key("concept"), Must(R("Identifier"))>>)),
      Must(Ch("<")), List(R("Identifier"), Ch(",")), Must(Ch(">")), Opt(R("Refinement")),
      Opt(R("WhereConstraint")), Must(Ch("{")), Must(R("ConceptBody")), Must(Ch("}"))>>),
      <<Pop("concept")>>)>>)
Refinement ==
  Cat(<<Ch(":"), Node("ConceptId", Must(R("QualifiedId"))), Must(Ch("<")),
        List(R("Identifier"), Ch(",")), Must(Ch(">"))>>)
ConceptBody == Star(Alt(<<R("ConceptBodyConstraint"), R("Axiom")>>))
ConceptBodyConstraint ==
  Alt(<<R("TypenameConstraint"), R("SignatureConstraint"), R("EmbeddedConstraint")>>)
Axiom ==
  Cat(<<Key("axiom"), Opt(R("Identifier")), Node("Axiom", Empty), Opt(R("ParameterList")),
        Must(Ch("{")), Must(R("AxiomBody")), Must(Ch("}"))>>)
AxiomBody == Star(R("AxiomStatement"))
AxiomStatement == Node("AxiomStatement", Cat(<<R("Expression"), Must(Ch(";"))>>))
TypenameConstraint ==
  Node("TypenameConstraint", Cat(<<Key("typename"), Must(R("TypeExpr")), Must(Ch(";"))>>))
SignatureConstraint ==
  Alt(<<R("ConstructorConstraint"), R("DestructorConstraint"), R("MemberFunctionConstraint"),
        R("FunctionConstraint")>>)
ConstructorConstraint ==
  Cat(<<Opt(Key("explicit")), Node("ConstructorConstraint", TypeParameter), R("ParameterList"),
        Must(Ch(";"))>>)
DestructorConstraint ==
  Node("DestructorConstraint",
       Cat(<<Ch("~"), TypeParameter, Must(Ch("(")), Must(Ch(")")), Must(Ch(";"))>>))
MemberFunctionConstraint ==
  Cat(<<R("TypeExpr"), R("Identifier"), Ch("."),
        Node("MemberFunctionConstraint", Must(R("FunctionGroupId"))), Must(R("ParameterList")),
        Must(Ch(";"))>>)
FunctionConstraint ==
  Cat(<<R("TypeExpr"), Node("FunctionConstraint", Must(R("FunctionGroupId"))), Must(R("ParameterList")),
        Must(Ch(";"))>>)
EmbeddedConstraint == Cat(<<R("WhereConstraint"), Must(Ch(";"))>>)
WhereConstraint == Node("WhereConstraint", Cat(<<Key("where"), Must(R("ConstraintExpr"))>>))
ConstraintExpr == R("DisjunctiveConstraintExpr")
DisjunctiveConstraintExpr ==
  Cat(<<R("ConjunctiveConstraintExpr"),
        Star(Cat(<<Key("or"), Node("DisjunctiveConstraint", R("ConjunctiveConstraintExpr"))>>))>>)
ConjunctiveConstraintExpr ==
  Cat(<<R("PrimaryConstraintExpr"),
        Star(Cat(<<Key("and"), Node("ConjunctiveConstraint", R("PrimaryConstraintExpr"))>>))>>)
PrimaryConstraintExpr ==
  Alt(<<Cat(<<Ch("("), R("ConstraintExpr"), Must(Ch(")"))>>), R("AtomicConstraintExpr")>>)
AtomicConstraintExpr ==
  Alt(<<R("PredicateConstraint"), R("IsConstraint"), R("MultiParamConstraint"),
        Node("CCConstraint", Ch("completion")),
        Node("CCConstraint", Cat(<<R("TypeExpr"), Completed>>))>>)
PredicateConstraint == Node("PredicateConstraint", R("InvokeExpr"))
IsConstraint == Node("IsConstraint", Cat(<<R("TypeExpr"), Key("is"), Must(R("ConceptOrTypeName"))>>))
ConceptOrTypeName == Alt(<<R("TypeExpr"), Node("CC", Ch("completion"))>>)
MultiParamConstraint ==
  Cat(<<Node("MultiParamConstraint", R("QualifiedId")), Ch("<"), List(R("TypeExpr"), Ch(",")),
        Must(Ch(">"))>>)

ConceptRules ==
  [Concept |-> Concept, Refinement |-> Refinement, ConceptBody |-> ConceptBody,
   ConceptBodyConstraint |-> ConceptBodyConstraint, Axiom |-> Axiom, AxiomBody |-> AxiomBody,
   AxiomStatement |-> AxiomStatement, TypenameConstraint |-> TypenameConstraint,
   SignatureConstraint |-> SignatureConstraint, ConstructorConstraint |-> ConstructorConstraint,
   DestructorConstraint |-> DestructorConstraint, MemberFunctionConstraint |-> MemberFunctionConstraint,
   FunctionConstraint |-> FunctionConstraint, EmbeddedConstraint |-> EmbeddedConstraint,
   WhereConstraint |-> WhereConstraint, ConstraintExpr |-> ConstraintExpr,
   DisjunctiveConstraintExpr |-> DisjunctiveConstraintExpr,
   ConjunctiveConstraintExpr |-> ConjunctiveConstraintExpr,
   PrimaryConstraintExpr |-> PrimaryConstraintExpr, AtomicConstraintExpr |-> AtomicConstraintExpr,
   PredicateConstraint |-> PredicateConstraint, IsConstraint |-> IsConstraint,
   ConceptOrTypeName |-> ConceptOrTypeName, MultiParamConstraint |-> MultiParamConstraint]

(* ClassGrammar *)
Class ==
  Cat(<<Node("Class", Cat(<<R("Specifiers"), Key("class"), R("Identifier")>>)),
        Opt(R("TemplateParameterList")), Opt(R("InheritanceAndImplIntfs")), Opt(R("WhereConstraint")),
        Must(Ch("{")), Must(R("ClassContent")), Must(Ch("}"))>>)
InheritanceAndImplIntfs ==
  Cat(<<Ch(":"), List(Cat(<<Do(<<Push("typeExpr", TRUE)>>, Empty),
                            DoElse(<<Pop("typeExpr")>>, R("BaseClassTypeExprOrImplIntf"),
                                   <<Pop("typeExpr")>>)>>), Ch(","))>>)
BaseClassTypeExprOrImplIntf == Alt(<<R("TemplateId"), R("QualifiedId")>>)
ClassContent == Star(R("ClassMember"))
ClassMember ==
  Alt(<<R("StaticConstructor"), R("Constructor"), R("Destructor"), R("MemberFunction"),
        R("ConversionFunction"), R("EnumType"), R("Constant"), R("MemberVariable"), R("Class"),
        R("Delegate"), R("ClassDelegate"), R("Typedef"),
        Node("completion", Cat(<<R("Specifiers"), Ch("completion"), R("Identifier"), Ch(";")>>)),
        Cat(<<R("Specifiers"), R("TypeExpr"), Completed>>)>>)
InitializerList == Cat(<<Ch(":"), List(R("Initializer"), Ch(","))>>)
Initializer == Alt(<<R("BaseInitializer"), R("ThisInitializer"), R("MemberInitializer")>>)
MemberInitializer ==
  Cat(<<Node("MemberInitializer", Must(R("Identifier"))), Must(Ch("(")), R("ArgumentList"),
        Must(Ch(")"))>>)
BaseInitializer ==
  Cat(<<Node("BaseInitializer", Key("base")), Must(Ch("(")), R("ArgumentList"), Must(Ch(")"))>>)
ThisInitializer ==
  Cat(<<Node("ThisInitializer", Key("this")), Must(Ch("(")), R("ArgumentList"), Must(Ch(")"))>>)
StaticConstructor ==
  Cat(<<Node("StaticConstructor",
             Cat(<<StaticSpecifiers, Diff(ClassName, Cat(<<R("Identifier"), Ch("&")>>)), Ch("("),
                   Ch(")")>>)), Opt(R("InitializerList")), Opt(R("WhereConstraint")),
        R("CompoundStatement")>>)
Constructor ==
  Cat(<<Node("Constructor",
             Cat(<<R("Specifiers"), Diff(ClassName, Cat(<<R("Identifier"), Ch("&")>>))>>)),
        R("ParameterList"), Opt(R("InitializerList")), Opt(R("WhereConstraint")),
        Alt(<<R("CompoundStatement"), Ch(";")>>)>>)
Destructor ==
  Cat(<<R("Specifiers"), Ch("~"), ClassName, Must(Ch("(")), Must(Ch(")")),
        Node("Destructor", Alt(<<R("CompoundStatement"), Ch(";")>>))>>)
MemberFunction ==
  Cat(<<Node("MemberFunction", Cat(<<R("Specifiers"), R("TypeExpr"), R("FunctionGroupId")>>)),
        R("ParameterList"), Opt(Key("const")), Opt(R("WhereConstraint")),
        Alt(<<R("CompoundStatement"), Ch(";")>>)>>)
ConversionFunction ==
  Cat(<<R("Specifiers"), Key("operator"), R("TypeExpr"), Must(Ch("(")), Must(Ch(")")),
        Opt(Key("const")), Opt(R("WhereConstraint")),
        Node("ConversionFunction", R("CompoundStatement"))>>)
MemberVariable ==
  Node("MemberVariable", Cat(<<R("Specifiers"), R("TypeExpr"), R("Identifier"), Ch(";")>>))

ClassRules ==
  [Class |-> Class, InheritanceAndImplIntfs |-> InheritanceAndImplIntfs,
   BaseClassTypeExprOrImplIntf |-> BaseClassTypeExprOrImplIntf, ClassContent |-> ClassContent,
   ClassMember |-> ClassMember, InitializerList |-> InitializerList, Initializer |-> Initializer,
   MemberInitializer |-> MemberInitializer, BaseInitializer |-> BaseInitializer,
   ThisInitializer |-> ThisInitializer, StaticConstructor |-> StaticConstructor,
   Constructor |-> Constructor, Destructor |-> Destructor, MemberFunction |-> MemberFunction,
   ConversionFunction |-> ConversionFunction, MemberVariable |-> MemberVariable]

(* CompileUnitGrammar *)
CompileUnit == Cat(<<Node("CompileUnit", Empty), R("NamespaceContent")>>)
NamespaceContent == Cat(<<R("UsingDirectives"), R("Definitions")>>)
UsingDirectives == Star(R("UsingDirective"))
UsingDirective == Alt(<<R("UsingAliasDirective"), R("UsingNamespaceDirective")>>)
UsingAliasDirective ==
  Node("Alias", Cat(<<Key("using"), R("Identifier"), Ch("="), Must(R("QualifiedId")), Must(Ch(";"))>>))
UsingNamespaceDirective ==
  Node("NamespaceImport", Cat(<<Key("using"), Must(R("QualifiedId")), Must(Ch(";"))>>))
Definitions == Star(R("Definition"))
Definition ==
  Alt(<<R("NamespaceDefinition"), R("FunctionDefinition"), R("ConstantDefinition"),
        R("EnumerationDefinition"), R("TypedefDefinition"), R("ClassDefinition"),
        R("InterfaceDefinition"), R("DelegateDefinition"), R("ClassDelegateDefinition"),
        R("ConceptDefinition"), Node("completion", Cat(<<R("Specifiers"), Ch("completion")>>)),
        Cat(<<R("Specifiers"), R("TypeExpr"), Completed>>)>>)
NamespaceDefinition ==
  Cat(<<Node("Namespace", Cat(<<Key("namespace"), Must(R("QualifiedId"))>>)), Must(Ch("{")),
        Must(R("NamespaceContent")), Must(Ch("}"))>>)
FunctionDefinition == R("Function")
ConstantDefinition == R("Constant")
EnumerationDefinition == R("EnumType")
TypedefDefinition == R("Typedef")
ClassDefinition == R("Class")
InterfaceDefinition == R("Interface")
DelegateDefinition == R("Delegate")
ClassDelegateDefinition == R("ClassDelegate")
ConceptDefinition == R("Concept")

CompileUnitRules ==
  [CompileUnit |-> CompileUnit, NamespaceContent |-> NamespaceContent,
   UsingDirectives |-> UsingDirectives, UsingDirective |-> UsingDirective,
   UsingAliasDirective |-> UsingAliasDirective, UsingNamespaceDirective |-> UsingNamespaceDirective,
   Definitions |-> Definitions, Definition |-> Definition, NamespaceDefinition |-> NamespaceDefinition,
   FunctionDefinition |-> FunctionDefinition, ConstantDefinition |-> ConstantDefinition,
   EnumerationDefinition |-> EnumerationDefinition, TypedefDefinition |-> TypedefDefinition,
   ClassDefinition |-> ClassDefinition, InterfaceDefinition |-> InterfaceDefinition,
   DelegateDefinition |-> DelegateDefinition, ClassDelegateDefinition |-> ClassDelegateDefinition,
   ConceptDefinition |-> ConceptDefinition]

ProgramRules ==
  CompileUnitRules @@ ClassRules @@ ConceptRules @@ FunctionRules @@ InterfaceRules @@
  EnumerationRules @@ DelegateRules @@ TypedefRules @@ ConstantRules @@ ParameterRules @@
  SpecifierRules @@ StatementRules @@ ExpressionRules
=============================================================================

---------------------------- MODULE MCTemplates -----------------------------
(***************************************************************************)
(* Declarations for Templates: one for each class of node the parser makes *)
(* and the factory knows, with what is optional in it left out ("bare") or *)
(* there ("full"), in the place of a declaration where the grammar allows  *)
(* it.  They are built from the classes' members, not from what Write or   *)
(* Clone does with them.                                                   *)
(***************************************************************************)
EXTENDS TreeContents

\* Members that may be missing, and members that the parser never sets in a
\* class that inherits them.
Optional ==
  {"constraint", "labelNode", "elseS", "defaultStatement", "defaultTemplateArgument", "refinement",
   "exceptionId", "elsePart", "underlyingType"}
MayLack(class, m) ==
  \/ m \in Optional /\ <<class, m>> # <<"WhereConstraintNode", "constraint">>
  \/ m = "expr" /\ class \in {"SimpleStatementNode", "ReturnStatementNode", "CondCompilationPartNode"}
  \/ m = "body" /\ class # "FunctionNode"
  \/ m = "id" /\ class \in {"AxiomNode", "ParameterNode"}
  \/ m \in {"condition", "increment"} /\ class = "ForStatementNode"
Never ==
  [StaticConstructorNode |-> {"returnTypeExpr", "templateParameters", "parameters"},
   ConstructorNode |-> {"returnTypeExpr", "templateParameters"},
   DestructorNode |-> {"returnTypeExpr", "templateParameters", "parameters"},
   MemberFunctionNode |-> {"templateParameters"},
   ClassNode |-> {"templateParameters"},
   ConversionFunctionNode |-> {"templateParameters", "parameters"}]
NeverSet(class, m) == m = "bodySource" \/ (class \in DOMAIN Never /\ m \in Never[class])
\* (A class template inside a class template loses its parameters in Clone: left out.)

\* A class of the declared one, for members that take any.
Ordinary ==
  [Node |-> "IdentifierNode", StatementNode |-> "BreakStatementNode", ConstraintNode |-> "TypenameConstraintNode",
   InitializerNode |-> "BaseInitializerNode", CondCompExprNode |-> "CondCompPrimaryNode"]
MemberClass ==
  (<<"ClassNode", "members">> :> "MemberVariableNode") @@ (<<"InterfaceNode", "members">> :> "MemberFunctionNode") @@
  (<<"NamespaceNode", "members">> :> "ConstantNode") @@ (<<"TryStatementNode", "handlers">> :> "CatchNode") @@
  (<<"EnumTypeNode", "constants">> :> "EnumConstantNode") @@ (<<"ConceptNode", "axioms">> :> "AxiomNode") @@
  (<<"SwitchStatementNode", "caseStatements">> :> "CaseStatementNode") @@
  (<<"SwitchStatementNode", "defaultStatement">> :> "DefaultStatementNode")
ClassFor(class, m) ==
  LET of == Members[class][m].of
  IN IF <<class, m>> \in DOMAIN MemberClass THEN MemberClass[<<class, m>>]
     ELSE IF of \in DOMAIN Ordinary THEN Ordinary[of] ELSE of

RECURSIVE Sample(_, _)
Sample(class, form) ==
  LET count(m) == IF NeverSet(class, m) \/ (form = "bare" /\ MayLack(class, m)) THEN 0
                  ELSE IF Members[class][m].kind = "node" THEN 1 ELSE IF form = "full" THEN 2 ELSE 0
  IN [CreateNode(class, Nowhere) EXCEPT
        !.values = [m \in DOMAIN @ |-> Text(m)],
        !.children = [m \in DOMAIN @ |->
                        IF m = "groupId" /\ class \in DOMAIN GroupIds THEN <<GroupId(class, Nowhere)>>
                        ELSE [i \in 1..count(m) |-> Sample(ClassFor(class, m), "bare")]]]

With(n, m, nodes) == [n EXCEPT !.children[m] = nodes]
Named(n, m, text) == [n EXCEPT !.children[m][1].values["identifier"] = Text(text)]
Specified(n, text) == [n EXCEPT !.values["specifiers"] = Text(text)]

\* Positions: the nodes of a tree in some order, in the second file of their
\* project.  Constants have none, a made group id has its function's.
File == 1
RECURSIVE Numbered(_, _), NumberAll(_, _, _), NumberList(_, _)
NumberList(nodes, at) ==
  IF nodes = <<>> THEN [nodes |-> <<>>, at |-> at]
  ELSE LET first == Numbered(Head(nodes), at)  rest == NumberList(Tail(nodes), first.at)
       IN [nodes |-> <<first.node>> \o rest.nodes, at |-> rest.at]
NumberAll(n, members, at) ==
  IF members = {} THEN [node |-> n, at |-> at]
  ELSE LET m == CHOOSE x \in members : TRUE
           list == NumberList(n.children[m], at)
       IN NumberAll(With(n, m, [i \in DOMAIN list.nodes |-> Link(n.class, m, list.nodes[i])]), members \ {m}, list.at)
Numbered(n, at) ==
  LET span == [file |-> File, at |-> at]
      placed == [n EXCEPT
                  !.span = IF n.class = "ConstantNode" THEN Nowhere ELSE span,
                  !.values = [m \in DOMAIN @ |-> IF Members[n.class][m].of = "Span" THEN Place(span) ELSE @[m]]]
      below == NumberAll(placed, DOMAIN n.children, at + 1)
  IN IF n.class \in DOMAIN GroupIds
     THEN [below EXCEPT !.node.children["groupId"][1].span = span] ELSE below

Declaration(d) == [d EXCEPT !.using = NumberList(@, 1).nodes, !.node = Numbered(@, 1).node]

-----------------------------------------------------------------------------
(* The declarations, from a table T of samples: a bare and a full one of     *)
(* each class the factory makes.                                             *)
Samples == [c \in {Creates[t] : t \in DOMAIN Creates} |-> [form \in {"bare", "full"} |-> Sample(c, form)]]
Of(T, ancestor) == {c \in DOMAIN T : ancestor \in IsA[c]}
Both(T, classes) == UNION {{T[c].bare, T[c].full} : c \in classes}

MemberClasses(T) ==
  (Of(T, "FunctionNode") \ {"FunctionNode"}) \cup
  {"MemberVariableNode", "TypedefNode", "EnumTypeNode", "ConstantNode", "DelegateNode", "ClassDelegateNode", "ClassNode"}
\* Every other class is a class of expressions.
Elsewhere ==
  {"FunctionNode", "MemberVariableNode", "TypedefNode", "EnumTypeNode", "ConstantNode", "DelegateNode",
   "ClassDelegateNode", "ClassNode", "StatementNode", "ConstraintNode", "InitializerNode", "CondCompExprNode",
   "InterfaceNode", "NamespaceNode", "CompileUnitNode", "ConceptNode", "ConceptIdNode", "AxiomNode",
   "AxiomStatementNode", "AliasNode", "NamespaceImportNode", "CatchNode", "CondCompSymbolNode", "CondCompilationPartNode",
   "LabelNode", "EnumConstantNode", "ParameterNode", "TemplateParameterNode", "FunctionGroupIdNode"}
ExpressionClasses(T) == {c \in DOMAIN T : IsA[c] \cap Elsewhere = {}}

Block(T, statements) == With(T["CompoundStatementNode"].bare, "statements", statements)
Expression(T, e) == With(T["SimpleStatementNode"].full, "expr", <<e>>)
Method(T, statements) == With(T["MemberFunctionNode"].full, "body", <<Block(T, statements)>>)
FreeFunction(T, statements) == With(T["FunctionNode"].full, "body", <<Block(T, statements)>>)

Statements(T) ==
  Both(T, Of(T, "StatementNode")) \cup
  {With(T["TryStatementNode"].bare, "handlers", <<T["CatchNode"].bare, T["CatchNode"].full>>)} \cup
  {With(T["CondCompStatementNode"].bare, "ifPart",
        <<With(T["CondCompilationPartNode"].full, "expr", <<T[c].bare>>)>>) : c \in Of(T, "CondCompExprNode")} \cup
  {Expression(T, T[c].full) : c \in ExpressionClasses(T)}

\* Members of a class template, as lists.
MemberLists(T) ==
  {<<Method(T, <<s>>)>> : s \in Statements(T)} \cup {<<n>> : n \in Both(T, MemberClasses(T))} \cup
  {<<With(T["ConstructorNode"].full, "initializers", <<T[c].full>>)>> : c \in Of(T, "InitializerNode")} \cup
  {<<Specified(Method(T, <<>>), "default"), Method(T, <<>>)>>}

Template(T, members) ==
  With(With(T["ClassNode"].bare, "templateParameters", <<T["TemplateParameterNode"].full>>), "members", members)
Constraints(T) == {T[c].full : c \in Of(T, "ConstraintNode") \ {"WhereConstraintNode"}}
Using(T) == <<T["AliasNode"].bare, T["NamespaceImportNode"].bare>>

Classes_(T) ==
  {[kind |-> "class", using |-> <<>>, node |-> Template(T, members)] : members \in MemberLists(T)} \cup
  {[kind |-> "class", using |-> Using(T),
    node |-> With(Template(T, <<>>), "constraint", <<With(T["WhereConstraintNode"].bare, "constraint", <<c>>)>>)] :
     c \in Constraints(T)}
Functions_(T) ==
  {[kind |-> "function", using |-> Using(T), node |-> FreeFunction(T, <<s>>)] : s \in Statements(T)} \cup
  {[kind |-> kind, using |-> Using(T),
    node |-> With(FreeFunction(T, <<T[c].full>>), "templateParameters", <<>>)] :
     kind \in {"inline", "constexpr"}, c \in {"ReturnStatementNode", "ForStatementNode", "SwitchStatementNode"}}
Concepts_(T) ==
  {[kind |-> "concept", using |-> <<>>, node |-> n] :
     n \in {T["ConceptNode"].bare} \cup {With(T["ConceptNode"].full, "constraints", <<c>>) : c \in Constraints(T)}}

Test(T, name) == Named(Specified(T["FunctionNode"].full, "unit_test"), "returnTypeExpr", name)
Namespace(T, name, members) == Named(With(T["NamespaceNode"].bare, "members", members), "id", name)
UnitMembers(T, A, t) ==
  {<<t[1], T["InterfaceNode"].full, Namespace(T, "A", <<t[2], Namespace(T, "B", <<t[3]>>)>>)>>,
   <<Namespace(T, "A.B", <<t[1]>>), Namespace(T, "C", <<t[2], T["FunctionNode"].full>>)>>,
   <<A, Namespace(T, "B", <<t[2]>>)>>}
TestFiles(T) ==
  {[kind |-> "test", using |-> <<>>,
    node |-> With(T["CompileUnitNode"].bare, "globalNs", <<Namespace(T, "", members)>>)] :
     members \in UnitMembers(T, Namespace(T, "A", <<Test(T, "a")>>), <<Test(T, "a"), Test(T, "b"), Test(T, "c")>>)}

MCDeclarations ==
  UNION {{Declaration(d) : d \in Classes_(T) \cup Functions_(T) \cup Concepts_(T) \cup TestFiles(T)} : T \in {Samples}}

MCOwnFiles == <<"main.cm", "own.cm">>
MCLibraryFiles == <<"base.cm", "library.cm">>
MCImports == {0, 2}
MCArguments == {"int", "double"}
MCUnits == 2
=============================================================================

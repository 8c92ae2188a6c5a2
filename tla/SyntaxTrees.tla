---------------------------- MODULE SyntaxTrees -----------------------------
(***************************************************************************)
(* What the compiler does with the nodes of a syntax tree: write them to a *)
(* library file, read them back, clone them, visit them.  The functions of *)
(* each class are the steps of NodeLayouts; this module says what a step   *)
(* does.                                                                   *)
(*                                                                         *)
(* A node is a record: its class, its span, its values, its children and   *)
(* whether its parent pointer is set.  A library file is a sequence of     *)
(* tokens, each with the format it is written in: reading a token in       *)
(* another format is a fault (in the code: garbage from there on).         *)
(***************************************************************************)
EXTENDS NodeLayouts, Integers

Nowhere == [file |-> -1, at |-> 0]            \* a default Span
Text(t) == [text |-> t, span |-> Nowhere]     \* the value of a data member
Place(s) == [text |-> "", span |-> s]         \* the same, of type Span

NodeWith(class, span, members) ==
  [class |-> class, span |-> span,
   values |-> [m \in {x \in DOMAIN members : members[x].kind = "value"} |-> Text("")],
   children |-> [m \in {x \in DOMAIN members : members[x].kind # "value"} |-> <<>>],
   linked |-> FALSE]
CreateNode(class, span) == NodeWith(class, span, Members[class])

\* The children whose parent pointer neither constructors, setters nor Read set.
Unlinked ==
  {<<"ConceptNode", "refinement">>, <<"PredicateConstraintNode", "invokeExpr">>, <<"CompileUnitNode", "globalNs">>}

\* Variant: AddStatement without SetParent.
LinkOutsideBlocks(class, m, child) ==
  [child EXCEPT !.linked = m \notin {"bodySource", "statements"} /\ <<class, m>> \notin Unlinked]

Link(class, m, child) == [child EXCEPT !.linked = m # "bodySource" /\ <<class, m>> \notin Unlinked]

-----------------------------------------------------------------------------
(* Writer. *)

Token(format, text, span, count) == [format |-> format, text |-> text, span |-> span, count |-> count]
CountToken(format, n) == Token(format, "", Nowhere, n)

FormatOf ==
  [bool |-> "1 byte", char |-> "1 byte", int8 |-> "1 byte", uint8 |-> "1 byte", int16 |-> "2 bytes",
   uint16 |-> "2 bytes", int32 |-> "4 bytes", uint32 |-> "4 bytes", float |-> "4 bytes",
   Specifiers |-> "4 bytes", int64 |-> "8 bytes", uint64 |-> "8 bytes", double |-> "8 bytes",
   string |-> "text", Span |-> "span", DerivationList |-> "derivations"]

RECURSIVE WriteNode(_), WriteAll(_)

\* Variant: the count of a short list written like the count of any other.
WriteStepWide(node, s) ==
  LET children == node.children[s.member]
  IN CASE s.do = "value" ->
            <<Token(FormatOf[Members[node.class][s.member].of],
                    node.values[s.member].text, node.values[s.member].span, 0)>>
       [] s.do = "child" -> WriteAll(children)
       [] s.do = "maybe" -> <<CountToken("1 byte", Len(children))>> \o WriteAll(children)
       [] s.do \in {"each", "few"} -> <<CountToken("4 bytes", Len(children))>> \o WriteAll(children)

WriteStep(node, s) ==
  LET children == node.children[s.member]
  IN CASE s.do = "value" ->
            <<Token(FormatOf[Members[node.class][s.member].of],
                    node.values[s.member].text, node.values[s.member].span, 0)>>
       [] s.do = "child" -> WriteAll(children)
       [] s.do = "maybe" -> <<CountToken("1 byte", Len(children))>> \o WriteAll(children)
       [] s.do = "each"  -> <<CountToken("4 bytes", Len(children))>> \o WriteAll(children)
       [] s.do = "few"   -> <<CountToken("1 byte", Len(children))>> \o WriteAll(children)

WriteSteps(node, steps) == FlattenSeq([i \in DOMAIN steps |-> WriteStep(node, steps[i])])
WriteNode(node) ==
  <<Token("1 byte", NodeType[node.class], Nowhere, 0), Token("span", "", node.span, 0)>> \o
  WriteSteps(node, Writes[node.class])

WriteAll(nodes) == FlattenSeq([i \in DOMAIN nodes |-> WriteNode(nodes[i])])

WriteList(nodes) == <<CountToken("4 bytes", Len(nodes))>> \o WriteAll(nodes)

-----------------------------------------------------------------------------
(* Reader.  A reader is a record of the tokens of its file and of what its   *)
(* user has set: a file index that replaces the one of every span, or an     *)
(* offset that is added to it (-1: not set).  What it returns holds the      *)
(* position after what it has read and whether something went wrong.         *)

Reader(tokens, replaceFileIndex, spanFileIndexOffset) ==
  [tokens |-> tokens, replace |-> replaceFileIndex, offset |-> spanFileIndexOffset]

FunctionFormat ==
  [Bool |-> "1 byte", Char |-> "1 byte", SByte |-> "1 byte", Byte |-> "1 byte", Short |-> "2 bytes",
   UShort |-> "2 bytes", Int |-> "4 bytes", UInt |-> "4 bytes", Float |-> "4 bytes",
   Specifiers |-> "4 bytes", Long |-> "8 bytes", ULong |-> "8 bytes", Double |-> "8 bytes",
   String |-> "text", Span |-> "span", DerivationList |-> "derivations"]

Has(r, pos, format) == pos \in DOMAIN r.tokens /\ r.tokens[pos].format = format

\* Variant: the file index of the symbol is not used for the tree's spans.
ReadSpanAsWritten(r, span) == IF r.offset > 0 THEN [span EXCEPT !.file = @ + r.offset] ELSE span

ReadSpan(r, span) ==
  IF r.replace # -1 THEN [span EXCEPT !.file = r.replace]
  ELSE IF r.offset > 0 THEN [span EXCEPT !.file = @ + r.offset] ELSE span

\* The reader functions that ask for one node type; the others ask for a class.
OfOneType ==
  {"IdentifierNode", "ParameterNode", "TemplateParameterNode", "WhereConstraintNode", "AxiomStatementNode",
   "NamespaceNode", "CompileUnitNode", "FunctionGroupIdNode", "LabelNode", "ConceptIdNode", "ConceptNode"}
Expected(class, as) ==
  IF as \in OfOneType THEN NodeType[class] = NodeType[as] ELSE as \in IsA[class]

RECURSIVE ReadSteps(_, _, _, _), ReadNode(_, _, _), ReadMany(_, _, _, _), ReadMore(_, _, _, _)

CountFormat == [sub |-> "", opt |-> "1 byte", each |-> "4 bytes", few |-> "1 byte"]

GotValue(r, s, got, token) ==
  [got EXCEPT !.node.values[s.member] = IF s.by = "Span" THEN Place(ReadSpan(r, token.span)) ELSE Text(token.text),
              !.pos = @ + 1]

GotChildren(s, got, all) ==
  [got EXCEPT !.node.children[s.member] =
                @ \o [i \in DOMAIN all.nodes |-> Link(got.node.class, s.member, all.nodes[i])],
              !.pos = all.pos, !.fault = all.fault]

\* A value; one child; or a count, which says whether there is a child or how
\* many there are, and the children.
ReadStep(r, s, got) ==
  LET format  == IF s.do = "get" THEN FunctionFormat[s.by] ELSE CountFormat[s.do]
      counted == s.do # "sub"
      as == IF s.do \in {"sub", "opt"} THEN s.by ELSE Members[got.node.class][s.member].of
  IN IF counted /\ ~Has(r, got.pos, format) THEN [got EXCEPT !.fault = TRUE]
     ELSE IF s.do = "get" THEN GotValue(r, s, got, r.tokens[got.pos])
     ELSE GotChildren(s, got, ReadMany(r, got.pos + (IF counted THEN 1 ELSE 0),
                                       IF counted THEN r.tokens[got.pos].count ELSE 1, as))

ReadSteps(r, steps, i, got) ==
  IF i > Len(steps) \/ got.fault THEN got ELSE ReadSteps(r, steps, i + 1, ReadStep(r, steps[i], got))

ReadContent(r, pos, class, as) ==
  LET made == CreateNode(class, ReadSpan(r, r.tokens[pos + 1].span))
  IN [ReadSteps(r, Reads[class], 1, [node |-> made, pos |-> pos + 2, fault |-> FALSE])
        EXCEPT !.fault = @ \/ ~Expected(class, as)]

\* The node at a position, which has to be of the class `as'.
ReadNode(r, pos, as) ==
  IF ~Has(r, pos, "1 byte") \/ ~Has(r, pos + 1, "span") \/ r.tokens[pos].text \notin DOMAIN Creates
  THEN [node |-> CreateNode("Node", Nowhere), pos |-> pos, fault |-> TRUE]
  ELSE ReadContent(r, pos, Creates[r.tokens[pos].text], as)

ReadMany(r, pos, n, as) ==
  IF n = 0 THEN [nodes |-> <<>>, pos |-> pos, fault |-> FALSE] ELSE ReadMore(r, ReadNode(r, pos, as), n, as)

ReadMore(r, first, n, as) ==
  IF first.fault THEN [nodes |-> <<>>, pos |-> first.pos, fault |-> TRUE]
  ELSE [ReadMany(r, first.pos, n - 1, as) EXCEPT !.nodes = <<first.node>> \o @]

ReadList(r, pos) ==
  IF Has(r, pos, "4 bytes") THEN ReadMany(r, pos + 1, r.tokens[pos].count, "Node")
  ELSE [nodes |-> <<>>, pos |-> pos, fault |-> TRUE]

-----------------------------------------------------------------------------
(* Clone.  A clone context is the set of what has been asked of it: an       *)
(* instance of a class ("class"), of a function template ("function"), the   *)
(* test functions to be taken out ("tests").                                 *)

GroupIds ==
  [StaticConstructorNode |-> "@static_constructor", ConstructorNode |-> "@constructor",
   DestructorNode |-> "@destructor", ConversionFunctionNode |-> "@operator_conv"]

GroupId(class, span) ==
  [CreateNode("FunctionGroupIdNode", span) EXCEPT !.values["functionGroupId"] = Text(GroupIds[class])]

IsTest(node) == "FunctionNode" \in IsA[node.class] /\ node.values["specifiers"].text = "unit_test"

RECURSIVE Clone(_, _), CloneSteps(_, _, _, _)

\* Variant: an optional part is not copied.
CloneStepBare(node, s, clone, context) ==
  LET m == s.member
      copies(nodes, c) == [i \in DOMAIN nodes |-> Link(node.class, m, Clone(nodes[i], c))]
  IN IF s.unless \in context THEN clone ELSE
     CASE s.do = "value" -> [clone EXCEPT !.values[m] = node.values[m]]
       [] s.do = "maybe" -> clone
       [] s.do \in {"child", "each"} ->
            [clone EXCEPT !.children[m] = copies(node.children[m], context)]
       [] s.do = "made" -> [clone EXCEPT !.children[m] = <<Link(node.class, m, GroupId(node.class, node.span))>>]
       [] s.do \in {"body", "tests"} -> [clone EXCEPT !.children[m] = copies(node.children[m], context)]
       [] s.do = "no span" -> [clone EXCEPT !.span = Nowhere]

CloneStep(node, s, clone, context) ==
  LET m == s.member
      copies(nodes, c) == [i \in DOMAIN nodes |-> Link(node.class, m, Clone(nodes[i], c))]
  IN IF s.unless \in context THEN clone ELSE
     CASE s.do = "value" -> [clone EXCEPT !.values[m] = node.values[m]]
       [] s.do \in {"child", "maybe", "each"} ->
            [clone EXCEPT !.children[m] = copies(node.children[m], context)]
       [] s.do = "made" -> [clone EXCEPT !.children[m] = <<Link(node.class, m, GroupId(node.class, node.span))>>]
       [] s.do = "body" ->
            IF "class" \in context
            THEN [clone EXCEPT !.children["bodySource"] =
                    [i \in DOMAIN node.children[m] |-> Link(node.class, "bodySource", Clone(node.children[m][i], {}))]]
            ELSE [clone EXCEPT !.children[m] = copies(node.children[m], context)]
       [] s.do = "tests" ->
            [clone EXCEPT !.children[m] =
               copies(SelectSeq(node.children[m], LAMBDA n : ~("tests" \in context /\ IsTest(n))), context)]
       [] s.do = "no span" -> [clone EXCEPT !.span = Nowhere]

CloneSteps(node, i, clone, context) ==
  IF i > Len(Clones[node.class]) THEN clone
  ELSE CloneSteps(node, i + 1, CloneStep(node, Clones[node.class][i], clone, context), context)

Clone(node, context) == CloneSteps(node, 1, CreateNode(node.class, node.span), context)

-----------------------------------------------------------------------------
(* Accept: the nodes a visitor reaches from a node, in the order of the      *)
(* visit, for the flags it has set.                                          *)

AllFlags == {"content", "bodies", "expressions", "arguments"}

RECURSIVE Visited(_, _)
Visited(node, flags) ==
  LET seen == SelectSeq(Walks[node.class], LAMBDA s : s.flags \subseteq flags)
      below(s) == FlattenSeq([i \in DOMAIN node.children[s.member] |-> Visited(node.children[s.member][i], flags)])
  IN <<node>> \o FlattenSeq([i \in DOMAIN seen |-> below(seen[i])])

-----------------------------------------------------------------------------
(* Namespaces of a compile unit. *)

\* The test functions a "tests" clone takes out, each with the full name of
\* its namespace, in the order in which the clone meets them.
Components == [n \in {"A", "B", "C"} |-> <<n>>] @@ ("A.B" :> <<"A", "B">>)
NameOf(ns) == ns.children["id"][1].values["identifier"].text

RECURSIVE MovedTests(_, _)
MovedTests(ns, name) ==
  LET members == ns.children["members"]
      moved(n) == IF IsTest(n) THEN <<[from |-> name, function |-> Clone(n, {"tests"})]>>
                  ELSE IF n.class = "NamespaceNode" THEN MovedTests(n, name \o Components[NameOf(n)])
                  ELSE <<>>
  IN FlattenSeq([i \in DOMAIN members |-> moved(members[i])])

\* The namespace GetNamespace finds for a name, as the member indexes on the
\* way to it.  It looks into the first namespace whose name the search takes
\* for a prefix of the name, and into no other.  The index k of the last
\* component that agrees starts at 0: a name of one component agrees whatever
\* it is.
Agreeing(name, own) ==
  Cardinality({k \in DOMAIN own \cap DOMAIN name : \A i \in 1..k : name[i] = own[i]})

RECURSIVE GetNamespace(_, _)
GetNamespace(ns, name) ==
  LET members == ns.children["members"]
      taken(i) == /\ members[i].class = "NamespaceNode"
                  /\ LET own == Components[NameOf(members[i])] IN Len(own) \in {1, Agreeing(name, own)}
      first == CHOOSE i \in DOMAIN members : taken(i) /\ \A j \in 1..(i - 1) : ~taken(j)
      right == SubSeq(name, Len(Components[NameOf(members[first])]) + 1, Len(name))
  IN IF name = <<>> THEN <<>> ELSE <<first>> \o GetNamespace(members[first], right)

RECURSIVE AddMember(_, _, _)
AddMember(ns, way, member) ==
  IF way = <<>>
  THEN [ns EXCEPT !.children["members"] = Append(@, Link("NamespaceNode", "members", member))]
  ELSE [ns EXCEPT !.children["members"][Head(way)] = AddMember(@, Tail(way), member)]
=============================================================================

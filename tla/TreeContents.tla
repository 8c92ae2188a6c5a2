---------------------------- MODULE TreeContents ----------------------------
(***************************************************************************)
(* What the trees of Templates hold: how the symbol of a declaration       *)
(* writes them to its library file, how they are read, cloned, given       *)
(* bodies and split into tests, by the functions of each class of node     *)
(* (SyntaxTrees).  A .cfg makes these the constants of Templates:          *)
(* SectionOf is SymbolSection, CopyOf is Instance, and so on.  The         *)
(* properties compare the trees the binder gets with the source.           *)
(***************************************************************************)
EXTENDS Templates, SyntaxTrees

-----------------------------------------------------------------------------
(* What a symbol writes. *)

ConstraintOf(n) == IF "constraint" \in DOMAIN n.children THEN n.children["constraint"] ELSE <<>>

Sized(tree) == <<CountToken("8 bytes", Len(tree))>> \o tree
TreeOf(d) == WriteNode(d.node)

\* A class keeps no list of constraints and writes no count of them.
ConstraintsOf(d) ==
  IF d.kind = "class" THEN <<>>
  ELSE <<CountToken("1 byte", Len(ConstraintOf(d.node)))>> \o WriteAll(ConstraintOf(d.node))
Before(d) == IF d.kind = "class" THEN <<>> ELSE <<CountToken("1 byte", 1)>>
After(d) == IF d.kind = "class" THEN <<Token("text", "source file path", Nowhere, 0)>> ELSE <<CountToken("1 byte", 0)>>
SymbolSection(d) ==
  IF d.kind = "concept" THEN TreeOf(d)
  ELSE Before(d) \o WriteList(d.using) \o ConstraintsOf(d) \o Sized(TreeOf(d)) \o After(d)

-----------------------------------------------------------------------------
(* What it reads, at import and later. *)

\* The trees read at once, the position of the one that is skipped, and where
\* the section ends.  The tree skipped stands between its size and what
\* follows the tree.
Skipping(r, using, constraint, last) ==
  LET pos   == constraint.pos
      after == pos + 1 + (IF Has(r, pos, "8 bytes") THEN r.tokens[pos].count ELSE 0)
  IN [using |-> using.nodes, constraint |-> constraint.nodes, pos |-> pos + 1, limit |-> after, end |-> after + 1,
      fault |-> using.fault \/ constraint.fault \/ ~Has(r, pos, "8 bytes") \/ ~Has(r, after, last)]

ReadClassSymbol(r, using) == Skipping(r, using, [nodes |-> <<>>, pos |-> using.pos, fault |-> FALSE], "text")
ReadFunctionSymbol(r, using) ==
  Skipping(r, using, ReadMany(r, using.pos + 1, r.tokens[using.pos].count, "WhereConstraintNode"), "1 byte")
ReadSymbolWith(kind, r) ==
  IF kind = "class" THEN ReadClassSymbol(r, ReadList(r, 1)) ELSE ReadFunctionSymbol(r, ReadList(r, 2))

Importer(tokens, offset) == Reader(tokens, -1, offset)
ImportedSymbol(kind, tokens, offset) == ReadSymbolWith(kind, Importer(tokens, offset))
ImportedConcept(tokens, offset) == ReadNode(Importer(tokens, offset), 1, "ConceptNode")

\* Spans get the file of the symbol.
RootClass(kind) == IF kind = "class" THEN "ClassNode" ELSE "FunctionNode"
SkippedTree(kind, tokens, s) == ReadNode(Reader(tokens, s.file, -1), s.pos, RootClass(kind))

-----------------------------------------------------------------------------
(* Instances. *)

InstanceId == [CreateNode("IdentifierNode", Nowhere) EXCEPT !.values["identifier"] = Text("instance")]
SetId(n) == [n EXCEPT !.children["id"] = <<[InstanceId EXCEPT !.span = n.span]>>]

Instance(how, n) ==
  CASE how = "class"    -> SetId(Clone(n, {"class"}))
    [] how = "function" -> Clone(n, {"function"})
    [] how = "inline"   -> Clone(n, {})

\* The body of a member function is a clone of the body the instance has kept,
\* unless it is a default one.
IsDefault(n) == n.values["specifiers"].text = "default"

Bodied(n, i) ==
  {[n EXCEPT !.children["members"][i].children["body"] =
      IF IsDefault(member) THEN @ ELSE <<Link(member.class, "body", Clone(member.children["bodySource"][1], {}))>>] :
   member \in {m \in {n.children["members"][i]} :
                 /\ "FunctionNode" \in IsA[m.class]
                 /\ IsDefault(m) \/ m.children["bodySource"] # <<>>}}

-----------------------------------------------------------------------------
(* One compile unit for each test of a file. *)

SystemImport ==
  [CreateNode("NamespaceImportNode", Nowhere) EXCEPT
     !.children["ns"] = <<Link("NamespaceImportNode", "ns",
                            [CreateNode("IdentifierNode", Nowhere) EXCEPT !.values["identifier"] = Text("System")])>>]

Adding(ns, t) == AddMember(ns, GetNamespace(ns, t.from), t.function)
TestUnit(copy, t) ==
  [copy EXCEPT !.children["globalNs"] = <<Adding(AddMember(@[1], <<>>, SystemImport), t)>>]
TestUnitsOf(environment, tests) == [i \in DOMAIN tests |-> TestUnit(Clone(environment, {}), tests[i])]
SplitTests(compileUnit) ==
  TestUnitsOf(Clone(compileUnit, {"tests"}), MovedTests(compileUnit.children["globalNs"][1], <<>>))

-----------------------------------------------------------------------------
(* Properties. *)
\* One tree: the class of each node, where it is in its file, its values.
RECURSIVE Content(_)
Content(n) ==
  [class |-> n.class, at |-> n.span.at, values |-> [m \in DOMAIN n.values |-> n.values[m].text],
   children |-> [m \in DOMAIN n.children |-> [i \in DOMAIN n.children[m] |-> Content(n.children[m][i])]]]

\* What the library file does not keep: that an `as' expression is not an
\* `is' expression, and the underlying type of an enumeration.
RECURSIVE Stored(_)
Stored(n) ==
  [n EXCEPT
     !.class = IF @ = "AsNode" THEN "IsNode" ELSE @,
     !.children = [m \in DOMAIN @ |-> IF n.class = "EnumTypeNode" /\ m = "underlyingType" THEN <<>>
                                      ELSE [i \in DOMAIN @[m] |-> Stored(@[m][i])]]]

\* An instance of a class: no template parameters, the bodies kept aside; an
\* instance of a function template: no template parameters.
Aside(n) ==
  IF "FunctionNode" \in IsA[n.class]
  THEN [n EXCEPT !.children["bodySource"] = n.children["body"], !.children["body"] = <<>>] ELSE n
ClassInstance(n) ==
  [n EXCEPT !.children["templateParameters"] = <<>>, !.children["id"] = <<>>,
            !.children["members"] = [i \in DOMAIN @ |-> Aside(@[i])]]
FunctionInstance(n) == [n EXCEPT !.children["templateParameters"] = <<>>]

\* What is left of an instance when the bodies instantiated so far are taken
\* away; a body has to be its source.
Uninstantiated(n) ==
  [n EXCEPT !.children["id"] = <<>>,
            !.children["members"] =
               [i \in DOMAIN @ |-> IF "FunctionNode" \in IsA[@[i].class]
                                   THEN [@[i] EXCEPT !.children["body"] = <<>>] ELSE @[i]]]
BodiesAreSources(n) ==
  \A i \in DOMAIN n.children["members"] :
    LET f == n.children["members"][i]
    IN "FunctionNode" \in IsA[f.class] /\ f.children["body"] # <<>> =>
         Content(f.children["body"][1]) = Content(f.children["bodySource"][1])

InstanceOf(c, source) ==
  CASE c.how = "class"    -> /\ Content(Uninstantiated(c.node)) = Content(ClassInstance(source))
                             /\ BodiesAreSources(c.node)
    [] c.how = "function" -> Content(c.node) = Content(FunctionInstance(source))
    [] c.how = "inline"   -> Content(c.node) = Content(source)

\* The tests of a unit, with the names of the namespaces around them.
RECURSIVE TestsOf(_, _)
TestsOf(ns, name) ==
  UNION {LET n == ns.children["members"][i]
         IN IF IsTest(n) THEN {[namespace |-> name, test |-> Content(n)]}
            ELSE IF n.class = "NamespaceNode" THEN TestsOf(n, name \o Components[NameOf(n)]) ELSE {} :
         i \in DOMAIN ns.children["members"]}
RECURSIVE WithoutTests(_)
WithoutTests(n) ==
  IF n.class \notin {"CompileUnitNode", "NamespaceNode"} THEN n
  ELSE [n EXCEPT !.children =
          [m \in DOMAIN @ |-> LET kept == SelectSeq(@[m], LAMBDA k : ~IsTest(k) /\ Content(k) # Content(SystemImport))
                              IN [i \in DOMAIN kept |-> WithoutTests(kept[i])]]]
\* Two namespaces side by side, the first with a name of one component: the
\* search for the second stops at the first.
RECURSIVE Ambiguous(_)
Ambiguous(ns) ==
  LET inside == {i \in DOMAIN ns.children["members"] : ns.children["members"][i].class = "NamespaceNode"}
  IN \/ \E i, j \in inside : i < j /\ Len(Components[NameOf(ns.children["members"][i])]) = 1
     \/ \E i \in inside : Ambiguous(ns.children["members"][i])

TestUnitOf(c, source) ==
  LET global(n) == n.children["globalNs"][1]
      tests == TestsOf(global(c.node), <<>>)
  IN /\ Content(WithoutTests(c.node)) = Content(WithoutTests(source))
     /\ Cardinality(tests) = 1
     /\ Ambiguous(global(source)) \/ tests \subseteq TestsOf(global(source), <<>>)

\* Every instance the binder works on (a class or function instance, the copy
\* of an inline function, a unit test with its surroundings) is, node by node,
\* the declaration in its source file, whether it was parsed or came through a
\* library, except for what the library file is known to lose.
InstancesAreTheSource ==
  LET source == IF home = "library" THEN Stored(declared.node) ELSE declared.node
  IN /\ \A c \in copies : IF c.how = "test" THEN TestUnitOf(c, source) ELSE InstanceOf(c, source)
     /\ \A i \in DOMAIN node : Content(node[i]) = Content(source)

\* The same without the exception.
LibraryInstancesAreTheSource == \A c \in copies : c.how # "test" => InstanceOf(c, declared.node)

\* Each reader stops exactly where the writer of the tree stopped, has asked
\* for every value in the format it was written in and has found a creator
\* for every node type.
ReaderFollowsWriter == ~lastRead.fault /\ lastRead.end = lastRead.limit

\* Declaration visitor, prebinder and binder ask the nodes they visit for
\* their parents (GetFunction, FullName, containers): every node that a visit
\* of an instance reaches is linked to the node above it, wherever it came
\* from; the global namespace is the one without a parent.
InstancesAreLinked ==
  \A c \in copies :
    \A n \in Range(Visited(c.node, AllFlags)) :
      n.linked \/ (c.how = "test" /\ n.class = "NamespaceNode" /\ NameOf(n) = "")

RECURSIVE AllNodes(_)
AllNodes(n) ==
  {n} \cup UNION {UNION {AllNodes(n.children[m][i]) : i \in DOMAIN n.children[m]} : m \in DOMAIN n.children}
SpansOf(n) == {n.span} \cup {n.values[m].span : m \in DOMAIN n.values}

\* Messages and debug information name the file a node was declared in, also
\* after the library's files got other numbers in the importing project: for
\* trees read at import, trees read later and their copies.  Positions that
\* nobody has set are excepted.
SpansAreInTheirFile ==
  LET files == IF home = "library" THEN LibraryFiles ELSE OwnFiles
      trees == {c.node : c \in copies} \cup Range(node) \cup Range(symbol.using) \cup Range(symbol.constraint)
  IN \A t \in trees : \A n \in AllNodes(t) : \A s \in SpansOf(n) :
       s.at = 0 \/ registry[s.file + 1] = files[declared.node.span.file + 1]
=============================================================================

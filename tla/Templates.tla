----------------------------- MODULE Templates ------------------------------
(***************************************************************************)
(* The life of a declaration whose syntax tree outlives the compilation of *)
(* its file: a class or function template, an inline or constexpr          *)
(* function, a concept, a file of unit tests.                              *)
(*                                                                         *)
(* The project that declares it either uses it itself or writes it to its  *)
(* library file.  Another project imports the library: it registers the    *)
(* library's source files, reads the symbols, reads the trees of concepts, *)
(* constraints and using declarations at once and only notes where the     *)
(* other trees are (Module::Import, ClassTypeSymbol, FunctionSymbol,       *)
(* ConceptSymbol).  A compile unit that needs a tree reads it (Cm.Bind's   *)
(* repositories) and clones it, once for each list of type arguments; the  *)
(* trees read are freed when a unit is released or the compilation ends.   *)
(*                                                                         *)
(* Binding of the clones is left out.  What a tree holds and how it is     *)
(* written, read and cloned is the subject of TreeContents; here these are *)
(* constants, and the theorems hold whatever they are.                     *)
(***************************************************************************)
EXTENDS Integers, Sequences

CONSTANTS
  Declarations,  \* records: kind, using declarations, node, the classes' bodies not for default
  OwnFiles,      \* names of the files of the project that compiles
  LibraryFiles,  \* names of the files of the library
  Imports,       \* numbers of files of other libraries imported before (bound)
  Arguments,     \* lists of type arguments a template is instantiated with (bound)
  Units          \* number of compile units (bound)

CONSTANTS
  SectionOf(_),         \* what the symbol of a declaration writes to the library file
  ReadConcept(_, _),    \* section, file offset: the concept its symbol reads at import
  ReadSymbol(_, _, _),  \* kind, section, file offset: what the other symbols read at import
  ReadTree(_, _, _),    \* kind, section, symbol: the tree that was skipped then
  CopyOf(_, _),         \* purpose, tree: the clone made of it
  WithBody(_, _),       \* instance, member: the instance when that body is instantiated (a
                        \* set, empty when there is no such body)
  TestUnits(_)          \* file of tests: its compile units

\* A position is in a file of the project that declares.
ASSUME TreesAssumption ==
  /\ Units \in Nat \ {0} /\ Imports \subseteq Nat
  /\ OwnFiles \in Seq(STRING) /\ LibraryFiles \in Seq(STRING)
  /\ \A d \in Declarations :
       /\ d.node.span.file \in Nat
       /\ d.node.span.file + 1 \in DOMAIN OwnFiles \cap DOMAIN LibraryFiles

VARIABLES
  declared,   \* the declaration, as the parser made it
  home,       \* "project" or "library": where it is declared
  stage,      \* "parsed", "written", "compiling", "ended"
  registry,   \* FileRegistry: the names of the parsed files, file index 0 first
  section,    \* the library file: the tokens the symbol has written
  symbol,     \* what Import keeps of it: file index, using, constraint, pos
  node,       \* the symbol's entry in symbolNodeMap: a sequence of at most one node
  unit,       \* number of the compile unit that is being bound
  owing,      \* <<unit, repository>>: who frees the node that was read
  copies,     \* instances, by compile unit, repository and type arguments
  bodies,     \* <<arguments, member>> whose body this unit has instantiated
  lastRead    \* the last read: where it ended, where it should have, fault

vars == <<declared, home, stage, registry, section, symbol, node, unit, owing, copies, bodies, lastRead>>

NoRead   == [end |-> 0, limit |-> 0, fault |-> FALSE]
NoSymbol == [file |-> -1, using |-> <<>>, constraint |-> <<>>, pos |-> 0, limit |-> 0]

Init ==
  /\ declared \in Declarations
  /\ home \in (IF declared.kind = "test" THEN {"project"} ELSE {"project", "library"})
  /\ stage = "parsed" /\ registry = <<>> /\ section = <<>> /\ symbol = NoSymbol
  /\ node = <<>> /\ unit = 1 /\ owing = {} /\ copies = {} /\ bodies = {} /\ lastRead = NoRead

-----------------------------------------------------------------------------
(* The library file. *)

Write ==
  /\ stage = "parsed" /\ home = "library"
  /\ section' = SectionOf(declared)
  /\ stage' = "written"
  /\ UNCHANGED <<declared, home, registry, symbol, node, unit, owing, copies, bodies, lastRead>>

-----------------------------------------------------------------------------
(* Import. *)

\* The project's own files are in the registry; the files of the libraries
\* that this one refers to come before its own.
Import(earlier) ==
  LET before == OwnFiles \o [i \in 1..earlier |-> "earlier"]
      offset == Len(before)
      file == IF offset > 0 THEN declared.node.span.file + offset ELSE declared.node.span.file
      keep(got) == symbol' = [file |-> file, using |-> got.using, constraint |-> got.constraint,
                              pos |-> got.pos, limit |-> got.limit]
      ends(got) == lastRead' = [end |-> got.end, limit |-> Len(section) + 1, fault |-> got.fault]
  IN /\ stage = "written"
     /\ registry' = before \o LibraryFiles
     /\ \/ /\ declared.kind = "concept"
           /\ \E got \in {ReadConcept(section, offset)} :
                /\ node' = <<got.node>>
                /\ symbol' = [NoSymbol EXCEPT !.file = file]
                /\ lastRead' = [end |-> got.pos, limit |-> Len(section) + 1, fault |-> got.fault]
        \/ /\ declared.kind # "concept"
           /\ \E got \in {ReadSymbol(declared.kind, section, offset)} :
                keep(got) /\ ends(got)
           /\ UNCHANGED node
     /\ stage' = "compiling"
     /\ UNCHANGED <<declared, home, section, unit, owing, copies, bodies>>

\* A declaration of the project itself: its node is the one the parser made.
Declare ==
  /\ stage = "parsed" /\ home = "project"
  /\ registry' = OwnFiles
  /\ symbol' = [NoSymbol EXCEPT !.file = declared.node.span.file]
  /\ node' = <<declared.node>>
  /\ stage' = "compiling"
  /\ UNCHANGED <<declared, home, section, unit, owing, copies, bodies, lastRead>>

-----------------------------------------------------------------------------
(* The compile units, one after the other. *)

\* GetNode, and if there is none the read.
\* ReadClassNode and ReadFunctionNode read where Import has left off.
NodeRead(got) ==
  [node |-> got.node, read |-> [end |-> got.pos, limit |-> symbol.limit, fault |-> got.fault]]
GetNode ==
  IF node # <<>> THEN [node |-> node[1], read |-> lastRead]
  ELSE NodeRead(ReadTree(declared.kind, section, symbol))

Found(got) == node' = <<got.node>> /\ lastRead' = got.read

Compiling(kind) == stage = "compiling" /\ unit \in 1..Units /\ declared.kind = kind

Copy(u, how, arguments, n) == [unit |-> u, how |-> how, arguments |-> arguments, node |-> [n EXCEPT !.linked = TRUE]]
Bound(how, arguments) == \E c \in copies : c.how = how /\ c.arguments = arguments

BindTemplateTypeSymbol(arguments) ==
  /\ Compiling("class") /\ ~Bound("class", arguments)
  /\ owing' = owing \cup {<<unit, "class templates">>}
  /\ \E got \in {GetNode} :
       /\ Found(got)
       /\ copies' = copies \cup {Copy(unit, "class", arguments, CopyOf("class", got.node))}
  /\ UNCHANGED <<declared, home, stage, registry, section, symbol, unit, bodies>>

\* A template id with fewer arguments than parameters.
ResolveDefaultTypeArguments ==
  /\ Compiling("class")
  /\ \E i \in DOMAIN declared.node.children["templateParameters"] :
       declared.node.children["templateParameters"][i].children["defaultTemplateArgument"] # <<>>
  /\ \E got \in {GetNode} : Found(got)
  /\ UNCHANGED <<declared, home, stage, registry, section, symbol, unit, owing, copies, bodies>>

\* A member function of an instance is called: its body is a clone of the body
\* the instance has kept, unless it is a default one; once in each unit.
Instantiate(arguments, i) ==
  /\ Compiling("class") /\ <<arguments, i>> \notin bodies
  /\ \E c \in copies :
       /\ c.how = "class" /\ c.arguments = arguments
       /\ \E n \in WithBody(c.node, i) : copies' = (copies \ {c}) \cup {[c EXCEPT !.node = n]}
  /\ bodies' = bodies \cup {<<arguments, i>>}
  /\ UNCHANGED <<declared, home, stage, registry, section, symbol, node, unit, owing, lastRead>>

InstantiateFunctionTemplate(arguments) ==
  /\ Compiling("function")
  /\ ~\E c \in copies : c.unit = unit /\ c.arguments = arguments
  /\ \E got \in {GetNode} :
       /\ Found(got)
       /\ copies' = copies \cup {Copy(unit, "function", arguments, CopyOf("function", got.node))}
  /\ owing' = owing \cup {<<unit, "function templates">>}
  /\ UNCHANGED <<declared, home, stage, registry, section, symbol, unit, bodies>>

\* An inline function that another compile unit declares (here: unit 1).
InstantiateInline ==
  /\ Compiling("inline")
  /\ ~(home = "project" /\ unit = 1)
  /\ <<unit, "inline functions">> \notin owing
  /\ owing' = owing \cup {<<unit, "inline functions">>}
  /\ \E got \in {GetNode} :
       /\ Found(got)
       /\ copies' = copies \cup {Copy(unit, "inline", "", CopyOf("inline", got.node))}
  /\ UNCHANGED <<declared, home, stage, registry, section, symbol, unit, bodies>>

\* Variant: the constexpr function read is not noted for Release.
GetNodeForKept ==
  /\ Compiling("constexpr")
  /\ \E got \in {GetNode} : Found(got)
  /\ UNCHANGED <<declared, home, stage, registry, section, symbol, unit, owing, copies, bodies>>

\* The evaluator runs the tree of a constexpr function itself.
GetNodeFor ==
  /\ Compiling("constexpr")
  /\ \E got \in {GetNode} : Found(got)
  /\ owing' = IF node = <<>> THEN owing \cup {<<unit, "constexpr functions">>} ELSE owing
  /\ UNCHANGED <<declared, home, stage, registry, section, symbol, unit, copies, bodies>>

\* The test runner splits a file into one compile unit for each test.
SplitIntoTestUnits ==
  /\ Compiling("test") /\ copies = {}
  /\ \E all \in {TestUnits(node[1])} :
       copies' = {Copy(i, "test", "", all[i]) : i \in DOMAIN all}
  /\ UNCHANGED <<declared, home, stage, registry, section, symbol, node, unit, owing, bodies, lastRead>>

\* FreeClassNode and FreeFunctionNode: nothing happens unless the node was read.
Freed(who) == IF home = "library" /\ (owing \cap who) # {} THEN <<>> ELSE node

\* BoundCompileUnit::Release, after Bind of a unit.
Release ==
  /\ stage = "compiling" /\ unit \in 1..Units
  /\ node' = Freed({<<unit, "constexpr functions">>})
  /\ owing' = owing \ {<<unit, "constexpr functions">>}
  /\ unit' = unit + 1 /\ bodies' = {}
  /\ UNCHANGED <<declared, home, stage, registry, section, symbol, copies, lastRead>>

\* The units are destroyed at the end of Compile, their repositories with them.
EndOfCompile ==
  /\ stage = "compiling" /\ unit = Units + 1
  /\ node' = Freed(owing)
  /\ owing' = {} /\ stage' = "ended"
  /\ UNCHANGED <<declared, home, registry, section, symbol, unit, copies, bodies, lastRead>>

MemberIndexes == IF declared.kind = "class" THEN DOMAIN declared.node.children["members"] ELSE {}

Next ==
  \/ Write \/ Declare \/ \E earlier \in Imports : Import(earlier)
  \/ \E arguments \in Arguments :
       \/ BindTemplateTypeSymbol(arguments) \/ InstantiateFunctionTemplate(arguments)
       \/ \E i \in MemberIndexes : Instantiate(arguments, i)
  \/ ResolveDefaultTypeArguments \/ InstantiateInline \/ GetNodeFor \/ SplitIntoTestUnits
  \/ Release \/ EndOfCompile

Spec == Init /\ [][Next]_vars

-----------------------------------------------------------------------------
(* Properties. *)

\* Every tree read from a library for an instance is freed by the end of the
\* compilation, and its symbol has no node again; a class template of which
\* only the default arguments were looked at keeps its tree.
TreesReadAreFreed ==
  stage = "ended" /\ home = "library" /\ declared.kind # "concept" =>
    node = <<>> \/ (declared.kind = "class" /\ copies = {})
=============================================================================

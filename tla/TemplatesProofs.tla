-------------------------- MODULE TemplatesProofs ---------------------------
(***************************************************************************)
(* Proofs about Templates, for every number of units, imports, lists of    *)
(* type arguments and declarations, and whatever writing, reading and      *)
(* copying do with a tree.                                                 *)
(***************************************************************************)
EXTENDS Templates, TLAPS

-----------------------------------------------------------------------------
(* The invariant behind TreesReadAreFreed.  While units are compiled, a      *)
(* tree that was read from a library is owed by a repository of its kind;    *)
(* a class template whose default arguments alone were looked at is not, but *)
(* then it has no instances either.  The debt of a constexpr function is     *)
(* settled with its unit, any other stays until the end.                     *)

Repository ==
  [class     |-> "class templates",     function |-> "function templates",
   inline    |-> "inline functions",    constexpr |-> "constexpr functions"]

Owed(kind) == \E debt \in owing : debt[2] = Repository[kind]

Early == stage \in {"parsed", "written"}
Unread == home = "library" => node = <<>>
InstancesOwe == declared.kind = "class" /\ copies # {} => Owed("class")
ReadOwes ==
  home = "library" /\ node # <<>> /\ declared.kind # "concept" =>
    \/ declared.kind \in {"class", "function", "inline", "constexpr"} /\ Owed(declared.kind)
    \/ declared.kind = "class" /\ copies = {}

IInv ==
  /\ Early => copies = {} /\ Unread
  /\ stage = "compiling" => InstancesOwe /\ ReadOwes
  /\ TreesReadAreFreed

\* IInv holds of a declaration that was parsed.
LEMMA InitHolds == Init => IInv
  BY DEF Init, IInv, Early, Unread, TreesReadAreFreed

\* Who notes a tree in a repository owes it.
LEMMA NotingOwes ==
  ASSUME NEW u, NEW kind, kind \in {"class", "function", "inline", "constexpr"},
         <<u, Repository[kind]>> \in owing'
  PROVE  Owed(kind)'
<1> DEFINE debt == <<u, Repository[kind]>>
<1>1. debt[2] = Repository[kind]
  OBVIOUS
<1> HIDE DEF debt
<1>2. debt \in owing'
  BY DEF debt
<1> QED
  BY <1>1, <1>2 DEF Owed

\* A use of the tree that leaves a debt with its repository keeps IInv.
LEMMA UseKeepsTheDebt ==
  ASSUME IInv, stage = "compiling",
         UNCHANGED <<declared, home, stage>>,
         declared.kind \in {"class", "function", "inline", "constexpr"}, Owed(declared.kind)'
  PROVE  IInv'
<1>1. declared' = declared /\ home' = home /\ stage' = "compiling"
  OBVIOUS
<1>2. InstancesOwe' /\ ReadOwes'
  BY <1>1 DEF InstancesOwe, ReadOwes, Owed
<1> QED
  BY <1>1, <1>2 DEF IInv, Early, TreesReadAreFreed

\* IInv is kept by every step.
LEMMA StepsKeep == IInv /\ [Next]_vars => IInv'
<1> SUFFICES ASSUME IInv, [Next]_vars PROVE IInv'
  OBVIOUS
<1>1. CASE Write
  BY <1>1 DEF Write, IInv, Early, Unread, TreesReadAreFreed
<1>2. CASE Declare
  BY <1>2 DEF Declare, IInv, Early, InstancesOwe, ReadOwes, TreesReadAreFreed
<1>3. ASSUME NEW earlier \in Imports, Import(earlier) PROVE IInv'
  <2>1. /\ stage = "written" /\ stage' = "compiling" /\ UNCHANGED <<declared, home, copies, owing>>
        /\ declared.kind # "concept" => node' = node
    BY <1>3 DEF Import
  <2>2. copies = {} /\ Unread
    BY <2>1 DEF IInv, Early
  <2> QED
    BY <2>1, <2>2 DEF IInv, Early, Unread, InstancesOwe, ReadOwes, TreesReadAreFreed
<1>4. ASSUME NEW arguments, BindTemplateTypeSymbol(arguments) PROVE IInv'
  <2>1. /\ stage = "compiling" /\ declared.kind = "class" /\ UNCHANGED <<declared, home, stage>>
        /\ owing' = owing \cup {<<unit, "class templates">>}
    BY <1>4 DEF BindTemplateTypeSymbol, Compiling
  <2>2. Owed("class")'
    BY <2>1, NotingOwes, Repository["class"] = "class templates" DEF Repository
  <2> QED
    BY <2>1, <2>2, UseKeepsTheDebt
<1>5. ASSUME NEW arguments, InstantiateFunctionTemplate(arguments) PROVE IInv'
  <2>1. /\ stage = "compiling" /\ declared.kind = "function" /\ UNCHANGED <<declared, home, stage>>
        /\ owing' = owing \cup {<<unit, "function templates">>}
    BY <1>5 DEF InstantiateFunctionTemplate, Compiling
  <2>2. Owed("function")'
    BY <2>1, NotingOwes, Repository["function"] = "function templates" DEF Repository
  <2> QED
    BY <2>1, <2>2, UseKeepsTheDebt
<1>6. ASSUME NEW arguments, NEW i, Instantiate(arguments, i) PROVE IInv'
  <2>1. /\ stage = "compiling" /\ declared.kind = "class" /\ copies # {}
        /\ UNCHANGED <<declared, home, stage, owing>>
    BY <1>6 DEF Instantiate, Compiling
  <2>2. Owed("class")'
    BY <2>1 DEF IInv, InstancesOwe, Owed
  <2> QED
    BY <2>1, <2>2, UseKeepsTheDebt
<1>7. CASE ResolveDefaultTypeArguments
  <2>1. /\ stage = "compiling" /\ declared.kind = "class"
        /\ UNCHANGED <<declared, home, stage, owing, copies>>
    BY <1>7 DEF ResolveDefaultTypeArguments, Compiling
  <2>2. InstancesOwe' /\ ReadOwes'
    BY <2>1 DEF IInv, InstancesOwe, ReadOwes, Owed
  <2> QED
    BY <2>1, <2>2 DEF IInv, Early, TreesReadAreFreed
<1>8. CASE InstantiateInline
  <2>1. /\ stage = "compiling" /\ declared.kind = "inline" /\ UNCHANGED <<declared, home, stage>>
        /\ owing' = owing \cup {<<unit, "inline functions">>}
    BY <1>8 DEF InstantiateInline, Compiling
  <2>2. Owed("inline")'
    BY <2>1, NotingOwes, Repository["inline"] = "inline functions" DEF Repository
  <2> QED
    BY <2>1, <2>2, UseKeepsTheDebt
<1>9. CASE GetNodeFor
  <2>1. /\ stage = "compiling" /\ declared.kind = "constexpr" /\ UNCHANGED <<declared, home, stage>>
        /\ owing' = IF node = <<>> THEN owing \cup {<<unit, "constexpr functions">>} ELSE owing
    BY <1>9 DEF GetNodeFor, Compiling
  <2>2. CASE home = "library"
    <3>1. ASSUME node = <<>> PROVE Owed("constexpr")'
      BY <2>1, <3>1, NotingOwes, Repository["constexpr"] = "constexpr functions" DEF Repository
    <3>2. ASSUME node # <<>> PROVE Owed("constexpr")'
      BY <2>1, <2>2, <3>2 DEF IInv, ReadOwes, Owed
    <3>3. Owed("constexpr")'
      BY <3>1, <3>2
    <3> QED
      BY <2>1, <3>3, UseKeepsTheDebt
  <2>3. CASE home # "library"
    BY <2>1, <2>3 DEF IInv, Early, InstancesOwe, ReadOwes, TreesReadAreFreed
  <2> QED
    BY <2>2, <2>3
<1>10. CASE SplitIntoTestUnits
  <2>1. /\ stage = "compiling" /\ declared.kind = "test"
        /\ UNCHANGED <<declared, home, stage, owing, node>>
    BY <1>10 DEF SplitIntoTestUnits, Compiling
  <2> QED
    BY <2>1 DEF IInv, Early, InstancesOwe, ReadOwes, Owed, TreesReadAreFreed
<1>11. CASE Release
  <2>1. /\ stage = "compiling" /\ UNCHANGED <<declared, home, stage, copies>>
        /\ node' = Freed({<<unit, "constexpr functions">>})
        /\ owing' = owing \ {<<unit, "constexpr functions">>}
    BY <1>11 DEF Release
  <2>2. ASSUME NEW kind \in {"class", "function", "inline"}, Owed(kind) PROVE Owed(kind)'
    <3>1. PICK debt \in owing : debt[2] = Repository[kind]
      BY <2>2 DEF Owed
    <3>2. Repository[kind] # "constexpr functions"
      <4>1. /\ Repository["class"] # "constexpr functions"
            /\ Repository["function"] # "constexpr functions"
            /\ Repository["inline"] # "constexpr functions"
        BY DEF Repository
      <4>2. kind = "class" \/ kind = "function" \/ kind = "inline"
        OBVIOUS
      <4> QED
        BY <4>1, <4>2
    <3>3. ASSUME debt = <<unit, "constexpr functions">> PROVE FALSE
      <4>1. debt[2] = "constexpr functions"
        BY <3>3
      <4> QED
        BY <3>1, <3>2, <4>1
    <3>4. debt \in owing'
      BY <2>1, <3>3
    <3> QED
      BY <3>1, <3>4 DEF Owed
  <2>3. home = "library" => node' = <<>> \/ (node' = node /\ owing' = owing)
    BY <2>1 DEF Freed
  <2>4. InstancesOwe'
    BY <2>1, <2>2 DEF IInv, InstancesOwe
  <2>5. ReadOwes'
    BY <2>1, <2>3 DEF IInv, ReadOwes, Owed
  <2> QED
    BY <2>1, <2>4, <2>5 DEF IInv, Early, TreesReadAreFreed
<1>12. CASE EndOfCompile
  <2>1. /\ stage = "compiling" /\ stage' = "ended" /\ UNCHANGED <<declared, home, copies>>
        /\ node' = Freed(owing)
    BY <1>12 DEF EndOfCompile
  <2>2. ReadOwes
    BY <2>1 DEF IInv
  <2>3. TreesReadAreFreed'
    BY <2>1, <2>2 DEF ReadOwes, Owed, Freed, TreesReadAreFreed
  <2> QED
    BY <2>1, <2>3 DEF IInv, Early
<1>13. CASE UNCHANGED vars
  BY <1>13 DEF vars, IInv, Early, Unread, InstancesOwe, ReadOwes, Owed, TreesReadAreFreed
<1> QED
  BY <1>1, <1>2, <1>3, <1>4, <1>5, <1>6, <1>7, <1>8, <1>9, <1>10, <1>11, <1>12, <1>13 DEF Next

\* Every tree read from a library is freed by the end of the compilation,
\* however many units, instances and kinds of use there were.
THEOREM TreesAreFreed == Spec => []TreesReadAreFreed
<1>1. IInv => TreesReadAreFreed
  BY DEF IInv
<1> QED
  BY <1>1, InitHolds, StepsKeep, PTL DEF Spec

-----------------------------------------------------------------------------
(* The file of a declaration, after the files of its library were numbered   *)
(* anew behind those registered before.                                      *)

Files(where) == IF where = "library" THEN LibraryFiles ELSE OwnFiles

FileIsTheSources == ~Early => registry[symbol.file + 1] = Files(home)[declared.node.span.file + 1]

FileInv ==
  /\ declared \in Declarations
  /\ stage = "written" => home = "library"
  /\ FileIsTheSources

\* Names of files, those of other libraries among them.
Names == STRING \cup {"earlier"}

\* A list of members of a set is one of members of a larger set.
LEMMA LargerSet ==
  ASSUME NEW S, NEW T, S \subseteq T, NEW list \in Seq(S)
  PROVE  list \in Seq(T)
  OBVIOUS

\* The lists of files are lists of names.
LEMMA FilesAreNames == OwnFiles \in Seq(Names) /\ LibraryFiles \in Seq(Names)
<1>1. STRING \subseteq Names
  BY DEF Names
<1> QED
  BY <1>1, TreesAssumption, LargerSet

\* The later of two lists of files, in the list of both.
LEMMA LaterFiles ==
  ASSUME NEW A \in Seq(Names), NEW B \in Seq(Names), NEW i \in Nat, i + 1 \in DOMAIN B
  PROVE  (A \o B)[i + Len(A) + 1] = B[i + 1]
  OBVIOUS

\* A list of anonymous files, and two lists put together.
LEMMA ConstantLists ==
  ASSUME NEW n \in Nat, NEW S, NEW name, name \in S
  PROVE  [i \in 1..n |-> name] \in Seq(S) /\ Len([i \in 1..n |-> name]) = n
<1>1. PICK list : list = [i \in 1..n |-> name]
  OBVIOUS
<1>2. [i \in 1..n |-> name] \in Seq(S)
  OBVIOUS
<1>3. DOMAIN list = 1..n /\ Len(list) \in Nat /\ DOMAIN list = 1..Len(list)
  BY <1>1, <1>2
<1>4. Len(list) = n
  BY <1>3
<1> QED
  BY <1>1, <1>2, <1>4

LEMMA ListsTogether ==
  ASSUME NEW a \in Seq(Names), NEW b \in Seq(Names)
  PROVE  a \o b \in Seq(Names) /\ Len(a \o b) = Len(a) + Len(b)
  OBVIOUS

\* The files of earlier libraries are files, and as many as there are.
LEMMA EarlierFiles ==
  ASSUME NEW n \in Nat
  PROVE  LET before == OwnFiles \o [i \in 1..n |-> "earlier"]
         IN before \in Seq(Names) /\ Len(before) = Len(OwnFiles) + n
<1>1. OwnFiles \in Seq(Names)
  BY TreesAssumption, FilesAreNames
<1>2. "earlier" \in Names
  BY DEF Names
<1>3. /\ [i \in 1..n |-> "earlier"] \in Seq(Names)
      /\ Len([i \in 1..n |-> "earlier"]) = n
  BY <1>2, ConstantLists
<1> QED
  BY <1>1, <1>3, ListsTogether

\* Import adds to the number of a file what stands before the library's files.
LEMMA ImportNumbersFiles ==
  ASSUME NEW n \in Imports, Import(n), declared \in Declarations
  PROVE  registry'[symbol'.file + 1] = LibraryFiles[declared.node.span.file + 1]
<1> DEFINE before == OwnFiles \o [i \in 1..n |-> "earlier"]
           file   == declared.node.span.file
           number == IF Len(before) > 0 THEN file + Len(before) ELSE file
<1>1. registry' = before \o LibraryFiles
  BY DEF Import
<1>2. symbol'.file = number
  <2>1. \/ symbol' = [NoSymbol EXCEPT !.file = number]
        \/ \E got : symbol' = [file |-> number, using |-> got.using, constraint |-> got.constraint,
                             pos |-> got.pos, limit |-> got.limit]
    BY DEF Import
  <2>2. [NoSymbol EXCEPT !.file = number].file = number
    BY DEF NoSymbol
  <2>3. ASSUME NEW got, symbol' = [file |-> number, using |-> got.using, constraint |-> got.constraint,
                                   pos |-> got.pos, limit |-> got.limit]
        PROVE  symbol'.file = number
    BY <2>3
  <2> HIDE DEF number
  <2> QED
    BY <2>1, <2>2, <2>3
<1>3. /\ n \in Nat /\ file \in Nat
      /\ file + 1 \in DOMAIN OwnFiles /\ file + 1 \in DOMAIN LibraryFiles
      /\ OwnFiles \in Seq(Names) /\ LibraryFiles \in Seq(Names)
  BY TreesAssumption, FilesAreNames
<1>4. before \in Seq(Names) /\ Len(before) = Len(OwnFiles) + n
  BY <1>3, EarlierFiles
<1>5. Len(before) \in Nat /\ Len(before) > 0
  BY <1>3, <1>4
<1>6. number = file + Len(before)
  BY <1>5
<1> HIDE DEF before, file, number
<1>8. (before \o LibraryFiles)[file + Len(before) + 1] = LibraryFiles[file + 1]
  BY <1>3, <1>4, LaterFiles
<1> QED
  BY <1>1, <1>2, <1>6, <1>8 DEF file

\* What the other steps leave alone.
LEMMA StepsKeepFiles == FileInv /\ [Next]_vars => FileInv'
<1> SUFFICES ASSUME FileInv, [Next]_vars PROVE FileInv'
  OBVIOUS
<1>1. CASE Write
  BY <1>1 DEF Write, FileInv, FileIsTheSources, Early
<1>2. CASE Declare
  <2>1. /\ stage' = "compiling" /\ declared' = declared /\ home' = home /\ home = "project"
        /\ registry' = OwnFiles /\ symbol'.file = declared.node.span.file
    BY <1>2 DEF Declare, NoSymbol
  <2> QED
    BY <2>1 DEF FileInv, FileIsTheSources, Files
<1>3. ASSUME NEW earlier \in Imports, Import(earlier) PROVE FileInv'
  <2>1. stage = "written" /\ stage' = "compiling" /\ declared' = declared /\ home' = home
    BY <1>3 DEF Import
  <2>2. home = "library" /\ declared \in Declarations
    BY <2>1 DEF FileInv
  <2>3. registry'[symbol'.file + 1] = LibraryFiles[declared.node.span.file + 1]
    BY <1>3, <2>2, ImportNumbersFiles
  <2> QED
    BY <2>1, <2>2, <2>3 DEF FileInv, FileIsTheSources, Files
<1>4. ASSUME UNCHANGED <<declared, home, registry, symbol>>, ~Early \/ stage' = stage,
             stage' \in {stage, "ended"}
      PROVE  FileInv'
  BY <1>4 DEF FileInv, FileIsTheSources, Early
<1>5. ASSUME NEW arguments,
             \/ BindTemplateTypeSymbol(arguments) \/ InstantiateFunctionTemplate(arguments)
             \/ \E i \in MemberIndexes : Instantiate(arguments, i)
      PROVE  FileInv'
  BY <1>4, <1>5 DEF BindTemplateTypeSymbol, InstantiateFunctionTemplate, Instantiate, Compiling
<1>6. CASE ResolveDefaultTypeArguments \/ InstantiateInline \/ GetNodeFor \/ SplitIntoTestUnits
  BY <1>4, <1>6 DEF ResolveDefaultTypeArguments, InstantiateInline, GetNodeFor, SplitIntoTestUnits
<1>7. CASE Release \/ EndOfCompile
  BY <1>4, <1>7 DEF Release, EndOfCompile, Early
<1>8. CASE UNCHANGED vars
  BY <1>4, <1>8 DEF vars
<1> QED
  BY <1>1, <1>2, <1>3, <1>5, <1>6, <1>7, <1>8 DEF Next

\* However many files are registered before the library's, the file index its
\* symbol is given, which replaces those of the spans of its tree, is the
\* index of the file that declares it.
THEOREM FilesAreTheSources == Spec => []FileIsTheSources
<1>1. Init => FileInv
  BY DEF Init, FileInv, FileIsTheSources, Early
<1>2. FileInv => FileIsTheSources
  BY DEF FileInv
<1> QED
  BY <1>1, <1>2, StepsKeepFiles, PTL DEF Spec

-----------------------------------------------------------------------------
(* Every copy is made of one tree, whichever unit was the first to read it   *)
(* and however often it was freed and read again.                            *)

Tree == IF home = "library" THEN ReadTree(declared.kind, section, symbol).node ELSE declared.node

Linked(n) == [n EXCEPT !.linked = TRUE]

\* An instance in which any bodies were instantiated, in any order.
MadeFrom(n, first) ==
  \A S : first \in S /\ (\A m \in S : \A i : WithBody(m, i) \subseteq S) => n \in S

OfTheTree(c) ==
  /\ c.how = "class" => MadeFrom(c.node, Linked(CopyOf("class", Tree)))
  /\ c.how \in {"function", "inline"} => c.node = Linked(CopyOf(c.how, Tree))
  /\ c.how = "test" => \E i \in DOMAIN TestUnits(Tree) : c.node = Linked(TestUnits(Tree)[i])

CopiesAreOfTheTree == ~Early /\ declared.kind # "concept" => \A c \in copies : OfTheTree(c)

TreeInv ==
  /\ stage = "parsed" \/ stage = "written" => copies = {} /\ node = <<>>
  /\ stage = "written" => home = "library"
  /\ declared.kind = "test" => home # "library"
  /\ ~Early /\ declared.kind # "concept" => node = <<Tree>> \/ (home = "library" /\ node = <<>>)
  /\ CopiesAreOfTheTree

\* A use of the tree finds it.
LEMMA UseFindsTheTree ==
  ASSUME TreeInv, ~Early, declared.kind # "concept"
  PROVE  GetNode.node = Tree
<1>1. CASE node = <<Tree>>
  BY <1>1 DEF GetNode
<1>2. CASE home = "library" /\ node = <<>>
  BY <1>2 DEF GetNode, NodeRead, Tree
<1> QED
  BY <1>1, <1>2 DEF TreeInv

\* A step of the compilation that keeps the tree or reads it, and copies it.
LEMMA UseKeepsTheTree ==
  ASSUME TreeInv, ~Early, declared.kind # "concept",
         UNCHANGED <<declared, home, section, symbol>>, stage' \in {"compiling", "ended"},
         node' \in {node, <<Tree>>} \/ (home = "library" /\ node' = <<>>),
         \A c \in copies' : c \in copies \/ OfTheTree(c)
  PROVE  TreeInv'
<1>1. Tree' = Tree
  BY DEF Tree
<1>2. \A c : OfTheTree(c)' <=> OfTheTree(c)
  BY <1>1 DEF OfTheTree, MadeFrom
<1>3. \A c \in copies' : OfTheTree(c)'
  BY <1>2 DEF TreeInv, CopiesAreOfTheTree
<1>4. node' = <<Tree'>> \/ (home' = "library" /\ node' = <<>>)
  BY <1>1 DEF TreeInv
<1> QED
  BY <1>3, <1>4 DEF TreeInv, CopiesAreOfTheTree, Early

\* A member function of an instance of the tree is an instance of the tree.
LEMMA BodiesKeepInstances ==
  ASSUME NEW c, NEW i, NEW n \in WithBody(c.node, i), OfTheTree(c), c.how = "class",
         NEW d, d.how = "class", d.node = n
  PROVE  OfTheTree(d)
<1> DEFINE first == Linked(CopyOf("class", Tree))
<1>1. MadeFrom(c.node, first)
  BY DEF OfTheTree
<1>2. SUFFICES ASSUME NEW S, first \in S, \A m \in S : \A k : WithBody(m, k) \subseteq S
               PROVE  n \in S
  BY DEF OfTheTree, MadeFrom
<1>3. c.node \in S
  BY <1>1, <1>2 DEF MadeFrom
<1> QED
  BY <1>2, <1>3

\* TreeInv is kept by every step.
LEMMA StepsKeepTheTree == TreeInv /\ [Next]_vars => TreeInv'
<1> SUFFICES ASSUME TreeInv, [Next]_vars PROVE TreeInv'
  OBVIOUS
<1> DEFINE Use(kind) ==
             /\ stage = "compiling" /\ declared.kind = kind
             /\ UNCHANGED <<declared, home, section, symbol, stage>>
<1>1. CASE Write
  BY <1>1 DEF Write, TreeInv, CopiesAreOfTheTree, Early
<1>2. CASE Declare
  <2>1. /\ stage = "parsed" /\ stage' = "compiling" /\ home = "project"
        /\ UNCHANGED <<declared, home, copies>> /\ node' = <<declared.node>>
    BY <1>2 DEF Declare
  <2>2. Tree' = declared.node /\ home' # "library"
    BY <2>1 DEF Tree
  <2>3. copies' = {} /\ node' = <<Tree'>>
    BY <2>1, <2>2 DEF TreeInv
  <2> QED
    BY <2>1, <2>3 DEF TreeInv, CopiesAreOfTheTree
<1>3. ASSUME NEW n \in Imports, Import(n) PROVE TreeInv'
  <2>1. /\ stage = "written" /\ stage' = "compiling" /\ UNCHANGED <<declared, home, copies>>
        /\ declared.kind # "concept" => node' = node
    BY <1>3 DEF Import
  <2> QED
    BY <2>1 DEF TreeInv, CopiesAreOfTheTree
<1>4. ASSUME NEW arguments, BindTemplateTypeSymbol(arguments) PROVE TreeInv'
  <2> DEFINE new == Copy(unit, "class", arguments, CopyOf("class", GetNode.node))
  <2>1. /\ Use("class") /\ node' = <<GetNode.node>> /\ copies' = copies \cup {new}
    BY <1>4 DEF BindTemplateTypeSymbol, Compiling, Found
  <2>2. GetNode.node = Tree
    BY <2>1, UseFindsTheTree DEF Early
  <2>3. new.how = "class" /\ new.node = Linked(CopyOf("class", Tree))
    BY <2>2 DEF Copy, Linked
  <2>4. OfTheTree(new)
    BY <2>3 DEF OfTheTree, MadeFrom
  <2> QED
    BY <2>1, <2>2, <2>4, UseKeepsTheTree DEF Early, TreeInv, CopiesAreOfTheTree
<1>5. ASSUME NEW arguments, InstantiateFunctionTemplate(arguments) PROVE TreeInv'
  <2> DEFINE new == Copy(unit, "function", arguments, CopyOf("function", GetNode.node))
  <2>1. /\ Use("function") /\ node' = <<GetNode.node>> /\ copies' = copies \cup {new}
    BY <1>5 DEF InstantiateFunctionTemplate, Compiling, Found
  <2>2. GetNode.node = Tree
    BY <2>1, UseFindsTheTree DEF Early
  <2>3. new.how = "function" /\ new.node = Linked(CopyOf("function", Tree))
    BY <2>2 DEF Copy, Linked
  <2>4. OfTheTree(new)
    BY <2>3 DEF OfTheTree
  <2> QED
    BY <2>1, <2>2, <2>4, UseKeepsTheTree DEF Early, TreeInv, CopiesAreOfTheTree
<1>6. ASSUME NEW arguments, NEW i, Instantiate(arguments, i) PROVE TreeInv'
  <2>1. Use("class") /\ node' = node
    BY <1>6 DEF Instantiate, Compiling
  <2>2. PICK c, n :
          /\ c \in copies /\ n \in WithBody(c.node, i) /\ c.how = "class"
          /\ copies' = (copies \ {c}) \cup {[c EXCEPT !.node = n]}
    BY <1>6 DEF Instantiate
  <2> DEFINE new == [c EXCEPT !.node = n]
  <2>3. OfTheTree(c)
    BY <2>1, <2>2 DEF TreeInv, CopiesAreOfTheTree, Early
  <2>4. new = c \/ (new.how = "class" /\ new.node = n)
    BY <2>2
  <2>5. OfTheTree(new)
    BY <2>2, <2>3, <2>4, BodiesKeepInstances
  <2> QED
    BY <2>1, <2>2, <2>5, UseKeepsTheTree DEF Early, TreeInv, CopiesAreOfTheTree
<1>7. CASE ResolveDefaultTypeArguments
  <2>1. Use("class") /\ copies' = copies /\ node' = <<GetNode.node>>
    BY <1>7 DEF ResolveDefaultTypeArguments, Compiling, Found
  <2>2. GetNode.node = Tree
    BY <2>1, UseFindsTheTree DEF Early
  <2> QED
    BY <2>1, <2>2, UseKeepsTheTree DEF Early
<1>8. CASE InstantiateInline
  <2> DEFINE new == Copy(unit, "inline", "", CopyOf("inline", GetNode.node))
  <2>1. /\ Use("inline") /\ node' = <<GetNode.node>> /\ copies' = copies \cup {new}
    BY <1>8 DEF InstantiateInline, Compiling, Found
  <2>2. GetNode.node = Tree
    BY <2>1, UseFindsTheTree DEF Early
  <2>3. new.how = "inline" /\ new.node = Linked(CopyOf("inline", Tree))
    BY <2>2 DEF Copy, Linked
  <2>4. OfTheTree(new)
    BY <2>3 DEF OfTheTree
  <2> QED
    BY <2>1, <2>2, <2>4, UseKeepsTheTree DEF Early, TreeInv, CopiesAreOfTheTree
<1>9. CASE GetNodeFor
  <2>1. Use("constexpr") /\ copies' = copies /\ node' = <<GetNode.node>>
    BY <1>9 DEF GetNodeFor, Compiling, Found
  <2>2. GetNode.node = Tree
    BY <2>1, UseFindsTheTree DEF Early
  <2> QED
    BY <2>1, <2>2, UseKeepsTheTree DEF Early
<1>10. CASE SplitIntoTestUnits
  <2>1. Use("test") /\ node' = node
    BY <1>10 DEF SplitIntoTestUnits, Compiling
  <2>2. node = <<Tree>>
    BY <2>1 DEF TreeInv, Early
  <2>3. copies' = {Copy(i, "test", "", TestUnits(Tree)[i]) : i \in DOMAIN TestUnits(Tree)}
    BY <1>10, <2>2 DEF SplitIntoTestUnits
  <2>4. ASSUME NEW c \in copies' PROVE OfTheTree(c)
    <3>1. PICK i \in DOMAIN TestUnits(Tree) : c = Copy(i, "test", "", TestUnits(Tree)[i])
      BY <2>3
    <3>2. c.how = "test" /\ c.node = Linked(TestUnits(Tree)[i])
      BY <3>1 DEF Copy, Linked
    <3> QED
      BY <3>2 DEF OfTheTree
  <2> QED
    BY <2>1, <2>4, UseKeepsTheTree DEF Early
<1>11. CASE Release \/ EndOfCompile
  <2>1. /\ stage = "compiling" /\ stage' \in {"compiling", "ended"}
        /\ UNCHANGED <<declared, home, section, symbol, copies>>
        /\ node' = node \/ (home = "library" /\ node' = <<>>)
    BY <1>11 DEF Release, EndOfCompile, Freed
  <2>2. CASE declared.kind = "concept"
    BY <2>1, <2>2 DEF TreeInv, CopiesAreOfTheTree, Early
  <2>3. CASE declared.kind # "concept"
    BY <2>1, <2>3, UseKeepsTheTree DEF Early, TreeInv, CopiesAreOfTheTree
  <2> QED
    BY <2>2, <2>3
<1>12. CASE UNCHANGED vars
  BY <1>12 DEF vars, TreeInv, CopiesAreOfTheTree, OfTheTree, MadeFrom, Tree, Early
<1> QED
  BY <1>1, <1>2, <1>3, <1>4, <1>5, <1>6, <1>7, <1>8, <1>9, <1>10, <1>11, <1>12 DEF Next

\* Whatever happened before in this or other units, instances and copies are
\* made of one tree: the declaration's, or the one in the library file.
THEOREM CopiesAreAlike == Spec => []CopiesAreOfTheTree
<1>1. Init => TreeInv
  BY DEF Init, TreeInv, CopiesAreOfTheTree, Early
<1>2. TreeInv => CopiesAreOfTheTree
  BY DEF TreeInv
<1> QED
  BY <1>1, <1>2, StepsKeepTheTree, PTL DEF Spec
=============================================================================

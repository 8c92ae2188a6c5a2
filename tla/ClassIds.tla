------------------------------ MODULE ClassIds ------------------------------
(***************************************************************************)
(* Cm.Build, Cm.Sym and the runtime: the class identifiers of a program    *)
(* that is not built in the full configuration.  A build numbers the       *)
(* classes of the project from a counter in a file.  The numbers go into   *)
(* the type information of the objects and into the "is" and "as"          *)
(* expressions of the units it compiles, and into the class hierarchy      *)
(* table it links to the program; there an "is" looks them up.             *)
(*                                                                         *)
(* All classes are virtual and their bases do not change; classes of       *)
(* libraries, which keep the numbers of the library's build, are left out. *)
(***************************************************************************)
EXTENDS Naturals, Sequences, FiniteSets, Functions

CONSTANTS
  Units,        \* compile units of the project
  Declarations, \* all its classes, in the order of units and declarations
  UnitOf,       \* the unit of a class
  Base,         \* its base class, or NoCid
  Asked,        \* per unit, the classes its "is" expressions ask for
  Dependents,   \* per unit, the units compiled again when it has changed
  NoCid,        \* std::numeric_limits<uint64_t>::max()
  MaxCid        \* bound on the identifiers given out

Classes == Range(Declarations)

ASSUME ClassIdsAssumption ==
  /\ NoCid \notin Nat /\ NoCid \notin Classes /\ MaxCid \in Nat
  /\ Declarations \in Seq(Classes) /\ IsInjective(Declarations)
  /\ UnitOf \in [Classes -> Units]
  /\ Base \in [Classes -> Classes \cup {NoCid}]
  /\ Asked \in [Units -> SUBSET Classes]
  /\ Dependents \in [Units -> SUBSET Units]

VARIABLES
  declared,     \* the classes the sources have now
  changed,      \* units whose source is newer than their object
  nextCidFile,  \* the .next.cid file of the library directory
  cidFile,      \* per unit, its .cid file: the identifiers of its classes
  object,       \* per unit, the identifiers in its object file
  linked,       \* the program: objects and hierarchy table, or none
  phase,        \* "idle", "declared" or "compiled"
  classCounter, cid,   \* ClassCounter, and the identifiers of this build
  buildSet

files == <<nextCidFile, cidFile>>
vars == <<declared, changed, files, object, linked, phase, classCounter, cid,
          buildSet>>

NoObject == [rtti |-> <<>>, literal |-> <<>>, from |-> "none"]
NoProgram == [objects |-> <<>>, table |-> <<>>, fresh |-> {}]

(***************************************************************************)
(* The developer, between builds.                                          *)
(***************************************************************************)
EditSource(u) ==
  /\ phase = "idle" /\ changed' = changed \cup {u}
  /\ UNCHANGED <<declared, files, object, linked, phase, classCounter, cid, buildSet>>

AddClass(c) ==
  /\ phase = "idle" /\ c \notin declared
  /\ Base[c] = NoCid \/ Base[c] \in declared
  /\ declared' = declared \cup {c} /\ changed' = changed \cup {UnitOf[c]}
  /\ UNCHANGED <<files, object, linked, phase, classCounter, cid, buildSet>>

(***************************************************************************)
(* BuildSymbolTable: the DeclarationVisitor visits the classes in order.   *)
(***************************************************************************)
ReadCidMap(u, rebuild) == IF rebuild THEN <<>> ELSE cidFile[u]

Before(d, c) ==
  \E i, j \in DOMAIN Declarations :
    i < j /\ Declarations[i] = d /\ Declarations[j] = c

(* Identifiers of the .cid file are kept, other classes get the next one.  *)
BeginClassScope(c, rebuild) ==
  LET known(d) == d \in DOMAIN ReadCidMap(UnitOf[d], rebuild)
  IN  IF known(c) THEN ReadCidMap(UnitOf[c], rebuild)[c]
      ELSE nextCidFile + Cardinality({d \in declared : Before(d, c) /\ ~known(d)})

NewClasses(rebuild) ==
  {c \in declared : c \notin DOMAIN ReadCidMap(UnitOf[c], rebuild)}

(* Nothing writes the .cid files: WriteCidMap has no caller.               *)
BuildSymbolTable(rebuild) ==
  /\ phase = "idle" /\ declared # {}
  /\ phase' = "declared"
  /\ cid' = [c \in declared |-> BeginClassScope(c, rebuild)]
  /\ classCounter' = nextCidFile + Cardinality(NewClasses(rebuild))
  /\ classCounter' <= MaxCid
  /\ buildSet' = IF rebuild THEN Units
                 ELSE changed \cup UNION {Dependents[u] : u \in changed}
  /\ UNCHANGED <<declared, changed, files, object, linked>>

(***************************************************************************)
(* Compile: the objects get the identifiers of this build.                 *)
(***************************************************************************)
Emitted(u, end) ==
  [rtti |-> [c \in {c \in declared : UnitOf[c] = u} |-> cid[c]],
   literal |-> [c \in Asked[u] \cap declared |-> cid[c]],
   from |-> end]

WriteObjects(us, end) ==
  /\ object' = [u \in Units |-> IF u \in us THEN Emitted(u, end) ELSE object[u]]
  /\ changed' = changed \ us

Ends ==
  /\ phase' = "idle" /\ cid' = <<>> /\ classCounter' = 0 /\ buildSet' = {}

Compile ==
  /\ phase = "declared" /\ phase' = "compiled"
  /\ WriteObjects(buildSet, "build")
  /\ UNCHANGED <<declared, files, linked, classCounter, cid, buildSet>>

(* A tool fails after some objects: the counter is not written.            *)
BuildFails(us) ==
  /\ phase = "declared" /\ us \subseteq buildSet
  /\ WriteObjects(us, "failure") /\ Ends
  /\ UNCHANGED <<declared, files, linked>>

(* The program is running, or the linker fails: all objects are there.     *)
LinkFails ==
  /\ phase = "compiled"
  /\ object' = [u \in Units |-> IF u \in buildSet
                                THEN [object[u] EXCEPT !.from = "failure"] ELSE object[u]]
  /\ Ends
  /\ UNCHANGED <<declared, changed, files, linked>>

(* Mutant: only the classes of the units that were compiled.               *)
TableOfBuildSet ==
  [i \in {cid[c] : c \in {c \in declared : UnitOf[c] \in buildSet}} |->
     LET c == CHOOSE c \in declared : cid[c] = i
     IN  IF Base[c] = NoCid THEN NoCid ELSE cid[Base[c]]]

(* The identifier of the base for each identifier of the project's classes. *)
ClassHierarchyTable ==
  [i \in {cid[c] : c \in declared} |->
     LET c == CHOOSE c \in declared : cid[c] = i
     IN  IF Base[c] = NoCid THEN NoCid ELSE cid[Base[c]]]

(* Mutant: the counter is not written.                                     *)
LinkWithoutCounter ==
  /\ phase = "compiled"
  /\ linked' = [objects |-> object, table |-> ClassHierarchyTable, fresh |-> buildSet]
  /\ Ends
  /\ UNCHANGED <<declared, changed, files, object>>

(* GenerateClassHierarchyUnit and Link; the counter is written last.       *)
Link ==
  /\ phase = "compiled"
  /\ linked' = [objects |-> object, table |-> ClassHierarchyTable, fresh |-> buildSet]
  /\ nextCidFile' = classCounter
  /\ Ends
  /\ UNCHANGED <<declared, changed, cidFile, object>>

(***************************************************************************)
(* The running program.                                                    *)
(***************************************************************************)
(* The entries of next lead from i to j: j is in every set that has i and, *)
(* with each key, also its entry.  NoCid ends the way.                     *)
LeadsTo(next, i, j) ==
  \A S \in SUBSET ({i} \cup DOMAIN next \cup {next[k] : k \in DOMAIN next}) :
    i \in S /\ (\A k \in S \cap DOMAIN next : next[k] # NoCid => next[k] \in S)
      => j \in S

IsClassSameOrDerivedFrom(derivedCid, baseCid) ==
  LeadsTo(linked.table, derivedCid, baseCid)

(* "x is b*" in unit u, of an object of class d.                           *)
Tests ==
  {t \in Classes \X Units \X Classes :
     /\ t[2] \in DOMAIN linked.objects
     /\ t[1] \in DOMAIN linked.objects[UnitOf[t[1]]].rtti
     /\ t[3] \in DOMAIN linked.objects[t[2]].literal}
Is(t) == IsClassSameOrDerivedFrom(linked.objects[UnitOf[t[1]]].rtti[t[1]],
                                  linked.objects[t[2]].literal[t[3]])

Init ==
  /\ declared \in {{}, Classes} /\ changed = Units
  /\ nextCidFile = 0 /\ cidFile = [u \in Units |-> <<>>]
  /\ object = [u \in Units |-> NoObject] /\ linked = NoProgram
  /\ phase = "idle" /\ cid = <<>> /\ classCounter = 0 /\ buildSet = {}

Next ==
  \/ \E u \in Units : EditSource(u)
  \/ \E c \in Classes : AddClass(c)
  \/ \E rebuild \in BOOLEAN : BuildSymbolTable(rebuild)
  \/ Compile \/ Link \/ LinkFails
  \/ \E us \in SUBSET Units : BuildFails(us)

Spec == Init /\ [][Next]_vars

-----------------------------------------------------------------------------
(* TypeOK: identifiers come from the counter; only a build has some.       *)
Cids == 0..MaxCid
PartialMaps(S, T) == UNION {[D -> T] : D \in SUBSET S}
TypeOK ==
  /\ declared \subseteq Classes /\ changed \subseteq Units
  /\ buildSet \subseteq Units
  /\ nextCidFile \in Cids /\ classCounter \in Cids
  /\ phase \in {"idle", "declared", "compiled"}
  /\ cid \in PartialMaps(Classes, Cids)
  /\ \A u \in Units : /\ object[u].rtti \in PartialMaps(Classes, Cids)
                      /\ object[u].literal \in PartialMaps(Asked[u], Cids)
                      /\ object[u].from \in {"none", "build", "failure"}
  /\ (phase = "idle") = (cid = <<>>)

(* The class d is b or one of its descendants.                             *)
Derives(d, b) == LeadsTo(Base, d, b)

(* FreshUnitsTell: between units the build of the program compiled itself,
   is_class_same_or_derived_from finds exactly the derived classes.        *)
FreshUnitsTell ==
  \A t \in Tests :
    UnitOf[t[1]] \in linked.fresh /\ t[2] \in linked.fresh
      => Is(t) = Derives(t[1], t[3])

(* NoFalseHit: however old the objects are, "is" says yes of an object of
   an unrelated class only if a build that failed left one of the two
   objects: it did not write the counter.                                  *)
NoFalseHit ==
  \A t \in Tests :
    (/\ linked.objects[UnitOf[t[1]]].from = "build"
     /\ linked.objects[t[2]].from = "build"
     /\ Is(t)) => Derives(t[1], t[3])

(* IsTellsDerived: "if the pointer b1 in fact points to a Derived class
   object or an object of class derived from Derived" the operator is true. *)
IsTellsDerived == \A t \in Tests : Derives(t[1], t[3]) => Is(t)
===========================================================================

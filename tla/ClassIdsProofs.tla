--------------------------- MODULE ClassIdsProofs ---------------------------
(***************************************************************************)
(* What "is" can be relied on for, for every project: any units, any       *)
(* classes in any hierarchy and order, any dependences, any sequence of    *)
(* edits, builds and failures.                                             *)
(*                                                                         *)
(* The identifiers a build gives out are those from the counter on, and    *)
(* they differ (BuildIds); a build that ends leaves them in the objects    *)
(* below the counter, so that an identifier of an object whose build did   *)
(* not fail says which class is meant (SettledIds).  A program is linked   *)
(* from such objects and the table of one numbering of the classes         *)
(* (GoodProgram): along the table one comes from class to class as in the  *)
(* sources.                                                                *)
(***************************************************************************)
EXTENDS ClassIds, FiniteSetTheorems, TLAPS

ObjectFile == [rtti : PartialMaps(Classes, Cids), literal : PartialMaps(Classes, Cids),
               from : {"none", "build", "failure"}]

(* An object file has the identifier i for the class c.                    *)
Names(o, c, i) ==
  \/ c \in DOMAIN o.rtti /\ o.rtti[c] = i
  \/ c \in DOMAIN o.literal /\ o.literal[c] = i

BasesIn(D) == \A c \in D : Base[c] # NoCid => Base[c] \in D
Distinct(D, ids) == \A c, d \in D : ids[c] = ids[d] => c = d

(* No build finds a .cid file, so it numbers all classes from the counter. *)
BuildIds ==
  /\ cidFile = [u \in Units |-> <<>>]
  /\ BasesIn(declared)
  /\ phase # "idle" =>
       /\ cid \in [declared -> Cids] /\ Distinct(declared, cid)
       /\ \A c \in declared : nextCidFile <= cid[c] /\ cid[c] < classCounter

Compiled(u) == phase = "compiled" /\ u \in buildSet
Settled(u) == object[u].from = "build" /\ ~Compiled(u)

SettledIds ==
  /\ \A u \in Units : Compiled(u) => object[u] = Emitted(u, "build")
  /\ \A u \in Units : Settled(u) =>
       \A c \in Classes, i \in Cids : Names(object[u], c, i) => i < nextCidFile
  /\ \A u, v \in Units : Settled(u) /\ Settled(v) =>
       \A c, d \in Classes, i \in Cids :
         Names(object[u], c, i) /\ Names(object[v], d, i) => c = d

TableOf(D, ids) ==
  [i \in {ids[c] : c \in D} |->
     LET c == CHOOSE c \in D : ids[c] = i
     IN  IF Base[c] = NoCid THEN NoCid ELSE ids[Base[c]]]

(* The program p has the table of the classes D numbered ids, and these    *)
(* numbers in its fresh objects.                                           *)
GoodProgram(p, D, ids) ==
  /\ BasesIn(D) /\ Distinct(D, ids)
  /\ p.table = TableOf(D, ids)
  /\ p.objects \in [Units -> ObjectFile] /\ p.fresh \subseteq Units
  /\ \A u \in p.fresh : \A c \in Classes, i \in Cids :
       Names(p.objects[u], c, i) => c \in D /\ i = ids[c]
  /\ \A u, v \in Units : p.objects[u].from = "build" /\ p.objects[v].from = "build" =>
       \A c, d \in Classes, i \in Cids :
         Names(p.objects[u], c, i) /\ Names(p.objects[v], d, i) => c = d
  /\ \A u \in Units : p.objects[u].from = "build" =>
       \A c \in Classes, d \in D : Names(p.objects[u], c, ids[d]) => c = d

LinkedProgram ==
  linked = NoProgram \/ \E D \in SUBSET Classes : \E ids \in [D -> Cids] : GoodProgram(linked, D, ids)

ObjectFiles == object \in [Units -> ObjectFile]
IInv == TypeOK /\ ObjectFiles /\ BuildIds /\ SettledIds /\ LinkedProgram

---------------------------------------------------------------------------
(* The numbering of a build.                                               *)

LEMMA ClassesAreFinite == IsFiniteSet(Classes)
<1> DEFINE n == Len(Declarations)
<1>1. Declarations \in [1..n -> Classes] /\ n \in Nat
  BY ClassIdsAssumption
<1>2. Declarations \in Surjection(1..n, Classes)
  BY <1>1 DEF Surjection, Classes, Range
<1> QED BY <1>1, <1>2, FS_NatSurjection DEF ExistsSurjection

(* Of two classes one is declared before the other, and what is before the *)
(* one is before the other.                                                *)
LEMMA Declared ==
  ASSUME NEW c \in Classes, NEW d \in Classes, c # d
  PROVE  Before(c, d) \/ Before(d, c)
<1>1. /\ DOMAIN Declarations = 1..Len(Declarations) /\ Len(Declarations) \in Nat
  BY ClassIdsAssumption
<1>2. PICK i \in DOMAIN Declarations : Declarations[i] = c
  BY DEF Classes, Range
<1>3. PICK j \in DOMAIN Declarations : Declarations[j] = d
  BY DEF Classes, Range
<1>4. i < j \/ j < i
  BY <1>1, <1>2, <1>3
<1> QED BY <1>2, <1>3, <1>4 DEF Before

LEMMA BeforeIsAnOrder ==
  /\ \A c : ~Before(c, c)
  /\ \A b, c, d : Before(b, c) /\ Before(c, d) => Before(b, d)
<1>1. /\ DOMAIN Declarations = 1..Len(Declarations) /\ Len(Declarations) \in Nat
      /\ \A i, j \in DOMAIN Declarations : Declarations[i] = Declarations[j] => i = j
  BY ClassIdsAssumption DEF IsInjective
<1>2. ASSUME NEW c, Before(c, c) PROVE FALSE
  BY <1>1, <1>2 DEF Before
<1>3. ASSUME NEW b, NEW c, NEW d, Before(b, c), Before(c, d) PROVE Before(b, d)
  <2>1. PICK i, j \in DOMAIN Declarations : i < j /\ Declarations[i] = b /\ Declarations[j] = c
    BY <1>3 DEF Before
  <2>2. PICK k, m \in DOMAIN Declarations : k < m /\ Declarations[k] = c /\ Declarations[m] = d
    BY <1>3 DEF Before
  <2>3. j = k
    BY <1>1, <2>1, <2>2
  <2>4. i < m
    BY <1>1, <2>1, <2>2, <2>3
  <2> QED BY <2>1, <2>2, <2>4 DEF Before
<1> QED BY <1>2, <1>3

Earlier(c) == {d \in declared : Before(d, c)}

LEMMA EarlierGrows ==
  ASSUME declared \subseteq Classes, NEW c \in declared
  PROVE  /\ Cardinality(Earlier(c)) \in Nat /\ Cardinality(declared) \in Nat
         /\ Cardinality(Earlier(c)) < Cardinality(declared)
         /\ \A d \in declared : Before(c, d) => Cardinality(Earlier(c)) < Cardinality(Earlier(d))
<1>1. IsFiniteSet(declared)
  BY ClassesAreFinite, FS_Subset
<1>2. Earlier(c) \subseteq declared /\ c \in declared \ Earlier(c)
  BY BeforeIsAnOrder DEF Earlier
<1>3. ASSUME NEW S, NEW T, IsFiniteSet(T), S \subseteq T, S # T
      PROVE  Cardinality(S) \in Nat /\ Cardinality(T) \in Nat /\ Cardinality(S) < Cardinality(T)
  <2>1. S \in SUBSET T
    BY <1>3
  <2>2. IsFiniteSet(S) /\ Cardinality(S) <= Cardinality(T) /\ Cardinality(T) # Cardinality(S)
    BY <1>3, <2>1, FS_Subset
  <2> QED BY <1>3, <2>2, FS_CardinalityType
<1>4. ASSUME NEW d \in declared, Before(c, d)
      PROVE  Cardinality(Earlier(c)) < Cardinality(Earlier(d))
  <2>1. Earlier(c) \subseteq Earlier(d) /\ c \in Earlier(d)
    BY <1>4, BeforeIsAnOrder DEF Earlier
  <2>2. IsFiniteSet(Earlier(d))
    <3>1. Earlier(d) \in SUBSET declared
      BY DEF Earlier
    <3> QED BY <1>1, <3>1, FS_Subset
  <2> QED BY <1>2, <1>3, <2>1, <2>2
<1> QED BY <1>1, <1>2, <1>3, <1>4

(* A build gives the classes different numbers, from the counter on.       *)
LEMMA Numbering ==
  ASSUME TypeOK, BuildIds, NEW rebuild \in BOOLEAN, BuildSymbolTable(rebuild)
  PROVE  /\ cid' \in [declared -> Cids] /\ Distinct(declared, cid')
         /\ \A c \in declared : nextCidFile <= cid'[c] /\ cid'[c] < classCounter'
         /\ classCounter' \in Cids
<1>1. \A d \in declared : UnitOf[d] \in Units /\ ReadCidMap(UnitOf[d], rebuild) = <<>>
  BY ClassIdsAssumption DEF TypeOK, BuildIds, ReadCidMap
<1>2. declared \subseteq Classes /\ nextCidFile \in Nat /\ MaxCid \in Nat
  BY ClassIdsAssumption DEF TypeOK, Cids
<1>3. \A d \in declared : d \notin DOMAIN ReadCidMap(UnitOf[d], rebuild)
  BY <1>1
<1>4. NewClasses(rebuild) = declared
  BY <1>3 DEF NewClasses
<1>5. ASSUME NEW c \in declared
      PROVE  BeginClassScope(c, rebuild) = nextCidFile + Cardinality(Earlier(c))
  <2>1. {d \in declared : Before(d, c) /\ ~(d \in DOMAIN ReadCidMap(UnitOf[d], rebuild))} = Earlier(c)
    BY <1>3 DEF Earlier
  <2> QED BY <1>3, <2>1 DEF BeginClassScope
<1>6. /\ cid' = [c \in declared |-> BeginClassScope(c, rebuild)]
      /\ classCounter' = nextCidFile + Cardinality(declared) /\ classCounter' <= MaxCid
  BY <1>4 DEF BuildSymbolTable
<1>7. \A c \in declared : cid'[c] = nextCidFile + Cardinality(Earlier(c))
  BY <1>5, <1>6
<1>8. \A c \in declared : /\ nextCidFile <= cid'[c] /\ cid'[c] < classCounter'
                           /\ cid'[c] \in Cids /\ classCounter' \in Cids
  BY <1>2, <1>6, <1>7, EarlierGrows DEF Cids
<1>9. ASSUME NEW c \in declared, NEW d \in declared, c # d PROVE cid'[c] # cid'[d]
  <2>1. Before(c, d) \/ Before(d, c)
    BY <1>2, <1>9, Declared
  <2>2. Cardinality(Earlier(c)) # Cardinality(Earlier(d))
    BY <1>2, <2>1, EarlierGrows
  <2>3. Cardinality(Earlier(c)) \in Nat /\ Cardinality(Earlier(d)) \in Nat
    BY <1>2, EarlierGrows
  <2>4. ASSUME NEW n \in Nat, NEW x \in Nat, NEW y \in Nat, x # y PROVE n + x # n + y
    BY <2>4
  <2> QED BY <1>2, <1>7, <2>2, <2>3, <2>4
<1>10. classCounter' \in Cids
  <2>1. declared # {}
    BY DEF BuildSymbolTable
  <2> QED BY <1>8, <2>1
<1> QED BY <1>6, <1>8, <1>9, <1>10 DEF Distinct

---------------------------------------------------------------------------
(* Types.                                                                  *)

LEMMA PartialMapsProperties ==
  /\ \A S, T : <<>> \in PartialMaps(S, T)
  /\ \A S, T, D, f : D \subseteq S /\ f \in [D -> T] => f \in PartialMaps(S, T)
  /\ \A S, T, f : f \in PartialMaps(S, T) => DOMAIN f \subseteq S /\ \A x \in DOMAIN f : f[x] \in T
<1>1. ASSUME NEW S, NEW T PROVE <<>> \in PartialMaps(S, T)
  <2>1. <<>> \in [{} -> T]
    OBVIOUS
  <2> QED BY <2>1 DEF PartialMaps
<1> QED BY <1>1 DEF PartialMaps

LEMMA EmittedTypes ==
  ASSUME TypeOK, BuildIds, phase # "idle", NEW u \in Units, NEW end \in {"none", "build", "failure"}
  PROVE  /\ Emitted(u, end) \in ObjectFile
         /\ Emitted(u, end).literal \in PartialMaps(Asked[u], Cids)
         /\ Emitted(u, end).from = end
         /\ \A c, i : Names(Emitted(u, end), c, i) => c \in declared /\ i = cid[c]
<1> DEFINE own == {c \in declared : UnitOf[c] = u}
           asked == Asked[u] \cap declared
           rtti == [c \in own |-> cid[c]]
           literal == [c \in asked |-> cid[c]]
<1>1. declared \subseteq Classes /\ cid \in [declared -> Cids]
  BY DEF TypeOK, BuildIds
<1>2. rtti \in [own -> Cids] /\ own \subseteq Classes
  BY <1>1
<1>3. literal \in [asked -> Cids] /\ asked \subseteq Classes /\ asked \subseteq Asked[u]
  BY <1>1
<1>4. Emitted(u, end) = [rtti |-> rtti, literal |-> literal, from |-> end]
  BY DEF Emitted
<1>5. \A c, i : Names(Emitted(u, end), c, i) => c \in declared /\ i = cid[c]
  BY <1>4 DEF Names
<1> HIDE DEF rtti, literal, own, asked
<1>6. rtti \in PartialMaps(Classes, Cids) /\ literal \in PartialMaps(Classes, Cids)
      /\ literal \in PartialMaps(Asked[u], Cids)
  BY <1>2, <1>3, PartialMapsProperties
<1> QED BY <1>4, <1>5, <1>6 DEF ObjectFile

LEMMA TypesInit == Init => TypeOK /\ ObjectFiles
<1> SUFFICES ASSUME Init PROVE TypeOK /\ ObjectFiles
  OBVIOUS
<1>1. NoObject \in ObjectFile /\ \A u \in Units : NoObject.literal \in PartialMaps(Asked[u], Cids)
  BY PartialMapsProperties DEF NoObject, ObjectFile
<1>2. ObjectFiles
  BY <1>1 DEF Init, ObjectFiles
<1>3. <<>> \in PartialMaps(Classes, Cids)
  BY PartialMapsProperties
<1>4. 0 \in Cids
  BY ClassIdsAssumption DEF Cids
<1>5. \A u \in Units : object[u] = NoObject
  BY DEF Init
<1> QED BY <1>1, <1>2, <1>3, <1>4, <1>5 DEF Init, TypeOK, ObjectFile

(* The objects a build writes are object files.                            *)
LEMMA WrittenTypes ==
  ASSUME IInv, phase # "idle", NEW us \in SUBSET Units, NEW end \in {"build", "failure"},
         WriteObjects(us, end)
  PROVE  /\ ObjectFiles'
         /\ \A u \in Units : object'[u].literal \in PartialMaps(Asked[u], Cids)
         /\ changed' \subseteq Units
<1>1. TypeOK /\ BuildIds /\ ObjectFiles
  BY DEF IInv
<1>2. ASSUME NEW u \in Units
      PROVE  /\ (IF u \in us THEN Emitted(u, end) ELSE object[u]) \in ObjectFile
             /\ (IF u \in us THEN Emitted(u, end) ELSE object[u]).literal \in PartialMaps(Asked[u], Cids)
  BY <1>1, EmittedTypes DEF TypeOK, ObjectFiles
<1>3. /\ object' = [u \in Units |-> IF u \in us THEN Emitted(u, end) ELSE object[u]]
      /\ changed' = changed \ us
  BY DEF WriteObjects
<1> QED BY <1>1, <1>2, <1>3 DEF TypeOK, ObjectFiles

LEMMA TypesStep ==
  ASSUME IInv, [Next]_vars
  PROVE  TypeOK' /\ ObjectFiles'
<1> USE DEF files
<1>1. TypeOK /\ ObjectFiles /\ BuildIds
  BY DEF IInv
<1>2. <<>> \in PartialMaps(Classes, Cids) /\ 0 \in Cids
  BY PartialMapsProperties, ClassIdsAssumption DEF Cids
<1>3. ASSUME NEW u \in Units, EditSource(u) PROVE TypeOK' /\ ObjectFiles'
  BY <1>1, <1>3 DEF EditSource, TypeOK, ObjectFiles
<1>4. ASSUME NEW c \in Classes, AddClass(c) PROVE TypeOK' /\ ObjectFiles'
  BY <1>1, <1>4, ClassIdsAssumption DEF AddClass, TypeOK, ObjectFiles
<1>5. ASSUME NEW rebuild \in BOOLEAN, BuildSymbolTable(rebuild) PROVE TypeOK' /\ ObjectFiles'
  <2>1. cid' \in [declared -> Cids] /\ classCounter' \in Cids
    BY <1>1, <1>5, Numbering
  <2>2. cid' \in PartialMaps(Classes, Cids)
    BY <1>1, <2>1, PartialMapsProperties DEF TypeOK
  <2>3. cid' # <<>>
    <3>1. declared # {} /\ DOMAIN cid' = declared /\ DOMAIN <<>> = {}
      BY <1>5, <2>1 DEF BuildSymbolTable
    <3> QED BY <3>1
  <2>4. buildSet' \subseteq Units
    BY <1>1, <1>5, ClassIdsAssumption DEF BuildSymbolTable, TypeOK
  <2>5. phase' = "declared" /\ UNCHANGED <<declared, changed, files, object, linked>>
    BY <1>5 DEF BuildSymbolTable
  <2> QED BY <1>1, <2>1, <2>2, <2>3, <2>4, <2>5 DEF TypeOK, ObjectFiles
<1>6. CASE Compile
  <2>1. buildSet \in SUBSET Units /\ phase # "idle"
    BY <1>1, <1>6 DEF Compile, TypeOK
  <2>2. /\ ObjectFiles' /\ changed' \subseteq Units
        /\ \A u \in Units : object'[u].literal \in PartialMaps(Asked[u], Cids)
    BY <1>6, <2>1, WrittenTypes DEF Compile
  <2> QED BY <1>1, <1>6, <2>1, <2>2 DEF Compile, TypeOK, ObjectFiles, ObjectFile
<1>7. CASE Link
  BY <1>1, <1>2, <1>7 DEF Link, Ends, TypeOK, ObjectFiles
<1>8. CASE LinkFails
  <2>1. \A u \in Units : /\ [object[u] EXCEPT !.from = "failure"] \in ObjectFile
                          /\ [object[u] EXCEPT !.from = "failure"].literal = object[u].literal
    BY <1>1 DEF ObjectFiles, ObjectFile
  <2>2. /\ ObjectFiles'
        /\ \A u \in Units : object'[u].literal = object[u].literal
    BY <1>1, <1>8, <2>1 DEF LinkFails, ObjectFiles
  <2> QED BY <1>1, <1>2, <1>8, <2>2 DEF LinkFails, Ends, TypeOK, ObjectFiles, ObjectFile
<1>9. ASSUME NEW us \in SUBSET Units, BuildFails(us) PROVE TypeOK' /\ ObjectFiles'
  <2>1. phase # "idle"
    BY <1>9 DEF BuildFails
  <2>2. /\ ObjectFiles' /\ changed' \subseteq Units
        /\ \A u \in Units : object'[u].literal \in PartialMaps(Asked[u], Cids)
    BY <1>9, <2>1, WrittenTypes DEF BuildFails
  <2> QED BY <1>1, <1>2, <1>9, <2>2 DEF BuildFails, Ends, TypeOK, ObjectFiles, ObjectFile
<1>10. CASE UNCHANGED vars
  BY <1>1, <1>10 DEF vars, TypeOK, ObjectFiles
<1> QED BY <1>3, <1>4, <1>5, <1>6, <1>7, <1>8, <1>9, <1>10 DEF Next

---------------------------------------------------------------------------
(* The numbers of the build, and those the objects keep.                   *)

LEMMA IdsInit == Init => BuildIds /\ SettledIds
<1> SUFFICES ASSUME Init PROVE BuildIds /\ SettledIds
  OBVIOUS
<1>1. \A u \in Units : object[u].from = "none"
  BY DEF Init, NoObject
<1>2. BasesIn(declared)
  BY ClassIdsAssumption DEF Init, BasesIn
<1> QED BY <1>1, <1>2 DEF Init, BuildIds, SettledIds, Settled, Compiled

LEMMA BuildIdsStep ==
  ASSUME IInv, [Next]_vars
  PROVE  BuildIds'
<1> USE DEF files
<1>1. TypeOK /\ BuildIds
  BY DEF IInv
<1>a. ASSUME UNCHANGED <<cidFile, declared, nextCidFile, cid, classCounter>>, phase' # "idle" => phase # "idle"
      PROVE  BuildIds'
  BY <1>1, <1>a DEF BuildIds, BasesIn, Distinct
<1>b. ASSUME UNCHANGED <<cidFile, declared>>, phase' = "idle" PROVE BuildIds'
  BY <1>1, <1>b DEF BuildIds, BasesIn
<1>3. ASSUME NEW u \in Units, EditSource(u) PROVE BuildIds'
  BY <1>b, <1>3 DEF EditSource
<1>4. ASSUME NEW c \in Classes, AddClass(c) PROVE BuildIds'
  BY <1>1, <1>4 DEF AddClass, BuildIds, BasesIn
<1>5. ASSUME NEW rebuild \in BOOLEAN, BuildSymbolTable(rebuild) PROVE BuildIds'
  <2>1. /\ cid' \in [declared -> Cids] /\ Distinct(declared, cid')
        /\ \A c \in declared : nextCidFile <= cid'[c] /\ cid'[c] < classCounter'
    BY <1>1, <1>5, Numbering
  <2>2. UNCHANGED <<declared, files>>
    BY <1>5 DEF BuildSymbolTable
  <2> QED BY <1>1, <2>1, <2>2 DEF BuildIds, BasesIn, Distinct
<1>6. CASE Compile
  BY <1>a, <1>6 DEF Compile
<1>7. CASE Link \/ LinkFails
  BY <1>b, <1>7 DEF Link, LinkFails, Ends
<1>9. ASSUME NEW us \in SUBSET Units, BuildFails(us) PROVE BuildIds'
  BY <1>b, <1>9 DEF BuildFails, Ends
<1>10. CASE UNCHANGED vars
  BY <1>a, <1>10 DEF vars
<1> QED BY <1>3, <1>4, <1>5, <1>6, <1>7, <1>9, <1>10 DEF Next

(* While a build is being linked, its objects have its numbers and the     *)
(* others older ones.                                                      *)
LEMMA AllBuilt ==
  ASSUME IInv, phase = "compiled"
  PROVE  /\ \A u \in Units : object[u].from = "build" =>
              \A c \in Classes, i \in Cids : Names(object[u], c, i) =>
                 \/ i < nextCidFile
                 \/ c \in declared /\ i = cid[c] /\ u \in buildSet
         /\ \A u, v \in Units : object[u].from = "build" /\ object[v].from = "build" =>
              \A c, d \in Classes, i \in Cids :
                Names(object[u], c, i) /\ Names(object[v], d, i) => c = d
<1>1. TypeOK /\ BuildIds /\ SettledIds /\ phase # "idle"
  BY DEF IInv
<1>2. ASSUME NEW u \in Units, object[u].from = "build", NEW c \in Classes, NEW i \in Cids, Names(object[u], c, i)
      PROVE  \/ i < nextCidFile /\ Settled(u)
             \/ c \in declared /\ i = cid[c] /\ u \in buildSet
  <2>1. CASE u \in buildSet
    <3>1. object[u] = Emitted(u, "build")
      BY <1>1, <2>1 DEF SettledIds, Compiled
    <3> QED BY <1>1, <1>2, <2>1, <3>1, EmittedTypes
  <2>2. CASE u \notin buildSet
    BY <1>1, <1>2, <2>2 DEF SettledIds, Settled, Compiled
  <2> QED BY <2>1, <2>2
<1>3. ASSUME NEW u \in Units, object[u].from = "build", NEW v \in Units, object[v].from = "build",
             NEW c \in Classes, NEW d \in Classes, NEW i \in Cids,
             Names(object[u], c, i), Names(object[v], d, i)
      PROVE  c = d
  <2>1. ASSUME NEW e \in declared, i = cid[e] PROVE ~(i < nextCidFile)
    <3>1. nextCidFile <= i /\ nextCidFile \in Nat /\ i \in Nat
      BY <1>1, <2>1 DEF BuildIds, TypeOK, Cids
    <3> QED BY <3>1
  <2>2. CASE Settled(u) /\ Settled(v)
    BY <1>1, <1>3, <2>2 DEF SettledIds
  <2>3. CASE c \in declared /\ i = cid[c]
    <3>1. d \in declared /\ i = cid[d]
      BY <1>2, <1>3, <2>1, <2>3
    <3> QED BY <1>1, <2>3, <3>1 DEF BuildIds, Distinct
  <2>4. CASE d \in declared /\ i = cid[d]
    <3>1. c \in declared /\ i = cid[c]
      BY <1>2, <1>3, <2>1, <2>4
    <3> QED BY <1>1, <2>4, <3>1 DEF BuildIds, Distinct
  <2> QED BY <1>2, <1>3, <2>2, <2>3, <2>4
<1> QED BY <1>2, <1>3

LEMMA SettledStep ==
  ASSUME IInv, [Next]_vars
  PROVE  SettledIds'
<1> USE DEF files
<1>1. TypeOK /\ ObjectFiles /\ BuildIds /\ SettledIds
  BY DEF IInv
<1>a. ASSUME UNCHANGED <<object, nextCidFile>>, phase' # "compiled", phase # "compiled"
      PROVE  SettledIds'
  BY <1>1, <1>a DEF SettledIds, Settled, Compiled, Names
<1>3. ASSUME NEW u \in Units, EditSource(u) PROVE SettledIds'
  BY <1>a, <1>3 DEF EditSource
<1>4. ASSUME NEW c \in Classes, AddClass(c) PROVE SettledIds'
  BY <1>a, <1>4 DEF AddClass
<1>5. ASSUME NEW rebuild \in BOOLEAN, BuildSymbolTable(rebuild) PROVE SettledIds'
  BY <1>a, <1>5 DEF BuildSymbolTable
<1>6. CASE Compile
  <2>1. /\ \A u \in buildSet \cap Units : object'[u] = Emitted(u, "build")
        /\ \A u \in Units \ buildSet : object'[u] = object[u]
        /\ phase = "declared" /\ phase' = "compiled"
        /\ UNCHANGED <<declared, nextCidFile, cid, classCounter, buildSet>>
    BY <1>6 DEF Compile, WriteObjects
  <2>2. \A u \in Units : Settled(u)' => Settled(u) /\ object'[u] = object[u]
    BY <2>1 DEF Settled, Compiled
  <2>3. \A u \in Units : Compiled(u)' => object'[u] = Emitted(u, "build")'
    BY <2>1 DEF Compiled, Emitted
  <2> QED BY <1>1, <2>1, <2>2, <2>3 DEF SettledIds, Names
<1>7. CASE Link
  <2>1. /\ phase = "compiled" /\ phase' = "idle" /\ nextCidFile' = classCounter
        /\ object' = object
    BY <1>7 DEF Link, Ends
  <2>2. nextCidFile <= classCounter /\ \A c \in declared : cid[c] < classCounter
    <3>1. \A c \in declared : cid[c] \in Nat /\ nextCidFile <= cid[c] /\ cid[c] < classCounter
      BY <1>1, <2>1 DEF BuildIds, Cids
    <3>2. CASE declared # {}
      BY <1>1, <3>1, <3>2 DEF TypeOK, Cids
    <3>3. CASE declared = {}
      <4>1. cid = <<>> /\ phase # "idle"
        <5>1. cid \in [{} -> Cids]
          BY <1>1, <2>1, <3>3 DEF BuildIds
        <5> QED BY <2>1, <5>1
      <4> QED BY <1>1, <4>1 DEF TypeOK
    <3> QED BY <3>1, <3>2, <3>3
  <2>3. ASSUME NEW i \in Cids, i < nextCidFile PROVE i < classCounter
    BY <1>1, <2>2, <2>3 DEF TypeOK, Cids
  <2>4. \A u \in Units : Settled(u)' <=> object[u].from = "build"
    BY <2>1 DEF Settled, Compiled
  <2> QED BY <2>1, <2>2, <2>3, <2>4, AllBuilt DEF SettledIds, Compiled, Names
<1>8. CASE LinkFails
  <2>1. \A u \in Units : Settled(u)' => Settled(u) /\ object'[u] = object[u]
    BY <1>1, <1>8 DEF LinkFails, Settled, Compiled, Ends, ObjectFiles, ObjectFile
  <2>2. \A u \in Units : ~Compiled(u)'
    BY <1>8 DEF LinkFails, Compiled, Ends
  <2>3. nextCidFile' = nextCidFile
    BY <1>8 DEF LinkFails
  <2> QED BY <1>1, <2>1, <2>2, <2>3 DEF SettledIds, Names
<1>9. ASSUME NEW us \in SUBSET Units, BuildFails(us) PROVE SettledIds'
  <2>1. \A u \in Units : Emitted(u, "failure").from = "failure"
    BY DEF Emitted
  <2>2. \A u \in Units : Settled(u)' => Settled(u) /\ object'[u] = object[u]
    BY <1>9, <2>1 DEF BuildFails, WriteObjects, Settled, Compiled, Ends
  <2>3. \A u \in Units : ~Compiled(u)'
    BY <1>9 DEF BuildFails, Compiled, Ends
  <2>4. nextCidFile' = nextCidFile
    BY <1>9 DEF BuildFails
  <2> QED BY <1>1, <2>2, <2>3, <2>4 DEF SettledIds, Names
<1>10. CASE UNCHANGED vars
  BY <1>1, <1>10 DEF vars, SettledIds, Settled, Compiled, Names, Emitted
<1> QED BY <1>3, <1>4, <1>5, <1>6, <1>7, <1>8, <1>9, <1>10 DEF Next

---------------------------------------------------------------------------
(* The program that is linked.                                             *)

LEMMA LinkedInit == Init => LinkedProgram
BY DEF Init, LinkedProgram

LEMMA LinkedStep ==
  ASSUME IInv, [Next]_vars
  PROVE  LinkedProgram'
<1> USE DEF files
<1>1. TypeOK /\ ObjectFiles /\ BuildIds /\ LinkedProgram
  BY DEF IInv
<1>a. ASSUME UNCHANGED linked PROVE LinkedProgram'
  BY <1>1, <1>a DEF LinkedProgram
<1>7. CASE Link
  <2>1. /\ linked' = [objects |-> object, table |-> ClassHierarchyTable, fresh |-> buildSet]
        /\ phase = "compiled" /\ phase # "idle"
    BY <1>7 DEF Link
  <2>2. cid \in [declared -> Cids] /\ declared \in SUBSET Classes
    BY <1>1, <2>1 DEF BuildIds, TypeOK
  <2>3. BasesIn(declared) /\ Distinct(declared, cid)
    BY <1>1, <2>1 DEF BuildIds
  <2>4. linked'.table = TableOf(declared, cid)
    BY <2>1 DEF ClassHierarchyTable, TableOf
  <2>5. /\ linked'.objects \in [Units -> ObjectFile] /\ linked'.objects = object
        /\ linked'.fresh \subseteq Units /\ linked'.fresh = buildSet
    BY <1>1, <2>1 DEF ObjectFiles, TypeOK
  <2>6. ASSUME NEW u \in buildSet, NEW c \in Classes, NEW i \in Cids, Names(object[u], c, i)
        PROVE  c \in declared /\ i = cid[c]
    <3>1. u \in Units /\ object[u] = Emitted(u, "build")
      BY <1>1, <2>1, <2>5 DEF IInv, SettledIds, Compiled
    <3> QED BY <1>1, <2>1, <2>6, <3>1, EmittedTypes
  <2>7. /\ \A u, v \in Units : object[u].from = "build" /\ object[v].from = "build" =>
             \A c, d \in Classes, i \in Cids :
               Names(object[u], c, i) /\ Names(object[v], d, i) => c = d
        /\ \A u \in Units : object[u].from = "build" =>
              \A c \in Classes, i \in Cids : Names(object[u], c, i) =>
                 \/ i < nextCidFile
                 \/ c \in declared /\ i = cid[c] /\ u \in buildSet
    BY <2>1, AllBuilt, Zenon
  <2>8. ASSUME NEW u \in Units, object[u].from = "build", NEW c \in Classes, NEW d \in declared,
               Names(object[u], c, cid[d])
        PROVE  c = d
    <3>1. cid[d] \in Cids /\ ~(cid[d] < nextCidFile)
      <4>1. cid[d] \in Cids /\ nextCidFile \in Cids /\ nextCidFile <= cid[d]
        BY <1>1, <2>1, <2>2 DEF BuildIds, TypeOK
      <4> QED BY <4>1 DEF Cids
    <3>2. c \in declared /\ cid[d] = cid[c]
      BY <2>7, <2>8, <3>1
    <3> QED BY <2>3, <3>2 DEF Distinct
  <2>9. GoodProgram(linked', declared, cid)
    BY <2>3, <2>4, <2>5, <2>6, <2>7, <2>8 DEF GoodProgram
  <2> QED BY <2>2, <2>9 DEF LinkedProgram, GoodProgram
<1>8. CASE LinkFails \/ Compile \/ UNCHANGED vars
  BY <1>a, <1>8 DEF LinkFails, Compile, vars
<1>9. ASSUME NEW us \in SUBSET Units, BuildFails(us) PROVE LinkedProgram'
  BY <1>a, <1>9 DEF BuildFails
<1>10. ASSUME NEW u \in Units, EditSource(u) PROVE LinkedProgram'
  BY <1>a, <1>10 DEF EditSource
<1>11. ASSUME NEW c \in Classes, AddClass(c) PROVE LinkedProgram'
  BY <1>a, <1>11 DEF AddClass
<1>12. ASSUME NEW rebuild \in BOOLEAN, BuildSymbolTable(rebuild) PROVE LinkedProgram'
  BY <1>a, <1>12 DEF BuildSymbolTable
<1> QED BY <1>7, <1>8, <1>9, <1>10, <1>11, <1>12 DEF Next

(* Types, numbers and program: what holds in every state.                  *)
LEMMA Inductive == Spec => []IInv
<1>1. Init => IInv
  BY TypesInit, IdsInit, LinkedInit DEF IInv
<1>2. IInv /\ [Next]_vars => IInv'
  BY TypesStep, BuildIdsStep, SettledStep, LinkedStep DEF IInv
<1> QED BY <1>1, <1>2, PTL DEF Spec

---------------------------------------------------------------------------
(* The way along a table.                                                  *)

Steps(next, S) == \A k \in S \cap DOMAIN next : next[k] # NoCid => next[k] \in S

LEMMA LeadsToItself ==
  ASSUME NEW next, NEW i
  PROVE  LeadsTo(next, i, i)
BY DEF LeadsTo

LEMMA LeadsNowhere ==
  ASSUME NEW next, NEW i, NEW j, i \notin DOMAIN next, LeadsTo(next, i, j)
  PROVE  i = j
<1>1. {i} \in SUBSET ({i} \cup DOMAIN next \cup {next[k] : k \in DOMAIN next})
  OBVIOUS
<1>2. i \in {i} /\ \A k \in {i} \cap DOMAIN next : next[k] # NoCid => next[k] \in {i}
  OBVIOUS
<1> QED BY <1>1, <1>2 DEF LeadsTo

(* What one is led to is in every set the steps do not leave.              *)
LEMMA StaysIn ==
  ASSUME NEW next, NEW i, NEW j, LeadsTo(next, i, j), NEW S, i \in S, Steps(next, S)
  PROVE  j \in S
<1> DEFINE U == {i} \cup DOMAIN next \cup {next[k] : k \in DOMAIN next}
<1>1. S \cap U \in SUBSET U
  OBVIOUS
<1>2. i \in S \cap U
  OBVIOUS
<1>3. \A k \in (S \cap U) \cap DOMAIN next : next[k] # NoCid => next[k] \in S \cap U
  BY DEF Steps
<1>4. j \in S \cap U
  BY <1>1, <1>2, <1>3 DEF LeadsTo
<1> QED BY <1>4

LEMMA TableEntries ==
  ASSUME NEW D \in SUBSET Classes, NEW ids \in [D -> Cids], Distinct(D, ids)
  PROVE  /\ DOMAIN TableOf(D, ids) = {ids[c] : c \in D}
         /\ \A c \in D : TableOf(D, ids)[ids[c]] = IF Base[c] = NoCid THEN NoCid ELSE ids[Base[c]]
<1>1. ASSUME NEW c \in D PROVE (CHOOSE d \in D : ids[d] = ids[c]) = c
  BY DEF Distinct
<1> QED BY <1>1 DEF TableOf

(* The table leads from the number of a class to that of another if and    *)
(* only if the first class is the second or derived from it.               *)
LEMMA TableTells ==
  ASSUME NEW D \in SUBSET Classes, NEW ids \in [D -> Cids], BasesIn(D), Distinct(D, ids),
         NEW c \in D, NEW d \in D
  PROVE  LeadsTo(TableOf(D, ids), ids[c], ids[d]) <=> LeadsTo(Base, c, d)
<1> DEFINE table == TableOf(D, ids)
<1>1. /\ DOMAIN table = {ids[e] : e \in D}
      /\ \A e \in D : table[ids[e]] = IF Base[e] = NoCid THEN NoCid ELSE ids[Base[e]]
  BY TableEntries
<1> HIDE DEF table
<1>2. DOMAIN Base = Classes /\ \A e \in D : ids[e] # NoCid
  BY ClassIdsAssumption DEF Cids
<1>3. ASSUME LeadsTo(table, ids[c], ids[d]),
             NEW S \in SUBSET ({c} \cup DOMAIN Base \cup {Base[k] : k \in DOMAIN Base}),
             c \in S, \A k \in S \cap DOMAIN Base : Base[k] # NoCid => Base[k] \in S
      PROVE  d \in S
  <2> DEFINE T == {ids[e] : e \in S \cap D}
  <2>1. ids[c] \in T
    BY <1>3
  <2>2. ASSUME NEW e \in S \cap D, table[ids[e]] # NoCid PROVE table[ids[e]] \in T
    <3>1. Base[e] # NoCid /\ table[ids[e]] = ids[Base[e]]
      BY <1>1, <2>2
    <3>2. Base[e] \in S \cap D
      BY <1>2, <1>3, <2>2, <3>1 DEF BasesIn
    <3> QED BY <3>1, <3>2
  <2>3. Steps(table, T)
    BY <2>2 DEF Steps
  <2>4. ids[d] \in T
    <3> HIDE DEF T
    <3> QED BY <1>3, <2>1, <2>3, StaysIn
  <2> QED BY <2>4 DEF Distinct
<1>4. ASSUME LeadsTo(Base, c, d),
             NEW T \in SUBSET ({ids[c]} \cup DOMAIN table \cup {table[k] : k \in DOMAIN table}),
             ids[c] \in T, \A k \in T \cap DOMAIN table : table[k] # NoCid => table[k] \in T
      PROVE  ids[d] \in T
  <2> DEFINE S == {e \in D : ids[e] \in T}
  <2>1. c \in S
    BY <1>4
  <2>2. ASSUME NEW e \in S, Base[e] # NoCid PROVE Base[e] \in S
    <3>1. Base[e] \in D /\ table[ids[e]] = ids[Base[e]] /\ ids[e] \in DOMAIN table
      BY <1>1, <2>2 DEF BasesIn
    <3>2. ids[Base[e]] \in T
      BY <1>2, <1>4, <2>2, <3>1
    <3> QED BY <3>1, <3>2
  <2>3. Steps(Base, S)
    BY <2>2 DEF Steps
  <2>4. d \in S
    <3> HIDE DEF S
    <3> QED BY <1>4, <2>1, <2>3, StaysIn
  <2> QED BY <2>4
<1>5. LeadsTo(table, ids[c], ids[d]) => LeadsTo(Base, c, d)
  BY <1>3 DEF LeadsTo
<1>6. LeadsTo(Base, c, d) => LeadsTo(table, ids[c], ids[d])
  BY <1>4 DEF LeadsTo
<1> QED BY <1>5, <1>6 DEF table

(* From the number of a class the table only leads to numbers of classes.  *)
LEMMA TableLeadsToClasses ==
  ASSUME NEW D \in SUBSET Classes, NEW ids \in [D -> Cids], BasesIn(D), Distinct(D, ids),
         NEW c \in D, NEW j, LeadsTo(TableOf(D, ids), ids[c], j)
  PROVE  \E d \in D : j = ids[d]
<1> DEFINE T == {ids[e] : e \in D}
           table == TableOf(D, ids)
<1>1. \A e \in D : table[ids[e]] = IF Base[e] = NoCid THEN NoCid ELSE ids[Base[e]]
  BY TableEntries
<1> HIDE DEF table
<1>2. Steps(table, T)
  BY <1>1 DEF Steps, BasesIn
<1>3. j \in T
  <2> HIDE DEF T
  <2>1. ids[c] \in T
    BY DEF T
  <2> QED BY <1>2, <2>1, StaysIn DEF table
<1> QED BY <1>3

(* A test of the program reads two identifiers of its objects.             *)
LEMMA TestReads ==
  ASSUME LinkedProgram, NEW t \in Tests
  PROVE  \E D \in SUBSET Classes : \E ids \in [D -> Cids], i, j \in Cids :
           /\ GoodProgram(linked, D, ids)
           /\ UnitOf[t[1]] \in Units /\ t[2] \in Units /\ t[1] \in Classes /\ t[3] \in Classes
           /\ Names(linked.objects[UnitOf[t[1]]], t[1], i) /\ Names(linked.objects[t[2]], t[3], j)
           /\ Is(t) = LeadsTo(TableOf(D, ids), i, j)
<1>1. /\ t[1] \in Classes /\ t[2] \in Units /\ t[3] \in Classes
      /\ t[2] \in DOMAIN linked.objects
      /\ t[1] \in DOMAIN linked.objects[UnitOf[t[1]]].rtti
      /\ t[3] \in DOMAIN linked.objects[t[2]].literal
  BY DEF Tests
<1>2. UnitOf[t[1]] \in Units
  BY <1>1, ClassIdsAssumption
<1>3. linked # NoProgram
  <2>1. DOMAIN NoProgram.objects = {}
    BY DEF NoProgram
  <2> QED BY <1>1, <2>1
<1>4. PICK D \in SUBSET Classes : \E ids \in [D -> Cids] : GoodProgram(linked, D, ids)
  BY <1>3 DEF LinkedProgram
<1>5. PICK ids \in [D -> Cids] : GoodProgram(linked, D, ids)
  BY <1>4
<1> DEFINE i == linked.objects[UnitOf[t[1]]].rtti[t[1]]
           j == linked.objects[t[2]].literal[t[3]]
<1>6. /\ linked.objects[UnitOf[t[1]]].rtti \in PartialMaps(Classes, Cids)
      /\ linked.objects[t[2]].literal \in PartialMaps(Classes, Cids)
  BY <1>1, <1>2, <1>5 DEF GoodProgram, ObjectFile
<1>7. i \in Cids /\ j \in Cids
  BY <1>1, <1>6, PartialMapsProperties
<1>8. Names(linked.objects[UnitOf[t[1]]], t[1], i) /\ Names(linked.objects[t[2]], t[3], j)
  BY <1>1 DEF Names
<1>9. Is(t) = LeadsTo(TableOf(D, ids), i, j)
  BY <1>5 DEF Is, IsClassSameOrDerivedFrom, GoodProgram
<1> QED BY <1>1, <1>2, <1>5, <1>7, <1>8, <1>9

---------------------------------------------------------------------------
(* Whatever was edited, built, rebuilt or has failed before, the variables *)
(* stay in their types: no build gives out more identifiers than the       *)
(* counter says.                                                           *)
THEOREM TypeCorrect == Spec => []TypeOK
<1>1. IInv => TypeOK
  BY DEF IInv
<1> QED BY Inductive, <1>1, PTL

(* Between units the build compiled itself, "is" finds exactly the derived *)
(* classes: the table says of the numbers what the sources say of the      *)
(* classes.                                                                *)
THEOREM FreshUnitsAgree == Spec => []FreshUnitsTell
<1>1. ASSUME IInv, NEW t \in Tests, UnitOf[t[1]] \in linked.fresh, t[2] \in linked.fresh
      PROVE  Is(t) = Derives(t[1], t[3])
  <2>1. LinkedProgram
    BY <1>1 DEF IInv
  <2>2. PICK D \in SUBSET Classes : \E ids \in [D -> Cids], i, j \in Cids :
           /\ GoodProgram(linked, D, ids)
           /\ UnitOf[t[1]] \in Units /\ t[2] \in Units /\ t[1] \in Classes /\ t[3] \in Classes
           /\ Names(linked.objects[UnitOf[t[1]]], t[1], i) /\ Names(linked.objects[t[2]], t[3], j)
           /\ Is(t) = LeadsTo(TableOf(D, ids), i, j)
    BY <1>1, <2>1, TestReads
  <2>3. PICK ids \in [D -> Cids], i, j \in Cids :
           /\ GoodProgram(linked, D, ids)
           /\ t[1] \in Classes /\ t[3] \in Classes
           /\ Names(linked.objects[UnitOf[t[1]]], t[1], i) /\ Names(linked.objects[t[2]], t[3], j)
           /\ Is(t) = LeadsTo(TableOf(D, ids), i, j)
    BY <2>2
  <2>4. t[1] \in D /\ i = ids[t[1]] /\ t[3] \in D /\ j = ids[t[3]]
    BY <1>1, <2>3 DEF GoodProgram
  <2>5. LeadsTo(TableOf(D, ids), ids[t[1]], ids[t[3]]) <=> LeadsTo(Base, t[1], t[3])
    BY <2>3, <2>4, TableTells DEF GoodProgram
  <2>6. LeadsTo(TableOf(D, ids), i, j) \in BOOLEAN /\ LeadsTo(Base, t[1], t[3]) \in BOOLEAN
    BY DEF LeadsTo
  <2> QED BY <2>3, <2>4, <2>5, <2>6 DEF Derives
<1>2. IInv => FreshUnitsTell
  BY <1>1 DEF FreshUnitsTell
<1> QED BY Inductive, <1>2, PTL

(* However old the objects of the program are, "is" does not take an       *)
(* object for one of an unrelated class, unless one of the two units was   *)
(* left by a build that failed.                                            *)
THEOREM NoFalseHits == Spec => []NoFalseHit
<1>1. ASSUME IInv, NEW t \in Tests,
             linked.objects[UnitOf[t[1]]].from = "build", linked.objects[t[2]].from = "build", Is(t)
      PROVE  Derives(t[1], t[3])
  <2>1. LinkedProgram
    BY <1>1 DEF IInv
  <2>2. PICK D \in SUBSET Classes : \E ids \in [D -> Cids], i, j \in Cids :
           /\ GoodProgram(linked, D, ids)
           /\ UnitOf[t[1]] \in Units /\ t[2] \in Units /\ t[1] \in Classes /\ t[3] \in Classes
           /\ Names(linked.objects[UnitOf[t[1]]], t[1], i) /\ Names(linked.objects[t[2]], t[3], j)
           /\ Is(t) = LeadsTo(TableOf(D, ids), i, j)
    BY <1>1, <2>1, TestReads
  <2>3. PICK ids \in [D -> Cids], i, j \in Cids :
           /\ GoodProgram(linked, D, ids)
           /\ UnitOf[t[1]] \in Units /\ t[2] \in Units /\ t[1] \in Classes /\ t[3] \in Classes
           /\ Names(linked.objects[UnitOf[t[1]]], t[1], i) /\ Names(linked.objects[t[2]], t[3], j)
           /\ Is(t) = LeadsTo(TableOf(D, ids), i, j)
    BY <2>2
  <2>4. LeadsTo(TableOf(D, ids), i, j) /\ BasesIn(D) /\ Distinct(D, ids)
    BY <1>1, <2>3 DEF GoodProgram
  <2>5. CASE i \in {ids[c] : c \in D}
    <3>1. PICK c \in D : i = ids[c]
      BY <2>5
    <3>2. PICK d \in D : j = ids[d]
      BY <2>4, <3>1, TableLeadsToClasses
    <3>3. t[1] = c /\ t[3] = d
      BY <1>1, <2>3, <3>1, <3>2 DEF GoodProgram
    <3> QED BY <2>4, <3>1, <3>2, <3>3, TableTells DEF Derives
  <2>6. CASE i \notin {ids[c] : c \in D}
    <3>1. i = j
      BY <2>4, <2>6, TableEntries, LeadsNowhere
    <3>2. t[1] = t[3]
      BY <1>1, <2>3, <3>1 DEF GoodProgram
    <3> QED BY <3>2, LeadsToItself DEF Derives
  <2> QED BY <2>5, <2>6
<1>2. IInv => NoFalseHit
  BY <1>1 DEF NoFalseHit
<1> QED BY Inductive, <1>2, PTL
===========================================================================

---------------------------- MODULE BuildProofs ----------------------------
(***************************************************************************)
(* Proofs about Build, for every number of units and workers and whatever  *)
(* may happen: types, RebuildMakesCurrent, StaleIsNoticed and              *)
(* NothingLeftToCompile; then, from what the files remember between        *)
(* builds, CallersAreCurrent and LibraryFilesAreCurrent.                   *)
(***************************************************************************)
EXTENDS Build, TLAPS

USE DEF Outdated, ReadDependencyFile, HasChangedFile, AddDependentUnit,
        SetException, NoException, Batch

(* An edit that makes u call the units in used. *)
EditOf(u, used, b) == \E r \in MayRefer(u, used) : EditSource(u, used, r, b)

InQueue(v) == \E i \in 1..Len(queue) : queue[i] = v

(* Outside a build nothing is remembered, during one there is no result,   *)
(* and workers only live while object code is generated.                   *)
Fresh ==
  /\ phase # "idle" => result = "none"
  /\ phase \in {"idle", "solution"} => dependents = [u \in Units |-> {}]
  /\ phase \in {"idle", "solution", "scan"} => queue = <<>>
  /\ phase \in {"idle", "solution", "scan", "compile", "start"}
       => failed = {} /\ stop = FALSE
  /\ phase # "generate" => \A w \in Workers : job[w] = Finished

Marks == "compile" \notin events => chgFile = {} /\ mode # "compile"

(* The scan has planned every changed unit it has seen and its dependents; *)
(* hence, when it is over, all changed units, and all that are stale by    *)
(* what is recorded.                                                       *)
Scanned ==
  phase = "scan" /\ mode = "build" /\ "compile" \notin events =>
    \A u \in Units : u < index /\ Changed(u) => {u} \cup depFile[u] \subseteq buildSet

Compiling == phase \in {"compile", "start", "generate"}

Planned ==
  Compiling /\ "compile" \notin events =>
    /\ \A u, v \in Units : Stale(u, v) => Building(v)
    /\ \A v \in Units : Changed(v) => Building(v)

Reached(v) == phase = "compile" => v < index

(* A unit compiled again has an IR file newer than its object until that   *)
(* is generated, and it is in the queue, with a worker, or generated,      *)
(* unless a worker failed.                                                 *)
Generated(v) == edited[v] = {} /\ newer[v] = {}

OnlyEmitted(v) == <<"ir", "obj">> \in newer[v] /\ <<"src", "ir">> \notin newer[v]

Emitted ==
  Compiling => \A v \in Units : Building(v) /\ Reached(v) =>
                 Generated(v) \/ OnlyEmitted(v)

Queued ==
  /\ phase \in {"compile", "start"} =>
       \A v \in Units : Building(v) /\ Reached(v) => InQueue(v)
  /\ phase = "generate" =>
       /\ stop => failed # {}
       /\ \A v \in Units : Building(v) =>
            \/ Generated(v) \/ failed # {} \/ InQueue(v)
            \/ \E w \in Workers : job[w] = v
       /\ queue # <<>> => failed # {} \/ \E w \in Workers : job[w] # Finished

(* Workers are given only units that are compiled. *)
Dispatched ==
  Compiling =>
    /\ \A v \in Units : InQueue(v) => Building(v)
    /\ \A w \in Workers : job[w] \in Units => Building(job[w])

(* A dependent that is not in the file yet is a unit compiled now. *)
Recorded ==
  phase \in {"scan", "compile", "start", "generate", "depend"} =>
    \A u \in Units : dependents[u] \subseteq depFile[u] \cup {v \in Units : Building(v)}

Rebuilt ==
  phase \in {"depend", "archive", "ar", "export"} \/ Success =>
    /\ mode = "rebuild" => \A v \in Units : edited[v] = {}
    /\ "compile" \notin events => \A v \in Units : newer[v] = {}
    /\ phase = "depend" => \A v \in Units : Building(v) => edited[v] = {}
----------------------------------------------------------------------------
LEMMA UnitsFacts == /\ 1 \in Units /\ Library \notin Units /\ Units \subseteq Nat
                    /\ Ready \notin Units /\ Finished \notin Units
                    /\ Ready # Finished /\ Workers # {}
  BY BuildAssumption DEF Units

(* The scan and the compilation go through the units in order. *)
LEMMA AdvanceFacts ==
  ASSUME index \in Units, NEW next, Advance(next)
  PROVE  /\ index' \in Units
         /\ \/ phase' = phase /\ index' = index + 1
            \/ phase' = next /\ \A v \in Units : v < index \/ v = index
         /\ \A v \in Units : phase' = phase /\ index' = index + 1 /\ v < index'
                               => v < index \/ v = index
  BY BuildAssumption DEF Units, Advance

(* Types, in two halves: the files, and the build in progress. *)
FilesOK ==
  /\ events \in SUBSET AllEvents
  /\ calls \in [Units -> SUBSET Units] /\ refers \in [Units -> SUBSET Units]
  /\ bad \subseteq Units
  /\ newer \in [Units -> SUBSET Pairs]
  /\ edited \in [Units -> SUBSET (Units \cup {Library})]
  /\ depFile \in [Units -> SUBSET Units] /\ chgFile \subseteq Units
  /\ objects \subseteq Units /\ newerThanArchive \subseteq Units
  /\ inArchive \subseteq Units

BuildOK ==
  /\ phase \in {"idle", "solution", "scan", "compile", "start", "generate",
                "depend", "archive", "ar", "export"}
  /\ mode \in {"build", "rebuild", "compile"}
  /\ result \in {"none", "success", "failure"}
  /\ compileFiles \subseteq Units /\ buildSet \subseteq Units
  /\ index \in Units /\ dependents \in [Units -> SUBSET Units]
  /\ queue \in Seq(Units)
  /\ job \in [Workers -> Units \cup {Ready, Finished}]
  /\ failed \subseteq Units

FlagsOK == exportOld \in BOOLEAN /\ stop \in BOOLEAN /\ changed \in BOOLEAN

LEMMA TypeParts == TypeOK <=> FilesOK /\ BuildOK /\ FlagsOK
  BY Zenon DEF TypeOK, FilesOK, BuildOK, FlagsOK

LEMMA MemoryType ==
  ASSUME NEW ph \in {"idle"}, NEW res \in {"success", "failure"}, BuildOK,
         Memory(ph, res), mode' = mode
  PROVE  BuildOK' /\ stop' = FALSE /\ changed' = FALSE
  BY UnitsFacts DEF BuildOK, Memory

LEMMA TypeInit == Init => TypeOK
<1> SUFFICES ASSUME Init PROVE TypeOK
  OBVIOUS
<1>1. FilesOK
  BY BuildAssumption DEF Init, NoFiles, FilesOK, Uses
<1>2. BuildOK
  BY UnitsFacts DEF Init, BuildOK
<1>3. FlagsOK
  BY DEF Init, NoFiles, FlagsOK
<1> QED
  BY <1>1, <1>2, <1>3, TypeParts

(* The actions, with the quantifiers of Next and the disjuncts of Work     *)
(* taken apart.                                                            *)
LEMMA NextCases ==
  ASSUME [Next]_vars
  PROVE  \/ \E u \in Units : \E used \in SUBSET (Units \ {u}), b \in Errors(u) :
              EditOf(u, used, b)
         \/ CleanProject \/ BuildLibrary \/ OtherProjectFails
         \/ \E m \in {"build", "rebuild", "compile"}, files \in SUBSET Units :
              phase \in {"idle", "solution"} /\ BuildProject(m, files)
         \/ ScanUnit \/ CompileUnit \/ BindError
         \/ ParseError \/ SkipUnit \/ StartGenerators
         \/ \E w \in Workers : \/ GetNext(w) \/ Stopping(w)
                               \/ GenerateObjectCode(w) \/ GenerateFails(w)
         \/ JoinFailed \/ JoinGenerators \/ WriteDependencyFile \/ Archive
         \/ \E last \in 0..NumUnits : RunAr(last)
         \/ ArFails \/ Export \/ Crash \/ UNCHANGED vars
  BY DEF Next, Edit, EditOf, StartBuild, Work, Generator

(* The files of dependents a build writes, to the end or until it is       *)
(* killed, hold what it has read and found.                                *)
LEMMA DependFacts ==
  ASSUME FilesOK, BuildOK, WriteDependencyFile \/ Crash
  PROVE  /\ UNCHANGED <<events, calls, refers, bad, edited, newer, objects,
                        newerThanArchive, inArchive, exportOld, mode>>
         /\ depFile' \in [Units -> SUBSET Units]
         /\ \A u \in Units : depFile'[u] = depFile[u] \/ (phase = "depend" /\
                               depFile'[u] \subseteq dependents[u])
<1>1. CASE WriteDependencyFile
  <2>1. /\ depFile' = [depFile EXCEPT ![index] = dependents[index]]
        /\ phase = "depend" /\ dependents[index] \subseteq Units
    BY <1>1 DEF WriteDependencyFile, BuildOK
  <2> QED
    BY <1>1, <2>1 DEF WriteDependencyFile, FilesOK, BuildOK, sourceVars, libraryVars,
       scanVars
<1>2. CASE Crash /\ UNCHANGED depFile
  BY <1>2 DEF Crash, Ends, FilesOK, sourceVars, libraryVars
<1>3. CASE Crash /\ depFile' # depFile
  <2>1. PICK some \in SUBSET dependents[index] :
          depFile' = [depFile EXCEPT ![index] = some]
    BY <1>3 DEF Crash
  <2>2. some \subseteq Units /\ phase = "depend"
    BY <1>3 DEF Crash, BuildOK
  <2> QED
    BY <1>3, <2>1, <2>2 DEF Crash, Ends, FilesOK, BuildOK, sourceVars, libraryVars
<1> QED
  BY <1>1, <1>2, <1>3

LEMMA FilesStep == FilesOK /\ BuildOK /\ [Next]_vars => FilesOK'
<1> SUFFICES ASSUME FilesOK, BuildOK, [Next]_vars PROVE FilesOK'
  OBVIOUS
<1> USE UnitsFacts DEF FilesOK, BuildOK
<1>1. CASE \E u \in Units : \E used \in SUBSET (Units \ {u}), b \in Errors(u) :
             EditOf(u, used, b)
  <2> PICK u \in Units : \E used \in SUBSET (Units \ {u}), b \in Errors(u) :
             EditOf(u, used, b)
    BY <1>1
  <2> PICK used \in SUBSET (Units \ {u}), b \in Errors(u) : EditOf(u, used, b)
    OBVIOUS
  <2>1. b \subseteq Units
    BY DEF Errors
  <2>2. newer' \in [Units -> SUBSET Pairs]
    BY DEF EditOf, EditSource, WriteSource, Pairs
  <2>3. edited' \in [Units -> SUBSET (Units \cup {Library})]
    BY DEF EditOf, EditSource
  <2>4. /\ calls' \in [Units -> SUBSET Units] /\ refers' \in [Units -> SUBSET Units]
        /\ bad' \subseteq Units
    BY <2>1 DEF EditOf, EditSource, MayRefer
  <2> QED
    BY <2>2, <2>3, <2>4 DEF EditOf, EditSource
<1>2. CASE CleanProject
  BY <1>2 DEF CleanProject, Uses
<1>3. CASE BuildLibrary
  BY <1>3 DEF BuildLibrary, fileVars, libraryVars
<1>4. CASE ScanUnit
  <2>1. chgFile' \subseteq Units
    BY <1>4 DEF ScanUnit
  <2> QED
    BY <1>4, <2>1 DEF ScanUnit, sourceVars, libraryVars
<1>5. CASE CompileUnit
  <2>1. newer' \in [Units -> SUBSET Pairs]
    BY <1>5 DEF CompileUnit, WriteIr, Pairs
  <2> QED
    BY <1>5, <2>1 DEF CompileUnit, sourceVars, libraryVars
<1>6. CASE \E w \in Workers : GenerateObjectCode(w)
  <2> PICK w \in Workers : GenerateObjectCode(w)
    BY <1>6
  <2>1. newer' \in [Units -> SUBSET Pairs]
    BY DEF GenerateObjectCode, WriteObject
  <2> QED
    BY <2>1 DEF GenerateObjectCode
<1>7. CASE WriteDependencyFile \/ Crash
  <2>1. chgFile' = chgFile
    BY <1>7 DEF WriteDependencyFile, Crash
  <2> QED
    BY <1>7, <2>1, DependFacts
<1>8. CASE Archive
  BY <1>8 DEF Archive, sourceVars, fileVars
<1>9. CASE \E last \in 0..NumUnits : RunAr(last)
  BY <1>9 DEF RunAr, sourceVars, fileVars, Units
<1>10. CASE UNCHANGED <<sourceVars, fileVars, objects, newerThanArchive, inArchive>>
  BY <1>10 DEF sourceVars, fileVars
<1>11. ASSUME \/ OtherProjectFails \/ BindError
              \/ ParseError \/ SkipUnit \/ StartGenerators
              \/ \E w \in Workers : GetNext(w) \/ Stopping(w) \/ GenerateFails(w)
              \/ \E m \in {"build", "rebuild", "compile"}, files \in SUBSET Units :
                   BuildProject(m, files)
              \/ JoinFailed \/ JoinGenerators \/ ArFails \/ Export \/ UNCHANGED vars
       PROVE  UNCHANGED <<sourceVars, fileVars, objects, newerThanArchive, inArchive>>
  BY <1>11 DEF OtherProjectFails, BindError,
     ParseError, SkipUnit, StartGenerators, GetNext,
       Stopping, GenerateFails, BuildProject, JoinFailed, JoinGenerators, ArFails, Export,
       vars, libraryVars
<1> QED
  BY <1>1, <1>2, <1>3, <1>4, <1>5, <1>6, <1>7, <1>8, <1>9, <1>10, <1>11, NextCases

LEMMA BuildStep == FilesOK /\ BuildOK /\ [Next]_vars => BuildOK'
<1> SUFFICES ASSUME FilesOK, BuildOK, [Next]_vars PROVE BuildOK'
  OBVIOUS
<1> USE UnitsFacts
<1>1. ASSUME phase' \in {"idle"}, result' \in {"success", "failure"}, mode' = mode,
             Memory(phase', result')
      PROVE  BuildOK'
  BY <1>1, MemoryType
<1>2. CASE OtherProjectFails \/ BindError
             \/ ParseError \/ JoinFailed \/ ArFails \/ Export \/ Crash
  <2>1. Ends("failure") \/ Ends("success")
    BY <1>2 DEF OtherProjectFails, BindError,
     ParseError, JoinFailed, ArFails, Export, Crash
  <2> QED
    BY <2>1, MemoryType DEF Ends
<1>3. CASE \/ \E u \in Units : \E used \in SUBSET (Units \ {u}), b \in Errors(u) :
                EditOf(u, used, b)
           \/ CleanProject \/ BuildLibrary
  BY <1>3 DEF EditOf, EditSource, CleanProject, BuildLibrary, scanVars, workerVars, BuildOK
<1>4. CASE \E m \in {"build", "rebuild", "compile"}, files \in SUBSET Units :
             BuildProject(m, files)
  BY <1>4 DEF BuildProject, workerVars, BuildOK
<1>5. CASE ScanUnit
  <2> USE <1>5 DEF ScanUnit
  <2>1. index' \in Units /\ phase' \in {phase, "compile"}
    BY AdvanceFacts DEF BuildOK
  <2>2. buildSet' \subseteq Units
    BY DEF FilesOK, BuildOK
  <2>3. dependents' \in [Units -> SUBSET Units]
    BY DEF FilesOK, BuildOK
  <2> QED
    BY <2>1, <2>2, <2>3 DEF BuildOK, workerVars
<1>6. CASE CompileUnit
  <2> USE <1>6 DEF CompileUnit
  <2>1. index' \in Units /\ phase' \in {phase, "start"}
    BY AdvanceFacts DEF BuildOK
  <2>2. queue' \in Seq(Units)
    BY DEF BuildOK
  <2>3. dependents' \in [Units -> SUBSET Units]
    BY DEF BuildOK
  <2> QED
    BY <2>1, <2>2, <2>3 DEF BuildOK, scanVars
<1>7. CASE SkipUnit
  <2>1. index' \in Units /\ phase' \in {phase, "start"}
    BY <1>7, AdvanceFacts DEF SkipUnit, BuildOK
  <2> QED
    BY <1>7, <2>1 DEF SkipUnit, BuildOK, scanVars, workerVars
<1>8. CASE StartGenerators
  BY <1>8 DEF StartGenerators, BuildOK, scanVars
<1>9. CASE \E w \in Workers : GetNext(w)
  <2> PICK w \in Workers : GetNext(w)
    BY <1>9
  <2>1. job' \in [Workers -> Units \cup {Ready, Finished}]
    <3>1. CASE queue = <<>>
      BY <3>1 DEF GetNext, BuildOK
    <3>2. CASE queue # <<>>
      BY <3>2 DEF GetNext, BuildOK
    <3> QED
      BY <3>1, <3>2
  <2>2. queue' \in Seq(Units)
    <3>1. queue \in Seq(Units) /\ (queue' = queue \/ (queue # <<>> /\ queue' = Tail(queue)))
      BY DEF GetNext, BuildOK
    <3> HIDE DEF Units
    <3> QED
      BY <3>1, SMT
  <2> QED
    BY <2>1, <2>2 DEF GetNext, BuildOK, scanVars
<1>10. CASE \E w \in Workers : Stopping(w) \/ GenerateObjectCode(w) \/ GenerateFails(w)
  BY <1>10 DEF Stopping, GenerateObjectCode, GenerateFails, BuildOK, scanVars
<1>11. CASE JoinGenerators \/ Archive
  BY <1>11 DEF JoinGenerators, Archive, BuildOK, scanVars, workerVars
<1>14. CASE WriteDependencyFile
  <2>1. index' \in Units /\ phase' \in {phase, "archive"}
    BY <1>14, AdvanceFacts DEF WriteDependencyFile, BuildOK
  <2> QED
    BY <1>14, <2>1 DEF WriteDependencyFile, BuildOK, scanVars, workerVars
<1>12. CASE \E last \in 0..NumUnits : RunAr(last)
  <2> PICK last \in 0..NumUnits : RunAr(last)
    BY <1>12
  <2>1. last \in (index - 1)..NumUnits /\ index \in 1..NumUnits
    BY BuildAssumption DEF RunAr, Batches, BuildOK, Units
  <2>2. index' \in Units /\ phase' \in {"ar", "export"}
    BY <2>1, BuildAssumption DEF RunAr, Units
  <2> QED
    BY <2>2 DEF RunAr, BuildOK, scanVars, workerVars
<1>13. CASE UNCHANGED vars
  BY <1>13 DEF vars, BuildOK, scanVars, workerVars
<1> QED
  BY <1>2, <1>3, <1>4, <1>5, <1>6, <1>7, <1>8, <1>9, <1>10, <1>11, <1>12, <1>13, <1>14,
     NextCases

LEMMA FlagsStep == BuildOK /\ FlagsOK /\ [Next]_vars => FlagsOK'
<1> SUFFICES ASSUME BuildOK, FlagsOK, [Next]_vars PROVE FlagsOK'
  OBVIOUS
<1>1. exportOld' \in BOOLEAN
  BY NextCases DEF FlagsOK, EditOf, EditSource, CleanProject, BuildLibrary, OtherProjectFails,
     BuildProject, ScanUnit, CompileUnit, BindError,
     ParseError, SkipUnit, StartGenerators,
     GetNext, Stopping, GenerateObjectCode, GenerateFails, JoinFailed,
     JoinGenerators, WriteDependencyFile, Advance, Archive, RunAr, ArFails, Export, Crash, vars, libraryVars
<1>2. stop' \in BOOLEAN
  BY NextCases DEF FlagsOK, EditOf, EditSource, CleanProject, BuildLibrary, OtherProjectFails,
     BuildProject, ScanUnit, CompileUnit, BindError,
     ParseError, SkipUnit, StartGenerators,
     GetNext, Stopping, GenerateObjectCode, GenerateFails, JoinFailed, Ends, Memory,
     JoinGenerators, WriteDependencyFile, Advance, Archive, RunAr, ArFails, Export, Crash, vars, workerVars
<1>3. changed' \in BOOLEAN
  BY NextCases DEF FlagsOK, EditOf, EditSource, CleanProject, BuildLibrary, OtherProjectFails,
     BuildProject, ScanUnit, CompileUnit, BindError,
     ParseError, SkipUnit, StartGenerators,
     GetNext, Stopping, GenerateObjectCode, GenerateFails, JoinFailed, Ends, Memory,
     JoinGenerators, WriteDependencyFile, Advance, Archive, RunAr, ArFails, Export, Crash, vars
<1> QED
  BY <1>1, <1>2, <1>3 DEF FlagsOK

(* In every state the variables have their types. *)
THEOREM TypeCorrect == Spec => []TypeOK
<1>1. TypeOK /\ [Next]_vars => TypeOK'
  BY TypeParts, FilesStep, BuildStep, FlagsStep DEF TypeOK, FilesOK, BuildOK, FlagsOK
<1> QED
  BY TypeInit, <1>1, PTL DEF Spec
----------------------------------------------------------------------------
LEMMA FreshStep == BuildOK /\ Fresh /\ [Next]_vars => Fresh'
<1> SUFFICES ASSUME BuildOK, Fresh, [Next]_vars PROVE Fresh'
  OBVIOUS
<1> USE UnitsFacts
<1>1. CASE OtherProjectFails \/ BindError
             \/ ParseError \/ JoinFailed \/ ArFails \/ Export \/ Crash
  <2>1. \E res \in {"failure", "success"} : Memory("idle", res)
    BY <1>1 DEF OtherProjectFails, BindError,
     ParseError, JoinFailed, ArFails, Export, Crash, Ends
  <2> QED
    BY <2>1 DEF Memory, Fresh
<1>2. CASE \/ \E u \in Units : \E used \in SUBSET (Units \ {u}), b \in Errors(u) :
                EditOf(u, used, b)
           \/ CleanProject \/ BuildLibrary
  BY <1>2 DEF EditOf, EditSource, CleanProject, BuildLibrary, workerVars, Fresh
<1>3. CASE \E m \in {"build", "rebuild", "compile"}, files \in SUBSET Units :
             phase \in {"idle", "solution"} /\ BuildProject(m, files)
  BY <1>3 DEF BuildProject, workerVars, Fresh
<1>4. CASE ScanUnit
  BY <1>4, AdvanceFacts DEF ScanUnit, workerVars, Fresh, BuildOK
<1>5. CASE CompileUnit
  BY <1>5, AdvanceFacts DEF CompileUnit, Fresh, BuildOK
<1>6. CASE SkipUnit
  BY <1>6, AdvanceFacts DEF SkipUnit, workerVars, Fresh, BuildOK
<1>7. CASE StartGenerators
  BY <1>7 DEF StartGenerators, Fresh
<1>8. CASE \E w \in Workers : \/ GetNext(w) \/ Stopping(w)
                              \/ GenerateObjectCode(w) \/ GenerateFails(w)
  <2>1. phase = "generate" /\ phase' = "generate" /\ result' = result
    BY <1>8 DEF Fresh, GetNext, Stopping, GenerateObjectCode, GenerateFails
  <2> QED
    BY <2>1 DEF Fresh
<1>9. CASE JoinGenerators \/ Archive \/ \E last \in 0..NumUnits : RunAr(last)
  BY <1>9 DEF JoinGenerators, Archive, RunAr, workerVars, Fresh
<1>11. CASE WriteDependencyFile
  BY <1>11, AdvanceFacts DEF WriteDependencyFile, workerVars, Fresh, BuildOK
<1>10. CASE UNCHANGED vars
  BY <1>10 DEF vars, workerVars, Fresh
<1> QED
  BY <1>1, <1>2, <1>3, <1>4, <1>5, <1>6, <1>7, <1>8, <1>9, <1>10, <1>11, NextCases

LEMMA MarksStep == Marks /\ [Next]_vars => Marks'
<1> SUFFICES ASSUME Marks, [Next]_vars PROVE Marks'
  OBVIOUS
<1>1. CASE ScanUnit
  BY <1>1 DEF ScanUnit, Marks, sourceVars
<1>2. CASE \E m \in {"build", "rebuild", "compile"}, files \in SUBSET Units :
             BuildProject(m, files)
  BY <1>2 DEF BuildProject, Marks, sourceVars, fileVars
<1>3. CASE UNCHANGED <<events, chgFile, mode>> \/ CleanProject
  BY <1>3 DEF Marks, CleanProject, scanVars
<1>4. ASSUME ~ScanUnit, ~CleanProject,
             ~\E m \in {"build", "rebuild", "compile"}, files \in SUBSET Units :
                BuildProject(m, files)
      PROVE  UNCHANGED <<events, chgFile, mode>>
  BY <1>4, NextCases DEF EditOf, EditSource, BuildLibrary, OtherProjectFails, CompileUnit,
     BindError,
     ParseError, SkipUnit, StartGenerators, GetNext, Stopping, GenerateObjectCode,
     GenerateFails, JoinFailed, JoinGenerators, WriteDependencyFile, Advance, Archive, RunAr, ArFails,
     Export, Crash, Ends, vars, sourceVars, fileVars, scanVars
<1> QED
  BY <1>1, <1>2, <1>3, <1>4

(* Only a scan changes what is planned; Compile does not go back to it. *)
LEMMA ScannedStep ==
  FilesOK /\ BuildOK /\ Fresh /\ Marks /\ Scanned /\ [Next]_vars => Scanned'
<1> SUFFICES ASSUME FilesOK, BuildOK, Fresh, Marks, Scanned, [Next]_vars,
                    phase' = "scan", mode' = "build", "compile" \notin events',
                    NEW u \in Units, u < index', Changed(u)'
             PROVE  ({u} \cup depFile[u] \subseteq buildSet)'
  BY DEF Scanned
<1> USE UnitsFacts
<1>1. CASE ScanUnit
  <2> USE <1>1 DEF ScanUnit
  <2>1. phase = "scan" /\ mode = "build" /\ "compile" \notin events
    BY DEF sourceVars
  <2>2. index' = index + 1 /\ (u < index \/ u = index)
    BY AdvanceFacts DEF BuildOK
  <2>3. newer' = newer /\ depFile' = depFile /\ Changed(u)
    BY DEF Changed
  <2>4. CASE u < index
    <3>1. {u} \cup depFile[u] \subseteq buildSet
      BY <2>1, <2>3, <2>4 DEF Scanned
    <3> QED
      BY <3>1, <2>1, <2>3
  <2>5. CASE u = index
    <3>1. u \notin chgFile
      BY <2>1 DEF Marks
    <3>2. buildSet' = buildSet \cup {u} \cup (dependents[u] \cup depFile[u])
      BY <3>1, <2>1, <2>3, <2>5
    <3> QED
      BY <3>2, <2>3
  <2> QED
    BY <2>2, <2>4, <2>5
<1>2. CASE \E m \in {"build", "rebuild", "compile"}, files \in SUBSET Units :
             BuildProject(m, files)
  <2>1. index' = 1
    BY <1>2 DEF BuildProject
  <2> QED
    BY <2>1, BuildAssumption DEF Units
<1>3. CASE UNCHANGED vars
  BY <1>3 DEF vars, sourceVars, fileVars, scanVars, Scanned, Changed
<1>4. ASSUME ~ScanUnit, ~UNCHANGED vars,
             ~\E m \in {"build", "rebuild", "compile"}, files \in SUBSET Units :
                BuildProject(m, files)
      PROVE  phase' # "scan"
  <2>1. ASSUME \E w \in Workers : \/ GetNext(w) \/ Stopping(w)
                              \/ GenerateObjectCode(w) \/ GenerateFails(w)
        PROVE  phase' = "generate"
    BY <2>1 DEF Fresh, GetNext, Stopping, GenerateObjectCode, GenerateFails
  <2> QED
    BY <1>4, <2>1, NextCases, AdvanceFacts DEF EditOf, EditSource, CleanProject, BuildLibrary,
     OtherProjectFails, CompileUnit, BindError,
     ParseError, SkipUnit, StartGenerators,
     JoinFailed, JoinGenerators, WriteDependencyFile, Advance, Archive, RunAr, ArFails, Export, Crash,
     Ends, Memory, Advance
<1> QED
  BY <1>1, <1>2, <1>3, <1>4
----------------------------------------------------------------------------
(* The steps that lead to, or stay in, the phases after the scan in which  *)
(* units are compiled.                                                     *)
LEMMA CompilingCases ==
  ASSUME BuildOK, Fresh, [Next]_vars, Compiling'
  PROVE  \/ ScanUnit /\ phase' = "compile" /\ index' = 1
         \/ /\ \E files \in SUBSET Units : BuildProject("rebuild", files)
            /\ phase \in {"idle", "solution"} /\ phase' = "compile" /\ index' = 1
            /\ mode' = "rebuild"
         \/ Compiling /\ (CompileUnit \/ SkipUnit)
         \/ Compiling /\ StartGenerators
         \/ Compiling /\ \E w \in Workers : \/ GetNext(w) \/ Stopping(w)
                                           \/ GenerateObjectCode(w) \/ GenerateFails(w)
         \/ Compiling /\ UNCHANGED vars
<1> USE UnitsFacts DEF Compiling
<1>1. CASE ScanUnit
  BY <1>1 DEF ScanUnit, Advance
<1>2. ASSUME NEW m \in {"build", "rebuild", "compile"}, NEW files \in SUBSET Units,
             phase \in {"idle", "solution"}, BuildProject(m, files)
      PROVE  /\ BuildProject("rebuild", files) /\ phase' = "compile" /\ index' = 1
             /\ mode' = "rebuild"
  <2>1. m = "rebuild"
    BY <1>2 DEF BuildProject
  <2> QED
    BY <1>2, <2>1 DEF BuildProject
<1>3. CASE CompileUnit \/ SkipUnit \/ StartGenerators
  BY <1>3 DEF CompileUnit, SkipUnit, StartGenerators
<1>4. ASSUME NEW w \in Workers, \/ GetNext(w) \/ Stopping(w)
                                \/ GenerateObjectCode(w) \/ GenerateFails(w)
      PROVE  Compiling
  BY <1>4 DEF Fresh, GetNext, Stopping, GenerateObjectCode, GenerateFails
<1>5. CASE UNCHANGED vars
  BY <1>5 DEF vars
<1>6. ASSUME \/ \E u \in Units : \E used \in SUBSET (Units \ {u}), b \in Errors(u) :
                  EditOf(u, used, b)
             \/ CleanProject \/ BuildLibrary \/ OtherProjectFails \/ BindError
             \/ ParseError
             \/ JoinFailed \/ JoinGenerators \/ WriteDependencyFile \/ Archive
             \/ \E last \in 0..NumUnits : RunAr(last)
             \/ ArFails \/ Export \/ Crash
      PROVE  FALSE
  BY <1>6 DEF EditOf, EditSource, CleanProject, BuildLibrary, OtherProjectFails, BindError,
     ParseError,
     JoinFailed, JoinGenerators, WriteDependencyFile, Advance, Archive, RunAr,
     ArFails, Export, Crash, Ends, Memory
<1> QED
  BY <1>1, <1>2, <1>3, <1>4, <1>5, <1>6, NextCases

LEMMA PlannedStep ==
  FilesOK /\ BuildOK /\ Fresh /\ Marks /\ Scanned /\ StaleIsNoticed /\ Planned
    /\ Dispatched /\ [Next]_vars => Planned'
<1> SUFFICES ASSUME FilesOK, BuildOK, Fresh, Marks, Scanned, StaleIsNoticed, Planned,
                    Dispatched, [Next]_vars, Compiling', "compile" \notin events',
                    NEW u \in Units, NEW v \in Units, Stale(u, v)' \/ Changed(v)'
             PROVE  Building(v)'
  BY DEF Planned
<1> USE UnitsFacts
<1>1. CASE ScanUnit /\ phase' = "compile" /\ index' = 1
  <2> USE <1>1 DEF ScanUnit
  <2>1. "compile" \notin events /\ mode = "build" /\ phase = "scan"
    BY DEF Marks, sourceVars
  <2>2. (Stale(u, v) /\ Changed(u)) \/ Changed(v)
    BY <2>1 DEF StaleIsNoticed, Stale, sourceVars, Changed
  <2>3. ASSUME NEW x \in Units, Changed(x)
        PROVE  {x} \cup depFile[x] \subseteq buildSet'
    <3>1. x < index \/ x = index
      BY BuildAssumption DEF Advance, Units, BuildOK
    <3>2. CASE x < index
      <4>1. {x} \cup depFile[x] \subseteq buildSet
        BY <2>1, <2>3, <3>2 DEF Scanned
      <4> QED
        BY <4>1, <2>1
    <3>3. CASE x = index
      <4>1. x \notin chgFile
        BY <2>1 DEF Marks
      <4> QED
        BY <4>1, <2>1, <2>3, <3>3
    <3> QED
      BY <3>1, <3>2, <3>3
  <2>4. Stale(u, v) => v \in {u} \cup depFile[u]
    BY DEF Stale
  <2> QED
    BY <2>2, <2>3, <2>4 DEF Building
<1>2. CASE mode' = "rebuild"
  BY <1>2 DEF Building
<1>3. CASE Compiling /\ \E w \in Workers : GenerateObjectCode(w)
  <2> PICK w \in Workers : GenerateObjectCode(w)
    BY <1>3
  <2>1. (Stale(u, v) \/ Changed(v)) /\ "compile" \notin events
    BY DEF GenerateObjectCode, Stale, Changed, WriteObject, FilesOK
  <2>2. Building(v)
    BY <1>3, <2>1 DEF Planned
  <2> QED
    BY <2>2 DEF Building, GenerateObjectCode, scanVars
<1>4. CASE Compiling /\ CompileUnit
  <2> USE <1>4 DEF CompileUnit
  <2>1. CASE v = index
    BY <2>1 DEF Building, scanVars
  <2>2. CASE v # index
    <3>1. (Stale(u, v) \/ Changed(v)) /\ "compile" \notin events
      BY <2>2 DEF Stale, Changed, FilesOK, sourceVars
    <3> QED
      BY <1>4, <3>1 DEF Planned, Building, scanVars
  <2> QED
    BY <2>1, <2>2
<1>5. CASE Compiling /\ UNCHANGED <<events, edited, newer, depFile, mode, buildSet>>
  BY <1>5 DEF Planned, Stale, Changed, Building
<1>6. ASSUME \/ SkipUnit \/ StartGenerators \/ UNCHANGED vars
             \/ \E w \in Workers : GetNext(w) \/ Stopping(w) \/ GenerateFails(w)
      PROVE  UNCHANGED <<events, edited, newer, depFile, mode, buildSet>>
  BY <1>6 DEF SkipUnit, StartGenerators, GetNext, Stopping,
     GenerateFails, vars, sourceVars, fileVars, scanVars
<1> QED
  BY <1>1, <1>2, <1>3, <1>4, <1>5, <1>6, CompilingCases

LEMMA EmittedStep ==
  FilesOK /\ BuildOK /\ Fresh /\ Emitted /\ Dispatched /\ [Next]_vars => Emitted'
<1> SUFFICES ASSUME FilesOK, BuildOK, Fresh, Emitted, Dispatched, [Next]_vars, Compiling',
                    NEW v \in Units, Building(v)', Reached(v)'
             PROVE  (Generated(v) \/ OnlyEmitted(v))'
  BY DEF Emitted
<1> USE UnitsFacts DEF Generated, OnlyEmitted
<1>1. CASE phase' = "compile" /\ index' = 1
  BY <1>1, BuildAssumption DEF Reached, Units
<1>2. CASE Compiling /\ CompileUnit
  <2> USE <1>2 DEF CompileUnit
  <2>1. CASE v = index
    BY <2>1 DEF FilesOK, WriteIr
  <2>2. CASE v # index
    <3>1. Reached(v) /\ Building(v)
      BY <2>2, AdvanceFacts DEF Reached, Building, BuildOK, scanVars
    <3>2. Generated(v) \/ OnlyEmitted(v)
      BY <1>2, <3>1 DEF Emitted
    <3> QED
      BY <3>2, <2>2 DEF sourceVars, FilesOK
  <2> QED
    BY <2>1, <2>2
<1>3. CASE Compiling /\ SkipUnit
  <2> USE <1>3 DEF SkipUnit
  <2>1. Building(v)
    BY DEF Building, scanVars
  <2>2. Reached(v)
    BY <2>1, AdvanceFacts DEF Reached, BuildOK
  <2> QED
    BY <1>3, <2>1, <2>2 DEF Emitted, sourceVars, fileVars
<1>4. CASE Compiling /\ StartGenerators
  BY <1>4 DEF StartGenerators, Emitted, Building, Reached, scanVars, sourceVars, fileVars
<1>5. CASE Compiling /\ \E w \in Workers : GenerateObjectCode(w)
  <2> PICK w \in Workers : GenerateObjectCode(w)
    BY <1>5
  <2> USE DEF GenerateObjectCode
  <2>1. Generated(v) \/ OnlyEmitted(v)
    BY <1>5 DEF Emitted, Building, Reached, scanVars
  <2>2. CASE v = job[w]
    <3>1. newer'[v] = newer[v] \ {<<"src", "obj">>, <<"ir", "obj">>} /\ edited'[v] = {}
      BY <2>2 DEF FilesOK, WriteObject
    <3>2. newer[v] \subseteq Pairs /\ <<"src", "ir">> \notin newer[v]
      BY <2>1 DEF FilesOK
    <3> QED
      BY <3>1, <3>2 DEF Pairs
  <2>3. CASE v # job[w]
    BY <2>1, <2>3 DEF FilesOK
  <2> QED
    BY <2>2, <2>3
<1>6. CASE Compiling /\ UNCHANGED <<edited, newer, phase, index, mode, buildSet>>
  BY <1>6 DEF Emitted, Building, Reached
<1>7. ASSUME \/ UNCHANGED vars
             \/ \E w \in Workers : GetNext(w) \/ Stopping(w) \/ GenerateFails(w)
      PROVE  UNCHANGED <<edited, newer, phase, index, mode, buildSet>>
  BY <1>7 DEF GetNext, Stopping, GenerateFails, vars, sourceVars, fileVars, scanVars
<1> QED
  BY <1>1, <1>2, <1>3, <1>4, <1>5, <1>6, <1>7, CompilingCases

LEMMA RecordedStep ==
  FilesOK /\ BuildOK /\ Fresh /\ Recorded /\ [Next]_vars => Recorded'
<1> SUFFICES ASSUME FilesOK, BuildOK, Fresh, Recorded, [Next]_vars,
                    phase' \in {"scan", "compile", "start", "generate", "depend"},
                    NEW u \in Units, NEW v \in dependents'[u]
             PROVE  (v \in depFile[u] \cup {x \in Units : Building(x)})'
  BY DEF Recorded
<1> USE UnitsFacts
<1>1. CASE ScanUnit
  <2> USE <1>1 DEF ScanUnit
  <2>1. v \in dependents[u] \cup depFile[u]
    BY DEF BuildOK
  <2>2. v \in depFile[u] \cup {x \in Units : Building(x)}
    BY <2>1 DEF Recorded
  <2> QED
    BY <2>2 DEF Building
<1>2. CASE \E m \in {"build", "rebuild", "compile"}, files \in SUBSET Units :
             phase \in {"idle", "solution"} /\ BuildProject(m, files)
  BY <1>2 DEF BuildProject, Fresh
<1>3. CASE CompileUnit
  <2> USE <1>3 DEF CompileUnit
  <2>1. v \in dependents[u] \/ (v = index /\ Building(index))
    BY DEF BuildOK
  <2>2. v \in depFile[u] \cup {x \in Units : Building(x)}
    BY <2>1 DEF Recorded, BuildOK
  <2> QED
    BY <2>2 DEF Building, scanVars
<1>4. CASE /\ UNCHANGED <<depFile, dependents, mode, buildSet>>
           /\ phase \in {"scan", "compile", "start", "generate", "depend"}
  BY <1>4 DEF Recorded, Building
<1>6. CASE WriteDependencyFile
  <2> USE <1>6 DEF WriteDependencyFile
  <2>1. v \in depFile[u] \cup {x \in Units : Building(x)}
    BY DEF Recorded
  <2>2. v \in depFile'[u] \cup {x \in Units : Building(x)}
    <3>1. CASE u = index
      BY <3>1 DEF FilesOK
    <3>2. CASE u # index
      BY <2>1, <3>2 DEF FilesOK
    <3> QED
      BY <3>1, <3>2
  <2> QED
    BY <2>2 DEF Building, scanVars
<1>5. ASSUME ~ScanUnit, ~CompileUnit, ~WriteDependencyFile,
             ~\E m \in {"build", "rebuild", "compile"}, files \in SUBSET Units :
                phase \in {"idle", "solution"} /\ BuildProject(m, files)
      PROVE  /\ UNCHANGED <<depFile, dependents, mode, buildSet>>
             /\ phase \in {"scan", "compile", "start", "generate", "depend"}
  <2>1. ASSUME NEW w \in Workers, \/ GetNext(w) \/ Stopping(w)
                                  \/ GenerateObjectCode(w) \/ GenerateFails(w)
        PROVE  phase = "generate"
    BY <2>1 DEF Fresh, GetNext, Stopping, GenerateObjectCode, GenerateFails
  <2> QED
    BY <1>5, <2>1, NextCases DEF EditOf, EditSource, CleanProject, BuildLibrary,
     OtherProjectFails, BindError,
     ParseError, SkipUnit, StartGenerators, GetNext, Stopping,
     GenerateObjectCode, GenerateFails, JoinFailed, JoinGenerators, Archive,
     RunAr, ArFails, Export, Crash, Ends, Memory, vars, scanVars, fileVars
<1> QED
  BY <1>1, <1>2, <1>3, <1>4, <1>5, <1>6

LEMMA QueueAppend ==
  ASSUME queue \in Seq(Units), NEW u \in Units, queue' = Append(queue, u)
  PROVE  InQueue(u)' /\ \A v \in Units : InQueue(v) => InQueue(v)'
<1>1. queue'[Len(queue')] = u /\ Len(queue') \in 1..Len(queue')
  OBVIOUS
<1>2. \A i \in 1..Len(queue) : i \in 1..Len(queue') /\ queue'[i] = queue[i]
  OBVIOUS
<1> QED
  BY <1>1, <1>2 DEF InQueue

LEMMA QueueTail ==
  ASSUME queue \in Seq(Units), queue # <<>>, queue' = Tail(queue)
  PROVE  \A v \in Units : InQueue(v) => v = Head(queue) \/ InQueue(v)'
<1> SUFFICES ASSUME NEW i \in 1..Len(queue), queue[i] # Head(queue)
             PROVE  \E k \in 1..Len(queue') : queue'[k] = queue[i]
  BY DEF InQueue
<1>1. i # 1 /\ Len(queue') = Len(queue) - 1
  OBVIOUS
<1>2. i - 1 \in 1..Len(queue') /\ queue'[i - 1] = queue[i]
  BY <1>1
<1> QED
  BY <1>2

LEMMA QueueOrigins ==
  ASSUME queue \in Seq(Units), NEW u \in Units, queue' = Append(queue, u)
  PROVE  \A v \in Units : InQueue(v)' => v = u \/ InQueue(v)
<1> SUFFICES ASSUME NEW i \in 1..Len(queue'), queue'[i] # u
             PROVE  \E k \in 1..Len(queue) : queue[k] = queue'[i]
  BY DEF InQueue
<1>1. i \in 1..Len(queue) /\ queue[i] = queue'[i]
  OBVIOUS
<1> QED
  BY <1>1

LEMMA DispatchedStep ==
  BuildOK /\ Fresh /\ Dispatched /\ [Next]_vars => Dispatched'
<1> SUFFICES ASSUME BuildOK, Fresh, Dispatched, [Next]_vars, Compiling'
             PROVE  /\ \A v \in Units : InQueue(v)' => Building(v)'
                    /\ \A w \in Workers : job'[w] \in Units => Building(job[w])'
  BY DEF Dispatched
<1> USE UnitsFacts
<1>1. ASSUME phase \in {"idle", "solution", "scan"}, UNCHANGED <<queue, job>>
      PROVE  /\ \A v \in Units : InQueue(v)' => Building(v)'
             /\ \A w \in Workers : job'[w] \in Units => Building(job[w])'
  <2>1. queue' = <<>> /\ \A w \in Workers : job'[w] = Finished
    BY <1>1 DEF Fresh
  <2> QED
    BY <2>1 DEF InQueue
<1>2. CASE ScanUnit
  BY <1>1, <1>2 DEF ScanUnit, workerVars
<1>3. CASE \E files \in SUBSET Units :
             phase \in {"idle", "solution"} /\ BuildProject("rebuild", files)
  BY <1>1, <1>3 DEF BuildProject, workerVars
<1>4. CASE Compiling /\ CompileUnit
  <2> USE <1>4 DEF CompileUnit
  <2>1. Building(index) /\ mode' = mode /\ buildSet' = buildSet
    BY DEF scanVars
  <2>2. \A v \in Units : InQueue(v)' => v = index \/ InQueue(v)
    BY QueueOrigins DEF BuildOK
  <2>3. \A v \in Units : InQueue(v)' => Building(v)'
    BY <1>4, <2>1, <2>2 DEF Dispatched, Building, scanVars
  <2>4. phase \in {"compile", "start"} /\ job' = job
    OBVIOUS
  <2> QED
    BY <2>3, <2>4 DEF Fresh
<1>5. CASE Compiling /\ (SkipUnit \/ StartGenerators \/ UNCHANGED vars)
  <2>1. queue' = queue /\ mode' = mode /\ buildSet' = buildSet
    BY <1>5 DEF SkipUnit, StartGenerators, vars, workerVars, scanVars
  <2>2. \A w \in Workers : job'[w] \in Units => job'[w] = job[w]
    BY <1>5 DEF SkipUnit, StartGenerators, vars, workerVars
  <2> QED
    BY <1>5, <2>1, <2>2 DEF Dispatched, Building, InQueue
<1>6. CASE Compiling /\ \E w \in Workers : \/ GetNext(w) \/ Stopping(w)
                                 \/ GenerateObjectCode(w) \/ GenerateFails(w)
  <2> PICK w \in Workers : \/ GetNext(w) \/ Stopping(w)
                          \/ GenerateObjectCode(w) \/ GenerateFails(w)
    BY <1>6
  <2>1. mode' = mode /\ buildSet' = buildSet
    BY DEF GetNext, Stopping, GenerateObjectCode, GenerateFails, scanVars
  <2>2. queue' = queue \/ (queue # <<>> /\ queue' = Tail(queue))
    <3>1. CASE GetNext(w)
      BY <3>1 DEF GetNext
    <3>2. CASE Stopping(w) \/ GenerateObjectCode(w) \/ GenerateFails(w)
      BY <3>2 DEF Stopping, GenerateObjectCode, GenerateFails
    <3> QED
      BY <3>1, <3>2
  <2>3. \A v \in Units : InQueue(v)' => InQueue(v)
    <3>1. CASE queue' = queue
      BY <3>1 DEF InQueue
    <3>2. CASE queue # <<>> /\ queue' = Tail(queue)
      <4> SUFFICES ASSUME NEW i \in 1..Len(queue')
                   PROVE  \E k \in 1..Len(queue) : queue[k] = queue'[i]
        BY DEF InQueue
      <4>1. i + 1 \in 1..Len(queue) /\ queue[i + 1] = queue'[i]
        BY <3>2 DEF BuildOK
      <4> QED
        BY <4>1
    <3> QED
      BY <2>2, <3>1, <3>2
  <2>4. \A x \in Workers : job'[x] \in Units =>
          job'[x] = job[x] \/ (queue # <<>> /\ job'[x] = Head(queue))
    <3>1. CASE GetNext(w)
      BY <3>1 DEF GetNext, BuildOK
    <3>2. CASE Stopping(w) \/ GenerateObjectCode(w) \/ GenerateFails(w)
      BY <3>2 DEF Stopping, GenerateObjectCode, GenerateFails, BuildOK
    <3> QED
      BY <3>1, <3>2
  <2>5. queue # <<>> => Head(queue) \in Units /\ InQueue(Head(queue))
    BY DEF BuildOK, InQueue
  <2> QED
    BY <1>6, <2>1, <2>3, <2>4, <2>5 DEF Dispatched, Building
<1> QED
  BY <1>2, <1>3, <1>4, <1>5, <1>6, CompilingCases

(* No unit that is to be compiled gets lost between the loop that emits    *)
(* IR and the workers.                                                     *)
LEMMA QueuedBefore ==
  FilesOK /\ BuildOK /\ Fresh /\ Queued /\ [Next]_vars =>
    (phase' \in {"compile", "start"} =>
       \A v \in Units : Building(v)' /\ Reached(v)' => InQueue(v)')
<1> SUFFICES ASSUME FilesOK, BuildOK, Fresh, Queued, [Next]_vars,
                    phase' \in {"compile", "start"},
                    NEW v \in Units, Building(v)', Reached(v)'
             PROVE  InQueue(v)'
  OBVIOUS
<1> USE UnitsFacts
<1>1. CASE phase' = "compile" /\ index' = 1
  BY <1>1, BuildAssumption DEF Reached, Units
<1>2. CASE CompileUnit
  <2> USE <1>2 DEF CompileUnit
  <2>1. CASE v = index
    BY <2>1, QueueAppend DEF BuildOK
  <2>2. CASE v # index
    <3>1. Reached(v) /\ Building(v)
      BY <2>2, AdvanceFacts DEF Reached, Building, BuildOK, scanVars
    <3>2. InQueue(v)
      BY <3>1 DEF Queued
    <3> QED
      BY <3>2, QueueAppend DEF BuildOK
  <2> QED
    BY <2>1, <2>2
<1>3. CASE SkipUnit
  <2> USE <1>3 DEF SkipUnit
  <2>1. Building(v)
    BY DEF Building, scanVars
  <2>2. Reached(v)
    BY <2>1, AdvanceFacts DEF Reached, BuildOK
  <2> QED
    BY <2>1, <2>2 DEF Queued, workerVars, InQueue
<1>4. CASE UNCHANGED vars
  BY <1>4 DEF vars, workerVars, scanVars, Queued, Building, Reached, InQueue
<1>5. ASSUME StartGenerators \/ \E w \in Workers : \/ GetNext(w) \/ Stopping(w)
                                \/ GenerateObjectCode(w) \/ GenerateFails(w)
      PROVE  phase' = "generate"
  BY <1>5 DEF StartGenerators, Fresh, GetNext, Stopping, GenerateObjectCode,
     GenerateFails
<1> QED
  BY <1>1, <1>2, <1>3, <1>4, <1>5, CompilingCases DEF Compiling

LEMMA QueuedDuring ==
  FilesOK /\ BuildOK /\ Fresh /\ Emitted /\ Dispatched /\ Queued /\ [Next]_vars =>
    (phase' = "generate" =>
       /\ stop' => failed' # {}
       /\ \A v \in Units : Building(v)' =>
            \/ Generated(v)' \/ failed' # {} \/ InQueue(v)'
            \/ \E w \in Workers : job'[w] = v
       /\ queue' # <<>> => failed' # {} \/ \E w \in Workers : job'[w] # Finished)
<1> DEFINE Safe(v) == \/ Generated(v)' \/ failed' # {} \/ InQueue(v)'
                      \/ \E w \in Workers : job'[w] = v
           Alive == queue' # <<>> => failed' # {} \/ \E w \in Workers : job'[w] # Finished
<1> SUFFICES ASSUME FilesOK, BuildOK, Fresh, Emitted, Dispatched, Queued, [Next]_vars,
                    phase' = "generate"
             PROVE  /\ stop' => failed' # {}
                    /\ \A v \in Units : Building(v)' => Safe(v)
                    /\ Alive
  OBVIOUS
<1> USE UnitsFacts
<1>1. CASE StartGenerators
  <2> USE <1>1 DEF StartGenerators
  <2>1. failed = {} /\ stop = FALSE
    BY DEF Fresh
  <2>2. ASSUME NEW v \in Units, Building(v)'
        PROVE  Safe(v)
    <3>1. InQueue(v)
      BY <2>2 DEF Queued, Building, Reached, scanVars
    <3> QED
      BY <3>1 DEF InQueue
  <2>3. \E w \in Workers : job'[w] = Ready
    OBVIOUS
  <2> QED
    BY <2>1, <2>2, <2>3
<1>2. ASSUME NEW w \in Workers, phase = "generate", GetNext(w)
      PROVE  /\ stop' => failed' # {}
             /\ \A v \in Units : Building(v)' => Safe(v)
             /\ Alive
  <2> USE <1>2 DEF GetNext
  <2>1. stop' => failed' # {}
    BY DEF Queued
  <2>2. ASSUME NEW v \in Units, Building(v)'
        PROVE  Safe(v)
    <3>1. \/ Generated(v) \/ failed # {} \/ InQueue(v)
          \/ \E x \in Workers : job[x] = v
      BY <2>2 DEF Queued, Building, scanVars
    <3>2. CASE Generated(v) \/ failed # {}
      BY <3>2 DEF Generated, sourceVars, fileVars
    <3>3. CASE \E x \in Workers : job[x] = v
      <4> PICK x \in Workers : job[x] = v
        BY <3>3
      <4>1. x # w /\ job'[x] = v
        BY DEF BuildOK
      <4> QED
        BY <4>1
    <3>4. CASE InQueue(v)
      <4>1. queue # <<>>
        BY <3>4 DEF InQueue, BuildOK
      <4>2. v = Head(queue) \/ InQueue(v)'
        BY <3>4, <4>1, QueueTail DEF BuildOK
      <4>3. job'[w] = Head(queue)
        BY <4>1 DEF BuildOK
      <4> QED
        BY <4>2, <4>3
    <3> QED
      BY <3>1, <3>2, <3>3, <3>4
  <2>3. Alive
    <3>1. CASE queue = <<>>
      BY <3>1
    <3>2. CASE queue # <<>>
      <4>1. job'[w] = Head(queue) /\ Head(queue) \in Units
        BY <3>2 DEF BuildOK
      <4> QED
        BY <4>1
    <3> QED
      BY <3>1, <3>2
  <2> QED
    BY <2>1, <2>2, <2>3
<1>3. ASSUME NEW w \in Workers, phase = "generate", Stopping(w) \/ GenerateFails(w)
      PROVE  failed' # {}
  BY <1>3 DEF Stopping, GenerateFails, Queued
<1>4. ASSUME NEW w \in Workers, phase = "generate", GenerateObjectCode(w)
      PROVE  /\ stop' => failed' # {}
             /\ \A v \in Units : Building(v)' => Safe(v)
             /\ Alive
  <2> USE <1>4 DEF GenerateObjectCode
  <2>1. stop' => failed' # {}
    BY DEF Queued
  <2>2. ASSUME NEW v \in Units, Building(v)'
        PROVE  Safe(v)
    <3>1. \/ Generated(v) \/ failed # {} \/ InQueue(v)
          \/ \E x \in Workers : job[x] = v
      BY <2>2 DEF Queued, Building, scanVars
    <3>2. CASE v = job[w]
      <4>1. Generated(v) \/ OnlyEmitted(v)
        BY <2>2, <3>2 DEF Emitted, Compiling, Reached, Building, scanVars
      <4>2. newer'[v] = newer[v] \ {<<"src", "obj">>, <<"ir", "obj">>} /\ edited'[v] = {}
        BY <3>2 DEF FilesOK, WriteObject
      <4>3. newer'[v] = {}
        BY <4>1, <4>2 DEF Generated, OnlyEmitted, FilesOK, Pairs
      <4> QED
        BY <4>2, <4>3 DEF Generated
    <3>3. CASE v # job[w]
      <4>1. /\ Generated(v) => Generated(v)'
            /\ InQueue(v) => InQueue(v)'
            /\ failed' = failed
        BY <3>3 DEF FilesOK, InQueue, Generated
      <4>2. \A x \in Workers : job[x] = v => job'[x] = v
        BY <3>3 DEF BuildOK
      <4> QED
        BY <3>1, <4>1, <4>2
    <3> QED
      BY <3>2, <3>3
  <2>3. job'[w] = Ready
    BY DEF BuildOK
  <2> QED
    BY <2>1, <2>2, <2>3
<1>5. ASSUME phase = "generate", UNCHANGED vars
      PROVE  /\ stop' => failed' # {}
             /\ \A v \in Units : Building(v)' => Safe(v)
             /\ Alive
  <2> USE <1>5 DEF vars, workerVars, scanVars, sourceVars
  <2>1. (stop' => failed' # {}) /\ Alive
    BY DEF Queued
  <2>2. ASSUME NEW v \in Units, Building(v)'
        PROVE  Safe(v)
    <3>1. \/ Generated(v) \/ failed # {} \/ InQueue(v)
          \/ \E x \in Workers : job[x] = v
      BY <2>2 DEF Queued, Building
    <3> QED
      BY <3>1 DEF InQueue, Generated, fileVars
  <2> QED
    BY <2>1, <2>2
<1>6. ASSUME ~StartGenerators
      PROVE  /\ phase = "generate"
             /\ \/ \E w \in Workers : \/ GetNext(w) \/ Stopping(w)
                                      \/ GenerateObjectCode(w) \/ GenerateFails(w)
                \/ UNCHANGED vars
  <2>1. ASSUME NEW w \in Workers, \/ GetNext(w) \/ Stopping(w)
                                  \/ GenerateObjectCode(w) \/ GenerateFails(w)
        PROVE  phase = "generate"
    BY <2>1 DEF Fresh, GetNext, Stopping, GenerateObjectCode, GenerateFails
  <2> QED
    BY <1>6, <2>1, CompilingCases DEF Compiling, CompileUnit, SkipUnit, Advance, vars
<1> HIDE DEF Safe, Alive
<1> QED
  BY <1>1, <1>2, <1>3, <1>4, <1>5, <1>6 DEF Safe, Alive

LEMMA QueuedStep ==
  FilesOK /\ BuildOK /\ Fresh /\ Emitted /\ Dispatched /\ Queued /\ [Next]_vars
    => Queued'
  BY QueuedBefore, QueuedDuring DEF Queued

(* When the workers are joined and none failed, every unit is generated. *)
LEMMA AllGenerated ==
  ASSUME BuildOK, Queued, JoinGenerators
  PROVE  \A v \in Units : Building(v) => Generated(v)
<1>1. queue = <<>>
  BY DEF JoinGenerators, Queued
<1>2. \A v \in Units : ~InQueue(v)
  BY <1>1 DEF InQueue
<1> QED
  BY <1>2, UnitsFacts DEF JoinGenerators, Queued

LEMMA RebuiltStep ==
  FilesOK /\ BuildOK /\ Fresh /\ Planned /\ Queued /\ Rebuilt /\ [Next]_vars => Rebuilt'
<1> SUFFICES ASSUME FilesOK, BuildOK, Fresh, Planned, Queued, Rebuilt, [Next]_vars,
                    (phase \in {"depend", "archive", "ar", "export"} \/ Success)'
             PROVE  /\ mode' = "rebuild" => \A v \in Units : edited'[v] = {}
                    /\ "compile" \notin events' => \A v \in Units : newer'[v] = {}
                    /\ phase' = "depend" =>
                         \A v \in Units : Building(v)' => edited'[v] = {}
  BY DEF Rebuilt
<1> USE UnitsFacts
<1>1. CASE JoinGenerators
  <2> USE <1>1 DEF JoinGenerators
  <2>1. UNCHANGED <<events, edited, newer, mode, buildSet>> /\ Compiling
    BY DEF sourceVars, fileVars, scanVars, Compiling
  <2>2. mode = "rebuild" => \A v \in Units : edited[v] = {}
    BY AllGenerated DEF Building, Generated
  <2>3. "compile" \notin events => \A v \in Units : newer[v] = {}
    BY <2>1, AllGenerated DEF Planned, Changed, Generated
  <2>4. \A v \in Units : Building(v) => edited[v] = {}
    BY AllGenerated DEF Generated
  <2> QED
    BY <2>1, <2>2, <2>3, <2>4 DEF Building
<1>7. CASE WriteDependencyFile
  <2>1. UNCHANGED <<events, edited, newer, mode, buildSet>> /\ phase = "depend"
    BY <1>7 DEF WriteDependencyFile, sourceVars, scanVars
  <2> QED
    BY <2>1 DEF Rebuilt, Building
<1>2. CASE Archive \/ (\E last \in 0..NumUnits : RunAr(last)) \/ Export \/ UNCHANGED vars
  <2>1. /\ UNCHANGED <<events, edited, newer, mode>>
        /\ phase \in {"depend", "archive", "ar", "export"} \/ Success
        /\ phase' = "depend" => phase = "depend" /\ buildSet' = buildSet
    BY <1>2 DEF Archive, RunAr, Export, Ends, Memory, vars, sourceVars, fileVars,
       scanVars, Success
  <2> QED
    BY <2>1 DEF Rebuilt, Building
<1>3. ASSUME NEW w \in Workers, \/ GetNext(w) \/ Stopping(w)
                                \/ GenerateObjectCode(w) \/ GenerateFails(w)
      PROVE  /\ mode' = "rebuild" => \A v \in Units : edited'[v] = {}
             /\ "compile" \notin events' => \A v \in Units : newer'[v] = {}
             /\ phase' # "depend"
  <2>1. /\ phase = "generate" /\ phase' = "generate"
        /\ UNCHANGED <<events, mode, result>>
    BY <1>3 DEF Fresh, GetNext, Stopping, GenerateObjectCode, GenerateFails, scanVars,
       sourceVars
  <2>2. /\ mode = "rebuild" => \A v \in Units : edited[v] = {}
        /\ "compile" \notin events => \A v \in Units : newer[v] = {}
    BY <2>1 DEF Rebuilt, Success
  <2>3. \A v \in Units : edited'[v] \subseteq edited[v] /\ newer'[v] \subseteq newer[v]
    BY <1>3 DEF GetNext, Stopping, GenerateObjectCode, GenerateFails, sourceVars,
       fileVars, WriteObject, FilesOK
  <2> QED
    BY <2>1, <2>2, <2>3
<1>4. ASSUME ScanUnit \/ CompileUnit \/ SkipUnit \/ StartGenerators, Success
      PROVE  FALSE
  BY <1>4 DEF ScanUnit, CompileUnit, SkipUnit, StartGenerators, Success, Fresh
<1>5. ASSUME \/ \E u \in Units : \E used \in SUBSET (Units \ {u}), b \in Errors(u) :
                  EditOf(u, used, b)
             \/ CleanProject \/ BuildLibrary \/ OtherProjectFails
             \/ \E m \in {"build", "rebuild", "compile"}, files \in SUBSET Units :
                  phase \in {"idle", "solution"} /\ BuildProject(m, files)
             \/ BindError \/ ParseError \/ JoinFailed \/ ArFails \/ Crash
      PROVE  phase' \notin {"depend", "archive", "ar", "export"} /\ result' # "success"
  BY <1>5 DEF EditOf, EditSource, CleanProject, BuildLibrary, OtherProjectFails, BuildProject,
     BindError, ParseError, JoinFailed, ArFails, Crash, Ends, Memory
<1>6. ASSUME ScanUnit \/ CompileUnit \/ SkipUnit \/ StartGenerators
      PROVE  phase' \notin {"depend", "archive", "ar", "export"} /\ result' = result
  BY <1>6 DEF ScanUnit, CompileUnit, SkipUnit, StartGenerators, Advance
<1> QED
  BY <1>1, <1>2, <1>3, <1>4, <1>5, <1>6, <1>7, NextCases DEF Success

(* Staleness is noticed until the object of u is generated, and then the   *)
(* IR of v, which was planned and emitted before, is newer than its object.*)
LEMMA StaleStep ==
  FilesOK /\ BuildOK /\ Fresh /\ Planned /\ Emitted /\ Queued /\ Recorded
    /\ Rebuilt /\ StaleIsNoticed /\ [Next]_vars => StaleIsNoticed'
<1> SUFFICES ASSUME FilesOK, BuildOK, Fresh, Planned, Emitted, Queued, Recorded,
                    Rebuilt, StaleIsNoticed, [Next]_vars, "compile" \notin events',
                    NEW u \in Units, NEW v \in Units, Stale(u, v)'
             PROVE  Changed(u)' \/ Changed(v)'
  BY DEF StaleIsNoticed
<1> USE UnitsFacts
<1>1. CASE \E x \in Units : \E used \in SUBSET (Units \ {x}), b \in Errors(x) :
             EditOf(x, used, b)
  <2> PICK x \in Units : \E used \in SUBSET (Units \ {x}), b \in Errors(x) :
                           EditOf(x, used, b)
    BY <1>1
  <2> PICK used \in SUBSET (Units \ {x}), b \in Errors(x) : EditOf(x, used, b)
    OBVIOUS
  <2> USE DEF EditOf, EditSource
  <2>1. CASE u = x
    <3>1. newer'[u] = newer[u] \cup {<<"src", "ir">>, <<"src", "obj">>}
      BY <2>1 DEF WriteSource, FilesOK
    <3> QED
      BY <3>1 DEF Changed
  <2>2. CASE u # x
    <3>1. Stale(u, v)
      BY <2>2 DEF Stale, FilesOK
    <3>2. Changed(u) \/ Changed(v)
      BY <3>1 DEF StaleIsNoticed
    <3> QED
      BY <3>2 DEF Changed, WriteSource, FilesOK
  <2> QED
    BY <2>1, <2>2
<1>2. CASE CleanProject
  BY <1>2 DEF CleanProject, Changed, Pairs
<1>3. CASE BuildLibrary
  BY <1>3 DEF BuildLibrary, StaleIsNoticed, Stale, Changed, FilesOK, fileVars
<1>4. CASE CompileUnit
  <2>1. Changed(u) \/ Changed(v)
    BY <1>4 DEF CompileUnit, StaleIsNoticed, Stale, sourceVars
  <2> QED
    BY <1>4, <2>1 DEF CompileUnit, Changed, WriteIr, FilesOK
<1>5. CASE \E w \in Workers : GenerateObjectCode(w)
  <2> PICK w \in Workers : GenerateObjectCode(w)
    BY <1>5
  <2> USE DEF GenerateObjectCode
  <2>1. Stale(u, v) /\ v # job[w] /\ "compile" \notin events /\ phase = "generate"
    BY DEF Stale, FilesOK, Fresh
  <2>2. Changed(u) \/ Changed(v)
    BY <2>1 DEF StaleIsNoticed
  <2>3. CASE u # job[w]
    BY <2>1, <2>2, <2>3 DEF Changed, FilesOK
  <2>4. CASE u = job[w]
    <3>1. Building(v)
      BY <2>1 DEF Planned, Compiling
    <3>2. <<"ir", "obj">> \in newer[v]
      BY <2>1, <3>1 DEF Emitted, Compiling, Reached, Stale, Generated, OnlyEmitted
    <3> QED
      BY <2>1, <3>2 DEF Changed, FilesOK
  <2> QED
    BY <2>3, <2>4
<1>6. CASE WriteDependencyFile \/ Crash
  <2>1. /\ UNCHANGED <<events, edited, newer>>
        /\ depFile'[u] = depFile[u] \/ (phase = "depend" /\
                                        depFile'[u] \subseteq dependents[u])
    BY <1>6, DependFacts
  <2>2. ASSUME phase = "depend", v \in dependents[u] PROVE v \in depFile[u]
    <3>1. ~Building(v)
      BY <2>1, <2>2 DEF Stale, Rebuilt
    <3> QED
      BY <2>2, <3>1 DEF Recorded
  <2>3. Stale(u, v)
    BY <2>1, <2>2 DEF Stale
  <2> QED
    BY <2>1, <2>3 DEF StaleIsNoticed, Changed
<1>7. CASE UNCHANGED <<events, edited, depFile, newer>>
  BY <1>7 DEF StaleIsNoticed, Stale, Changed
<1>8. ASSUME \/ OtherProjectFails \/ ScanUnit \/ BindError
             \/ ParseError \/ SkipUnit
             \/ StartGenerators \/ JoinFailed \/ JoinGenerators \/ Archive \/ ArFails
             \/ Export
             \/ \E m \in {"build", "rebuild", "compile"}, files \in SUBSET Units :
                  BuildProject(m, files)
             \/ \E w \in Workers : GetNext(w) \/ Stopping(w) \/ GenerateFails(w)
             \/ \E last \in 0..NumUnits : RunAr(last)
             \/ UNCHANGED vars
      PROVE  UNCHANGED <<events, edited, depFile, newer>>
  BY <1>8 DEF OtherProjectFails, ScanUnit, BindError,
     ParseError, SkipUnit, StartGenerators,
     JoinFailed, JoinGenerators, Archive, ArFails, Export, BuildProject, GetNext, Stopping,
     GenerateFails, RunAr, vars, sourceVars, fileVars
<1> QED
  BY <1>1, <1>2, <1>3, <1>4, <1>5, <1>6, <1>7, <1>8, NextCases
----------------------------------------------------------------------------
IInv == /\ TypeOK /\ Fresh /\ Marks /\ Scanned /\ Planned /\ Emitted /\ Queued
        /\ Dispatched /\ Recorded /\ Rebuilt /\ StaleIsNoticed

LEMMA IInvInit == Init => IInv
<1> SUFFICES ASSUME Init PROVE IInv
  OBVIOUS
<1>1. TypeOK
  BY TypeInit
<1>2. phase = "idle" /\ result = "none" /\ mode = "build" /\ chgFile = {}
  BY DEF Init, NoFiles
<1>3. Fresh
  BY DEF Init, Fresh
<1>4. StaleIsNoticed
  BY DEF Init, NoFiles, StaleIsNoticed, Stale, Changed, Pairs
<1> QED
  BY <1>1, <1>2, <1>3, <1>4 DEF IInv, Marks, Scanned, Planned, Compiling, Emitted,
     Queued, Dispatched, Recorded, Rebuilt, Success

LEMMA IInvStep == IInv /\ [Next]_vars => IInv'
<1> SUFFICES ASSUME IInv, [Next]_vars PROVE IInv'
  OBVIOUS
<1>1. FilesOK /\ BuildOK /\ FlagsOK /\ Fresh /\ Marks /\ Scanned /\ Planned
      /\ Emitted /\ Queued /\ Dispatched /\ Recorded /\ Rebuilt /\ StaleIsNoticed
  BY TypeParts DEF IInv
<1>2. FilesOK' /\ BuildOK' /\ FlagsOK'
  BY <1>1, FilesStep, BuildStep, FlagsStep
<1>3. TypeOK'
  BY <1>2 DEF TypeOK, FilesOK, BuildOK, FlagsOK
<1>4. Fresh' /\ Marks' /\ Scanned'
  BY <1>1, FreshStep, MarksStep, ScannedStep
<1>5. Planned' /\ Emitted' /\ Queued' /\ Dispatched'
  BY <1>1, PlannedStep, EmittedStep, QueuedStep, DispatchedStep
<1>6. Recorded' /\ Rebuilt' /\ StaleIsNoticed'
  BY <1>1, RecordedStep, RebuiltStep, StaleStep
<1> QED
  BY <1>3, <1>4, <1>5, <1>6 DEF IInv

(* A rebuild that succeeds leaves every object up to date, for every       *)
(* number of units and workers and after every history of builds.          *)
THEOREM RebuildIsComplete == Spec => []RebuildMakesCurrent
<1>1. IInv => RebuildMakesCurrent
  BY DEF IInv, Rebuilt, RebuildMakesCurrent
<1> QED
  BY IInvInit, IInvStep, <1>1, PTL DEF Spec

(* Compile errors, failures of the tools and crashes never hide what is    *)
(* stale, as far as it is recorded, from the next build.                   *)
THEOREM NothingStaleIsHidden == Spec => []StaleIsNoticed
<1>1. IInv => StaleIsNoticed
  BY DEF IInv
<1> QED
  BY IInvInit, IInvStep, <1>1, PTL DEF Spec

(* A build that succeeds leaves no unit for the next one to compile.       *)
THEOREM SuccessIsComplete == Spec => []NothingLeftToCompile
<1>1. IInv => NothingLeftToCompile
  BY DEF IInv, Rebuilt, NothingLeftToCompile, Changed
<1> QED
  BY IInvInit, IInvStep, <1>1, PTL DEF Spec

-----------------------------------------------------------------------------
(* What the files remember.                                                *)

(* Behaviours in which every build that has generated an object goes on to *)
(* write the dependency files.                                             *)
Orderly == events \cap {"compile", "toolFails", "crash"} = {}

(* Behaviours in which a library that was begun is finished.               *)
Whole == events \subseteq {"error", "library", "toolFails", "projectFails"}

Unfailing == "toolFails" \notin events => failed = {}

(* A plain build takes all recorded dependents over into the files it      *)
(* writes, and adds those it finds.                                        *)
DependentsRead ==
  Orderly /\ mode = "build" =>
    \A u \in Units : Compiling \/ phase = "depend" \/ (phase = "scan" /\ u < index)
                       => depFile[u] \subseteq dependents[u]

(* The files are written in the order of the units. *)
Written ==
  phase = "depend" => \A u \in Units : u < index => depFile[u] = dependents[u]

CallsSeen ==
  Compiling \/ phase = "depend" => \A u, v \in Units :
    Building(v) /\ Reached(v) /\ u \in calls[v] => v \in dependents[u]

(* The calls of a unit that is compiled are recorded, or will be when the  *)
(* workers are done.                                                       *)
CallsRecorded ==
  Orderly => \A u, v \in Units : u \in calls[v] /\ ~Changed(v)
    => v \in depFile[u] \/ (phase \in {"generate", "depend"} /\ v \in dependents[u])

EditsRecorded ==
  Orderly => \A u, v \in Units : u \in edited[v] /\ u # v
               => Changed(v) \/ v \in depFile[u] \/ u \in refers[v]

(* A new version of the library is built into the objects at once, unless  *)
(* a source does not compile.                                              *)
LibraryAlone == events \subseteq {"library", "arFails", "longPath", "refers"}

LibraryRecorded ==
  /\ "library" \notin events => \A v \in Units : Library \in edited[v] => Changed(v)
  /\ LibraryAlone => \A v \in Units : Library \in edited[v] =>
       Changed(v) \/ phase = "solution" \/ (Compiling /\ mode = "rebuild")

NoErrors == LibraryAlone => bad = {}

MissingObjects == \A u \in Units : u \notin objects => <<"src", "obj">> \in newer[u]

(* Each object is in the archive or newer than it; ar goes through the     *)
(* objects in order.                                                       *)
Archived ==
  Whole => /\ phase # "ar" => Units \subseteq inArchive \cup newerThanArchive
           /\ phase = "ar" => \A u \in Units : u < index => u \in inArchive
           /\ phase = "export" \/ Success => inArchive = Units

FromTheFirst == phase \in {"start", "generate", "archive"} => index = 1

(* While the .cml file is old there is something to compile or to archive, *)
(* and the build that does it exports.                                     *)
Exported ==
  Whole => /\ phase \notin {"ar", "export"} /\ exportOld =>
                newerThanArchive # {} \/ \E u \in Units : Changed(u)
           /\ phase = "export" /\ exportOld => changed
           /\ Success => ~exportOld
----------------------------------------------------------------------------
(* Which actions change which files and which of what is remembered. *)
LEMMA GeneratorFacts ==
  ASSUME Fresh, NEW w \in Workers,
         \/ GetNext(w) \/ Stopping(w) \/ GenerateObjectCode(w) \/ GenerateFails(w)
  PROVE  /\ phase = "generate" /\ phase' = "generate"
         /\ UNCHANGED <<events, calls, refers, bad, depFile, chgFile, exportOld, mode,
                        result, buildSet, index, dependents, changed>>
  BY UnitsFacts DEF Fresh, GetNext, Stopping, GenerateObjectCode, GenerateFails, sourceVars,
     fileVars, libraryVars, scanVars

(* Builds that end early leave the files as they are, the .dep files of a  *)
(* compiler that is killed excepted.                                       *)
LEMMA EndFacts ==
  ASSUME OtherProjectFails \/ BindError \/ ParseError \/ JoinFailed \/ ArFails \/ Crash
  PROVE  /\ UNCHANGED <<events, calls, refers, bad, edited, newer, chgFile, objects,
                        newerThanArchive, inArchive, exportOld, mode>>
         /\ "crash" \notin events => depFile' = depFile
         /\ phase' = "idle" /\ result' = "failure" /\ failed' = {}
  BY DEF OtherProjectFails, BindError, ParseError, JoinFailed, ArFails, Crash, Ends,
     Memory, sourceVars, fileVars, libraryVars

(* The steps of a build between those that write files. *)
LEMMA BetweenFacts ==
  ASSUME \/ \E m \in {"build", "rebuild", "compile"}, files \in SUBSET Units :
              BuildProject(m, files)
         \/ ScanUnit \/ SkipUnit \/ StartGenerators
         \/ \E w \in Workers : GetNext(w) \/ Stopping(w) \/ GenerateFails(w)
         \/ UNCHANGED vars
  PROVE  UNCHANGED <<events, calls, refers, bad, edited, newer, depFile, objects,
                     newerThanArchive, inArchive, exportOld>>
  BY DEF BuildProject, ScanUnit, SkipUnit, StartGenerators, GetNext, Stopping,
     GenerateFails, vars, sourceVars, fileVars, libraryVars

LEMMA UnfailingStep == Unfailing /\ [Next]_vars => Unfailing'
<1> SUFFICES ASSUME Unfailing, [Next]_vars, "toolFails" \notin events'
             PROVE  failed' = {}
  BY DEF Unfailing
<1>1. CASE OtherProjectFails \/ BindError \/ ParseError \/ JoinFailed \/ ArFails \/ Crash
  BY <1>1, EndFacts
<1>2. CASE Export
  BY <1>2 DEF Export, Ends, Memory
<1>3. CASE \E w \in Workers : \/ GetNext(w) \/ Stopping(w)
                              \/ GenerateObjectCode(w) \/ GenerateFails(w)
  BY <1>3 DEF GetNext, Stopping, GenerateObjectCode, GenerateFails, Unfailing, sourceVars
<1>4. CASE UNCHANGED <<events, failed>>
  BY <1>4 DEF Unfailing
<1>5. ASSUME \/ \E u \in Units : \E used \in SUBSET (Units \ {u}), b \in Errors(u) :
                  EditOf(u, used, b)
             \/ CleanProject \/ BuildLibrary
             \/ \E m \in {"build", "rebuild", "compile"}, files \in SUBSET Units :
                  phase \in {"idle", "solution"} /\ BuildProject(m, files)
             \/ ScanUnit \/ CompileUnit \/ SkipUnit \/ StartGenerators
             \/ JoinGenerators \/ WriteDependencyFile \/ Archive
             \/ (\E last \in 0..NumUnits : RunAr(last)) \/ UNCHANGED vars
      PROVE  UNCHANGED <<events, failed>>
  BY <1>5 DEF EditOf, EditSource, CleanProject, BuildLibrary, BuildProject, ScanUnit, CompileUnit,
     SkipUnit, StartGenerators, JoinGenerators, WriteDependencyFile, Advance, Archive, RunAr, vars, workerVars,
     sourceVars
<1> QED
  BY <1>1, <1>2, <1>3, <1>4, <1>5, NextCases

LEMMA NoErrorsStep == FilesOK /\ NoErrors /\ [Next]_vars => NoErrors'
<1> SUFFICES ASSUME FilesOK, NoErrors, [Next]_vars, LibraryAlone' PROVE bad' = {}
  BY DEF NoErrors
<1>1. CASE \E u \in Units : \E used \in SUBSET (Units \ {u}), b \in Errors(u) :
             EditOf(u, used, b)
  BY <1>1 DEF EditOf, EditSource, Errors, LibraryAlone
<1>2. CASE BuildLibrary
  BY <1>2 DEF BuildLibrary, LibraryAlone, NoErrors
<1>3. CASE UNCHANGED <<events, bad>>
  BY <1>3 DEF LibraryAlone, NoErrors
<1>4. ASSUME \/ CleanProject \/ OtherProjectFails
             \/ \E m \in {"build", "rebuild", "compile"}, files \in SUBSET Units :
                  phase \in {"idle", "solution"} /\ BuildProject(m, files)
             \/ ScanUnit \/ CompileUnit \/ BindError
             \/ ParseError \/ SkipUnit \/ StartGenerators
             \/ \E w \in Workers : \/ GetNext(w) \/ Stopping(w)
                                   \/ GenerateObjectCode(w) \/ GenerateFails(w)
             \/ JoinFailed \/ JoinGenerators \/ WriteDependencyFile \/ Archive
             \/ \E last \in 0..NumUnits : RunAr(last)
             \/ ArFails \/ Export \/ Crash \/ UNCHANGED vars
      PROVE  UNCHANGED <<events, bad>>
  BY <1>4 DEF CleanProject, OtherProjectFails, BuildProject, ScanUnit, CompileUnit,
     BindError, ParseError, SkipUnit, StartGenerators, GetNext, Stopping,
     GenerateObjectCode, GenerateFails, JoinFailed, JoinGenerators, WriteDependencyFile, Advance, Archive,
     RunAr, ArFails, Export, Crash, vars, sourceVars
<1> QED
  BY <1>1, <1>2, <1>3, <1>4, NextCases

LEMMA FromTheFirstStep ==
  BuildOK /\ Fresh /\ FromTheFirst /\ [Next]_vars => FromTheFirst'
<1> SUFFICES ASSUME BuildOK, Fresh, FromTheFirst, [Next]_vars,
                    phase' \in {"start", "generate", "archive"}
             PROVE  index' = 1
  BY DEF FromTheFirst
<1>1. CASE \E w \in Workers : \/ GetNext(w) \/ Stopping(w)
                              \/ GenerateObjectCode(w) \/ GenerateFails(w)
  BY <1>1, GeneratorFacts DEF FromTheFirst
<1>2. CASE ScanUnit \/ CompileUnit \/ SkipUnit
  BY <1>2 DEF ScanUnit, CompileUnit, SkipUnit, Advance
<1>3. CASE StartGenerators \/ JoinGenerators \/ WriteDependencyFile
  BY <1>3 DEF StartGenerators, JoinGenerators, WriteDependencyFile, Advance,
     FromTheFirst
<1>4. CASE UNCHANGED vars
  BY <1>4 DEF vars, FromTheFirst
<1>5. ASSUME \/ \E u \in Units : \E used \in SUBSET (Units \ {u}), b \in Errors(u) :
                  EditOf(u, used, b)
             \/ CleanProject \/ BuildLibrary
             \/ \E m \in {"build", "rebuild", "compile"}, files \in SUBSET Units :
                  phase \in {"idle", "solution"} /\ BuildProject(m, files)
             \/ OtherProjectFails \/ BindError \/ ParseError \/ JoinFailed \/ ArFails
             \/ Crash \/ Archive \/ (\E last \in 0..NumUnits : RunAr(last)) \/ Export
      PROVE  FALSE
  BY <1>5, EndFacts DEF EditOf, EditSource, CleanProject, BuildLibrary, BuildProject, Archive,
     RunAr, Export, Ends, Memory
<1> QED
  BY <1>1, <1>2, <1>3, <1>4, <1>5, NextCases

LEMMA MissingObjectsStep ==
  FilesOK /\ BuildOK /\ MissingObjects /\ [Next]_vars => MissingObjects'
<1> SUFFICES ASSUME FilesOK, BuildOK, MissingObjects, [Next]_vars,
                    NEW u \in Units, u \notin objects'
             PROVE  <<"src", "obj">> \in newer'[u]
  BY DEF MissingObjects
<1>1. CASE \E x \in Units : \E used \in SUBSET (Units \ {x}), b \in Errors(x) :
             EditOf(x, used, b)
  BY <1>1 DEF EditOf, EditSource, WriteSource, MissingObjects, FilesOK
<1>2. CASE CleanProject
  BY <1>2 DEF CleanProject, Pairs
<1>3. CASE CompileUnit
  <2>1. <<"src", "obj">> \in newer[u]
    BY <1>3 DEF CompileUnit, libraryVars, MissingObjects
  <2> QED
    BY <1>3, <2>1 DEF CompileUnit, WriteIr, FilesOK
<1>4. CASE \E w \in Workers : GenerateObjectCode(w)
  BY <1>4 DEF GenerateObjectCode, MissingObjects, FilesOK
<1>5. CASE UNCHANGED <<newer, objects>>
  BY <1>5 DEF MissingObjects
<1>6. ASSUME BuildLibrary \/ JoinGenerators \/ WriteDependencyFile \/ Archive
             \/ (\E last \in 0..NumUnits : RunAr(last)) \/ Export
      PROVE  UNCHANGED <<newer, objects>>
  BY <1>6 DEF BuildLibrary, JoinGenerators, WriteDependencyFile, Advance, Archive, RunAr, Export,
     fileVars, libraryVars
<1> QED
  BY <1>1, <1>2, <1>3, <1>4, <1>5, <1>6, EndFacts, BetweenFacts, NextCases

(* With a plain or a whole build the file of a unit that is compiled, or   *)
(* that was compiled before, keeps or gets its dependents.                 *)
LEMMA DependentsReadStep ==
  FilesOK /\ BuildOK /\ Fresh /\ DependentsRead /\ [Next]_vars => DependentsRead'
<1> SUFFICES ASSUME FilesOK, BuildOK, Fresh, DependentsRead, [Next]_vars,
                    Orderly', mode' = "build", NEW u \in Units,
                    (Compiling \/ phase = "depend" \/ (phase = "scan" /\ u < index))'
             PROVE  depFile'[u] \subseteq dependents'[u]
  BY DEF DependentsRead
<1> USE UnitsFacts
<1>1. CASE ScanUnit
  <2> USE <1>1 DEF ScanUnit
  <2>1. u < index \/ u = index
    BY AdvanceFacts DEF BuildOK, Compiling
  <2>2. mode = "build" /\ Orderly /\ depFile' = depFile
    BY DEF Orderly, sourceVars
  <2>3. CASE u = index
    BY <2>2, <2>3 DEF BuildOK
  <2>4. CASE u < index
    BY <2>1, <2>2, <2>4 DEF DependentsRead, BuildOK
  <2> QED
    BY <2>1, <2>3, <2>4
<1>2. CASE \E m \in {"build", "rebuild", "compile"}, files \in SUBSET Units :
             phase \in {"idle", "solution"} /\ BuildProject(m, files)
  BY <1>2, BuildAssumption DEF BuildProject, Compiling, Units
<1>3. CASE CompileUnit
  <2> USE <1>3 DEF CompileUnit
  <2>1. depFile[u] \subseteq dependents[u] /\ depFile' = depFile
    BY DEF DependentsRead, Orderly, Compiling, sourceVars, scanVars
  <2>2. dependents[u] \subseteq dependents'[u]
    BY DEF BuildOK
  <2> QED
    BY <2>1, <2>2
<1>4. CASE /\ UNCHANGED <<events, mode, depFile, dependents>>
           /\ Compiling \/ phase = "depend" \/ (phase = "scan" /\ u < index)
  BY <1>4 DEF DependentsRead, Orderly
<1>5. CASE \E w \in Workers : \/ GetNext(w) \/ Stopping(w)
                              \/ GenerateObjectCode(w) \/ GenerateFails(w)
  <2>1. UNCHANGED <<events, mode, depFile, dependents>> /\ Compiling
    BY <1>5, GeneratorFacts DEF Compiling
  <2> QED
    BY <2>1, <1>4
<1>9. CASE WriteDependencyFile
  <2> USE <1>9 DEF WriteDependencyFile
  <2>1. depFile[u] \subseteq dependents[u]
    BY DEF DependentsRead, Orderly, sourceVars, scanVars
  <2> QED
    BY <2>1 DEF FilesOK
<1>6. CASE SkipUnit \/ StartGenerators \/ JoinGenerators
  <2>1. UNCHANGED <<events, mode, depFile, dependents>> /\ Compiling
    BY <1>6 DEF SkipUnit, StartGenerators, JoinGenerators, Compiling, sourceVars, fileVars, scanVars
  <2> QED
    BY <2>1, <1>4
<1>7. CASE UNCHANGED vars
  <2>1. /\ UNCHANGED <<events, mode, depFile, dependents>>
        /\ Compiling \/ phase = "depend" \/ (phase = "scan" /\ u < index)
    BY <1>7 DEF vars, Compiling, sourceVars, fileVars, scanVars
  <2> QED
    BY <2>1, <1>4
<1>8. ASSUME \/ \E x \in Units : \E used \in SUBSET (Units \ {x}), b \in Errors(x) :
                  EditOf(x, used, b)
             \/ CleanProject \/ BuildLibrary
             \/ OtherProjectFails \/ BindError \/ ParseError \/ JoinFailed \/ ArFails
             \/ Crash \/ Archive
             \/ (\E last \in 0..NumUnits : RunAr(last)) \/ Export
      PROVE  FALSE
  BY <1>8, EndFacts DEF EditOf, EditSource, CleanProject, BuildLibrary, Archive,
     RunAr, Export, Ends, Memory, Compiling
<1> QED
  BY <1>1, <1>2, <1>3, <1>5, <1>6, <1>7, <1>8, <1>9, NextCases

LEMMA WrittenStep ==
  FilesOK /\ BuildOK /\ Fresh /\ FromTheFirst /\ Written /\ [Next]_vars => Written'
<1> SUFFICES ASSUME FilesOK, BuildOK, Fresh, FromTheFirst, Written, [Next]_vars,
                    phase' = "depend", NEW u \in Units, u < index'
             PROVE  depFile'[u] = dependents'[u]
  BY DEF Written
<1> USE UnitsFacts
<1>1. CASE JoinGenerators
  <2>1. index' = 1
    BY <1>1 DEF JoinGenerators, FromTheFirst
  <2> QED
    BY <2>1, BuildAssumption DEF Units
<1>2. CASE WriteDependencyFile
  <2> USE <1>2 DEF WriteDependencyFile
  <2>1. u < index \/ u = index
    BY AdvanceFacts DEF BuildOK
  <2>2. u # index => depFile[u] = dependents[u]
    BY <2>1 DEF Written
  <2> QED
    BY <2>2 DEF FilesOK
<1>3. CASE UNCHANGED vars
  BY <1>3 DEF vars, fileVars, Written
<1>4. ASSUME \E w \in Workers : \/ GetNext(w) \/ Stopping(w)
                                \/ GenerateObjectCode(w) \/ GenerateFails(w)
      PROVE  phase' = "generate"
  BY <1>4, GeneratorFacts
<1>5. ASSUME \/ \E x \in Units : \E used \in SUBSET (Units \ {x}), b \in Errors(x) :
                  EditOf(x, used, b)
             \/ CleanProject \/ BuildLibrary
             \/ \E m \in {"build", "rebuild", "compile"}, files \in SUBSET Units :
                  phase \in {"idle", "solution"} /\ BuildProject(m, files)
             \/ OtherProjectFails \/ BindError \/ ParseError \/ JoinFailed \/ ArFails
             \/ Crash \/ ScanUnit \/ CompileUnit \/ SkipUnit \/ StartGenerators
             \/ Archive \/ (\E last \in 0..NumUnits : RunAr(last)) \/ Export
      PROVE  FALSE
  BY <1>5, EndFacts DEF EditOf, EditSource, CleanProject, BuildLibrary, BuildProject,
     ScanUnit, CompileUnit, SkipUnit, StartGenerators, Advance, Archive, RunAr, Export,
     Ends, Memory
<1> QED
  BY <1>1, <1>2, <1>3, <1>4, <1>5, NextCases

LEMMA CallsSeenStep ==
  FilesOK /\ BuildOK /\ Fresh /\ CallsSeen /\ [Next]_vars => CallsSeen'
<1> SUFFICES ASSUME FilesOK, BuildOK, Fresh, CallsSeen, [Next]_vars,
                    Compiling' \/ phase' = "depend",
                    NEW u \in Units, NEW v \in Units,
                    Building(v)', Reached(v)', u \in calls'[v]
             PROVE  v \in dependents'[u]
  BY DEF CallsSeen
<1> USE UnitsFacts
<1>1. CASE phase' = "compile" /\ index' = 1
  BY <1>1, BuildAssumption DEF Reached, Units
<1>2. CASE Compiling /\ CompileUnit
  <2> USE <1>2 DEF CompileUnit
  <2>1. u \in calls[v]
    BY DEF sourceVars
  <2>2. CASE v = index
    BY <2>1, <2>2 DEF BuildOK
  <2>3. CASE v # index
    <3>1. Reached(v) /\ Building(v)
      BY <2>3, AdvanceFacts DEF Reached, Building, BuildOK, scanVars
    <3>2. v \in dependents[u]
      BY <1>2, <2>1, <3>1 DEF CallsSeen
    <3> QED
      BY <3>2 DEF BuildOK
  <2> QED
    BY <2>2, <2>3
<1>3. CASE Compiling /\ SkipUnit
  <2> USE <1>3 DEF SkipUnit
  <2>1. Building(v)
    BY DEF Building, scanVars
  <2>2. Reached(v)
    BY <2>1, AdvanceFacts DEF Reached, BuildOK
  <2> QED
    BY <1>3, <2>1, <2>2 DEF CallsSeen, sourceVars
<1>4. CASE Compiling /\ StartGenerators
  BY <1>4 DEF StartGenerators, CallsSeen, Building, Reached, scanVars, sourceVars
<1>5. CASE Compiling /\ UNCHANGED <<calls, dependents, phase, index, mode, buildSet>>
  BY <1>5 DEF CallsSeen, Building, Reached
<1>6. ASSUME \/ UNCHANGED vars
             \/ \E w \in Workers : \/ GetNext(w) \/ Stopping(w)
                                   \/ GenerateObjectCode(w) \/ GenerateFails(w)
      PROVE  UNCHANGED <<calls, dependents, phase, index, mode, buildSet>>
  BY <1>6, GeneratorFacts DEF vars, sourceVars, scanVars
<1>7. ASSUME phase' = "depend", ~UNCHANGED vars
      PROVE  JoinGenerators \/ WriteDependencyFile
  <2>1. ASSUME \E w \in Workers : \/ GetNext(w) \/ Stopping(w)
                                  \/ GenerateObjectCode(w) \/ GenerateFails(w)
        PROVE  phase' = "generate"
    BY <2>1, GeneratorFacts
  <2> QED
    BY <1>7, <2>1, EndFacts, NextCases DEF EditOf, EditSource, CleanProject,
       BuildLibrary, BuildProject, ScanUnit, CompileUnit, SkipUnit, StartGenerators,
       Advance, Archive, RunAr, Export, Ends, Memory
<1>8. CASE phase' = "depend"
  <2>1. /\ UNCHANGED <<calls, dependents, mode, buildSet>>
        /\ Compiling \/ phase = "depend"
        /\ phase # "compile"
    BY <1>7, <1>8 DEF JoinGenerators, WriteDependencyFile, Compiling, vars, sourceVars,
       scanVars
  <2> QED
    BY <2>1 DEF CallsSeen, Building, Reached
<1> QED
  BY <1>1, <1>2, <1>3, <1>4, <1>5, <1>6, <1>8, CompilingCases

(* The four writes of files, for what is recorded of calls and edits.      *)
LEMMA ChangedSteps ==
  ASSUME FilesOK, BuildOK, NEW v \in Units
  PROVE  /\ CompileUnit => (Changed(v) => Changed(v)') /\ (v = index => Changed(v)')
         /\ \A w \in Workers : GenerateObjectCode(w) /\ v # job[w] =>
              newer'[v] = newer[v] /\ edited'[v] = edited[v]
         /\ \A w \in Workers : GenerateObjectCode(w) /\ v = job[w] => edited'[v] = {}
         /\ \A x \in Units : \A used \in SUBSET (Units \ {x}), b \in Errors(x) :
              EditOf(x, used, b) =>
                /\ Changed(v) => Changed(v)'
                /\ v = x => Changed(v)'
                /\ v # x => calls'[v] = calls[v] /\ refers'[v] = refers[v]
                /\ edited'[v] \subseteq edited[v] \cup {x}
                /\ x \in edited'[v] =>
                     x \in edited[v] \/ x = v \/ x \in calls[v] \/ x \in refers[v]
         /\ CleanProject => Changed(v)'
<1>1. CompileUnit => (Changed(v) => Changed(v)') /\ (v = index => Changed(v)')
  BY DEF CompileUnit, Changed, WriteIr, FilesOK
<1>2. \A w \in Workers : GenerateObjectCode(w) /\ v # job[w] =>
        newer'[v] = newer[v] /\ edited'[v] = edited[v]
  BY DEF GenerateObjectCode, FilesOK
<1>3. \A w \in Workers : GenerateObjectCode(w) /\ v = job[w] => edited'[v] = {}
  BY DEF GenerateObjectCode, FilesOK
<1>4. ASSUME NEW x \in Units, NEW used \in SUBSET (Units \ {x}), NEW b \in Errors(x),
             EditOf(x, used, b)
      PROVE  /\ Changed(v) => Changed(v)'
             /\ v = x => Changed(v)'
             /\ v # x => calls'[v] = calls[v] /\ refers'[v] = refers[v]
             /\ edited'[v] \subseteq edited[v] \cup {x}
             /\ x \in edited'[v] =>
                     x \in edited[v] \/ x = v \/ x \in calls[v] \/ x \in refers[v]
  <2> USE <1>4, UnitsFacts DEF EditOf, EditSource
  <2>1. (Changed(v) => Changed(v)') /\ (v = x => Changed(v)')
    <3>1. newer' = [newer EXCEPT ![x] = WriteSource(@)]
      OBVIOUS
    <3>2. CASE v = x
      BY <3>1, <3>2 DEF Changed, WriteSource, FilesOK
    <3>3. CASE v # x
      BY <3>1, <3>3 DEF Changed, FilesOK
    <3> QED
      BY <3>2, <3>3
  <2>2. v # x => calls'[v] = calls[v] /\ refers'[v] = refers[v]
    BY DEF FilesOK
  <2>3. edited'[v] = IF x \in Uses(v) THEN edited[v] \cup {x} ELSE edited[v]
    OBVIOUS
  <2> QED
    BY <2>1, <2>2, <2>3 DEF Uses
<1>5. CleanProject => Changed(v)'
  BY DEF CleanProject, Changed, Pairs
<1> QED
  BY <1>1, <1>2, <1>3, <1>4, <1>5

LEMMA CallsRecordedStep ==
  FilesOK /\ BuildOK /\ Fresh /\ Unfailing /\ Dispatched /\ Queued /\ DependentsRead
    /\ Written /\ CallsSeen /\ CallsRecorded /\ Marks /\ [Next]_vars => CallsRecorded'
<1> SUFFICES ASSUME FilesOK, BuildOK, Fresh, Unfailing, Dispatched, Queued,
                    DependentsRead, Written, CallsSeen, CallsRecorded, Marks, [Next]_vars,
                    Orderly', NEW u \in Units, NEW v \in Units,
                    u \in calls'[v], ~Changed(v)'
             PROVE  v \in depFile'[u] \/
                      (phase' \in {"generate", "depend"} /\ v \in dependents'[u])
  BY DEF CallsRecorded
<1> USE UnitsFacts
<1>1. CASE \E x \in Units : \E used \in SUBSET (Units \ {x}), b \in Errors(x) :
             EditOf(x, used, b)
  <2> PICK x \in Units : \E used \in SUBSET (Units \ {x}), b \in Errors(x) :
                           EditOf(x, used, b)
    BY <1>1
  <2> PICK used \in SUBSET (Units \ {x}), b \in Errors(x) : EditOf(x, used, b)
    OBVIOUS
  <2>1. v # x /\ u \in calls[v] /\ ~Changed(v)
    BY ChangedSteps
  <2>2. Orderly /\ phase = "idle" /\ depFile' = depFile
    BY DEF EditOf, EditSource, Orderly
  <2> QED
    BY <2>1, <2>2 DEF CallsRecorded
<1>2. CASE CleanProject
  BY <1>2, ChangedSteps
<1>3. CASE CompileUnit
  <2>1. ~Changed(v) /\ UNCHANGED <<events, calls, depFile>> /\ phase = "compile"
    BY <1>3, ChangedSteps DEF CompileUnit, sourceVars
  <2> QED
    BY <2>1 DEF CallsRecorded, Orderly
<1>4. ASSUME NEW w \in Workers, GenerateObjectCode(w)
      PROVE  v \in depFile'[u] \/
                      (phase' \in {"generate", "depend"} /\ v \in dependents'[u])
  <2>1. /\ phase = "generate" /\ phase' = "generate"
        /\ UNCHANGED <<events, calls, depFile, dependents>>
    BY <1>4, GeneratorFacts
  <2>2. CASE v = job[w]
    <3>1. Building(v)
      BY <2>1, <2>2 DEF Dispatched, Compiling
    <3>2. v \in dependents[u]
      BY <2>1, <3>1 DEF CallsSeen, Compiling, Reached
    <3> QED
      BY <2>1, <3>2
  <2>3. CASE v # job[w]
    <3>1. ~Changed(v)
      BY <1>4, <2>3, ChangedSteps DEF Changed
    <3> QED
      BY <2>1, <3>1 DEF CallsRecorded, Orderly
  <2> QED
    BY <2>2, <2>3
<1>5. CASE WriteDependencyFile
  <2> USE <1>5 DEF WriteDependencyFile
  <2>1. /\ UNCHANGED <<events, calls, newer, dependents, mode>> /\ phase = "depend"
        /\ depFile'[index] = dependents[index]
    BY DEF sourceVars, scanVars, FilesOK, BuildOK
  <2>2. v \in depFile[u] \/ v \in dependents[u]
    BY <2>1 DEF CallsRecorded, Orderly, Changed
  <2>3. v \in dependents[u]
    <3>1. CASE mode = "build"
      BY <2>1, <2>2, <3>1 DEF DependentsRead, Orderly
    <3>2. CASE mode = "rebuild"
      BY <2>1, <3>2 DEF CallsSeen, Building, Reached
    <3>3. mode # "compile"
      BY <2>1 DEF Marks, Orderly
    <3> QED
      BY <3>1, <3>2, <3>3 DEF BuildOK
  <2>4. CASE phase' = "depend"
    BY <2>1, <2>3, <2>4
  <2>5. CASE phase' # "depend"
    <3>1. u < index \/ u = index
      BY <2>1, <2>5, AdvanceFacts DEF BuildOK
    <3>2. CASE u < index
      <4>1. u # index /\ depFile[u] = dependents[u]
        BY <2>1, <3>2 DEF Written, BuildOK
      <4>2. depFile'[u] = depFile[u]
        BY <4>1 DEF FilesOK
      <4> QED
        BY <2>3, <4>1, <4>2
    <3> QED
      BY <2>1, <2>3, <3>1, <3>2
  <2> QED
    BY <2>4, <2>5
<1>6. CASE JoinFailed
  BY <1>6, EndFacts DEF JoinFailed, Unfailing, Orderly
<1>7. CASE OtherProjectFails \/ BindError \/ ParseError \/ ArFails \/ Crash
  <2>1. /\ UNCHANGED <<events, calls, newer, depFile>>
        /\ phase \notin {"generate", "depend"}
    BY <1>7, EndFacts DEF OtherProjectFails, BindError, ParseError, ArFails, Crash,
       Orderly
  <2> QED
    BY <2>1 DEF CallsRecorded, Orderly, Changed
<1>8. CASE /\ UNCHANGED <<events, calls, newer, depFile>>
           /\ phase \in {"generate", "depend"} =>
                  phase' \in {"generate", "depend"} /\ dependents' = dependents
  BY <1>8 DEF CallsRecorded, Orderly, Changed
<1>9. ASSUME \/ BuildLibrary
             \/ \E m \in {"build", "rebuild", "compile"}, files \in SUBSET Units :
                  phase \in {"idle", "solution"} /\ BuildProject(m, files)
             \/ ScanUnit \/ SkipUnit \/ StartGenerators \/ JoinGenerators
             \/ Archive \/ (\E last \in 0..NumUnits : RunAr(last)) \/ Export \/ UNCHANGED vars
      PROVE  /\ UNCHANGED <<events, calls, newer, depFile>>
             /\ phase \in {"generate", "depend"} =>
                  phase' \in {"generate", "depend"} /\ dependents' = dependents
  BY <1>9 DEF BuildLibrary, BuildProject, ScanUnit, SkipUnit, StartGenerators,
     JoinGenerators, Archive, RunAr, Export, vars, sourceVars, fileVars, libraryVars
<1>10. ASSUME \E w \in Workers : GetNext(w) \/ Stopping(w) \/ GenerateFails(w)
       PROVE  /\ UNCHANGED <<events, calls, newer, depFile>>
              /\ phase \in {"generate", "depend"} =>
                  phase' \in {"generate", "depend"} /\ dependents' = dependents
  BY <1>10 DEF GetNext, Stopping, GenerateFails, sourceVars, fileVars
<1> QED
  BY <1>1, <1>2, <1>3, <1>4, <1>5, <1>6, <1>7, <1>8, <1>9, <1>10, NextCases

LEMMA EditsRecordedStep ==
  FilesOK /\ BuildOK /\ Fresh /\ Rebuilt /\ DependentsRead /\ CallsRecorded
    /\ EditsRecorded /\ Marks /\ [Next]_vars => EditsRecorded'
<1> SUFFICES ASSUME FilesOK, BuildOK, Fresh, Rebuilt, DependentsRead, CallsRecorded,
                    EditsRecorded, Marks, [Next]_vars, Orderly',
                    NEW u \in Units, NEW v \in Units, u \in edited'[v], u # v
             PROVE  Changed(v)' \/ v \in depFile'[u] \/ u \in refers'[v]
  BY DEF EditsRecorded
<1> USE UnitsFacts
<1>1. CASE \E x \in Units : \E used \in SUBSET (Units \ {x}), b \in Errors(x) :
             EditOf(x, used, b)
  <2> PICK x \in Units : \E used \in SUBSET (Units \ {x}), b \in Errors(x) :
                           EditOf(x, used, b)
    BY <1>1
  <2> PICK used \in SUBSET (Units \ {x}), b \in Errors(x) : EditOf(x, used, b)
    OBVIOUS
  <2>1. Orderly /\ phase = "idle" /\ depFile' = depFile
    BY DEF EditOf, EditSource, Orderly
  <2>2. u \in edited[v] \/ u \in calls[v] \/ u \in refers[v]
    <3>1. edited'[v] \subseteq edited[v] \cup {x}
      BY ChangedSteps
    <3>2. x \in edited'[v] => x \in edited[v] \/ x = v \/ x \in calls[v]
                               \/ x \in refers[v]
      BY ChangedSteps
    <3> QED
      BY <3>1, <3>2
  <2>3. Changed(v) \/ v \in depFile[u] \/ u \in refers[v]
    BY <2>1, <2>2 DEF CallsRecorded, EditsRecorded
  <2> QED
    BY <2>1, <2>3, ChangedSteps
<1>2. CASE CleanProject
  BY <1>2, ChangedSteps
<1>3. CASE BuildLibrary
  <2>1. u \in edited[v] /\ UNCHANGED <<events, newer, depFile, refers>>
    BY <1>3 DEF BuildLibrary, FilesOK, fileVars
  <2> QED
    BY <2>1 DEF EditsRecorded, Orderly, Changed
<1>4. CASE CompileUnit
  <2>1. UNCHANGED <<events, edited, depFile, refers>>
    BY <1>4 DEF CompileUnit, sourceVars
  <2> QED
    BY <1>4, <2>1, ChangedSteps DEF EditsRecorded, Orderly
<1>5. ASSUME NEW w \in Workers, GenerateObjectCode(w)
      PROVE  Changed(v)' \/ v \in depFile'[u] \/ u \in refers'[v]
  <2>1. v # job[w] /\ u \in edited[v] /\ newer'[v] = newer[v]
    BY <1>5, ChangedSteps
  <2>2. UNCHANGED <<events, depFile, refers>>
    BY <1>5 DEF GenerateObjectCode
  <2> QED
    BY <2>1, <2>2 DEF EditsRecorded, Orderly, Changed
<1>6. CASE WriteDependencyFile
  <2>1. /\ UNCHANGED <<events, edited, newer, refers>> /\ phase = "depend"
        /\ depFile'[u] = depFile[u] \/ depFile'[u] = dependents[u]
    BY <1>6 DEF WriteDependencyFile, sourceVars, FilesOK
  <2>2. mode # "rebuild"
    BY <2>1 DEF Rebuilt
  <2>3. mode # "compile"
    BY <2>1 DEF Marks, Orderly
  <2>4. Changed(v) \/ v \in depFile[u] \/ u \in refers[v]
    BY <2>1 DEF EditsRecorded, Orderly
  <2>5. depFile[u] \subseteq dependents[u]
    BY <2>1, <2>2, <2>3 DEF DependentsRead, BuildOK, Orderly
  <2> QED
    BY <2>1, <2>4, <2>5 DEF Changed
<1>7. CASE UNCHANGED <<events, edited, newer, depFile, refers>>
  BY <1>7 DEF EditsRecorded, Orderly, Changed
<1>8. ASSUME JoinGenerators \/ Archive \/ (\E last \in 0..NumUnits : RunAr(last))
             \/ Export
      PROVE  UNCHANGED <<events, edited, newer, depFile, refers>>
  BY <1>8 DEF JoinGenerators, Archive, RunAr, Export, sourceVars, fileVars
<1>9. ASSUME OtherProjectFails \/ BindError \/ ParseError \/ JoinFailed \/ ArFails
             \/ Crash
      PROVE  UNCHANGED <<events, edited, newer, depFile, refers>>
  <2>1. UNCHANGED <<events, edited, newer, refers>> /\ ~Crash
    BY <1>9, EndFacts DEF Crash, Orderly
  <2> QED
    BY <1>9, <2>1, EndFacts DEF Orderly
<1> QED
  BY <1>1, <1>2, <1>3, <1>4, <1>5, <1>6, <1>7, <1>8, <1>9, BetweenFacts, NextCases

(* A build of the solution that goes on rebuilds the project. *)
LEMMA SolutionCases ==
  ASSUME BuildOK, Fresh, [Next]_vars, phase = "solution"
  PROVE  \/ OtherProjectFails \/ Crash \/ BuildProject("rebuild", {})
         \/ UNCHANGED vars
<1>1. ASSUME NEW w \in Workers PROVE ~Generator(w)
  BY <1>1, GeneratorFacts DEF Generator
<1>2. ~Work \/ BuildProject("rebuild", {})
  BY <1>1 DEF Work, ScanUnit, CompileUnit, BindError, ParseError, SkipUnit,
     StartGenerators, JoinFailed, JoinGenerators, WriteDependencyFile, Advance, Archive, RunAr, ArFails, Export
<1> QED
  BY <1>2 DEF Next, Edit, EditOf, EditSource, CleanProject, BuildLibrary, StartBuild

LEMMA LibraryRecordedStep ==
  FilesOK /\ BuildOK /\ Fresh /\ Unfailing /\ Dispatched /\ Queued /\ NoErrors
    /\ LibraryRecorded /\ [Next]_vars => LibraryRecorded'
<1> SUFFICES ASSUME FilesOK, BuildOK, Fresh, Unfailing, Dispatched, Queued, NoErrors,
                    LibraryRecorded, [Next]_vars, NEW v \in Units,
                    Library \in edited'[v], ~Changed(v)'
             PROVE  /\ "library" \in events'
                    /\ LibraryAlone' =>
                         phase' = "solution" \/ (Compiling' /\ mode' = "rebuild")
  BY DEF LibraryRecorded
<1> USE UnitsFacts
<1> DEFINE Pending == phase = "solution" \/ (Compiling /\ mode = "rebuild")
<1>1. ASSUME Library \in edited[v], ~Changed(v), events' = events,
             LibraryAlone /\ Pending => Pending'
      PROVE  /\ "library" \in events'
             /\ LibraryAlone' => Pending'
  BY <1>1 DEF LibraryRecorded, LibraryAlone
<1> SUFFICES "library" \in events' /\ (LibraryAlone' => Pending')
  OBVIOUS
<1> HIDE DEF Pending
<1>2. ASSUME \E x \in Units : \E used \in SUBSET (Units \ {x}), b \in Errors(x) :
               EditOf(x, used, b)
      PROVE  /\ Library \in edited[v] /\ ~Changed(v) /\ events' = events
             /\ Pending => Pending'
  <2> PICK x \in Units : \E used \in SUBSET (Units \ {x}), b \in Errors(x) :
                           EditOf(x, used, b)
    BY <1>2
  <2> PICK used \in SUBSET (Units \ {x}), b \in Errors(x) : EditOf(x, used, b)
    OBVIOUS
  <2>1. edited'[v] \subseteq edited[v] \cup {x} /\ ~Changed(v)
    BY ChangedSteps
  <2>2. events' = events /\ ~Pending
    BY DEF EditOf, EditSource, Pending, Compiling
  <2> QED
    BY <2>1, <2>2
<1>3. CASE CleanProject
  BY <1>3, ChangedSteps
<1>4. CASE BuildLibrary
  BY <1>4 DEF BuildLibrary, Pending
<1>5. ASSUME CompileUnit
      PROVE  /\ Library \in edited[v] /\ ~Changed(v) /\ events' = events
             /\ Pending => Pending'
  <2>1. UNCHANGED <<events, edited, mode>> /\ Compiling'
    BY <1>5, AdvanceFacts DEF CompileUnit, sourceVars, scanVars, BuildOK, Compiling
  <2>2. phase = "compile"
    BY <1>5 DEF CompileUnit
  <2> QED
    BY <1>5, <2>1, <2>2, ChangedSteps DEF Pending
<1>6. ASSUME NEW w \in Workers, GenerateObjectCode(w)
      PROVE  /\ Library \in edited[v] /\ ~Changed(v) /\ events' = events
             /\ Pending => Pending'
  <2>1. Library \in edited[v] /\ newer'[v] = newer[v]
    BY <1>6, ChangedSteps
  <2>2. phase' = phase /\ UNCHANGED <<events, mode>>
    BY <1>6, GeneratorFacts
  <2> QED
    BY <2>1, <2>2 DEF Pending, Changed, Compiling
<1>7. ASSUME JoinGenerators
      PROVE  /\ Library \in edited[v] /\ ~Changed(v) /\ events' = events
             /\ Pending => Pending'
  <2>1. UNCHANGED <<events, edited, newer>> /\ phase = "generate"
    BY <1>7 DEF JoinGenerators, sourceVars, fileVars
  <2>2. mode # "rebuild"
    BY <1>7, <2>1, AllGenerated DEF Building, Generated
  <2> QED
    BY <2>1, <2>2 DEF Pending, Changed
<1>12. ASSUME WriteDependencyFile
       PROVE  /\ Library \in edited[v] /\ ~Changed(v) /\ events' = events
              /\ Pending => Pending'
  <2>1. UNCHANGED <<events, edited, newer>> /\ phase = "depend"
    BY <1>12 DEF WriteDependencyFile, sourceVars
  <2> QED
    BY <2>1 DEF Pending, Changed, Compiling
<1>8. ASSUME OtherProjectFails \/ BindError \/ ParseError \/ JoinFailed \/ ArFails
             \/ Crash
      PROVE  /\ Library \in edited[v] /\ ~Changed(v) /\ events' = events
             /\ LibraryAlone /\ Pending => Pending'
  <2>1. UNCHANGED <<events, edited, newer>>
    BY <1>8, EndFacts
  <2>2. LibraryAlone => ~Pending
    <3> SUFFICES ASSUME LibraryAlone PROVE ~Pending
      OBVIOUS
    <3>1. ~OtherProjectFails /\ ~Crash
      BY DEF LibraryAlone, OtherProjectFails, Crash
    <3>2. ~BindError /\ ~ParseError
      BY DEF NoErrors, BindError, ParseError
    <3>3. ~JoinFailed
      BY DEF LibraryAlone, JoinFailed, Unfailing
    <3> QED
      BY <1>8, <3>1, <3>2, <3>3 DEF ArFails, Pending, Compiling
  <2> QED
    BY <2>1, <2>2 DEF Changed
<1>9. CASE phase = "solution"
  <2>1. CASE OtherProjectFails \/ Crash
    BY <1>1, <1>8, <2>1
  <2>2. CASE BuildProject("rebuild", {})
    <3>1. UNCHANGED <<events, edited, newer>> /\ Pending'
      BY <2>2 DEF BuildProject, Pending, Compiling, sourceVars, fileVars
    <3> QED
      BY <1>1, <3>1 DEF Changed
  <2>3. CASE UNCHANGED vars
    <3>1. UNCHANGED <<events, edited, newer, phase>>
      BY <2>3 DEF vars, sourceVars, fileVars
    <3> QED
      BY <1>1, <1>9, <3>1 DEF Changed, Pending
  <2> QED
    BY <1>9, <2>1, <2>2, <2>3, SolutionCases
<1>10. ASSUME \/ \E m \in {"build", "rebuild", "compile"}, files \in SUBSET Units :
                  phase \in {"idle", "solution"} /\ BuildProject(m, files)
              \/ ScanUnit \/ Archive \/ (\E last \in 0..NumUnits : RunAr(last)) \/ Export
              \/ SkipUnit \/ StartGenerators
              \/ \E w \in Workers : GetNext(w) \/ Stopping(w) \/ GenerateFails(w)
              \/ UNCHANGED vars,
              phase # "solution"
       PROVE  UNCHANGED <<events, edited, newer>> /\ (Pending => Pending')
  <2>1. UNCHANGED <<events, edited, newer>>
    BY <1>10, BetweenFacts DEF Archive, RunAr, Export, sourceVars, fileVars
  <2>2. ASSUME Pending PROVE Pending'
    <3>1. Compiling /\ mode = "rebuild"
      BY <1>10, <2>2 DEF Pending
    <3>2. CASE SkipUnit \/ StartGenerators \/ UNCHANGED vars
      <4>1. mode' = mode /\ Compiling'
        BY <3>1, <3>2, AdvanceFacts DEF SkipUnit, StartGenerators, vars, scanVars,
           Compiling, BuildOK
      <4> QED
        BY <3>1, <4>1 DEF Pending
    <3>3. CASE \E w \in Workers : GetNext(w) \/ Stopping(w) \/ GenerateFails(w)
      <4>1. mode' = mode /\ phase' = phase
        BY <3>3, GeneratorFacts
      <4> QED
        BY <3>1, <4>1 DEF Pending, Compiling
    <3> QED
      BY <1>10, <3>1, <3>2, <3>3 DEF Compiling, ScanUnit, Archive, RunAr, Export
  <2> QED
    BY <2>1, <2>2
<1>11. CASE phase # "solution"
  <2>1. CASE \/ \E x \in Units : \E used \in SUBSET (Units \ {x}), b \in Errors(x) :
                  EditOf(x, used, b)
             \/ CompileUnit \/ JoinGenerators \/ WriteDependencyFile
             \/ OtherProjectFails \/ BindError \/ ParseError \/ JoinFailed \/ ArFails
             \/ Crash
    BY <1>1, <1>2, <1>5, <1>7, <1>8, <1>12, <2>1
  <2>2. CASE \E w \in Workers : GenerateObjectCode(w)
    BY <1>1, <1>6, <2>2
  <2>3. CASE CleanProject \/ BuildLibrary
    BY <1>3, <1>4, <2>3 DEF Pending
  <2>4. ASSUME UNCHANGED <<events, edited, newer>>, Pending => Pending'
        PROVE  "library" \in events' /\ (LibraryAlone' => Pending')
    BY <1>1, <2>4 DEF Changed
  <2> QED
    BY <1>10, <1>11, <2>1, <2>2, <2>3, <2>4, NextCases DEF Pending
<1> QED
  BY <1>9, <1>11
----------------------------------------------------------------------------
(* A behaviour without failures of ar has no ArFails: the objects it needs *)
(* are there.                                                              *)
LEMMA ArDoesNotFail ==
  ASSUME BuildOK, Rebuilt, MissingObjects, Whole
  PROVE  ~ArFails /\ ~Crash
<1>1. ASSUME phase = "ar" PROVE Units \subseteq objects
  <2>1. \A v \in Units : newer[v] = {}
    BY <1>1 DEF Rebuilt, Whole
  <2> QED
    BY <2>1 DEF MissingObjects
<1>2. \A last \in Batches : Batch(last) \subseteq Units
  BY BuildAssumption DEF BuildOK, Units, Batches
<1> QED
  BY <1>1, <1>2 DEF ArFails, Crash, Whole

LEMMA ArchivedStep ==
  FilesOK /\ BuildOK /\ Fresh /\ Rebuilt /\ MissingObjects /\ FromTheFirst /\ Archived
    /\ [Next]_vars => Archived'
<1> SUFFICES ASSUME FilesOK, BuildOK, Fresh, Rebuilt, MissingObjects, FromTheFirst,
                    Archived, [Next]_vars, Whole'
             PROVE  /\ phase' # "ar" => Units \subseteq (inArchive \cup newerThanArchive)'
                    /\ phase' = "ar" => \A u \in Units : u < index' => u \in inArchive'
                    /\ phase' = "export" \/ Success' => inArchive' = Units
  BY DEF Archived
<1> USE UnitsFacts DEF Success
<1>1. CASE CleanProject
  BY <1>1 DEF CleanProject
<1>2. CASE Archive
  <2> USE <1>2 DEF Archive
  <2>1. /\ Whole /\ index' = 1 /\ phase = "archive" /\ result' = result
        /\ result # "success"
    BY DEF Whole, sourceVars, FromTheFirst, Fresh
  <2>2. Units \subseteq inArchive \cup newerThanArchive
    BY <2>1 DEF Archived
  <2>3. CASE newerThanArchive = {} /\ objects = Units /\ phase' = "export"
    BY <2>1, <2>2, <2>3 DEF FilesOK
  <2>4. CASE phase' = "ar"
    BY <2>1, <2>4 DEF Units
  <2> QED
    BY <2>3, <2>4
<1>3. ASSUME NEW last \in 0..NumUnits, RunAr(last)
      PROVE  /\ phase' # "ar" => Units \subseteq (inArchive \cup newerThanArchive)'
             /\ phase' = "ar" => \A u \in Units : u < index' => u \in inArchive'
             /\ phase' = "export" \/ Success' => inArchive' = Units
  <2> USE <1>3 DEF RunAr
  <2>1. Whole /\ phase = "ar" /\ result' # "success"
    BY DEF Whole, sourceVars, Fresh
  <2>2. \A u \in Units : u < index => u \in inArchive
    BY <2>1 DEF Archived
  <2>3. ASSUME NEW u \in Units, u <= last
        PROVE  u \in inArchive'
    BY <2>2, <2>3, BuildAssumption DEF BuildOK, Units
  <2>4. CASE last = NumUnits
    <3>1. Units \subseteq inArchive'
      BY <2>3, <2>4, BuildAssumption DEF Units
    <3>2. inArchive' \subseteq Units
      BY BuildAssumption DEF FilesOK, BuildOK, Units
    <3> QED
      BY <2>1, <2>4, <3>1, <3>2
  <2>5. CASE last # NumUnits
    <3>1. phase' = "ar" /\ index' = last + 1
      BY <2>5
    <3> QED
      BY <2>1, <2>3, <3>1, BuildAssumption DEF Units
  <2> QED
    BY <2>4, <2>5
<1>4. CASE Export
  <2>1. Whole /\ phase = "export" /\ UNCHANGED <<newerThanArchive, inArchive>>
    BY <1>4 DEF Export, Whole, sourceVars
  <2>2. phase' = "idle"
    BY <1>4 DEF Export, Ends, Memory
  <2> QED
    BY <2>1, <2>2 DEF Archived
<1>5. ASSUME NEW w \in Workers, GenerateObjectCode(w)
      PROVE  /\ phase' # "ar" => Units \subseteq (inArchive \cup newerThanArchive)'
             /\ phase' = "ar" => \A u \in Units : u < index' => u \in inArchive'
             /\ phase' = "export" \/ Success' => inArchive' = Units
  <2>1. /\ phase = "generate" /\ phase' = "generate" /\ events' = events
        /\ result' # "success"
    BY <1>5, GeneratorFacts DEF Fresh
  <2>2. Units \subseteq inArchive \cup newerThanArchive
    BY <2>1 DEF Archived, Whole
  <2> QED
    BY <1>5, <2>1, <2>2 DEF GenerateObjectCode
<1>6. CASE OtherProjectFails \/ BindError \/ ParseError \/ JoinFailed \/ ArFails \/ Crash
  <2>1. /\ UNCHANGED <<events, newerThanArchive, inArchive>>
        /\ phase' = "idle" /\ result' = "failure"
    BY <1>6, EndFacts
  <2>2. Whole
    BY <2>1 DEF Whole
  <2>3. phase # "ar"
    BY <1>6, <2>2, ArDoesNotFail DEF OtherProjectFails, BindError, ParseError, JoinFailed
  <2> QED
    BY <2>1, <2>2, <2>3 DEF Archived
<1>7. CASE UNCHANGED vars
  BY <1>7 DEF vars, libraryVars, sourceVars, Archived, Whole
<1>8. CASE /\ UNCHANGED <<events, newerThanArchive, inArchive>>
           /\ phase # "ar" /\ phase' \notin {"ar", "export"}
           /\ result' \in {"none", result}
  BY <1>8 DEF Archived, Whole
<1>9. ASSUME \/ \E u \in Units : \E used \in SUBSET (Units \ {u}), b \in Errors(u) :
                  EditOf(u, used, b)
             \/ BuildLibrary
             \/ \E m \in {"build", "rebuild", "compile"}, files \in SUBSET Units :
                  phase \in {"idle", "solution"} /\ BuildProject(m, files)
             \/ ScanUnit \/ CompileUnit \/ SkipUnit \/ StartGenerators
             \/ JoinGenerators \/ WriteDependencyFile
      PROVE  /\ UNCHANGED <<events, newerThanArchive, inArchive>>
             /\ phase # "ar" /\ phase' \notin {"ar", "export"}
             /\ result' \in {"none", result}
  BY <1>9 DEF EditOf, EditSource, BuildLibrary, BuildProject, ScanUnit, CompileUnit, SkipUnit,
     StartGenerators, JoinGenerators, WriteDependencyFile, Advance, sourceVars, fileVars, libraryVars
<1>10. ASSUME \E w \in Workers : GetNext(w) \/ Stopping(w) \/ GenerateFails(w)
       PROVE  /\ UNCHANGED <<events, newerThanArchive, inArchive>>
              /\ phase # "ar" /\ phase' \notin {"ar", "export"}
              /\ result' \in {"none", result}
  <2>1. phase = "generate" /\ phase' = "generate" /\ result' = result
    BY <1>10, GeneratorFacts
  <2> QED
    BY <1>10, <2>1, BetweenFacts
<1> QED
  BY <1>1, <1>2, <1>3, <1>4, <1>5, <1>6, <1>7, <1>8, <1>9, <1>10, NextCases

LEMMA ExportedStep ==
  FilesOK /\ BuildOK /\ Fresh /\ Rebuilt /\ MissingObjects /\ Exported /\ [Next]_vars
    => Exported'
<1> DEFINE Todo == newerThanArchive # {} \/ \E u \in Units : Changed(u)
<1> SUFFICES ASSUME FilesOK, BuildOK, Fresh, Rebuilt, MissingObjects, Exported,
                    [Next]_vars, Whole'
             PROVE  /\ phase' \notin {"ar", "export"} /\ exportOld' => Todo'
                    /\ phase' = "export" /\ exportOld' => changed'
                    /\ Success' => ~exportOld'
  BY DEF Exported
<1> USE UnitsFacts DEF Success
<1>1. CASE \E u \in Units : \E used \in SUBSET (Units \ {u}), b \in Errors(u) :
             EditOf(u, used, b)
  <2> PICK u \in Units : \E used \in SUBSET (Units \ {u}), b \in Errors(u) :
                           EditOf(u, used, b)
    BY <1>1
  <2> PICK used \in SUBSET (Units \ {u}), b \in Errors(u) : EditOf(u, used, b)
    OBVIOUS
  <2>1. Changed(u)'
    BY ChangedSteps
  <2> QED
    BY <2>1 DEF EditOf, EditSource
<1>2. CASE CleanProject
  BY <1>2, ChangedSteps DEF CleanProject
<1>3. CASE CompileUnit
  <2>1. (\E u \in Units : Changed(u)) => (\E u \in Units : Changed(u)')
    BY <1>3, ChangedSteps
  <2>2. /\ UNCHANGED <<events, newerThanArchive, exportOld, result>>
        /\ phase = "compile" /\ phase' \in {"compile", "start"}
    BY <1>3 DEF CompileUnit, sourceVars, libraryVars, Advance
  <2> QED
    BY <2>1, <2>2 DEF Exported, Whole, Fresh
<1>4. ASSUME NEW w \in Workers, GenerateObjectCode(w)
      PROVE  /\ phase' \notin {"ar", "export"} /\ exportOld' => Todo'
             /\ phase' = "export" /\ exportOld' => changed'
             /\ Success' => ~exportOld'
  <2>1. phase = "generate" /\ phase' = "generate" /\ result' # "success"
    BY <1>4, GeneratorFacts DEF Fresh
  <2>2. newerThanArchive' # {}
    BY <1>4 DEF GenerateObjectCode
  <2> QED
    BY <2>1, <2>2
<1>5. CASE Archive
  <2> USE <1>5 DEF Archive
  <2>1. /\ Whole /\ UNCHANGED <<exportOld, changed>> /\ result' # "success"
        /\ phase = "archive"
    BY DEF Whole, sourceVars, Fresh
  <2>2. \A u \in Units : ~Changed(u)
    BY <2>1 DEF Rebuilt, Whole, Changed
  <2>3. exportOld => newerThanArchive # {}
    BY <2>1, <2>2 DEF Exported
  <2> QED
    BY <2>1, <2>3
<1>6. CASE \E last \in 0..NumUnits : RunAr(last)
  BY <1>6 DEF RunAr, Fresh
<1>7. CASE Export
  <2>1. Whole /\ phase = "export" /\ phase' = "idle"
    BY <1>7 DEF Export, Whole, sourceVars, Ends, Memory
  <2>2. ~exportOld'
    BY <1>7, <2>1 DEF Export, Exported
  <2> QED
    BY <2>1, <2>2
<1>8. CASE OtherProjectFails \/ BindError \/ ParseError \/ JoinFailed \/ ArFails \/ Crash
  <2>1. /\ UNCHANGED <<events, newer, newerThanArchive, exportOld>>
        /\ phase' = "idle" /\ result' = "failure"
    BY <1>8, EndFacts
  <2>2. Whole
    BY <2>1 DEF Whole
  <2>3. phase \notin {"ar", "export"}
    BY <1>8, <2>2, ArDoesNotFail DEF OtherProjectFails, BindError, ParseError, JoinFailed
  <2> QED
    BY <2>1, <2>2, <2>3 DEF Exported, Changed
<1>9. CASE UNCHANGED vars
  BY <1>9 DEF vars, fileVars, libraryVars, sourceVars, Exported, Whole, Changed
<1>10. CASE /\ UNCHANGED <<events, newer, newerThanArchive, exportOld>>
            /\ phase \notin {"ar", "export"} /\ phase' \notin {"ar", "export"}
            /\ result' \in {"none", result}
  BY <1>10 DEF Exported, Whole, Changed
<1>11. ASSUME \/ BuildLibrary
              \/ \E m \in {"build", "rebuild", "compile"}, files \in SUBSET Units :
                   phase \in {"idle", "solution"} /\ BuildProject(m, files)
              \/ ScanUnit \/ SkipUnit \/ StartGenerators \/ JoinGenerators
              \/ WriteDependencyFile
       PROVE  /\ UNCHANGED <<events, newer, newerThanArchive, exportOld>>
              /\ phase \notin {"ar", "export"} /\ phase' \notin {"ar", "export"}
              /\ result' \in {"none", result}
  BY <1>11 DEF BuildLibrary, BuildProject, ScanUnit, SkipUnit, StartGenerators,
     JoinGenerators, WriteDependencyFile, Advance, sourceVars, fileVars, libraryVars
<1>12. ASSUME \E w \in Workers : GetNext(w) \/ Stopping(w) \/ GenerateFails(w)
       PROVE  /\ UNCHANGED <<events, newer, newerThanArchive, exportOld>>
              /\ phase \notin {"ar", "export"} /\ phase' \notin {"ar", "export"}
              /\ result' \in {"none", result}
  <2>1. phase = "generate" /\ phase' = "generate" /\ result' = result
    BY <1>12, GeneratorFacts
  <2> QED
    BY <1>12, <2>1, BetweenFacts
<1> QED
  BY <1>1, <1>2, <1>3, <1>4, <1>5, <1>6, <1>7, <1>8, <1>9, <1>10, <1>11, <1>12, NextCases
----------------------------------------------------------------------------
FilesInv == /\ Unfailing /\ NoErrors /\ DependentsRead /\ Written /\ CallsSeen
            /\ CallsRecorded /\ EditsRecorded /\ LibraryRecorded
            /\ MissingObjects /\ FromTheFirst /\ Archived /\ Exported

LEMMA FilesInvInit == Init => FilesInv
<1> SUFFICES ASSUME Init PROVE FilesInv
  OBVIOUS
<1> USE UnitsFacts
<1>1. phase = "idle" /\ result = "none" /\ mode = "build" /\ bad = {} /\ failed = {}
      /\ exportOld = TRUE /\ newerThanArchive = Units
  BY DEF Init, NoFiles
<1>2. \A u \in Units : newer[u] = Pairs
  BY DEF Init, NoFiles
<1>3. \A u \in Units : Changed(u) /\ <<"src", "obj">> \in newer[u]
  BY <1>2 DEF Changed, Pairs
<1>4. Unfailing /\ NoErrors /\ DependentsRead /\ Written /\ CallsSeen
  BY <1>1 DEF Unfailing, NoErrors, DependentsRead, Written, CallsSeen, Compiling
<1>5. CallsRecorded /\ EditsRecorded /\ LibraryRecorded
  BY <1>3 DEF CallsRecorded, EditsRecorded, LibraryRecorded
<1>6. MissingObjects /\ FromTheFirst /\ Archived /\ Exported
  BY <1>1, <1>3 DEF MissingObjects, FromTheFirst, Archived, Exported, Success
<1> QED
  BY <1>4, <1>5, <1>6 DEF FilesInv

LEMMA FilesInvStep == IInv /\ FilesInv /\ [Next]_vars => FilesInv'
<1> SUFFICES ASSUME IInv, FilesInv, [Next]_vars PROVE FilesInv'
  OBVIOUS
<1>1. FilesOK /\ BuildOK /\ Fresh /\ Marks /\ Queued /\ Dispatched /\ Rebuilt
  BY TypeParts DEF IInv
<1>2. Unfailing /\ NoErrors /\ DependentsRead /\ Written /\ CallsSeen /\ CallsRecorded
      /\ EditsRecorded /\ LibraryRecorded
      /\ MissingObjects /\ FromTheFirst /\ Archived /\ Exported
  BY DEF FilesInv
<1>3. Unfailing' /\ NoErrors' /\ DependentsRead' /\ Written' /\ CallsSeen'
  BY <1>1, <1>2, UnfailingStep, NoErrorsStep, DependentsReadStep, WrittenStep,
     CallsSeenStep
<1>4. CallsRecorded' /\ EditsRecorded' /\ LibraryRecorded'
  BY <1>1, <1>2, CallsRecordedStep, EditsRecordedStep, LibraryRecordedStep
<1>5. MissingObjects' /\ FromTheFirst' /\ Archived' /\ Exported'
  BY <1>1, <1>2, MissingObjectsStep, FromTheFirstStep, ArchivedStep, ExportedStep
<1> QED
  BY <1>3, <1>4, <1>5 DEF FilesInv

(* After a build that succeeds every object is up to date with its own     *)
(* source and those of the units it calls, if only errors in sources have  *)
(* come between builds, and with the library, if only its changes have;    *)
(* whatever else of a unit it uses, a class layout or a constant, may have *)
(* been edited without its being compiled again.                           *)
THEOREM CallersAreCompiledAgain == Spec => []CallersAreCurrent
<1>1. ASSUME IInv, FilesInv, Success,
             \/ events \subseteq {"error", "arFails", "longPath", "refers"}
             \/ LibraryAlone,
             NEW v \in Units
      PROVE  edited[v] \subseteq refers[v]
  <2>1. Orderly /\ "compile" \notin events
    BY <1>1 DEF Orderly, LibraryAlone
  <2>2. phase = "idle"
    BY <1>1 DEF IInv, Fresh, Success
  <2>3. \A u \in Units : ~Changed(u)
    BY <1>1, <2>1 DEF IInv, Rebuilt, Changed
  <2>4. Library \notin edited[v]
    BY <1>1, <2>2, <2>3 DEF FilesInv, LibraryRecorded, Compiling
  <2>5. ASSUME NEW u \in Units, u \notin refers[v] PROVE u \notin edited[v]
    <3>1. u \in edited[v] => Stale(u, v)
      BY <1>1, <2>1, <2>3, <2>5 DEF FilesInv, EditsRecorded, Stale
    <3> QED
      BY <1>1, <2>1, <2>3, <3>1 DEF IInv, StaleIsNoticed
  <2>6. edited[v] \subseteq Units \cup {Library}
    BY <1>1 DEF IInv, TypeOK
  <2> QED
    BY <2>4, <2>5, <2>6
<1>2. IInv /\ FilesInv => CallersAreCurrent
  BY <1>1 DEF CallersAreCurrent, LibraryAlone
<1> QED
  BY IInvInit, IInvStep, FilesInvInit, FilesInvStep, <1>2, PTL DEF Spec

(* The archive holds the present objects and the .cml file is that of the  *)
(* present sources after a build that succeeds, whatever errors, failing   *)
(* tools and other projects have stopped earlier builds.                   *)
THEOREM LibraryIsComplete == Spec => []LibraryFilesAreCurrent
<1>1. FilesInv => LibraryFilesAreCurrent
  BY DEF FilesInv, Archived, Exported, Whole, LibraryFilesAreCurrent
<1> QED
  BY IInvInit, IInvStep, FilesInvInit, FilesInvStep, <1>1, PTL DEF Spec
============================================================================

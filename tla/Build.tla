------------------------------- MODULE Build -------------------------------
(***************************************************************************)
(* Cm.Build: the incremental build of one project.  A build decides which  *)
(* compile units to compile again from the write times of files and from   *)
(* the dependency and change files earlier builds left, compiles them,     *)
(* has worker threads generate their object code, writes the dependency    *)
(* files and makes the library's archive and symbol file.                  *)
(*                                                                         *)
(* Files outlive the build, everything else is lost when it ends.  Sources *)
(* are edited between builds only, and no two writes get the same time.    *)
(* Of the contents of an object it matters only which of the sources it    *)
(* was compiled from have been edited since.                               *)
(***************************************************************************)
EXTENDS Naturals, Sequences, FiniteSets

CONSTANTS
  NumUnits,   \* number of compile units; a unit is its place in the project
  Workers,    \* threads that generate object code, one per core
  Events,     \* what may happen besides plain builds of correct sources:
              \* a set of sets, of which a behaviour has one
  LongPaths,  \* units whose object has a path too long for a command of ar
  Library,    \* the project this one uses, built earlier in the solution
  Ready, Finished   \* a worker without a unit, before and after the last

Units == 1..NumUnits

AllEvents == {"refers",         \* a unit uses another without calling it
              "error",          \* a source does not compile
              "library",        \* the library is built in the same solution
              "compile",        \* the -c option: compile single files
              "toolFails",      \* llc or gcc fails
              "arFails",        \* ar fails
              "longPath",       \* there are paths as in LongPaths
              "crash",          \* the compiler is killed
              "projectFails"}   \* a build of the solution stops in between

ASSUME BuildAssumption ==
  /\ NumUnits \in Nat \ {0}   \* Compile returns at once without units
  /\ Workers # {}        \* hardware_concurrency() is not 0
  /\ Events \subseteq SUBSET AllEvents /\ LongPaths \subseteq Units
  /\ Library \notin Nat /\ Ready \notin Nat /\ Finished \notin Nat
  /\ Ready # Finished

VARIABLES
  events,       \* what may happen in this behaviour
  calls,        \* the units whose functions the source of a unit calls
  refers,       \* the units of which it uses something else only: constants,
                \* enumerations, the layout of classes
  bad,          \* units whose source does not compile
  newer,        \* per unit, the pairs of its source, IR and object files of
                \* which the first is newer, or the second is missing
  edited,       \* per unit, what its object was compiled from and that was
                \* edited since; a missing object counts as made of nothing
  depFile,      \* .dep files
  chgFile,      \* units with a .chg file
  objects,      \* units that have an object file
  newerThanArchive,   \* units whose object is newer than the archive
  inArchive,    \* units whose present object is in the archive
  exportOld,    \* a source was edited since the .cml file was written
  phase, mode, result,
  compileFiles, \* the files of the -c option
  index,        \* the loop variable of the sequential phases
  dependents,   \* dependentUnits
  buildSet,
  queue,        \* objectCodeCompileUnits still to be taken by a worker
  job,          \* per worker, the unit it generates, Ready for one or Finished
  stop, failed, \* of CodeGenerationContext
  changed

sourceVars == <<events, calls, refers, bad, edited>>
fileVars == <<newer, depFile, chgFile>>
libraryVars == <<objects, newerThanArchive, inArchive, exportOld>>
scanVars == <<mode, compileFiles, buildSet>>
workerVars == <<queue, job, stop, failed>>
vars == <<sourceVars, fileVars, libraryVars, phase, result, scanVars, index,
          dependents, workerVars, changed>>

Pairs == {<<"src", "ir">>, <<"src", "obj">>, <<"ir", "obj">>}
WriteSource(n) == n \cup {<<"src", "ir">>, <<"src", "obj">>}
WriteIr(n) == (n \ {<<"src", "ir">>}) \cup {<<"ir", "obj">>}
WriteObject(n) == n \ {<<"src", "obj">>, <<"ir", "obj">>}

Changed(u) == newer[u] # {}

(* What the object of u is compiled from. *)
Uses(u) == {u, Library} \cup calls[u] \cup refers[u]

Memory(ph, res) ==
  /\ phase' = ph /\ result' = res /\ index' = 1
  /\ dependents' = [u \in Units |-> {}]
  /\ compileFiles' = {} /\ buildSet' = {}
  /\ queue' = <<>> /\ job' = [w \in Workers |-> Finished]
  /\ stop' = FALSE /\ failed' = {} /\ changed' = FALSE

Ends(res) == Memory("idle", res) /\ mode' = mode

NoFiles ==
  /\ newer = [u \in Units |-> Pairs]
  /\ depFile = [u \in Units |-> {}]
  /\ chgFile = {} /\ objects = {}
  /\ newerThanArchive = Units /\ inArchive = {} /\ exportOld = TRUE

(* The units a unit may use without a call, when it calls those in called. *)
MayRefer(u, called) ==
  IF "refers" \in events THEN SUBSET (Units \ (called \cup {u})) ELSE {{}}

Init ==
  /\ events \in Events
  /\ calls \in [Units -> SUBSET Units] /\ \A u \in Units : u \notin calls[u]
  /\ refers \in [Units -> SUBSET Units]
  /\ \A u \in Units : refers[u] \in MayRefer(u, calls[u])
  /\ bad = {}
  /\ edited = [u \in Units |-> Uses(u)]
  /\ NoFiles
  /\ phase = "idle" /\ mode = "build" /\ result = "none" /\ index = 1
  /\ dependents = [u \in Units |-> {}]
  /\ compileFiles = {} /\ buildSet = {}
  /\ queue = <<>> /\ job = [w \in Workers |-> Finished]
  /\ stop = FALSE /\ failed = {} /\ changed = FALSE
----------------------------------------------------------------------------
(* Between builds a source is edited: it may call other units or refer to  *)
(* them, and errors may come and go in it and in the units that use it.    *)
EditSource(u, called, referred, broken) ==
  /\ phase = "idle"
  /\ calls' = [calls EXCEPT ![u] = called]
  /\ refers' = [refers EXCEPT ![u] = referred]
  /\ bad' = broken
  /\ edited' = [v \in Units |-> IF u \in Uses(v) THEN edited[v] \cup {u}
                                                 ELSE edited[v]]
  /\ newer' = [newer EXCEPT ![u] = WriteSource(@)]
  /\ exportOld' = TRUE /\ result' = "none"
  /\ UNCHANGED <<events, depFile, chgFile, objects, newerThanArchive, inArchive,
                 phase, scanVars, index, dependents, workerVars, changed>>

(* The errors an edit of u may leave. *)
Errors(u) ==
  IF "error" \notin events THEN {{}}
  ELSE {b \in SUBSET Units :
          \A v \in Units : u \notin Uses(v) => (v \in b <=> v \in bad)}

CleanProject ==
  /\ phase = "idle"
  /\ newer' = [u \in Units |-> Pairs]
  /\ depFile' = [u \in Units |-> {}]
  /\ chgFile' = {} /\ objects' = {}
  /\ newerThanArchive' = Units /\ inArchive' = {} /\ exportOld' = TRUE
  /\ edited' = [u \in Units |-> edited[u] \cup Uses(u)]
  /\ result' = "none"
  /\ UNCHANGED <<events, calls, refers, bad, phase, scanVars, index, dependents,
                 workerVars, changed>>

(* A solution is built: an earlier project has changed, which makes        *)
(* rebuild true for the later ones, and perhaps errors of their sources.   *)
(* The build may not get to them.                                          *)
BuildLibrary ==
  /\ phase = "idle" /\ "library" \in events
  /\ phase' = "solution" /\ result' = "none"
  /\ edited' = [u \in Units |-> edited[u] \cup {Library}]
  /\ bad' \in IF "error" \in events THEN SUBSET Units ELSE {bad}
  /\ UNCHANGED <<events, calls, refers, fileVars, libraryVars, scanVars, index,
                 dependents, workerVars, changed>>

OtherProjectFails ==
  /\ phase = "solution" /\ "projectFails" \in events
  /\ Ends("failure")
  /\ UNCHANGED <<sourceVars, fileVars, libraryVars>>

(* BuildProject begins with a plain build, with -c or with rebuild. *)
BuildProject(m, files) ==
  /\ m = "compile" => "compile" \in events
  /\ (m = "compile") <=> (files # {})
  /\ phase' = IF m = "rebuild" THEN "compile" ELSE "scan"
  /\ mode' = m /\ compileFiles' = files /\ result' = "none" /\ index' = 1
  /\ UNCHANGED <<sourceVars, fileVars, libraryVars, dependents, buildSet,
                 workerVars, changed>>
----------------------------------------------------------------------------

Advance(next) ==
  IF index < NumUnits THEN phase' = phase /\ index' = index + 1
                      ELSE phase' = next /\ index' = 1

OutdatedAlone(u, deps) == {u}

Outdated(u, deps) == {u} \cup deps

ReadDependencyFile(u) == dependents[u] \cup depFile[u]

HasChangedFile(u) == u \in chgFile

(* Compile, not rebuild: which units to compile again.  A unit compiled    *)
(* with -c has left a .chg file to have its dependents compiled now.       *)
ScanUnit ==
  LET u == index
      deps == ReadDependencyFile(u)
      marked == HasChangedFile(u)
  IN
  /\ phase = "scan"
  /\ dependents' = [dependents EXCEPT ![u] = deps]
  /\ \/ /\ mode = "compile"
        /\ chgFile' = chgFile \cup ({u} \cap compileFiles)
        /\ buildSet' = buildSet \cup ({u} \cap compileFiles)
     \/ /\ mode = "build" /\ marked
        /\ chgFile' = chgFile \ {u}
        /\ buildSet' = buildSet \cup deps
     \/ /\ mode = "build" /\ ~marked /\ Changed(u)
        /\ buildSet' = buildSet \cup Outdated(u, deps)
        /\ UNCHANGED chgFile
     \/ /\ mode = "build" /\ ~marked /\ ~Changed(u)
        /\ UNCHANGED <<chgFile, buildSet>>
  /\ Advance("compile")
  /\ UNCHANGED <<sourceVars, newer, depFile, libraryVars, result, mode,
                 compileFiles, workerVars, changed>>

Building(u) == mode = "rebuild" \/ u \in buildSet

(* With each call generated in v, v is made a dependent of the unit        *)
(* called; nothing else it uses is recorded.                               *)
AddNoDependentUnit(v) == dependents

AddDependentUnit(v) ==
  [u \in Units |-> IF u \in calls[v] THEN dependents[u] \cup {v} ELSE dependents[u]]

(* Bind and Emit: the IR file is written. *)
CompileUnit ==
  /\ phase = "compile" /\ Building(index) /\ index \notin bad
  /\ newer' = [newer EXCEPT ![index] = WriteIr(@)]
  /\ dependents' = AddDependentUnit(index)
  /\ queue' = Append(queue, index)
  /\ changed' = TRUE
  /\ Advance("start")
  /\ UNCHANGED <<sourceVars, depFile, chgFile, libraryVars, result, scanVars,
                 job, stop, failed>>

BindError ==
  /\ phase = "compile" /\ Building(index) /\ index \in bad
  /\ Ends("failure")
  /\ UNCHANGED <<sourceVars, fileVars, libraryVars>>

(* Parsing, symbol table and prebinding take in all sources, before any    *)
(* file is written.                                                        *)
ParseError ==
  /\ bad # {} /\ index = 1
  /\ phase = "scan" \/ (phase = "compile" /\ mode = "rebuild")
  /\ Ends("failure")
  /\ UNCHANGED <<sourceVars, fileVars, libraryVars>>

SkipUnit ==
  /\ phase = "compile" /\ ~Building(index)
  /\ Advance("start")
  /\ UNCHANGED <<sourceVars, fileVars, libraryVars, result, scanVars,
                 dependents, workerVars, changed>>
----------------------------------------------------------------------------
(* Object code: every core gets a thread, or, for a single unit, one       *)
(* thread, the main one, does it.                                          *)
StartGenerators ==
  /\ phase = "start" /\ phase' = "generate"
  /\ \E W \in SUBSET Workers :
       /\ IF Len(queue) > 1 THEN W = Workers ELSE \E w \in W : W = {w}
       /\ job' = [w \in Workers |-> IF w \in W THEN Ready ELSE Finished]
  /\ UNCHANGED <<sourceVars, fileVars, libraryVars, result, scanVars, index,
                 dependents, queue, stop, failed, changed>>

(* GetNextCompileUnitIndex, under the mutex. *)
GetNext(w) ==
  /\ job[w] = Ready
  /\ \/ /\ queue = <<>>
        /\ job' = [job EXCEPT ![w] = Finished] /\ UNCHANGED queue
     \/ /\ queue # <<>>
        /\ job' = [job EXCEPT ![w] = Head(queue)] /\ queue' = Tail(queue)
  /\ UNCHANGED <<sourceVars, fileVars, libraryVars, phase, result, scanVars,
                 index, dependents, stop, failed, changed>>

(* Another worker has failed: the unit taken is dropped.  stop is read     *)
(* without the mutex, so that a worker may also still find it false.       *)
Stopping(w) ==
  /\ job[w] \in Units /\ stop
  /\ job' = [job EXCEPT ![w] = Finished]
  /\ UNCHANGED <<sourceVars, fileVars, libraryVars, phase, result, scanVars,
                 index, dependents, queue, stop, failed, changed>>

GenerateObjectCode(w) ==
  LET u == job[w] IN
  /\ u \in Units
  /\ newer' = [newer EXCEPT ![u] = WriteObject(@)]
  /\ edited' = [edited EXCEPT ![u] = {}]
  /\ objects' = objects \cup {u}
  /\ newerThanArchive' = newerThanArchive \cup {u}
  /\ inArchive' = inArchive \ {u}
  /\ job' = [job EXCEPT ![w] = Ready]
  /\ UNCHANGED <<events, calls, refers, bad, depFile, chgFile, exportOld, phase,
                 result, scanVars, index, dependents, queue, stop, failed, changed>>

LoseException(u) == failed

SetException(u) == failed \cup {u}

GenerateRetried(w) ==
  /\ job[w] \in Units /\ "toolFails" \in events
  /\ queue' = Append(queue, job[w])
  /\ job' = [job EXCEPT ![w] = Ready]
  /\ UNCHANGED <<sourceVars, fileVars, libraryVars, phase, result, scanVars,
                 index, dependents, stop, failed, changed>>

(* The tool fails, and the catch clause of the thread ends it. *)
GenerateFails(w) ==
  /\ job[w] \in Units /\ "toolFails" \in events
  /\ failed' = SetException(job[w]) /\ stop' = TRUE
  /\ job' = [job EXCEPT ![w] = Finished]
  /\ UNCHANGED <<sourceVars, fileVars, libraryVars, phase, result, scanVars,
                 index, dependents, queue, changed>>

NoExceptionSeen == TRUE

NoException == failed = {}

(* The threads are joined, and an exception of one of them ends the build. *)
JoinFailed ==
  /\ phase = "generate" /\ \A w \in Workers : job[w] = Finished
  /\ ~NoException
  /\ Ends("failure")
  /\ UNCHANGED <<sourceVars, fileVars, libraryVars>>

JoinGenerators ==
  /\ phase = "generate" /\ \A w \in Workers : job[w] = Finished
  /\ NoException
  /\ phase' = "depend"
  /\ UNCHANGED <<sourceVars, fileVars, libraryVars, result, scanVars, index,
                 dependents, workerVars, changed>>

(* WriteDependencyFile, for every unit: the dependents read and those      *)
(* found by this build.                                                    *)
WriteDependencyFile ==
  /\ phase = "depend"
  /\ depFile' = [depFile EXCEPT ![index] = dependents[index]]
  /\ Advance("archive")
  /\ UNCHANGED <<sourceVars, newer, chgFile, libraryVars, result, scanVars,
                 dependents, workerVars, changed>>
----------------------------------------------------------------------------
(* Archive: if an object is newer or missing, the archive is removed and   *)
(* made again.                                                             *)
Archive ==
  /\ phase = "archive"
  /\ \/ newerThanArchive = {} /\ objects = Units /\ phase' = "export"
        /\ UNCHANGED <<newerThanArchive, inArchive>>
     \/ /\ newerThanArchive # {} \/ objects # Units
        /\ phase' = "ar" /\ newerThanArchive' = Units /\ inArchive' = {}
  /\ UNCHANGED <<sourceVars, fileVars, objects, exportOld, result, scanVars, index,
                 dependents, workerVars, changed>>

BatchShort(last) == index..(last - 1)

Batch(last) == index..last

(* A command line of ar takes the next objects that fit into 2047          *)
(* characters, none if the first of them does not.                         *)
Fits(u) == "longPath" \notin events \/ u \notin LongPaths

Batches ==
  IF Fits(index) THEN {last \in index..NumUnits : \A u \in index..last : Fits(u)}
                 ELSE {index - 1}

(* ar, which makes the archive if there is none.  After an empty batch the *)
(* same objects are still to be archived.                                  *)
RunAr(last) ==
  /\ phase = "ar" /\ last \in Batches /\ Batch(last) \subseteq objects
  /\ inArchive' = inArchive \cup Batch(last)
  /\ newerThanArchive' = {}
  /\ IF last = NumUnits THEN phase' = "export" /\ index' = 1 /\ changed' = TRUE
     ELSE phase' = "ar" /\ index' = last + 1 /\ changed' = changed
  /\ UNCHANGED <<sourceVars, fileVars, objects, exportOld, result, scanVars,
                 dependents, workerVars>>

(* ar fails, for one thing if an object is missing. *)
ArFails ==
  /\ phase = "ar"
  /\ "arFails" \in events \/ \E last \in Batches : ~(Batch(last) \subseteq objects)
  /\ Ends("failure")
  /\ UNCHANGED <<sourceVars, fileVars, libraryVars>>

(* The .cml file is exported from the symbol table if anything changed. *)
Export ==
  /\ phase = "export"
  /\ exportOld' = (exportOld /\ ~changed)
  /\ Ends("success")
  /\ UNCHANGED <<sourceVars, fileVars, objects, newerThanArchive, inArchive>>

(* The compiler is killed, perhaps while it writes a .dep file. *)
Crash ==
  /\ phase # "idle" /\ "crash" \in events
  /\ \/ UNCHANGED depFile
     \/ /\ phase = "depend"
        /\ \E some \in SUBSET dependents[index] :
             depFile' = [depFile EXCEPT ![index] = some]
  /\ Ends("failure")
  /\ UNCHANGED <<sourceVars, newer, chgFile, libraryVars>>
----------------------------------------------------------------------------
Edit == \E u \in Units : \E called \in SUBSET (Units \ {u}), broken \in Errors(u) :
          \E referred \in MayRefer(u, called) :
            EditSource(u, called, referred, broken)
StartBuild == /\ phase = "idle"
              /\ \E m \in {"build", "rebuild", "compile"}, files \in SUBSET Units :
                   BuildProject(m, files)
Generator(w) == \/ GetNext(w)
                \/ Stopping(w)
                \/ GenerateObjectCode(w)
                \/ GenerateFails(w)
Work == \/ phase = "solution" /\ BuildProject("rebuild", {})
        \/ ScanUnit
        \/ CompileUnit
        \/ BindError
        \/ ParseError
        \/ SkipUnit
        \/ StartGenerators
        \/ \E w \in Workers : Generator(w)
        \/ JoinFailed
        \/ JoinGenerators
        \/ WriteDependencyFile
        \/ Archive
        \/ \E last \in 0..NumUnits : RunAr(last)
        \/ ArFails
        \/ Export

Next == \/ Edit
        \/ CleanProject
        \/ BuildLibrary
        \/ OtherProjectFails
        \/ StartBuild
        \/ Work
        \/ Crash

Spec == Init /\ [][Next]_vars

(* A build that has begun goes on: no step of it waits for the developer. *)
FairSpec == Spec /\ WF_vars(Work)
----------------------------------------------------------------------------
TypeOK ==
  /\ events \in SUBSET AllEvents
  /\ calls \in [Units -> SUBSET Units] /\ refers \in [Units -> SUBSET Units]
  /\ bad \subseteq Units
  /\ newer \in [Units -> SUBSET Pairs]
  /\ edited \in [Units -> SUBSET (Units \cup {Library})]
  /\ depFile \in [Units -> SUBSET Units] /\ chgFile \subseteq Units
  /\ objects \subseteq Units /\ newerThanArchive \subseteq Units
  /\ inArchive \subseteq Units
  /\ exportOld \in BOOLEAN
  /\ phase \in {"idle", "solution", "scan", "compile", "start", "generate",
                "depend", "archive", "ar", "export"}
  /\ mode \in {"build", "rebuild", "compile"}
  /\ result \in {"none", "success", "failure"}
  /\ compileFiles \subseteq Units /\ buildSet \subseteq Units
  /\ index \in Units /\ dependents \in [Units -> SUBSET Units]
  /\ queue \in Seq(Units)
  /\ job \in [Workers -> Units \cup {Ready, Finished}]
  /\ stop \in BOOLEAN /\ failed \subseteq Units /\ changed \in BOOLEAN

Success == result = "success"

(* What a build that stopped halfway, by an error in a source, a failing   *)
(* tool or the death of the compiler, has left to do is noticed by the     *)
(* next: if the object of v was compiled from an older version of u, v     *)
(* itself or a unit that knows v as its dependent, one of the two has a    *)
(* file older than it should be.  It holds because Compile emits the IR of *)
(* all units before it generates the first object.                         *)
Stale(u, v) == u \in edited[v] /\ (u = v \/ v \in depFile[u])
StaleIsNoticed ==
  "compile" \notin events =>
    \A u, v \in Units : Stale(u, v) => Changed(u) \/ Changed(v)

(* After a rebuild that succeeds every object is up to date with the       *)
(* sources and the library it was compiled from, whatever happened before  *)
(* and whichever worker generated it or failed to.                         *)
RebuildMakesCurrent ==
  Success /\ mode = "rebuild" => \A u \in Units : edited[u] = {}

(* After any build that succeeds they are, but for the units an object     *)
(* uses without calling them, if nothing but errors in sources, or nothing *)
(* but changes of the library, have come between.  An object that uses a   *)
(* constant or the layout of a class of another unit may stay as it was    *)
(* when that is edited: only calls are recorded.                           *)
CallersAreCurrent ==
  /\ Success
  /\ \/ events \subseteq {"error", "arFails", "longPath", "refers"}
     \/ events \subseteq {"library", "arFails", "longPath", "refers"}
  => \A u \in Units : edited[u] \subseteq refers[u]

(* A build that succeeds leaves nothing for the next one to compile,       *)
(* unless single files were compiled with -c.                              *)
NothingLeftToCompile ==
  Success /\ "compile" \notin events => \A u \in Units : ~Changed(u)

(* The archive and the .cml file are those of the present objects and      *)
(* sources after a build that succeeds, also if earlier builds did not get *)
(* to them.                                                                *)
LibraryFilesAreCurrent ==
  Success /\ events \subseteq {"error", "library", "toolFails", "projectFails"}
    => inArchive = Units /\ ~exportOld

(* Every build ends, no worker is left and no loop runs on, if the path of *)
(* every object fits into a command of ar; if one does not, ar is run for  *)
(* ever.                                                                   *)
BuildEnds ==
  (phase # "idle" /\ "longPath" \notin events) ~> (phase = "idle")
============================================================================

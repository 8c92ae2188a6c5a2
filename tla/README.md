# Cmajor: specifications of the debugger, the build driver, the compiler's front end and the class identifiers

This directory holds TLA+ specifications of parts of Cmajor (compiler `cmc`,
debugger `cmdb`, tools and runtime library), TLC configurations that check them
on small instances, and TLAPS proofs about them. `PROJECT.json` links every
definition to the lines it models, lists the runs, the findings, the hazards
and the theorems.

Check a configuration with `tlc -config Build_incremental.cfg MCBuild`, a proof
with `tlapm BuildProofs.tla`.

## 1. The system

### Inventory

| component | state it keeps | operations, and who calls them | hard behaviour | what makes it correct | here |
|---|---|---|---|---|---|
| Cm.Debugger, gdb channel (`Gdb.cpp`) | two flags, two mutexes, two condition variables, a command pointer, two pipes to gdb, the parse state of a reply | `ExecuteCommand` by the shell thread, `DoRun` in the gdb thread | two threads, a byte stream cut anywhere, gdb ending by itself | every command is answered once, by its own whole answer | `GdbChannel` |
| Cm.Debugger, input reader and command loop (`InputReader.cpp`, `Shell.cpp`) | a one-line slot, a permission to read, flags `exiting` and `redirecting` | `Run` in the reader thread, `GetLine`, `Proceed`, `Exit` by the shell | two threads, the program debugged shares the input | lines are executed in order, nobody waits for ever | `InputReader` |
| Cm.Debugger, breakpoints and stepping (`Command.cpp`, `DebugInfo.cpp`) | maps number -> breakpoint and line -> breakpoint, throw and catch nodes, current node, state | the commands of the user, executed by the shell, each a sequence of gdb commands | three kinds of breakpoints share lines; gdb clears by line | maps sound, a current node, nothing temporary left | `Breakpoints` |
| Cm.Debugger, parsers (`GdbReply.cpp`, `Interpreter.cpp`, ...) | none between calls | called by the gdb thread and the commands | what gdb prints is not specified | one reading of each reply | grammar modules, `Syntax` |
| Cm.Debugger, printers and transports | none | called by the commands | - | print what was inspected | no |
| Cm.Build (`Build.cpp`) | files: IR, objects, `.dep`, `.chg`, archive, `.cml`, ids; during a build: the build set, the queue of units, exceptions | `BuildProject`, `BuildSolution`, `CleanProject` called by cmc | worker threads, an error, failing tool or kill between any two writes, staleness by write times | a build that succeeds leaves objects, archive and library file that are those of the sources | `Build` |
| Cm.Compiler | options | runs Cm.Build | - | - | no |
| Cm.Parser (`Expression.cpp`, `Statement.cpp`, `Class.cpp`, ...) | the flags of a `ParsingContext`, pushed and popped by grammar actions | `Grammar::Parse`, called by Cm.Build in parser threads, one context each | declarations against expressions, expectations that end the parse, flags of branches given up | a text has one reading, the one its grammar derives | grammar modules, `Syntax` |
| Syntax trees (Cm.Ast, symbols of Cm.Sym, repositories of Cm.Bind) | the trees of templates, inline and constexpr functions and concepts, which outlive their file: in memory, in a library file, read again on demand | parsers make them, `Write`/`Read`/`CloneContext`, instantiation | four functions per class of node that must agree; positions whose file has another number in another project; who frees a tree that was read | what the binder gets is the source | `Templates` |
| Cm.Ast, the rest | build order of a solution | Cm.Build | - | order of a solution's projects | planned |
| class identifiers over builds (Cm.Build, Cm.Sym, Cm.Emit, `class_hierarchy.cpp`) | counter file, `.cid` files, identifiers in objects, the program's hierarchy table | each build that declares classes; "is" and "as" at run time | identifiers that outlive a build, builds that fail | "is" knows derived classes and no others | `ClassIds` |
| Cm.Sym, the rest | symbol table, library files, interface and function ids | Cm.Build, Cm.Bind | - | - | no |
| Cm.Bind, evaluation at compile time (`Evaluator.cpp`, `Constant.cpp`, Cm.Sym's `Value.cpp`) | a stack of values, scopes of constexpr calls and blocks, flags of return, break and continue, the values of constants | binder: constants, enumerations, case labels, array bounds, constraints, calls of constexpr functions | re-entrance (a constant binds another, a cast starts an evaluator), failures that must stay silent or must not | the value is the one of run time | `Evaluator` |
| Cm.Bind, the rest, Cm.BoundTree, Cm.Core, Cm.Ser | bound trees of one unit | Cm.Build, per unit | overload resolution, templates bound on demand | translation | no |
| Cm.Emit, Cm.IrIntf, Ir.Intf, Llvm.Ir, C.Ir, Dwarf | the text written | Cm.Build, per unit | order of destructors and landing pads | translation | no |
| Cm.Opt, class identifiers (`ClassId.cpp`) | keys and identifiers of the classes | linking in the full configuration | a key sequence that begins again, ties, products modulo 2^64 | an identifier is divided by those of its bases only | `ClassKeys` |
| Cm.Opt, type propagation | type propagation graph | full configuration | fixed point | only calls with one target are made direct | no |
| Cm.Parsing (`Composite.cpp`, `Primitive.cpp`, `StdLib.cpp`, ...) | position of a scanner, token counter, stacks of objects | the generated parsers | backtracking; rules that come back to themselves | every parse ends, a parser that goes back leaves no trace | `Parsing`, `StdLib` |
| Cm.Parsing.Cpp, Cm.Parsing.Syntax | - | the parser generator reads grammar files | as above | as above | `ParserFileGrammar`, `CppGrammar` |
| Cm.Parsing.CppObjectModel, generation of parsers | an object model of C++ | the parser generator | - | printing | no |
| Cm.Profiler, Cm.Unit, Cm.Util, Sockets, small tools | a run's data | command lines | - | - | no |
| system: runtime (C files, `exception.cm`, `ptr.cm`) | thread table, exception slots, reference counts, debug heap | every Cmajor program | threads on an unlocked table, re-entrant destructors | each thread finds its own exception; objects die once, after the last use | planned |
| system: containers | hash table, red-black tree | Cmajor programs | rebalancing, rehashing | implements a set | planned |
| system/ext, cmcm, examples, test, unicode, doc | - | - | - | - | no |

### How the parts interact

`cmdb` has three threads. The *input reader* reads lines and hands each to the
*shell*, or writes it to gdb's pipe while the program runs. The shell executes
commands; each sends one or several gdb commands through
`Gdb::ExecuteCommand`. The *gdb thread* owns the pipes, recognises the end of a
reply by gdb's prompt and attaches the reply to the command. What the commands
do with the replies (breakpoint tables, stepping loop) happens in the shell
thread alone. Hence three modules: one per hand-over, each with both of its
threads, and one for the tables, where a gdb command is one step.

`cmc` parses the sources with a pool of threads, then decides, binds and emits
unit by unit in one thread, then generates object code with a pool of threads,
then archives, links and exports in one thread. Builds communicate with later
builds through files only, which is where the errors are: a build may stop
between any two writes.

## 2. The modules

| module | models | lines |
|---|---|---|
| `CommandService` | the abstract specification of a command channel: called, answered, returned | - |
| `GdbChannel`, `GdbChannelProofs` | `Gdb.cpp`, both threads, the pipes, gdb and the program as environment | `Gdb.cpp` 109-432 |
| `InputReader`, `InputReaderProofs` | `InputReader.cpp`, the loop of `Shell.cpp` | 25-177, 56-133 |
| `Breakpoints`, `MCBreakpoints`, `BreakpointsProofs` | start, continue, next, step, out, break, clear, set break on throw, quit | `Command.cpp` 27-1054 |
| `Build`, `MCBuild`, `BuildProofs` | the incremental build of one project | `Build.cpp` 501-2290, `BoundCompileUnit.cpp` 321-379 |
| `Grammar`, `Parsing` | the parser combinators: their terms, what each does with a text | `Cm.Parsing`: `Composite.cpp`, `Primitive.cpp`, `Keyword.cpp`, `Action.cpp`, `Rule.cpp` |
| `StdLib`, `TextGrammars` | the standard library of rules; literals, JSON, versions, reports of tools, projects and solutions | `StdLib.cpp`, `Literal.cpp`, `Json.cpp`, `Project.cpp`, ... |
| `ExpressionGrammar`, `StatementGrammar`, `DeclarationGrammar` | the grammars of the language | `Cm.Parser` |
| `DebuggerGrammars` | commands, inspected expressions, gdb's replies, values and type names | `Cm.Debugger` |
| `ParserFileGrammar`, `CppGrammar` | grammar files and the C++ of their actions | `Cm.Parsing.Syntax`, `Cm.Parsing.Cpp` |
| `ClassIds`, `MCClassIds`, `ClassIdsProofs` | class identifiers over builds, and "is" in the program | `Build.cpp` 394-483, 1119-1213, 1521-1539, 2063-2145, `SymbolTable.cpp` 138-160, `class_hierarchy.cpp` 26-59 |
| `ClassKeys`, `MCClassKeys`, `ClassKeysProofs` | class identifiers of the full configuration | `ClassId.cpp` 20-190, `Prime.cpp` |
| `Syntax`, `MCSyntax`, `ProgramTexts`, `OtherTexts` | texts that grow, and what the parsers make of each; the alphabets | - |
| `Values`, `Evaluator`, `EvaluatorProofs` | compile-time values with their operator tables; the evaluator with all its visits | `Value.cpp`, `Evaluator.cpp`, `Constant.cpp`, `ControlStatement.cpp` |
| `OrdinaryCalls`, `MCEvaluator` | what the evaluated programs mean at run time, which the properties compare with; 29 compile units | - |
| `NodeClasses`, `NodeLayouts`, `SyntaxTrees` | the classes of node with their members; the steps of `Write`, `Read`, `Clone` and `Accept` of each class; what a step does | `Cm.Ast` |
| `Templates`, `TemplatesProofs` | the life of a declaration whose tree is kept: library file, import, reading, instances, test units, freeing | `Cm.Sym`, `Cm.Bind`, `Cm.Unit` |
| `TreeContents`, `MCTemplates` | what the symbols write and read, what an instance and a test unit is made of; sample trees with every class of node | `Cm.Sym`, `Cm.Bind`, `Cm.Unit` |

### GdbChannel

`shell` and `thread` are program counters at the granularity of lock
operations; the flags and locks keep their names. A byte stream is a sequence
of units: one for a line of which any part tells as much as the whole, two for the
prompt and for the lines that are looked for (a breakpoint met, the exit of the
program, a signal), so that a read can end inside of each of them. `ReadContinueReply`
splits what each read brought into lines by itself; the two halves of a cut line
are lines of no kind. `cut` remembers the kinds of line a read of this reply
ended in, for the properties. A unit carries the number of the command that made gdb write it,
which the properties use and the code cannot see. `ExecuteCommand` is the
unlocked stores, `PostCommand` the critical section that posts the command,
`AwaitReply` the wait; `AwaitCommand` ... `UnlockCommand` are `DoRun`.
`ScanLine` is the parser of a continue reply, whose state outlives a read.
gdb writes, executes, may die (`GdbMayDie`). A read of -1 throws (`ReadFails`, where
`ReadsMayFail`): the exception is caught in `DoRun` and ends the gdb thread.

### InputReader

`reader` and `shell` are program counters; `line`, `lineSet`, `proceed`,
`exiting`, `redirecting` are the fields. A line is its number and what it asks
for: `start` runs the program without redirecting its input (`Start`, `Started`),
`continue` redirects for one run, a step (`next`, `step`, `out`) for each of its
runs and not between them (`RunAgain`; each round gives a permission to read, and at
`MaxPermits` unused ones the step must end). Both options (`-file`, `-ide`) are chosen in `Init`.

### Breakpoints

The program debugged is a constant: nodes of the control flow graph, their C
lines, kinds, successors and calls. `listed` and `byLine` are the two maps of
`DebugInfo`; gdb is the set of lines it has a breakpoint at. The stepping
commands run as `BeginStep` (once), then `Arm`, `ProgramStops` or
`ProgramEnds`, `Finish`, the last of which may go back to `Arm`: one round of
the loop `while (true)` of the command.

### Build

A unit uses another in two ways: it calls its functions (`calls`), which the emitter
records, or it uses its constants, enumerations and class layouts without a call
(`refers`), which nothing records. `RunAr` archives as many objects as fit into one command
line of `ar` (`Batches`); where the path of an object does not fit into an
empty one (`LongPaths`), the batch is empty and the loop comes back to the same object.

A write time is never stored: of each unit it is remembered which of its three
files are newer than which other (`newer`), as `Changed()` compares them, and
which of the objects are newer than the archive. Of the content of an object it
is remembered what it was compiled from and has been edited since (`edited`):
that is what the properties are about and what the program cannot see. The
phases of a build are `scan` (which units, from write times, `.dep` and `.chg`
files), `compile` (bind and emit in order), `start`/`generate` (the worker
threads), `depend` (the `.dep` files, one by one, so that a kill leaves some of them
old and the one being written incomplete), `archive`/`ar` and `export`. What happens besides builds and edits is
chosen once per behaviour in `events`, so that a promise can be stated under
exactly the disturbances it survives.

An erroneous source ends a build in one of two places: `ParseError`, when all
sources are parsed and prebound, before the build writes a file, or `BindError`,
when its unit's turn comes, after the units before it have left their IR files.

Abstractions: sources are edited between builds only, no two writes get the
same time, a failing or killed tool leaves its
output file alone, a project has no C, C++
or assembly sources and is a library (no link step), the configuration is debug
or release. A library is one element, changed by an earlier project of the same
solution; a change that reaches the project outside of a solution build is not
noticed by the code at all and not modelled.

### ClassIds

Outside of the full configuration a class is known by a number from a counter.
`BuildSymbolTable` numbers the classes of the project, in the order of their
declarations, from `nextCidFile` on; `Compile` puts the numbers into the objects
of the units it compiles, twice: as the type information of the unit's classes
(`rtti`) and as the number an "is" asks for (`literal`). `Link` builds the
table from each number to that of the base class, and writes the counter, last.
`Is` is the loop of the runtime over that table. A build may fail between two
objects (`BuildFails`) or after the last one (`LinkFails`, a program that runs
cannot be overwritten either); then the counter is not written. `from` and `fresh`
are history, for the properties: what kind of build left an object, and which
units the last one compiled. `cidFile` is read by the code and written by nothing.

Abstractions: all classes are virtual and keep their bases; classes of libraries
and of template instances are left out; `Dependents` is a constant (how it is found
is the subject of `Build`).

### ClassKeys

In the full configuration the linker numbers all classes of the program.
`AssignPriority` is a leaf's turn in `AssignPriorities`, `AssignKey` the body of
the loop of `AssignKeys` with its locals as variables, `AssignCids` the
products. Primes are computed as the code does. The order of leaves (a hash
set) and of classes that compare equal (`std::sort`) is chosen by the step. A 64 bit
identifier is a number modulo `Modulus`, small enough for a hierarchy of
the instance to exceed it. `TestMayGive` is the compiled test; the remainder of a
division by zero may be anything.

### Grammars and Syntax

The generated parsers are trees of combinator objects that `CreateRules` builds.
The grammar modules hold these trees as terms of the operators of `Grammar`
(`Cat`, `Alt`, `Star`, `Must` for an expectation, `Diff`, `Token`, `R` for a
nonterminal, `Do`/`DoElse` for an action that changes the `ParsingContext`), a
record of rules per grammar, with the names of the source. `Parsing` is the
engine: `ParseSequence`, `ParseAlternative` and so on do what the `Parse` member of
the class does, with its backtracking, its skipping of spaces between the parts
of a sequence, its token counter, and an expectation that throws, naming the
innermost rule. The flags of the `ParsingContext` (`typeExpr`, `lvalue`,
`simpleStatement`, ...) are stacks, pushed and popped by actions when a parser
hits or misses, and read by the actions that refuse a match.

The same term can be read a second way, `pure`: an expectation only misses and
going back restores the flags too. This is what the grammar means as a parsing
expression grammar, and the specification against which the parsers are
checked: parser and meaning may differ only where an expectation
throws too early or a flag outlives the branch that set it.

`Syntax` grows a text by one fragment of a case's alphabet per step, and the parser
reads the whole of it again, as the program reads files; `parse`, `pure` and `alone`
(each alternative of the start rule by itself) are the answers. A text is
extended only while one of the answers has looked at its end (`EndSeen`), as
otherwise every longer text has the same answer. In the grammars of programs a symbol is a word
or one punctuation character, in those of replies and literals it is a character.

Abstractions: the values of actions are the names of the nodes they make and the
words they keep, not the trees; source spans, error messages, and the building
of `Cm.Ast` nodes are left out. Comments between words are not part of the texts,
they have a case of their own. A level of binary operators whose operators are not
in the alphabet derives what its operands derive, and is passed over (`Without`).

### Evaluator

`Evaluator` is the visitor of `Cm.Bind/Evaluator.cpp`. Its C++ call stack is the
`todo` of an evaluator: what is still to be visited or done, each item with the
fields its visit has saved. A cast and a constant without a value start an
evaluator of their own, so `evs` is a stack of them. One step visits one node or
does one item. A failure unwinds the innermost evaluator: silently (`dontThrow`)
or by an exception that reaches whoever asked. `answers` holds what the callers
got. The field `visits` of an evaluator is the flag `visitExpressions`: an assignment
clears it while its target and source are visited and restores it when
the value is stored; the bodies of constexpr functions called meanwhile skip their
`return`, condition and simple-statement expressions (`VisitReturn`, `AskFirst`,
`VisitSimple`). Descending into a tree is a recursive function on the paths of the tree
(`Descendant`), and each operator of the recursion is a function on numbers or
scopes, so that proofs can be made about the module. Undefined behaviour (a null pointer that is used, a scope that is gone, an
index outside of a string) ends the compiler with the answer "undefined".

`OrdinaryCalls` is the reference: an interpreter of the same trees, by value, with
lexical scope and short circuits, as the compiled program runs. `CallMeanings` and
`ConstantMeanings` are constants, so that TLC computes them once. The code and the
reference differ in many ways, and the properties say for which calls they must
agree (`PlainCall`): one type, at most one parameter, no name used twice, no call in an
assignment but as the operand of a cast (which has an evaluator, and so a flag, of its
own), no side effect or failure in the second operand of `&&` or `||`, and the constants
bound before. Section 3
lists the errors behind the exceptions.

Abstractions: integers have 3, 4, 5 and 6 bits; floating point values are
multiples of a unit and do not round; overload and type resolution give the only
function and type that fit.

### Trees

`NodeClasses` lists the classes of node with their data members, `NodeLayouts`
the steps of the four functions each class has, translated from each class:
what `Write` writes in which order and format, what `Read` reads by which reader
function, what `Clone` copies and when, what `Accept` visits. `SyntaxTrees` says
what a step does. A library file is a sequence of tokens, each with its format;
reading one in another format is a fault (the code would read garbage from there
on). `Templates` is the life of one declaration: `Write`, `Import`, `Declare`,
then compile units that instantiate, evaluate, split or release, `EndOfCompile`.
What is written, read and cloned is a constant operator of `Templates`
(`SectionOf`, `ReadTree`, `CopyOf`, ...), so that its theorems do not depend on it;
`TreeContents` defines the values, from the sections of the symbols' `Write` and
`Read` and from `SyntaxTrees`, and the configurations put them in.

Abstractions: binding of the copies, and what a node's values are, are left out.

## 3. The runs

| run | instance | what it shows |
|---|---|---|
| `channel` | 3 commands, 2 lines of output, buffer of 9 units | the unlocked stores harmless, and `ServiceImplemented`: the channel implements `CommandService`, its fairness included |
| `channel_death` | 3 commands, buffer of 3 units, gdb may die | the hand-over, the owner of each reply, and that a signal is reported unless a read ends inside its own line; with failing reads and writes, lines and prompts cut in two |
| `input` | 3 lines, all four combinations of options | the hand-over, order of execution, no stand-off, what becomes of lines sampled during a redirected run, liveness of both threads |
| `breakpoints` | 7 nodes on 9 lines, 2 breakpoints, 1 hidden node, 2 doubtful lines | the maps, the current node, no temporary left |
| `build` | 2 units, 2 workers, 10 combinations of events | what a success promises, what is noticed after a failure, and that builds end |
| `syntax` | 19 alphabets of 5 to 16 fragments, texts of up to 4 to 18 symbols | every parse ends; a text the parser takes is one the grammar derives and the other way round (but for two known rules); one reading per text; flags restored |
| `classids` | 3 units, 3 classes, identifiers up to 7 | units compiled together tell derived classes exactly; no object passes for one of an unrelated class unless a build has failed |
| `classids_is` | the same | **violated**: "is" tells derived classes |
| `classkeys` | all forests of 4 classes, 3 hierarchies of 6 to 8 | a derived class always passes the test; a wrong hit needs two siblings with one key |
| `evaluator` | 29 compile units | plain calls and constants get their run-time value, failures reach who expects them, blocks are left, every evaluation ends |
| `evaluator_calls` | the same | **violated**: calls keep their meaning |
| `trees` | declarations with every class of node, in the project and through a library | readers follow writers; instances are the source, are linked and know their file; trees read are freed |

Three more configurations are kept beside the runs, each of a promise the code
does not keep: `GdbChannel_split.cfg` (`GdbChannel`, violates `ContinueReturns`),
`Breakpoints_keep.cfg` (`MCBreakpoints`, `RunsKeepBreakpoints`) and
`Templates_library.cfg` (`MCTemplates`, `LibraryInstancesAreTheSource`).

Why the bounds are enough. Channel: the flags are cleared by each command, so a
stale reply or a lost wake-up needs two commands, and three let one follow a
disturbed pair; two lines of output and a buffer of three units, which a read may also
leave partly empty, end a read at every place of the prompt and of each report. Input: the
reader is at most a permission ahead, which needs two lines; the third shows the
result; three permissions are one for each, so a step can run again between any two. Breakpoints: two breakpoints
share a line, or an exit that stands for two lines; the program has a throw, a
catch, recursion, a call that returns to a line without a node and one that
returns to the first line of a statement. Build: dependencies relate two units,
calls in both directions included, and a cycle of two exercises the order of
emission; two workers give the races of a shared list; the long path is
that of the second unit, so that a full batch comes before the empty one; the number of builds,
edits and crashes is not bounded. ClassIds: a base, a derived and a class derived
from that in two units, and a third unit that asks, give each pair of an object
and a question made by the same or by different builds; seven identifiers are two
full builds and one class more, so that numbers given out twice meet. ClassKeys: four
classes have every shape of levels and siblings; twins need two bases
with three children, and the larger hierarchies have those, cousins of twins,
a base without a virtual function and products above the modulus. Syntax: an alphabet has a fragment for
each alternative of its start rule and for what tells them apart, and the bound
lets the longest of them be completed and be followed by one more symbol; fragments
hold the parts that cannot vary (`(1`, `0x1`), so that the choices fit the bound.
Evaluator: the units have each visit, each way to leave a loop, a block and a
function, nested evaluators, and each refusal of the evaluator; the widths differ,
so that each conversion narrows, widens and wraps somewhere. Trees: what the four functions of
a class do with a member depends on the member alone, so a tree for each class in each
place of a declaration, bare and with its optional parts and lists of two,
shows each step; the files of the library come first or after those of others.

Deadlock is checked in all configurations but those of a gdb that dies or splits its
prompt (`channel_death`, `GdbChannel_split.cfg`), where the debugger really hangs,
`syntax`, where a text ends, those of `ClassKeys` and `ClassIds`, where the
numbering is done or the identifiers of the bound are used up, and those of
`Templates`, where a compilation ends.

### Fairness

`GdbChannel`: weak fairness of each thread and of gdb; the program debugged
does not run for ever, which is part of gdb's fairness. The user, the program's
printing, gdb's death and failing reads have none. `InputReader`: weak fairness of both threads
and of the program's end; a command file always gives its next line, a user types
when he likes; a step that is run again and again comes to another line at last (strong
fairness of `StopRedirecting`: the loop of `Command.cpp` ends only then). `Build`: weak fairness of the build as a whole (`WF_vars(Work)`):
a started compiler runs; crashes, edits and new builds are not fair. This suffices as
there is no wait in the workers but for the mutex. `BuildEnds` leaves out builds
with a path too long for `ar`, which do not end. `ClassKeys` and `Evaluator`:
a sequential program goes on; the evaluator's fairness is stated as
`[]<>Done \/ []<><<TRUE>>_vars`, which is weak fairness of `Next` and cheaper to check.

### What the code does differently from its documentation

* A report of gdb's that a read ends in is not recognised, as each read is split into
  lines by itself (`Gdb.cpp:331-344`): a signal is not shown, a breakpoint
  has no hit, and a program that has exited passes for a stopped one
  (`Command.cpp:249-255`). `SignalReported` says that this is the only way to lose a
  signal.
* An object whose path fills a command line of `ar` by itself makes the build run `ar`
  without objects for ever (`Build.cpp:1248-1268`); the archive a user then
  finds after killing it is incomplete and taken for complete.
* A unit that uses another's constants, enumerations or class layouts without calling
  it stays as it was when these change, and the build succeeds
  (`FunctionEmitter.cpp:3051-3069` records calls only): `CallersAreCurrent` promises
  nothing about `refers`.
* A constexpr function called in the source of an assignment has no value at compile
  time, or another one than at run time, as its expressions are skipped
  (`Evaluator.cpp:882`).
* `continue` hangs when a read ends inside the prompt (`GdbChannel_split.cfg`).
* Stepping takes the user's breakpoint at a return line away
  (`Breakpoints_keep.cfg`).
* Two classes of one base get one key, and so one identifier, when the children of
  several bases take turns: `IdentifiersAreUnique` does not hold, and
  `WrongHitsNeedTwins` says that this is the only reason for a wrong answer.
* A constexpr function of two parameters gets its arguments the other way round
  (`evaluator_calls`).
* An `as` expression in a template becomes an `is` expression when the
  template comes from a library: `AsNode::GetNodeType` returns the other type
  (`Templates_library.cfg`).
* A second build numbers the classes anew, and an object that was not compiled
  again is no longer known to be of its own class (`classids_is`).

Seen with the models but without a run of their own: after a change of a library
and an error in the dependent project, units stay built against the old library
(the rebuild flag is that of one `BuildSolution`, no write time tells later); an
archive that `ar` left half-made, or that lacks objects a failed build
generated, is taken for complete; the operand after a type test is
parsed and dropped (`p is T* and q`, `Expression.cpp`); a build that
fails leaves objects whose class identifiers are given out again, so that "is"
may take an object for one of another class; in the full configuration an ancestor
without a virtual function has key 0, so the test against a class below it divides by
zero, and a deep hierarchy exceeds 64 bits; a line is replaced in the
slot before it was executed, when the reader is a permission ahead; next
dereferences a null node where gdb stops at a line without one; a `-c` compile
leaves a mark that hides a later edit from the next build; quit never returns when gdb
has ended before, since the gdb thread ends without an answer, nor when the
reader has tested `exiting` just before it was set; two breakpoints at one line
and a clear of one remove both from gdb; next clears an implicit breakpoint at a
throw at its line, and switching break on throw off leaves one behind; a line
read while the program runs may be written to gdb's prompt after it has
stopped; the other way round a line typed for the program becomes a command when the reader looks at
`redirecting` only after the run, between two runs of a step, or while `start` runs the program
(`Command.cpp:135` does not redirect); a message about the program's exit is missed if the program's output
does not end with a newline (`Gdb.cpp:351`); `-c` archives, links and exports
although the documentation says it does not link; dependencies found by a build
whose code generation fails, or that is killed while it writes the `.dep` files, are lost, so that a later edit of the unit called
does not recompile the caller.

In the evaluator: an assignment converts to the type the whole expression is wanted
in; blocks leave their declaration block on a stack that is never popped; names in
a constexpr function are looked up in the callers' scopes too; a nested
evaluator that must not throw returns a null pointer that is used
(`Evaluator.cpp:1909`); `&&` and `||` evaluate both sides, so a guarded division
by zero fails; a target type wider than the operands changes what an operation
gives; intrinsic predicates of constraints use a null function group; a constant whose
evaluation throws stays marked as being evaluated; a cast to bool deletes a type
symbol (`Evaluator.cpp:2601`); a postfix operator evaluates its operand twice; the
return type a template instance finds is stored at the shared function; a constant is looked up in its own
scope only when it is bound on behalf of another; a local variable does not hide a
constant of the same name; `!` of a `char*` calls a null pointer; a cast of an int to
ulong gives a 32 bit value; a loop `while (true)` with a break passes for one that
never ends.

In the trees: the search for the namespace of a test takes the first sibling
whose name has one component, whatever it is (`Namespace.cpp:92`); a class template
inside a class template loses its template parameters when it is cloned
(`Class.cpp:64`); an enumeration loses its underlying type in a library file;
maps keyed by the address of a node keep entries of nodes that were freed; two
constraints whose text is equal clash (`Template.cpp:105`).

In the grammars: `a < (1 ...` and `for ((*p).x = 0; ...)` are rejected, as
`PrimaryTypeExpr` expects a type after a parenthesis that begins an expression
(`Cm.Parser/TypeExpr.cpp:529`); an apostrophe or a single quotation mark in a block comment
must begin a literal (`/* don't */` is rejected, `StdLib.cpp`); in the C++ of grammar
files `1.5` and `0x1F` are not read, as an integer is tried before a floating literal
and octal before hexadecimal; `0x0 <repeats 15 times>` in gdb's values
loses its count to the rule of address annotations; `this` before a `.` is not the
keyword of an inspected expression, as `.` continues a keyword; program output that begins like
one of gdb's reports and goes on otherwise makes the reply parser throw; a static
constructor is accepted by the rule of constructors too.

## 4. The proofs

All theorems are for every value of the constants, under the `ASSUME`s of the
modules; TLC evaluates these on every run. Two theorems have hypotheses of their
own: `ServiceIsImplemented` is about a gdb that does not end by itself
and reads that do not fail (`~GdbMayDie`, `~ReadsMayFail`: otherwise the channel answers nothing
any more, as `channel_death` shows),
and those of `ClassKeysProofs` assume Bertrand's postulate, that there
is a prime between a number and its double, without which the loop of `NextPrime`
need not end.

### The gdb channel

`GdbChannelProofs`: `TypeCorrect`, `HandshakeHolds`, `WakeupsArrive`,
`UnlockedStoresAreHarmless`. The inductive invariant is `TypeOK /\ Handshake`;
`Handshake` relates where the two threads are with the flags, the locks and
the command. `NoLostWakeup` is not inductive: that a reply finds its shell
awake needs to know that the thread holds the command it was given.

`RepliesBelong` (a reply belongs to its command and is all of it),
for every size of the buffer, so wherever a read ends, and with a gdb that may die.
The flags do not tell this; the invariant (`PipeInv`) is about the *stream*:
what was read of a reply, what is in the pipe and what gdb is going to write,
concatenated. While the thread reads, the stream is of the thread's command and has a
prompt at its end only (`ReadsItsReply`); between replies all three are empty and gdb is at its
prompt (`QuietBetween`); the chunk the parser scans is the end of what was read
(`Scanned`); a reply that is ready is the shell's (`Answered`).
`SignalsAreReported` follows the line that says why the program stopped along
the same stream (`SignalComes`, `SignalKnown`): it is either still to be read and scanned, or the
parser has seen it, or a read has ended inside of that very line, which `cut` then
knows (`CutKnown`). So the theorem is that no other cut, of the prompt, of another
line or between lines, loses a signal.

`ServiceIsImplemented`: each step of the channel is a step of
`CommandService` or a stutter under the refinement mapping of `ServiceImplemented`.
`SetReply` is the step that needs `PipeInv`; the steps of an end of gdb need that it
ended because it was asked to (`OnlyQuitEnds`).

### The input reader

`TypeCorrect`, `HandoverHolds`, `NobodyWaitsForEachOther`: `Handover` is inductive.
`CommandsInOrder` rests on `LinesStayInOrder`: the command executed last,
the line in the slot and the line being read are numbered in this order, and none is
from the future. `LinesSampledInRunsAreNoCommands` is about the moment at which the reader looks
at `redirecting`, not that at which a line was typed, and rests on `RunsAreRedirectedExceptByStart`: a
program runs only while its command does, and then `redirecting` is set, unless the command
is `start`.

### Breakpoints

`TypeCorrect`, `LineMapIsSound`, `CurrentNodeExists`, `NoTemporaryStays`, for every
program. The invariant adds that numbers above `nextBreakpointNumber` are
unused, and the lines the temporaries may be at.

### The build

`TypeCorrect`, `RebuildIsComplete`, `NothingStaleIsHidden`, `SuccessIsComplete`, for
every number of units and workers. The invariant
follows the phases: `Scanned` (what the loop has passed is planned with its
dependents), `Planned` (all that is stale or changed is planned), `Emitted` (a
unit compiled is generated, or its IR file is newer than its object), `Queued`
(until it is generated, or a worker has failed, it is in the list or with a
worker), `Dispatched` (workers get only planned units), `Recorded` (a new
dependent is a planned unit), `Rebuilt` (after code generation). The
central point is the order of `Compile`: all IR files are written before the
first object, so that a stop at any place leaves each planned unit with a
write time that betrays it.

`NothingStaleIsHidden` is about a unit itself and the dependents its `.dep` file names; that the
`.dep` files name all callers is `CallersAreCompiledAgain`, under fewer events.

`CallersAreCompiledAgain` and `LibraryIsComplete` are about several builds, and their invariant
(`FilesInv`) about what is in the files between them. Who calls whom is in the `.dep` files, or the
caller has a file to compile (`CallsRecorded`), so that an edit of a unit is either
recorded for all its callers or leaves them to be compiled (`EditsRecorded`,
`LibraryRecorded`). Each object is in the archive or newer than it, and `ar` goes
through the objects from the first on (`Archived`, `FromTheFirst`). While the
library file is old there is something to compile or to archive, and the build that
does it exports (`Exported`). The theorems have the events in their
premise that the properties have: the invariant breaks where a worker fails before the `.dep`
files are written, where a kill leaves one of these incomplete, or where `ar` leaves half an archive.
`CallersAreCompiledAgain` says nothing of units that are used without a call: the code
records no dependent for them.

### Class identifiers over builds

`FreshUnitsAgree`, `NoFalseHits`, `TypeCorrect`. A build numbers all classes from the counter on
(`BuildIds`: no `.cid` file exists, as nothing writes one); the identifiers of objects
whose build has succeeded are below the counter and each stands for one class
(`SettledIds`); a linked program is made of such objects and the table of one numbering
(`GoodProgram`). That the loop of `Is` along the table reaches just the identifiers of the
ancestors (`TableTells`) is shown of the sets of identifiers that its steps do not leave.

### Class identifiers of the full configuration

`TypeCorrect`, `DerivedPassTheTest` and `WrongHitsHaveTwins`, for every hierarchy, every order the sort
leaves open and every width. Paths, products and identifiers recur on
the hierarchy. They are recursive functions, and what they compute is
proved by induction in the form the provers can use: of a set of classes that lack
a property, one has its base elsewhere (`NoClassIsItsOwnAncestor`), and that one has it.
`RuleDefinesFunction` shows that the recursions define functions.

* `DerivedPassTheTest`: on a path where all classes have keys the product of a class
  is a multiple of that of each base (`BasesDivide`), and where the product has room the
  identifier is the product (`CidIsProduct`). `KeysInv`: a class that had its turn
  has a key.
* `WrongHitsHaveTwins`: if the product of class b divides that of class d, each key
  on the path of b is a key on that of d: a number that passes trial division is irreducible
  (`TrialDivision`), and an irreducible number that divides a product divides a factor (Euclid's lemma,
  `PrimesDivideAFactor`). Take the highest class on the path of b that is not on
  that of d and the class on the path of d with its key. They are on one level, as the keys of a level are
  above those of the levels before, and not roots, as roots have different
  keys; so their bases are one class, and the two are siblings with one key.
  `OrderInv` is what `AssignKeys` keeps: turns go level by level (`Ordered`),
  keys grow from level to level, and siblings have one key only if a child of another class came between them (`KeysDiffer`). That is
  inductive with what the locals mean (`LocalsTell`): `maxLevelKey` is
  above all keys, `minLevelKey` above those of the levels before, `key`
  above those of the siblings that had their turn since another class's child.
* `TypeCorrect` needs `OrderInv` too, and that the finite set of priorities met on
  a path has a largest (`LargestNumber`).

### Compile-time evaluation

`TypeCorrect`, `CallersAreServed` (`CallersHearWhatTheyExpect`) and `BlocksLeft`
(`BlocksAreLeft`), for every list of compile units in which a scope is opened inside an
earlier one and a request is made in a scope of its unit (`ProgramsAssumption`), for all
widths of the integers and whatever the visits do with the values.

That the innermost evaluator has left its blocks when it is through is not inductive: an
exception unwinds several evaluators at once, and each of them has opened
scopes. The invariant (`IInv`) speaks of all of them, by counting: among the scopes
above those an evaluator found when it was made, the living ones are as many as
the items of its `todo` that will leave a scope (`Owing`), the current scope is the last of them
(`Innermost`) and each has the one before it for its parent (`Linked`). The scopes
of one evaluator end where those of the next begin (`Stacked`), so that a failure
that cuts `evs` and `scopes` leaves the others sound. There is a lemma for each kind of
step: one that owes what it owed (`Continues`), opens a scope with the item that will leave it
(`Opens`, `Enters`), does that item (`Leaves`), starts an evaluator (`StartsInside`,
`StartsAlone`), ends one (`Ends`, `Returning`) or fails (`Fails`); each visit is shown to be one of them.
`BlocksAreLeft` states that the living scopes are those on the way up from the current
one, as a recursive function (`above`). It is shown to be defined (`ClimbingIsDefined`),
and that the way goes through all the living scopes and no other by the least scope for
which it does not (`ClimbsThroughTheLiving`).

`CallersAreServed` needs `AnswersFit`: the first evaluator is silent exactly if the request was a call, and
those on top of it never answer the caller.

### Trees

`TreesAreFreed` (`TreesReadAreFreed`), `FilesAreTheSources`, `CopiesAreAlike`, for every
number of units, of libraries imported before, of lists of type arguments, and whatever
reading and cloning make of a tree.

* `TreesReadAreFreed` is about the end. The invariant says that before the end a tree that was read is
  owed by a repository of its kind (`ReadOwes`), unless a class template was asked for its default arguments
  alone, and that a class template with instances is owed whether it is read or not (`InstancesOwe`).
  Without the second, a tree read again for a default argument would be nobody's. `Release` settles
  the debts of constexpr functions only, and frees with them.
* `FilesAreTheSources`: the index the symbol gets at import, with which `ReadClassNode` and
  `ReadFunctionNode` replace the indexes in the spans of the tree, is that of the declaring file among the
  registered files. This is the part of `SpansAreInTheirFile` that does not depend on
  the tree.
* `CopiesAreAlike`: whichever unit is the first to need the tree, however often it is freed and read
  again, an instance is a clone of the one tree (of a class: with bodies put in, in any
  order). What is left to the run of `InstancesAreTheSource` is what reading, cloning and putting
  a body in do with one tree, not in which order the units do it.

### What is only model-checked

* Liveness: `BuildEnds`, `LineTaken`, `ReaderReleased`, `EvaluationEnds` and the liveness half
  of `ServiceImplemented`. `ENABLED` and fairness are outside of what the prover handles.
* `Syntax` (four properties): a parse is recursive on the grammar, by `RECURSIVE`
  operators, and what it computes is an induction over data.
* `OrdinaryCalls` (`PlainCallsKeepTheirMeaning`, `ConstantsAreTheirDefinition`): they compare the
  visitor with an interpreter that is recursive on the tree.
* `TreeContents` (`ReaderFollowsWriter`, `InstancesAreTheSource`, `InstancesAreLinked`,
  `SpansAreInTheirFile`): writing, reading, cloning and visiting are recursive on trees.

## 5. Plan

1. Debugger core: `GdbChannel`, `InputReader`, `Breakpoints` (done). Later
   `DebuggerSession`, the composition in which a stepping command is a sequence
   of channel calls and a death of gdb interrupts it.
2. Build driver: `Build`, and the class identifiers that outlive builds,
   `ClassIds` and `ClassKeys` (done). Later `Solution` (several projects,
   `CreateBuildOrder`, the rebuild flag), refining the abstract library of
   `Build`, and interface and function identifiers.
3. Parsers: combinators, grammars and `Syntax` (done).
4. Trees: how nodes are cloned, written to a library and read again (done).
   Evaluation at compile time (done).
5. Runtime: `SharedPtr`, with an abstract specification of ownership (an object
   is destroyed once, when the last owner is gone) and the counters as its
   implementation, with re-entrant destructors; `ThreadTable`, the unlocked
   table and exception capture and rethrow; `DbgHeap`.
6. Containers: `HashTable` and `RedBlackTree`, each an implementation of a set,
   with recursive functions, not operators, where proofs are wanted.
7. The type propagation of `Cm.Opt`, `Cm.Unit`.

Proofs next: the ownership theorem of `SharedPtr`.

## 6. Not modelled

Translation proper (binding, emission): deterministic, sequential, a
compiler's correctness is not a property of states over time. Printing of
debugger values. Identifiers of interfaces, functions and string literals. Linking, C, C++ and assembly sources, generated
units (`main`, exception table), profile and full
configurations of the build. Tools that read one file and write another.
Externals (gdb, llc, gcc, ar, the user, the file system) are modelled from the way
the code uses them. Data races on plain flags are modelled as loads that return
the latest store, for the stop flag of the code generators as a load that may
also return the earlier value.

---------------------------- MODULE Breakpoints ----------------------------
(***************************************************************************)
(* Cm.Debugger/Command and DebugInfo: the breakpoints of the user, the     *)
(* implicit ones at throw statements and the temporary ones that next,     *)
(* step, out and start set and clear around a continue of gdb.             *)
(*                                                                         *)
(* The program debugged is a set of control flow graph nodes, each at a    *)
(* line of the C code.  gdb is reduced to the set of C lines it has a      *)
(* breakpoint at: its clear command removes all breakpoints of a line.     *)
(***************************************************************************)
EXTENDS Naturals, Sequences

CONSTANTS
  Nodes,           \* CfgNodes of the program
  CLines,          \* lines of the C code
  CLine,           \* the C line of a node
  Kind,            \* plain, exit, throw or catch
  Function,        \* the function of a node
  Succ,            \* the next nodes
  Calls,           \* per node, its calls: callee entries and return line
  Hidden,          \* nodes without a source span
  MainEntry,       \* entry node of main
  Doubtful,        \* C lines gdb may have no code for
  MaxBreakpoints,  \* bound on the breakpoints of a session
  Frames,          \* [function, depth, return]: where a function can be on
                   \* the call stack, and the line it returns to
  NoNode, NoLine

ASSUME ProgramAssumption ==
  /\ CLine \in [Nodes -> CLines]
  /\ Kind \in [Nodes -> {"plain", "exit", "throw", "catch"}]
  /\ Succ \in [Nodes -> SUBSET Nodes]
  /\ Calls \in [Nodes -> Seq([entries : SUBSET Nodes, return : CLines])]
  /\ MainEntry \in Nodes /\ Doubtful \subseteq CLines
  /\ MaxBreakpoints \in Nat
  /\ NoNode \notin Nodes /\ NoLine \notin CLines

ASSUME FrameAssumption ==
  \A fr \in Frames : /\ fr.depth \in Nat /\ fr.return \in CLines \cup {NoLine}
                     /\ fr.depth > 1 => fr.return \in CLines

VARIABLES
  unknown,         \* the lines of the program gdb has no code for
  listed,          \* bpNumBreakpointMap: the node of a breakpoint number
  byLine,          \* cFileLineBreakpointMap: the number at a C line, or 0
  nextNumber,      \* nextBreakpointNumber
  throwNodes, catchNodes,        \* nodes gdb has code for, as far as known
  throwLines,      \* throwCFileLines
  breakOnThrow,
  state,           \* State of DebugInfo
  currentNode,
  gdbLines,        \* the C lines gdb has a breakpoint at
  at, depth, return,   \* where the program is stopped, its call stack's depth
                       \* and the line after the call of the parent frame
  signalled,       \* the program was stopped by a signal
  pc, cmd,         \* the command in progress
  temps,           \* nextCFileLines
  nodeBefore, depthBefore, returnBefore, callIndex   \* locals of next, step, out

userVars == <<listed, byLine, nextNumber>>
catchVars == <<unknown, catchNodes>>
throwVars == <<throwNodes, throwLines, breakOnThrow>>
stopVars == <<at, depth, return, signalled>>
localVars == <<nodeBefore, depthBefore, returnBefore, callIndex>>
vars == <<userVars, throwVars, catchVars, state, currentNode, gdbLines,
          stopVars, pc, cmd, temps, localVars>>

NodesOf(k) == {n \in Nodes : Kind[n] = k}
LinesOfKind(k) == {CLine[n] : n \in NodesOf(k)}
Exits(n) == {m \in NodesOf("exit") : Function[m] = Function[n]}

(* What the user has set: no number above nextNumber is in use.  And the   *)
(* implicit breakpoints.                                                   *)
UserType ==
  /\ listed \in [1..MaxBreakpoints -> Nodes \cup {NoNode}]
  /\ nextNumber \in 0..MaxBreakpoints
  /\ byLine \in [CLines -> 0..nextNumber]
  /\ \A k \in 1..MaxBreakpoints : k > nextNumber => listed[k] = NoNode
  /\ throwNodes \subseteq NodesOf("throw") /\ catchNodes \subseteq Nodes
  /\ throwLines \subseteq CLines /\ breakOnThrow \in BOOLEAN

(* The program, and the command in progress.                               *)
RunType ==
  /\ unknown \subseteq CLines /\ gdbLines \subseteq CLines /\ temps \subseteq CLines
  /\ at \in CLines \cup {NoLine} /\ return \in CLines \cup {NoLine}
  /\ depth \in Nat /\ (depth > 1 => return \in CLines)
  /\ signalled \in {"no", "yes"}
  /\ state \in {"idle", "debugging", "exit"}
  /\ currentNode \in Nodes \cup {NoNode}
  /\ nodeBefore \in Nodes \cup {NoNode}
  /\ depthBefore \in Nat /\ callIndex \in Nat
  /\ returnBefore \in CLines \cup {NoLine}
  /\ depthBefore > 1 => returnBefore \in CLines
  /\ pc \in {"ready", "arm", "running", "stopped", "crashed", "closed"}
  /\ cmd \in {"none", "start", "continue", "next", "step", "out"}

TypeOK == UserType /\ RunType

Init ==
  /\ unknown \in SUBSET Doubtful
  /\ listed = [k \in 1..MaxBreakpoints |-> NoNode]
  /\ byLine = [l \in CLines |-> 0] /\ nextNumber = 0
  /\ throwNodes = NodesOf("throw") /\ catchNodes = NodesOf("catch")
  /\ throwLines = {} /\ breakOnThrow = FALSE
  /\ state = "idle" /\ currentNode = NoNode
  /\ gdbLines = {} /\ at = NoLine /\ depth = 0 /\ return = NoLine
  /\ signalled = "no" /\ pc = "ready" /\ cmd = "none" /\ temps = {}
  /\ nodeBefore = NoNode /\ depthBefore = 0 /\ returnBefore = NoLine
  /\ callIndex = 0

HasCBreakpoint(l) == byLine[l] # 0

(* The node, and the node and index of the call, that were entered first   *)
(* for a C line (Process).                                                 *)
NodeAt(l) ==
  IF \E n \in Nodes : CLine[n] = l
    THEN CHOOSE n \in Nodes : CLine[n] = l ELSE NoNode
ReturnsAt(n, l) == {i \in DOMAIN Calls[n] : Calls[n][i].return = l}
CallAt(l) ==
  IF \E n \in Nodes : ReturnsAt(n, l) # {}
    THEN CHOOSE n \in Nodes : ReturnsAt(n, l) # {} ELSE NoNode
IndexAt(l) == CHOOSE i \in ReturnsAt(CallAt(l), l) : TRUE

(* What gdb's break adds: nothing for a line it does not know.             *)
Known(lines) == lines \ unknown

---------------------------------------------------------------------------
(* break, clear and set break on throw.                                    *)

(* An exit node stands for all exits of its function.                      *)
LinesOf(n) ==
  IF Kind[n] = "exit" THEN {CLine[n]} \cup {CLine[m] : m \in Exits(n)}
                      ELSE {CLine[n]}

(* A throw node has its implicit breakpoint while breakOnThrow is set.     *)
Implicit(n) == Kind[n] # "exit" /\ breakOnThrow /\ n \in throwNodes

BreakCommand(n) ==
  /\ pc = "ready" /\ nextNumber < MaxBreakpoints
  /\ nextNumber' = nextNumber + 1
  /\ listed' = [listed EXCEPT ![nextNumber + 1] = n]
  /\ byLine' = [l \in CLines |->
                  IF l \in LinesOf(n) THEN nextNumber + 1 ELSE byLine[l]]
  /\ gdbLines' = IF Implicit(n) THEN gdbLines
                                ELSE gdbLines \cup Known(LinesOf(n))
  /\ UNCHANGED <<throwVars, catchVars, state, currentNode, stopVars, pc, cmd,
                 temps, localVars>>

(* Mutant: only the breakpoint's own line is forgotten.                    *)
ForgottenOneLine(n) == {CLine[n]}

(* The lines RemoveBreakpoint erases.                                      *)
Forgotten(n) == LinesOf(n)

ClearCommand(k) ==
  /\ pc = "ready" /\ listed[k] # NoNode
  /\ listed' = [listed EXCEPT ![k] = NoNode]
  /\ byLine' = [l \in CLines |-> IF l \in Forgotten(listed[k]) THEN 0 ELSE byLine[l]]
  /\ gdbLines' = IF Implicit(listed[k]) THEN gdbLines
                                        ELSE gdbLines \ LinesOf(listed[k])
  /\ UNCHANGED <<nextNumber, throwVars, catchVars, state, currentNode,
                 stopVars, pc, cmd, temps, localVars>>

(* SetThrowBreakpoints; a node gdb has no code for is removed for good.    *)
BreakOnThrowOn ==
  /\ pc = "ready" /\ ~breakOnThrow
  /\ LET new == {n \in throwNodes : ~HasCBreakpoint(CLine[n])} IN
       /\ throwNodes' = {n \in throwNodes : n \notin new \/ CLine[n] \notin unknown}
       /\ throwLines' = Known({CLine[n] : n \in new})
  /\ gdbLines' = gdbLines \cup throwLines'
  /\ breakOnThrow' = TRUE
  /\ UNCHANGED <<userVars, catchVars, state, currentNode, stopVars, pc, cmd,
                 temps, localVars>>

(* RemoveThrowBreakpoints.                                                 *)
BreakOnThrowOff ==
  /\ pc = "ready" /\ breakOnThrow
  /\ gdbLines' = gdbLines \ {l \in throwLines : ~HasCBreakpoint(l)}
  /\ breakOnThrow' = FALSE
  /\ UNCHANGED <<userVars, throwNodes, throwLines, catchVars, state,
                 currentNode, stopVars, pc, cmd, temps, localVars>>

---------------------------------------------------------------------------
(* start, continue, next, step and out.                                    *)

(* gdb.Start leaves the program at the beginning of main; a temporary      *)
(* breakpoint takes it to the entry node.                                  *)
StartCommand ==
  /\ pc = "ready" /\ state = "idle"
  /\ state' = "debugging" /\ currentNode' = MainEntry
  /\ temps' = {l \in {CLine[MainEntry]} : ~HasCBreakpoint(l)}
  /\ gdbLines' = gdbLines \cup Known(temps')
  /\ pc' = "running" /\ cmd' = "start"
  /\ at' = NoLine /\ depth' = 1 /\ return' = NoLine /\ signalled' = "no"
  /\ UNCHANGED <<userVars, throwVars, catchVars, localVars>>

ContinueCommand ==
  /\ pc = "ready" /\ state = "debugging"
  /\ pc' = "running" /\ cmd' = "continue" /\ temps' = {}
  /\ UNCHANGED <<userVars, throwVars, catchVars, state, currentNode, gdbLines,
                 stopVars, localVars>>

(* step indexes the frames without a look at whether there are any.        *)
StepWithoutProgram ==
  /\ pc = "ready" /\ state = "debugging" /\ at = NoLine
  /\ pc' = "crashed"
  /\ UNCHANGED <<userVars, throwVars, catchVars, state, currentNode, gdbLines,
                 stopVars, cmd, temps, localVars>>

(* The common beginning of next, step and out: where is the program?  At a *)
(* line that belongs to no node and no call they end in an error message.  *)
BeginStep(c) ==
  /\ pc = "ready" /\ state = "debugging" /\ at # NoLine
  /\ NodeAt(at) # NoNode \/ CallAt(at) # NoNode
  /\ nodeBefore' = NodeAt(at)
  /\ currentNode' = IF NodeAt(at) # NoNode THEN NodeAt(at) ELSE CallAt(at)
  /\ callIndex' = IF NodeAt(at) # NoNode THEN 0 ELSE IndexAt(at)
  /\ depthBefore' = depth /\ returnBefore' = return
  /\ pc' = "arm" /\ cmd' = c
  /\ UNCHANGED <<userVars, throwVars, catchVars, state, gdbLines, stopVars,
                 temps>>

Throwing == \/ nodeBefore # NoNode /\ Kind[nodeBefore] = "throw"
            \/ Kind[currentNode] = "throw"

(* SetCatchBreakpoints: the catch nodes without a breakpoint.              *)
NewCatchNodes ==
  IF Throwing THEN {n \in catchNodes : ~HasCBreakpoint(CLine[n])} ELSE {}

(* The line after the call in the parent frame is taken unconditionally.   *)
ReturnLines ==
  IF Function[currentNode] # Function[MainEntry] /\ depthBefore > 1
    THEN {returnBefore} ELSE {}

(* The call step steps into; its frame's calls are numbered from 0.        *)
SteppedCall ==
  IF cmd = "step" /\ callIndex + 1 \in DOMAIN Calls[currentNode]
    THEN {Calls[currentNode][callIndex + 1]} ELSE {}
EntryNodes == UNION {c.entries : c \in SteppedCall}
CallReturnLines == {c.return : c \in {d \in SteppedCall : d.entries # {}}}

Unset(nodes) == {l \in {CLine[n] : n \in nodes} : ~HasCBreakpoint(l)}

(* One round of the loop: temporary breakpoints, then gdb.Continue.        *)
Arm ==
  /\ pc = "arm"
  /\ catchNodes' = {n \in catchNodes :
                      n \notin NewCatchNodes \/ CLine[n] \notin unknown}
  /\ temps' = Known({CLine[n] : n \in NewCatchNodes}) \cup ReturnLines
                \cup Unset(EntryNodes) \cup CallReturnLines
                \cup (IF cmd = "out" THEN {} ELSE Unset(Succ[currentNode]))
  /\ gdbLines' = gdbLines \cup Known(temps')
  /\ pc' = "running"
  /\ UNCHANGED <<unknown, userVars, throwVars, state, currentNode, stopVars,
                 cmd, localVars>>

(* The function a line belongs to.                                         *)
FunctionAt(l) ==
  IF NodeAt(l) # NoNode THEN Function[NodeAt(l)]
  ELSE IF CallAt(l) # NoNode THEN Function[CallAt(l)] ELSE Function[MainEntry]

(* From the C main the first line of the program proper is main's entry.   *)
StopLines ==
  IF cmd = "start" /\ CLine[MainEntry] \in gdbLines
    THEN {CLine[MainEntry]} ELSE gdbLines

(* The program stops where gdb has a breakpoint, or on a signal, no matter *)
(* where.                                                                  *)
ProgramStops ==
  /\ pc = "running" /\ depth > 0 /\ pc' = "stopped"
  /\ \/ /\ cmd # "start" /\ signalled' = "yes"
        /\ at' = NoLine /\ depth' = 0 /\ return' = NoLine
     \/ /\ at' \in StopLines /\ signalled' = "no"
        /\ \E fr \in Frames :
             /\ fr.function = FunctionAt(at')
             /\ depth' = fr.depth /\ return' = fr.return
  /\ UNCHANGED <<userVars, throwVars, catchVars, state, currentNode, gdbLines,
                 cmd, temps, localVars>>

(* The program ends, or has ended before: gdb has no stack to show.        *)
ProgramEnds ==
  /\ pc = "running" /\ pc' = "stopped"
  /\ cmd = "start" => CLine[MainEntry] \notin gdbLines
  /\ at' = NoLine /\ depth' = 0 /\ return' = NoLine /\ signalled' = "no"
  /\ UNCHANGED <<userVars, throwVars, catchVars, state, currentNode, gdbLines,
                 cmd, temps, localVars>>

(* Mutant: the temporary breakpoints stay when the program ends.           *)
ClearTempsIfAlive == IF at = NoLine THEN gdbLines ELSE gdbLines \ temps

(* Every temporary line is cleared, with all breakpoints gdb has there.    *)
ClearTemps == gdbLines \ temps

(* The command returns, and its locals are gone; or its loop goes on, with *)
(* the calls of a node reached counted from 0.                             *)
Done == /\ pc' = "ready" /\ cmd' = "none"
        /\ nodeBefore' = NoNode /\ depthBefore' = 0 /\ returnBefore' = NoLine
        /\ callIndex' = 0
Again == /\ pc' = "arm"
         /\ callIndex' = IF NodeAt(at) # NoNode THEN 0 ELSE callIndex
         /\ UNCHANGED <<cmd, nodeBefore, depthBefore, returnBefore>>
Crash == pc' = "crashed" /\ UNCHANGED <<cmd, localVars>>

(* start ends without a look at where the program has stopped.             *)
FinishStart == cmd = "start" /\ Done /\ UNCHANGED <<state, currentNode>>

(* Mutant: the end of the program is not noted in the state.               *)
FinishEndedDebugging ==
  /\ cmd # "start"
  /\ signalled = "yes" \/ at = NoLine
  /\ currentNode' = NoNode /\ Done /\ UNCHANGED state

(* The program received a signal or has ended: SetState(idle).             *)
FinishEnded ==
  /\ cmd # "start"
  /\ signalled = "yes" \/ at = NoLine
  /\ state' = "idle" /\ currentNode' = NoNode /\ Done

Alive == cmd # "start" /\ signalled = "no" /\ at # NoLine

(* A breakpoint of the user.                                               *)
FinishAtBreakpoint ==
  /\ Alive /\ HasCBreakpoint(at)
  /\ currentNode' = listed[byLine[at]] /\ Done
  /\ UNCHANGED state

(* continue stops at any other place gdb stops at.                         *)
FinishContinue ==
  /\ Alive /\ ~HasCBreakpoint(at) /\ cmd = "continue"
  /\ currentNode' = IF NodeAt(at) # NoNode THEN NodeAt(at) ELSE currentNode
  /\ Done
  /\ UNCHANGED state

(* Is the node the place to stop at?                                       *)
AtThrow(n) == breakOnThrow /\ Kind[n] = "throw"
Shown(n) ==
  /\ n \notin Hidden
  /\ \/ depth <= depthBefore
     \/ cmd \in {"next", "step"} /\ AtThrow(n)
     \/ cmd = "step" /\ n \in EntryNodes

AtShownNode == NodeAt(at) # NoNode /\ Shown(NodeAt(at))

Stepping == Alive /\ ~HasCBreakpoint(at) /\ cmd \in {"next", "step", "out"}

FinishAtNode ==
  /\ Stepping /\ AtShownNode
  /\ currentNode' = NodeAt(at) /\ Done
  /\ UNCHANGED state

(* Otherwise the line a call returns to may be the place; nodeBefore is    *)
(* dereferenced without a test.                                            *)
FinishAtCall ==
  /\ Stepping /\ ~AtShownNode /\ CallAt(at) # NoNode
  /\ currentNode' = CallAt(at)
  /\ CASE nodeBefore = NoNode -> Crash
       [] nodeBefore # NoNode /\ Kind[nodeBefore] = "throw" -> Again
       [] OTHER ->
            IF \/ cmd # "out"
               \/ /\ CallAt(at) \notin Hidden
                  /\ AtThrow(CallAt(at)) \/ depth <= depthBefore
              THEN Done ELSE Again
  /\ UNCHANGED state

(* Neither: the loop goes on from the node reached, if any.                *)
FinishNowhere ==
  /\ Stepping /\ ~AtShownNode /\ CallAt(at) = NoNode
  /\ currentNode' = IF NodeAt(at) # NoNode THEN NodeAt(at) ELSE currentNode
  /\ Again
  /\ UNCHANGED state

Finish ==
  /\ pc = "stopped"
  /\ gdbLines' = ClearTemps /\ temps' = {}
  /\ \/ FinishStart \/ FinishEnded \/ FinishAtBreakpoint \/ FinishContinue
     \/ FinishAtNode \/ FinishAtCall \/ FinishNowhere
  /\ UNCHANGED <<userVars, throwVars, catchVars, stopVars>>

QuitCommand ==
  /\ pc = "ready"
  /\ pc' = "closed" /\ state' = "exit"
  /\ UNCHANGED <<userVars, throwVars, catchVars, currentNode, gdbLines,
                 stopVars, cmd, temps, localVars>>

Ended == pc \in {"crashed", "closed"} /\ UNCHANGED vars

Next == \/ \E n \in Nodes : BreakCommand(n)
        \/ \E k \in 1..MaxBreakpoints : ClearCommand(k)
        \/ BreakOnThrowOn \/ BreakOnThrowOff
        \/ StartCommand \/ ContinueCommand
        \/ \E c \in {"next", "step", "out"} : BeginStep(c)
        \/ StepWithoutProgram \/ Arm \/ ProgramStops \/ ProgramEnds \/ Finish
        \/ QuitCommand \/ Ended

Spec == Init /\ [][Next]_vars

---------------------------------------------------------------------------
(* Properties.                                                             *)

(* The map of lines points to breakpoints that exist, at lines that are    *)
(* theirs: what a stop is reported as, and the node it makes current, come *)
(* from a breakpoint the user has not cleared (no dangling pointer), even  *)
(* when breakpoints share lines.                                           *)
LineMapSound ==
  \A l \in CLines : byLine[l] # 0 =>
    /\ listed[byLine[l]] # NoNode
    /\ l \in LinesOf(listed[byLine[l]])

(* A program that is being debugged is at a node; next, step, out and      *)
(* inspect dereference it.                                                 *)
DebuggingHasNode ==
  /\ state = "debugging" => currentNode # NoNode
  /\ pc \in {"arm", "running", "stopped"} => state = "debugging"

(* Between commands gdb has no breakpoint but those of the user and those  *)
(* at throw statements: next, step, out, start leave none behind, whatever *)
(* the program did.                                                        *)
UserLines == UNION {LinesOf(listed[k]) : k \in {j \in 1..MaxBreakpoints : listed[j] # NoNode}}
NoTemporaryLeft ==
  gdbLines \subseteq UserLines \cup LinesOfKind("throw") \cup temps
    /\ (pc \in {"ready", "arm"} => temps = {})

(* Commands that run the program take no breakpoint of the user away.      *)
RunsKeepBreakpoints ==
  [][pc = "stopped" =>
       \A l \in gdbLines : HasCBreakpoint(l) => l \in gdbLines']_vars
===========================================================================

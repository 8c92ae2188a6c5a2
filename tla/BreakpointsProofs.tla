------------------------- MODULE BreakpointsProofs -------------------------
(***************************************************************************)
(* Proofs about the breakpoints of the debugger, for every program and any *)
(* number of breakpoints.  Inv is the inductive invariant: the commands    *)
(* dereference the current node, which a stop at a breakpoint takes from   *)
(* the map of lines, which must not point to a breakpoint cleared since.   *)
(***************************************************************************)
EXTENDS Breakpoints, SequenceTheorems, TLAPS

Inv == TypeOK /\ LineMapSound /\ DebuggingHasNode

(* What a line of the program is looked up as.                             *)
LEMMA NodeAtType == \A l : NodeAt(l) \in Nodes \cup {NoNode}
BY DEF NodeAt

LEMMA CallAtType == \A l : CallAt(l) \in Nodes \cup {NoNode}
BY DEF CallAt

LEMMA IndexAtType == \A l : CallAt(l) # NoNode => IndexAt(l) \in Nat
<1> SUFFICES ASSUME NEW l, CallAt(l) # NoNode PROVE IndexAt(l) \in Nat
  OBVIOUS
<1>1. CallAt(l) \in Nodes /\ ReturnsAt(CallAt(l), l) # {}
  BY DEF CallAt
<1>2. IndexAt(l) \in ReturnsAt(CallAt(l), l)
  BY <1>1 DEF IndexAt
<1>3. Calls[CallAt(l)] \in Seq([entries : SUBSET Nodes, return : CLines])
  BY <1>1, ProgramAssumption
<1>4. DOMAIN Calls[CallAt(l)] \subseteq Nat
  BY <1>3
<1> QED BY <1>2, <1>4 DEF ReturnsAt

LEMMA CallType ==
  ASSUME NEW n \in Nodes, NEW i \in DOMAIN Calls[n]
  PROVE  Calls[n][i].entries \subseteq Nodes /\ Calls[n][i].return \in CLines
<1>1. Calls[n] \in Seq([entries : SUBSET Nodes, return : CLines])
  BY ProgramAssumption
<1>2. i \in 1..Len(Calls[n])
  BY <1>1
<1>3. Calls[n][i] \in [entries : SUBSET Nodes, return : CLines]
  BY <1>1, <1>2, ElementOfSeq
<1> QED BY <1>3

LEMMA LineType == \A n \in Nodes : CLine[n] \in CLines
BY ProgramAssumption

LEMMA LinesOfType == \A n \in Nodes : CLine[n] \in LinesOf(n) /\ LinesOf(n) \subseteq CLines
BY LineType DEF LinesOf, Exits, NodesOf

LEMMA FrameType ==
  ASSUME NEW fr \in Frames
  PROVE  /\ fr.depth \in Nat /\ fr.return \in CLines \cup {NoLine}
         /\ fr.depth > 1 => fr.return \in CLines
BY FrameAssumption

LEMMA InitInv == Init => Inv
<1> SUFFICES ASSUME Init PROVE Inv
  OBVIOUS
<1>1. UserType
  <2>1. breakOnThrow \in BOOLEAN /\ listed \in [1..MaxBreakpoints -> Nodes \cup {NoNode}]
    BY DEF Init
  <2>2. byLine \in [CLines -> 0..nextNumber] /\ nextNumber \in 0..MaxBreakpoints
    BY ProgramAssumption DEF Init
  <2> QED BY <2>1, <2>2 DEF Init, UserType, NodesOf
<1>2. RunType
  BY ProgramAssumption DEF Init, RunType
<1>3. LineMapSound /\ DebuggingHasNode
  BY DEF Init, LineMapSound, DebuggingHasNode
<1> QED BY <1>1, <1>2, <1>3 DEF Inv, TypeOK

---------------------------------------------------------------------------
(* The breakpoints of the user change in break and clear only.             *)

LEMMA BreakUser ==
  ASSUME UserType, LineMapSound, NEW n \in Nodes, BreakCommand(n)
  PROVE  UserType' /\ LineMapSound'
<1> USE ProgramAssumption DEF UserType
<1>1. nextNumber' \in 1..MaxBreakpoints /\ nextNumber' = nextNumber + 1
  BY DEF BreakCommand
<1>2. listed' = [listed EXCEPT ![nextNumber'] = n]
  BY <1>1 DEF BreakCommand
<1>3. /\ byLine' \in [CLines -> 0..nextNumber']
      /\ \A l \in CLines : byLine'[l] = IF l \in LinesOf(n) THEN nextNumber' ELSE byLine[l]
  BY <1>1 DEF BreakCommand
<1>4. UserType'
  <2>1. breakOnThrow' \in BOOLEAN
    BY DEF BreakCommand, throwVars, catchVars
  <2> QED BY <1>1, <1>2, <1>3, <2>1 DEF BreakCommand, throwVars, catchVars
<1>5. ASSUME NEW l \in CLines, byLine'[l] # 0
      PROVE  listed'[byLine'[l]] # NoNode /\ l \in LinesOf(listed'[byLine'[l]])
  <2>1. CASE l \in LinesOf(n)
    BY <2>1, <1>1, <1>2, <1>3
  <2>2. CASE l \notin LinesOf(n)
    <3>1. byLine'[l] = byLine[l] /\ byLine[l] \in 1..nextNumber
      BY <2>2, <1>3, <1>5
    <3>2. listed'[byLine[l]] = listed[byLine[l]]
      BY <3>1, <1>1, <1>2
    <3> QED BY <3>1, <3>2 DEF LineMapSound
  <2> QED BY <2>1, <2>2
<1> QED BY <1>4, <1>5 DEF LineMapSound, LinesOf, Exits, NodesOf

LEMMA ClearUser ==
  ASSUME UserType, LineMapSound, NEW k \in 1..MaxBreakpoints, ClearCommand(k)
  PROVE  UserType' /\ LineMapSound'
<1> USE ProgramAssumption DEF UserType
<1>1. nextNumber' = nextNumber /\ listed' = [listed EXCEPT ![k] = NoNode]
  BY DEF ClearCommand
<1>2. /\ byLine' \in [CLines -> 0..nextNumber']
      /\ \A l \in CLines : byLine'[l] = IF l \in LinesOf(listed[k]) THEN 0 ELSE byLine[l]
  BY <1>1 DEF ClearCommand, Forgotten
<1>3. UserType'
  <2>1. breakOnThrow' \in BOOLEAN
    BY DEF ClearCommand, throwVars, catchVars
  <2> QED BY <1>1, <1>2, <2>1 DEF ClearCommand, throwVars, catchVars
<1>4. ASSUME NEW l \in CLines, byLine'[l] # 0
      PROVE  listed'[byLine'[l]] # NoNode /\ l \in LinesOf(listed'[byLine'[l]])
  <2>1. byLine'[l] = byLine[l] /\ l \notin LinesOf(listed[k])
    BY <1>2, <1>4
  <2>2. listed[byLine[l]] # NoNode /\ l \in LinesOf(listed[byLine[l]])
    BY <2>1, <1>4 DEF LineMapSound
  <2>3. byLine[l] \in 1..MaxBreakpoints /\ byLine[l] # k
    BY <2>1, <2>2, <1>4
  <2> QED BY <2>1, <2>2, <2>3, <1>1
<1> QED BY <1>3, <1>4 DEF LineMapSound, LinesOf, Exits, NodesOf

LEMMA ThrowUser ==
  ASSUME UserType, LineMapSound, BreakOnThrowOn \/ BreakOnThrowOff
  PROVE  UserType' /\ LineMapSound'
<1>1. LineMapSound'
  BY DEF BreakOnThrowOn, BreakOnThrowOff, userVars, LineMapSound, LinesOf, Exits, NodesOf
<1>2. CASE BreakOnThrowOn
  <2>1. breakOnThrow' \in BOOLEAN
    BY <1>2 DEF BreakOnThrowOn
  <2>2. throwNodes' \subseteq throwNodes /\ throwLines' \subseteq CLines
    BY <1>2, LineType DEF BreakOnThrowOn, Known, UserType, NodesOf
  <2> QED BY <1>1, <1>2, <2>1, <2>2 DEF BreakOnThrowOn, UserType, userVars, catchVars
<1>3. CASE BreakOnThrowOff
  <2>1. breakOnThrow' \in BOOLEAN
    BY <1>3 DEF BreakOnThrowOff
  <2> QED BY <1>1, <1>3, <2>1 DEF BreakOnThrowOff, UserType, userVars, catchVars
<1> QED BY <1>2, <1>3

(* The commands that run the program leave them alone.                     *)
Run == \/ StartCommand \/ ContinueCommand
       \/ \E c \in {"next", "step", "out"} : BeginStep(c)
       \/ StepWithoutProgram \/ Arm \/ ProgramStops \/ ProgramEnds \/ Finish
       \/ QuitCommand \/ Ended \/ UNCHANGED vars

LEMMA RunUser ==
  ASSUME UserType, LineMapSound, Run
  PROVE  UserType' /\ LineMapSound'
<1>1. UNCHANGED userVars /\ UNCHANGED throwVars
  BY DEF Run, StartCommand, ContinueCommand, BeginStep, StepWithoutProgram, Arm,
         ProgramStops, ProgramEnds, Finish, QuitCommand, Ended, vars
<1>2. catchNodes' \subseteq catchNodes
  BY DEF Run, StartCommand, ContinueCommand, BeginStep, StepWithoutProgram, Arm,
         ProgramStops, ProgramEnds, Finish, QuitCommand, Ended, vars, catchVars
<1>3. breakOnThrow' \in BOOLEAN
  BY <1>1 DEF UserType, throwVars
<1> QED BY <1>1, <1>2, <1>3 DEF UserType, LineMapSound, userVars, throwVars,
                               LinesOf, Exits, NodesOf

---------------------------------------------------------------------------
(* The command in progress.                                                *)

LEMMA UserRun ==
  ASSUME RunType, UserType, DebuggingHasNode,
         \/ \E n \in Nodes : BreakCommand(n)
         \/ \E k \in 1..MaxBreakpoints : ClearCommand(k)
         \/ BreakOnThrowOn \/ BreakOnThrowOff
  PROVE  RunType' /\ DebuggingHasNode'
<1> USE DEF RunType, DebuggingHasNode, stopVars, localVars, catchVars
<1>1. CASE \E n \in Nodes : BreakCommand(n)
  BY <1>1, LinesOfType DEF BreakCommand, Known
<1>2. CASE \E k \in 1..MaxBreakpoints : ClearCommand(k)
  BY <1>2 DEF ClearCommand
<1>3. CASE BreakOnThrowOn
  <2>1. throwLines' \subseteq CLines
    BY <1>3, LineType DEF BreakOnThrowOn, Known, UserType, NodesOf
  <2> QED BY <1>3, <2>1 DEF BreakOnThrowOn
<1>4. CASE BreakOnThrowOff
  BY <1>4 DEF BreakOnThrowOff
<1> QED BY <1>1, <1>2, <1>3, <1>4

LEMMA StartRun == ASSUME RunType, DebuggingHasNode, StartCommand
                  PROVE  RunType' /\ DebuggingHasNode'
BY ProgramAssumption, LineType
   DEF StartCommand, RunType, DebuggingHasNode, localVars, catchVars, Known

LEMMA BeginRun ==
  ASSUME RunType, DebuggingHasNode, NEW c \in {"next", "step", "out"}, BeginStep(c)
  PROVE  RunType' /\ DebuggingHasNode'
<1>1. /\ nodeBefore' \in Nodes \cup {NoNode}
      /\ currentNode' \in Nodes \cup {NoNode} /\ currentNode' # NoNode
  BY NodeAtType, CallAtType DEF BeginStep
<1>2. callIndex' \in Nat
  BY IndexAtType DEF BeginStep
<1> QED BY <1>1, <1>2 DEF BeginStep, RunType, DebuggingHasNode, stopVars, catchVars

LEMMA StepCallsType ==
  ASSUME RunType, currentNode \in Nodes
  PROVE  EntryNodes \subseteq Nodes /\ CallReturnLines \subseteq CLines
<1>1. \A c \in SteppedCall : c.entries \subseteq Nodes /\ c.return \in CLines
  BY CallType DEF SteppedCall
<1> QED BY <1>1 DEF EntryNodes, CallReturnLines

LEMMA ArmRun == ASSUME RunType, UserType, DebuggingHasNode, Arm
                PROVE  RunType' /\ DebuggingHasNode'
<1>1. currentNode \in Nodes
  BY DEF Arm, RunType, DebuggingHasNode
<1>2. NewCatchNodes \subseteq Nodes
  BY DEF NewCatchNodes, UserType
<1>3. Known({CLine[n] : n \in NewCatchNodes}) \subseteq CLines
  BY <1>2, LineType DEF Known
<1>4. ReturnLines \subseteq CLines
  BY DEF ReturnLines, RunType
<1>5. EntryNodes \subseteq Nodes /\ CallReturnLines \subseteq CLines
  BY <1>1, StepCallsType
<1>6. Succ[currentNode] \subseteq Nodes
  BY <1>1, ProgramAssumption
<1>7. Unset(EntryNodes) \subseteq CLines /\ Unset(Succ[currentNode]) \subseteq CLines
  BY <1>5, <1>6, LineType DEF Unset
<1>8. temps' \subseteq CLines
  BY <1>3, <1>4, <1>5, <1>7 DEF Arm
<1>9. gdbLines' \subseteq CLines
  BY <1>8 DEF Arm, RunType, Known
<1> QED BY <1>8, <1>9 DEF Arm, RunType, DebuggingHasNode, stopVars, localVars

LEMMA StopRun == ASSUME RunType, DebuggingHasNode, ProgramStops \/ ProgramEnds
                 PROVE  RunType' /\ DebuggingHasNode'
<1> USE DEF RunType, DebuggingHasNode, localVars, catchVars
<1>1. CASE ProgramEnds
  BY <1>1 DEF ProgramEnds
<1>2. CASE ProgramStops
  <2>1. at' \in CLines \cup {NoLine} /\ signalled' \in {"no", "yes"}
    BY <1>2, ProgramAssumption, LineType DEF ProgramStops, StopLines
  <2>2. CASE depth' = 0 /\ return' = NoLine
    BY <1>2, <2>1, <2>2 DEF ProgramStops
  <2>3. CASE \E fr \in Frames : depth' = fr.depth /\ return' = fr.return
    <3>1. PICK fr \in Frames : depth' = fr.depth /\ return' = fr.return
      BY <2>3
    <3>2. /\ fr.depth \in Nat /\ fr.return \in CLines \cup {NoLine}
          /\ fr.depth > 1 => fr.return \in CLines
      BY FrameType
    <3> QED BY <1>2, <2>1, <3>1, <3>2 DEF ProgramStops
  <2> QED BY <1>2, <2>2, <2>3 DEF ProgramStops
<1> QED BY <1>1, <1>2

(* How a command ends: where it has stopped gives the current node.        *)
LEMMA FinishNode ==
  ASSUME RunType, UserType, LineMapSound, DebuggingHasNode, Finish
  PROVE  /\ state' \in {"idle", "debugging", "exit"}
         /\ currentNode' \in Nodes \cup {NoNode}
         /\ state' = "debugging" => currentNode' # NoNode
<1>1. state = "debugging" /\ currentNode \in Nodes /\ currentNode # NoNode
  BY DEF Finish, DebuggingHasNode, RunType
<1>2. CASE FinishStart \/ FinishEnded
  BY <1>1, <1>2 DEF FinishStart, FinishEnded
<1>3. CASE FinishAtBreakpoint
  <2>1. at \in CLines /\ byLine[at] \in 1..MaxBreakpoints
    BY <1>3, ProgramAssumption
       DEF FinishAtBreakpoint, Alive, HasCBreakpoint, RunType, UserType
  <2>2. listed[byLine[at]] \in Nodes
    BY <1>3, <2>1 DEF FinishAtBreakpoint, HasCBreakpoint, LineMapSound, UserType
  <2> QED BY <1>1, <1>3, <2>2, ProgramAssumption DEF FinishAtBreakpoint
<1>4. CASE FinishContinue \/ FinishNowhere
  BY <1>1, <1>4, NodeAtType DEF FinishContinue, FinishNowhere
<1>5. CASE FinishAtNode
  BY <1>1, <1>5, NodeAtType DEF FinishAtNode, AtShownNode
<1>6. CASE FinishAtCall
  BY <1>1, <1>6, CallAtType DEF FinishAtCall
<1> QED BY <1>2, <1>3, <1>4, <1>5, <1>6 DEF Finish

LEMMA FinishLocals ==
  ASSUME RunType, Done \/ Again \/ Crash
  PROVE  /\ nodeBefore' \in Nodes \cup {NoNode}
         /\ depthBefore' \in Nat /\ callIndex' \in Nat
         /\ returnBefore' \in CLines \cup {NoLine}
         /\ depthBefore' > 1 => returnBefore' \in CLines
         /\ pc' \in {"ready", "arm", "crashed"}
         /\ cmd' \in {"none", "start", "continue", "next", "step", "out"}
BY DEF RunType, Done, Again, Crash, localVars

LEMMA FinishRun ==
  ASSUME RunType, UserType, LineMapSound, DebuggingHasNode, Finish
  PROVE  RunType' /\ DebuggingHasNode'
<1>1. \/ Done \/ Again \/ Crash
  BY DEF Finish, FinishStart, FinishEnded, FinishAtBreakpoint, FinishContinue,
         FinishAtNode, FinishAtCall, FinishNowhere
<1>2. gdbLines' \subseteq CLines /\ temps' \subseteq CLines
  BY DEF Finish, ClearTemps, RunType
<1>3. state = "debugging"
  BY DEF Finish, DebuggingHasNode
<1>4. pc' = "arm" => UNCHANGED state
  BY DEF Finish, FinishStart, FinishEnded, FinishAtBreakpoint, FinishContinue,
         FinishAtNode, FinishAtCall, FinishNowhere, Done
<1>5. UNCHANGED stopVars /\ UNCHANGED unknown
  BY DEF Finish, catchVars
<1>6. RunType'
  BY <1>1, <1>2, <1>5, FinishNode, FinishLocals DEF RunType, stopVars
<1>7. DebuggingHasNode'
  BY <1>1, <1>3, <1>4, FinishNode, FinishLocals DEF DebuggingHasNode
<1> QED BY <1>6, <1>7

LEMMA RunRun ==
  ASSUME RunType, UserType, LineMapSound, DebuggingHasNode, Run
  PROVE  RunType' /\ DebuggingHasNode'
<1> USE DEF RunType, DebuggingHasNode, stopVars, localVars, catchVars
<1>1. CASE ContinueCommand BY <1>1 DEF ContinueCommand
<1>2. CASE StepWithoutProgram BY <1>2 DEF StepWithoutProgram
<1>3. CASE QuitCommand BY <1>3 DEF QuitCommand
<1>4. CASE Ended \/ UNCHANGED vars BY <1>4 DEF Ended, vars
<1> QED BY <1>1, <1>2, <1>3, <1>4, StartRun, BeginRun, ArmRun, StopRun, FinishRun
        DEF Run

---------------------------------------------------------------------------
LEMMA Inductive == Inv /\ [Next]_vars => Inv'
<1> SUFFICES ASSUME Inv, [Next]_vars PROVE Inv'
  OBVIOUS
<1>1. \/ \E n \in Nodes : BreakCommand(n)
      \/ \E k \in 1..MaxBreakpoints : ClearCommand(k)
      \/ BreakOnThrowOn \/ BreakOnThrowOff \/ Run
  BY DEF Next, Run
<1>2. UserType' /\ LineMapSound'
  BY <1>1, BreakUser, ClearUser, ThrowUser, RunUser DEF Inv, TypeOK
<1>3. RunType' /\ DebuggingHasNode'
  BY <1>1, UserRun, RunRun DEF Inv, TypeOK
<1> QED BY <1>2, <1>3 DEF Inv, TypeOK

THEOREM InvHolds == Spec => []Inv
BY InitInv, Inductive, PTL DEF Spec

(* Every variable stays within its declared values, and no number above    *)
(* the last one given is in use.                                           *)
THEOREM TypeCorrect == Spec => []TypeOK
<1>1. Inv => TypeOK
  BY DEF Inv
<1> QED BY <1>1, InvHolds, PTL

(* A stop at a line is never reported as a breakpoint that was cleared.    *)
THEOREM LineMapIsSound == Spec => []LineMapSound
<1>1. Inv => LineMapSound
  BY DEF Inv
<1> QED BY <1>1, InvHolds, PTL

(* While a program is debugged, the commands have a node to start from.    *)
THEOREM CurrentNodeExists == Spec => []DebuggingHasNode
<1>1. Inv => DebuggingHasNode
  BY DEF Inv
<1> QED BY <1>1, InvHolds, PTL

---------------------------------------------------------------------------
(* Temporary breakpoints.                                                  *)

Leftovers == gdbLines \subseteq UserLines \cup LinesOfKind("throw") \cup temps
NoTemps == pc \in {"ready", "arm"} => temps = {}

(* A line of the user or of a throw statement survives the change of the   *)
(* list, unless it is taken from gdb too.                                  *)
LEMMA BreakLeftovers ==
  ASSUME UserType, Leftovers, NEW n \in Nodes, BreakCommand(n)
  PROVE  Leftovers'
<1> USE ProgramAssumption
<1>1. nextNumber + 1 \in 1..MaxBreakpoints /\ nextNumber + 1 > nextNumber
  BY DEF BreakCommand, UserType
<1>2. /\ listed' = [listed EXCEPT ![nextNumber + 1] = n]
      /\ listed[nextNumber + 1] = NoNode
  BY <1>1 DEF BreakCommand, UserType
<1>3. UserLines \subseteq UserLines'
  <2> SUFFICES ASSUME NEW k \in 1..MaxBreakpoints, listed[k] # NoNode,
                      NEW l \in LinesOf(listed[k])
               PROVE  l \in UserLines'
    BY DEF UserLines
  <2>1. listed'[k] = listed[k]
    BY <1>1, <1>2 DEF UserType
  <2> QED BY <2>1 DEF UserLines, LinesOf, Exits, NodesOf
<1>4. LinesOf(n) \subseteq UserLines'
  <2>1. listed'[nextNumber + 1] = n /\ n # NoNode
    BY <1>1, <1>2 DEF UserType
  <2> QED BY <1>1, <2>1 DEF UserLines, LinesOf, Exits, NodesOf
<1>5. gdbLines' \subseteq gdbLines \cup LinesOf(n) /\ temps' = temps
  BY DEF BreakCommand, Known
<1> QED BY <1>3, <1>4, <1>5 DEF Leftovers, LinesOfKind, NodesOf

LEMMA ClearLeftovers ==
  ASSUME UserType, Leftovers, NEW k \in 1..MaxBreakpoints, ClearCommand(k)
  PROVE  Leftovers'
<1>1. listed' = [listed EXCEPT ![k] = NoNode] /\ temps' = temps
  BY DEF ClearCommand
<1>2. UserLines \subseteq UserLines' \cup LinesOf(listed[k])
  <2> SUFFICES ASSUME NEW j \in 1..MaxBreakpoints, listed[j] # NoNode, j # k,
                      NEW l \in LinesOf(listed[j])
               PROVE  l \in UserLines'
    BY DEF UserLines
  <2>1. listed'[j] = listed[j]
    BY <1>1 DEF UserType
  <2> QED BY <2>1 DEF UserLines, LinesOf, Exits, NodesOf
<1>3. CASE Implicit(listed[k])
  <2>1. LinesOf(listed[k]) \subseteq LinesOfKind("throw")
    BY <1>3 DEF Implicit, LinesOf, LinesOfKind, UserType
  <2>2. gdbLines' = gdbLines
    BY <1>3 DEF ClearCommand
  <2> QED BY <1>1, <1>2, <2>1, <2>2 DEF Leftovers, LinesOfKind, NodesOf
<1>4. CASE ~Implicit(listed[k])
  <2>1. gdbLines' = gdbLines \ LinesOf(listed[k])
    BY <1>4 DEF ClearCommand
  <2> QED BY <1>1, <1>2, <2>1 DEF Leftovers, LinesOfKind, NodesOf
<1> QED BY <1>3, <1>4

LEMMA ThrowLeftovers ==
  ASSUME UserType, Leftovers, BreakOnThrowOn \/ BreakOnThrowOff
  PROVE  Leftovers'
<1>1. UserLines' = UserLines /\ temps' = temps
  BY DEF BreakOnThrowOn, BreakOnThrowOff, userVars, UserLines
<1>2. CASE BreakOnThrowOn
  <2>1. throwLines' \subseteq LinesOfKind("throw")
    BY <1>2 DEF BreakOnThrowOn, Known, UserType, LinesOfKind
  <2> QED BY <1>1, <1>2, <2>1 DEF BreakOnThrowOn, Leftovers, LinesOfKind, NodesOf
<1>3. CASE BreakOnThrowOff
  BY <1>1, <1>3 DEF BreakOnThrowOff, Leftovers, LinesOfKind, NodesOf
<1> QED BY <1>2, <1>3

LEMMA RunLeftovers ==
  ASSUME Leftovers, NoTemps, Run
  PROVE  Leftovers' /\ NoTemps'
<1>1. UserLines' = UserLines /\ LinesOfKind("throw")' = LinesOfKind("throw")
  BY DEF Run, StartCommand, ContinueCommand, BeginStep, StepWithoutProgram, Arm,
         ProgramStops, ProgramEnds, Finish, QuitCommand, Ended, vars, userVars,
         UserLines, LinesOfKind, NodesOf
<1> USE <1>1 DEF Leftovers, NoTemps
<1>2. CASE StartCommand \/ ContinueCommand
  BY <1>2 DEF StartCommand, ContinueCommand, Known
<1>3. CASE (\E c \in {"next", "step", "out"} : BeginStep(c)) \/ StepWithoutProgram
  BY <1>3 DEF BeginStep, StepWithoutProgram
<1>4. CASE Arm
  <2>1. gdbLines' = gdbLines \cup Known(temps') /\ pc' = "running" /\ temps = {}
    BY <1>4 DEF Arm
  <2> QED BY <2>1 DEF Known
<1>5. CASE ProgramStops \/ ProgramEnds
  BY <1>5 DEF ProgramStops, ProgramEnds
<1>6. CASE Finish
  <2>1. gdbLines' = gdbLines \ temps /\ temps' = {}
    BY <1>6 DEF Finish, ClearTemps
  <2> QED BY <2>1
<1>7. CASE QuitCommand \/ Ended \/ UNCHANGED vars
  BY <1>7 DEF QuitCommand, Ended, vars
<1> QED BY <1>2, <1>3, <1>4, <1>5, <1>6, <1>7 DEF Run

LEMMA UserNoTemps ==
  ASSUME NoTemps,
         \/ \E n \in Nodes : BreakCommand(n)
         \/ \E k \in 1..MaxBreakpoints : ClearCommand(k)
         \/ BreakOnThrowOn \/ BreakOnThrowOff
  PROVE  NoTemps'
BY DEF NoTemps, BreakCommand, ClearCommand, BreakOnThrowOn, BreakOnThrowOff

(* Whatever the program does, the commands that run it leave no breakpoint *)
(* of their own in gdb.                                                    *)
THEOREM NoTemporaryStays == Spec => []NoTemporaryLeft
<1>1. Init => Leftovers /\ NoTemps
  BY DEF Init, Leftovers, NoTemps
<1>2. UserType /\ Leftovers /\ NoTemps /\ [Next]_vars => Leftovers' /\ NoTemps'
  <2> SUFFICES ASSUME UserType, Leftovers, NoTemps, [Next]_vars
               PROVE  Leftovers' /\ NoTemps'
    OBVIOUS
  <2>1. \/ \E n \in Nodes : BreakCommand(n)
        \/ \E k \in 1..MaxBreakpoints : ClearCommand(k)
        \/ BreakOnThrowOn \/ BreakOnThrowOff \/ Run
    BY DEF Next, Run
  <2> QED BY <2>1, BreakLeftovers, ClearLeftovers, ThrowLeftovers, RunLeftovers,
             UserNoTemps
<1>3. TypeOK => UserType
  BY DEF TypeOK
<1>4. Leftovers /\ NoTemps => NoTemporaryLeft
  BY DEF Leftovers, NoTemps, NoTemporaryLeft
<1> QED BY <1>1, <1>2, <1>3, <1>4, TypeCorrect, PTL DEF Spec
===========================================================================

------------------------- MODULE InputReaderProofs -------------------------
(***************************************************************************)
(* Proofs about the hand-over of lines, for every number of lines and for  *)
(* every source of them: the shell and the reader never wait for each      *)
(* other.  Handover is the inductive invariant: a shell that waits for a   *)
(* line has given a permission that nobody has withdrawn without putting a *)
(* line in the slot.                                                       *)
(***************************************************************************)
EXTENDS InputReader, TLAPS

LEMMA KindsOfLines ==
  ASSUME NEW k \in IdeKinds \cup ConsoleKinds, NEW n \in 1..(MaxLines + 1)
  PROVE  [num |-> n, kind |-> k] \in Line
BY DEF Line

(* Every action keeps the types.                                           *)
LEMMA TypeInit == Init => TypeOK
<1> SUFFICES ASSUME Init PROVE TypeOK
  OBVIOUS
<1>1. proceed \in Nat
  BY DEF Init
<1>2. lineSet \in BOOLEAN /\ exiting \in BOOLEAN /\ redirecting \in BOOLEAN
      /\ started \in BOOLEAN
  BY DEF Init
<1>3. /\ s \in Line \cup {None} /\ line \in Line \cup {None}
      /\ command \in Line \cup {None}
  BY DEF Init
<1> QED BY <1>1, <1>2, <1>3 DEF Init, TypeOK

LEMMA ProceedType ==
  ASSUME TypeOK, Proceed
  PROVE  /\ proceed' \in Nat
         /\ reader' \in {"top", "read", "sample", "write", "reset", "hand",
                         "notify", "wait", "asleep", "ended", "killed"}
BY DEF TypeOK, Proceed

LEMMA MeaningType ==
  ASSUME TypeOK, ~Rejected, command \in Line
  PROVE  Meaning \in {"plain", "start", "continue", "step", "help", "quit"}
BY DEF TypeOK, Rejected, Meaning, Line, IdeKinds, ConsoleKinds, BothModes

LEMMA ReadLineType == ASSUME TypeOK, ReadLine PROVE TypeOK'
<1>1. CASE s.num < MaxLines /\ \E k \in Kinds : s' = [num |-> s.num + 1, kind |-> k]
  <2>1. PICK k \in Kinds : s' = [num |-> s.num + 1, kind |-> k]
    BY <1>1
  <2>2. s.num \in Nat
    BY DEF TypeOK, Line, None
  <2>3. s.num + 1 \in 1..(MaxLines + 1)
    BY <1>1, <2>2, ReaderAssumption
  <2>4. s' \in Line
    BY <2>1, <2>3, KindsOfLines DEF Kinds
  <2> QED BY <2>4 DEF TypeOK, ReadLine, options, slotVars, flagVars, shellVars, programVars
<1>2. CASE s' = [num |-> MaxLines + 1, kind |-> "eof"]
  <2>1. s' \in Line
    BY <1>2, ReaderAssumption DEF Line
  <2> QED BY <2>1 DEF TypeOK, ReadLine, options, slotVars, flagVars, shellVars, programVars
<1> QED BY <1>1, <1>2 DEF ReadLine

LEMMA ReaderType == ASSUME TypeOK, ReaderStep PROVE TypeOK'
<1> USE DEF TypeOK, options, slotVars, flagVars, shellVars, programVars
<1>1. CASE TestExiting BY <1>1 DEF TestExiting
<1>2. CASE Sample BY <1>2 DEF Sample, AfterLine
<1>3. CASE Write BY <1>3 DEF Write
<1>4. CASE ResetProceed BY <1>4 DEF ResetProceed
<1>5. CASE HandLine BY <1>5 DEF HandLine
<1>6. CASE NotifyLine BY <1>6 DEF NotifyLine
<1>7. CASE AwaitProceed BY <1>7 DEF AwaitProceed
<1> QED BY <1>1, <1>2, <1>3, <1>4, <1>5, <1>6, <1>7 DEF ReaderStep

(* A shell that dispatches has taken a line, so its kind is known.         *)
Taken == shell = "dispatch" => command \in Line
Slot == lineSet => line \in Line
Read == reader \in {"sample", "reset", "hand", "write"} => s \in Line

LEMMA LinesInit == Init => Taken /\ Slot /\ Read
BY DEF Init, Taken, Slot, Read

LEMMA LinesStep == ASSUME TypeOK, Taken, Slot, Read, Next PROVE Taken' /\ Slot' /\ Read'
<1> USE DEF TypeOK, Taken, Slot, Read, options, slotVars, flagVars, shellVars, programVars
<1>1. CASE ReadLine
  <2>1. CASE s.num < MaxLines /\ \E k \in Kinds : s' = [num |-> s.num + 1, kind |-> k]
    <3>1. PICK k \in Kinds : s' = [num |-> s.num + 1, kind |-> k] BY <2>1
    <3>2. s.num \in Nat BY DEF Line, None
    <3>3. s.num + 1 \in 1..(MaxLines + 1) BY <2>1, <3>2, ReaderAssumption
    <3>4. k \in IdeKinds \cup ConsoleKinds BY DEF Kinds
    <3>5. s' \in Line BY <3>1, <3>3, <3>4 DEF Line
    <3> QED BY <1>1, <3>5 DEF ReadLine
  <2>2. CASE s' = [num |-> MaxLines + 1, kind |-> "eof"]
    <3>1. s' \in Line BY <2>2, ReaderAssumption DEF Line
    <3> QED BY <1>1, <3>1 DEF ReadLine
  <2> QED BY <1>1, <2>1, <2>2 DEF ReadLine
<1>2. CASE ReaderStep
  BY <1>2 DEF ReaderStep, TestExiting, Sample, AfterLine, Write, ResetProceed,
              HandLine, NotifyLine, AwaitProceed
<1>3. CASE NextCommand BY <1>3 DEF NextCommand, Proceed
<1>4. CASE GetLine BY <1>4 DEF GetLine
<1>5. CASE RejectLine BY <1>5 DEF RejectLine
<1>6. CASE Dispatch BY <1>6 DEF Dispatch, FirstStep, Proceed
<1>7. CASE \/ Start \/ Started \/ StartRedirecting \/ StopRedirecting
           \/ RunAgain \/ QuitGdb \/ Join
  BY <1>7 DEF Start, Started, StartRedirecting, StopRedirecting, RunAgain,
              QuitGdb, Join
<1>8. CASE Continue \/ Exit BY <1>8 DEF Continue, Exit, Proceed
<1>9. CASE SpuriousWakeup \/ ProgramStops \/ Ended
  BY <1>9 DEF SpuriousWakeup, ProgramStops, Ended, vars
<1> QED BY <1>1, <1>2, <1>3, <1>4, <1>5, <1>6, <1>7, <1>8, <1>9
        DEF Next, ShellStep

LEMMA ShellType == ASSUME TypeOK, Taken, ShellStep PROVE TypeOK'
<1> USE DEF TypeOK, options, slotVars, flagVars, shellVars, programVars
<1>1. CASE NextCommand BY <1>1, ProceedType DEF NextCommand
<1>2. CASE GetLine
  <2>1. CASE lineSet
    <3>1. lineSet' \in BOOLEAN BY <1>2, <2>1 DEF GetLine
    <3> QED BY <1>2, <2>1, <3>1 DEF GetLine
  <2>2. CASE ~lineSet BY <1>2, <2>2 DEF GetLine
  <2> QED BY <2>1, <2>2
<1>3. CASE RejectLine BY <1>3 DEF RejectLine
<1>4. CASE Dispatch
  <2>1. Meaning \in {"plain", "start", "continue", "step", "help", "quit"}
    BY <1>4, MeaningType DEF Dispatch, Taken
  <2>2. proceed' \in Nat /\ reader' \in {"top", "read", "sample", "write",
          "reset", "hand", "notify", "wait", "asleep", "ended", "killed"}
    BY <1>4, ProceedType DEF Dispatch
  <2>3. shell' \in {"start", "redirect", "quit", "proceed"}
    BY <1>4 DEF Dispatch, FirstStep
  <2> QED BY <1>4, <2>1, <2>2, <2>3 DEF Dispatch
<1>5. CASE StartRedirecting BY <1>5 DEF StartRedirecting
<1>6. CASE Continue BY <1>6, ProceedType DEF Continue
<1>7. CASE StopRedirecting
  <2>1. redirecting' \in BOOLEAN /\ started' \in BOOLEAN
    BY <1>7 DEF StopRedirecting
  <2> QED BY <1>7, <2>1 DEF StopRedirecting
<1>8. CASE QuitGdb BY <1>8 DEF QuitGdb
<1>9. CASE Exit BY <1>9, ProceedType DEF Exit
<1>10. CASE Join BY <1>10 DEF Join
<1>11. CASE Start
  <2>1. started' \in BOOLEAN BY <1>11 DEF Start
  <2> QED BY <1>11, <2>1 DEF Start
<1>12. CASE Started BY <1>12 DEF Started
<1>13. CASE RunAgain
  <2>1. redirecting' \in BOOLEAN BY <1>13 DEF RunAgain
  <2> QED BY <1>13, <2>1 DEF RunAgain
<1> QED BY <1>1, <1>2, <1>3, <1>4, <1>5, <1>6, <1>7, <1>8, <1>9, <1>10, <1>11,
           <1>12, <1>13 DEF ShellStep

LEMMA OthersType ==
  ASSUME TypeOK, SpuriousWakeup \/ ProgramStops \/ Ended \/ UNCHANGED vars
  PROVE  TypeOK'
BY DEF TypeOK, SpuriousWakeup, ProgramStops, Ended, vars, options, slotVars,
       flagVars, shellVars, programVars

(* The state of every run has the declared types.                          *)
THEOREM TypeCorrect == Spec => []TypeOK
<1> DEFINE I == TypeOK /\ Taken /\ Slot /\ Read
<1>1. Init => I
  BY TypeInit, LinesInit
<1>2. I /\ [Next]_vars => I'
  <2> SUFFICES ASSUME I, [Next]_vars PROVE I'
    OBVIOUS
  <2>1. CASE Next
    BY <2>1, ReadLineType, ReaderType, ShellType, OthersType, LinesStep DEF Next
  <2>2. CASE UNCHANGED vars
    <3>1. TypeOK' BY <2>2, OthersType
    <3> QED BY <2>2, <3>1 DEF Taken, Slot, Read, vars, slotVars, shellVars, programVars
  <2> QED BY <2>1, <2>2
<1>3. I => TypeOK
  OBVIOUS
<1> QED BY <1>1, <1>2, <1>3, PTL DEF Spec

---------------------------------------------------------------------------
(* The hand-over.                                                          *)

LEMMA HandoverInit == Init => Handover
BY DEF Init, Handover

LEMMA HandoverReader ==
  ASSUME TypeOK, Handover, ReadLine \/ ReaderStep
  PROVE  Handover'
<1> USE DEF TypeOK, Handover, options, slotVars, flagVars, shellVars, programVars
<1>1. CASE ReadLine BY <1>1 DEF ReadLine
<1>2. CASE TestExiting BY <1>2 DEF TestExiting
<1>3. CASE Sample BY <1>3 DEF Sample, AfterLine
<1>4. CASE Write BY <1>4 DEF Write
<1>5. CASE ResetProceed BY <1>5 DEF ResetProceed
<1>6. CASE HandLine BY <1>6 DEF HandLine
<1>7. CASE NotifyLine BY <1>7 DEF NotifyLine
<1>8. CASE AwaitProceed BY <1>8 DEF AwaitProceed
<1> QED BY <1>1, <1>2, <1>3, <1>4, <1>5, <1>6, <1>7, <1>8 DEF ReaderStep

LEMMA HandoverShell ==
  ASSUME TypeOK, Handover, ShellStep
  PROVE  Handover'
<1> USE DEF TypeOK, Handover, options, slotVars, flagVars, shellVars, programVars
<1>1. CASE NextCommand BY <1>1 DEF NextCommand, Proceed
<1>2. CASE GetLine BY <1>2 DEF GetLine
<1>3. CASE RejectLine BY <1>3 DEF RejectLine
<1>4. CASE Dispatch BY <1>4 DEF Dispatch, FirstStep, Proceed
<1>5. CASE StartRedirecting BY <1>5 DEF StartRedirecting
<1>6. CASE Continue BY <1>6 DEF Continue, Proceed
<1>7. CASE StopRedirecting \/ RunAgain BY <1>7 DEF StopRedirecting, RunAgain
<1>8. CASE QuitGdb BY <1>8 DEF QuitGdb
<1>9. CASE Exit BY <1>9 DEF Exit, Proceed
<1>10. CASE Start \/ Started \/ Join BY <1>10 DEF Start, Started, Join
<1> QED BY <1>1, <1>2, <1>3, <1>4, <1>5, <1>6, <1>7, <1>8, <1>9, <1>10
        DEF ShellStep

LEMMA HandoverOthers ==
  ASSUME TypeOK, Handover, SpuriousWakeup \/ ProgramStops \/ Ended \/ UNCHANGED vars
  PROVE  Handover'
BY DEF TypeOK, Handover, SpuriousWakeup, ProgramStops, Ended, vars, options, slotVars,
       flagVars, shellVars, programVars

(* The flags of the hand-over agree with where the threads are.            *)
THEOREM HandoverHolds == Spec => []Handover
<1>1. TypeOK /\ Handover /\ [Next]_vars => Handover'
  BY HandoverReader, HandoverShell, HandoverOthers DEF Next
<1> QED BY <1>1, TypeCorrect, HandoverInit, PTL DEF Spec

(* The reader never sleeps until the shell lets it read on while the shell *)
(* sleeps until the reader brings a line.                                  *)
THEOREM NobodyWaitsForEachOther == Spec => []NoStandoff
<1>1. Handover => NoStandoff
  BY DEF Handover, NoStandoff
<1> QED BY <1>1, HandoverHolds, PTL

---------------------------------------------------------------------------
(* The order of lines: those in the slot and those taken are not newer     *)
(* than the line read last, and on its way from the reader to the shell a  *)
(* line is newer than the one before it.  A reader that is a permission    *)
(* ahead may replace a line in the slot, so that numbers are skipped, but  *)
(* never go back.                                                          *)
NothingFromTheFuture == line.num <= s.num /\ command.num <= s.num
SlotIsNewer == lineSet => line.num > command.num \/ line.kind = "eof"
ReadIsNewer ==
  reader \in {"sample", "reset", "hand"} =>
    /\ s.num > command.num \/ s.kind = "eof"
    /\ lineSet => s.num > line.num \/ s.kind = "eof"
InOrder == NothingFromTheFuture /\ SlotIsNewer /\ ReadIsNewer

LEMMA NumbersAreNatural ==
  ASSUME TypeOK
  PROVE  s.num \in Nat /\ line.num \in Nat /\ command.num \in Nat
BY ReaderAssumption DEF TypeOK, Line, None

LEMMA InOrderInit == Init => InOrder
BY DEF Init, None, InOrder, NothingFromTheFuture, SlotIsNewer, ReadIsNewer

LEMMA InOrderReader ==
  ASSUME TypeOK, InOrder, ReadLine \/ ReaderStep
  PROVE  InOrder'
<1> USE DEF InOrder, NothingFromTheFuture, SlotIsNewer, ReadIsNewer,
            options, slotVars, flagVars, shellVars, programVars
<1>1. s.num \in Nat /\ line.num \in Nat /\ command.num \in Nat
  BY NumbersAreNatural
<1>2. CASE ReadLine
  <2>1. CASE s.num < MaxLines /\ \E k \in Kinds : s' = [num |-> s.num + 1, kind |-> k]
    <3>1. s'.num = s.num + 1
      BY <2>1
    <3>2. s'.num > line.num /\ s'.num > command.num
      BY <1>1, <3>1
    <3> QED BY <1>1, <1>2, <3>1, <3>2 DEF ReadLine
  <2>2. CASE s.num >= MaxLines /\ s' = [num |-> MaxLines + 1, kind |-> "eof"]
    <3>1. s.num <= MaxLines + 1
      BY ReaderAssumption DEF TypeOK, Line, None
    <3>2. s'.num = MaxLines + 1 /\ s'.kind = "eof"
      BY <2>2
    <3> QED BY <1>1, <1>2, <3>1, <3>2, ReaderAssumption DEF ReadLine
  <2> QED BY <1>2, <2>1, <2>2 DEF ReadLine
<1>3. CASE TestExiting BY <1>1, <1>3 DEF TestExiting
<1>4. CASE Sample BY <1>1, <1>4 DEF Sample, AfterLine
<1>5. CASE Write BY <1>1, <1>5 DEF Write
<1>6. CASE ResetProceed BY <1>1, <1>6 DEF ResetProceed
<1>7. CASE HandLine BY <1>1, <1>7 DEF HandLine
<1>8. CASE NotifyLine BY <1>1, <1>8 DEF NotifyLine
<1>9. CASE AwaitProceed BY <1>1, <1>9 DEF AwaitProceed
<1> QED BY <1>2, <1>3, <1>4, <1>5, <1>6, <1>7, <1>8, <1>9 DEF ReaderStep

LEMMA InOrderShell ==
  ASSUME TypeOK, InOrder, ShellStep
  PROVE  InOrder'
<1> USE DEF InOrder, NothingFromTheFuture, SlotIsNewer, ReadIsNewer,
            options, slotVars, flagVars, shellVars, programVars
<1>1. s.num \in Nat /\ line.num \in Nat /\ command.num \in Nat
  BY NumbersAreNatural
<1>2. CASE GetLine
  <2>1. CASE lineSet
    <3>1. command' = line /\ ~lineSet' /\ UNCHANGED <<reader, s, line>>
      BY <1>2, <2>1 DEF GetLine
    <3> QED BY <2>1, <3>1
  <2>2. CASE ~lineSet
    <3>1. UNCHANGED <<reader, s, line, lineSet, command>>
      BY <1>2, <2>2 DEF GetLine
    <3> QED BY <3>1
  <2> QED BY <2>1, <2>2
<1>3. CASE NextCommand \/ Dispatch \/ Continue \/ Exit
  BY <1>1, <1>3 DEF NextCommand, Dispatch, Continue, Exit, Proceed
<1>4. CASE \/ RejectLine \/ Start \/ Started \/ StartRedirecting
           \/ StopRedirecting \/ RunAgain \/ QuitGdb \/ Join
  BY <1>1, <1>4 DEF RejectLine, Start, Started, StartRedirecting,
                    StopRedirecting, RunAgain, QuitGdb, Join
<1> QED BY <1>2, <1>3, <1>4 DEF ShellStep

LEMMA InOrderOthers ==
  ASSUME TypeOK, InOrder, SpuriousWakeup \/ ProgramStops \/ Ended \/ UNCHANGED vars
  PROVE  InOrder'
BY DEF InOrder, NothingFromTheFuture, SlotIsNewer, ReadIsNewer, SpuriousWakeup,
       ProgramStops, Ended, vars, options, slotVars, flagVars, shellVars, programVars

(* The command executed last is older than the line in the slot and the    *)
(* line the reader holds, and neither comes from the future.               *)
THEOREM LinesStayInOrder == Spec => []InOrder
<1>1. TypeOK /\ InOrder /\ [Next]_vars => InOrder'
  BY InOrderReader, InOrderShell, InOrderOthers DEF Next
<1> QED BY <1>1, TypeCorrect, InOrderInit, PTL DEF Spec

(* Only GetLine makes a shell that wants a line dispatch one.              *)
LEMMA OnlyGetLineTakes ==
  ASSUME [Next]_vars, shell = "getline", shell' = "dispatch"
  PROVE  GetLine
<1>1. CASE ReadLine \/ ReaderStep
  BY <1>1 DEF ReadLine, ReaderStep, TestExiting, Sample, Write, ResetProceed,
              HandLine, NotifyLine, AwaitProceed, shellVars, programVars
<1>2. CASE ShellStep
  BY <1>2 DEF ShellStep, NextCommand, RejectLine, Dispatch, FirstStep, Start,
              Started, StartRedirecting, Continue, StopRedirecting, RunAgain,
              QuitGdb, Exit, Join
<1>3. CASE SpuriousWakeup \/ ProgramStops \/ Ended \/ UNCHANGED vars
  BY <1>3 DEF SpuriousWakeup, ProgramStops, Ended, vars, shellVars, programVars
<1> QED BY <1>1, <1>2, <1>3 DEF Next

(* Lines are executed in the order they were read, none of them twice,     *)
(* whoever replaces a line in the slot and whichever wake-ups come.        *)
THEOREM CommandsInOrder == Spec => ExecutedInOrder
<1>1. InOrder /\ [Next]_vars =>
        (shell = "getline" /\ shell' = "dispatch" =>
           command'.num > command.num \/ command'.kind = "eof")
  <2> SUFFICES ASSUME InOrder, [Next]_vars, shell = "getline", shell' = "dispatch"
               PROVE  command'.num > command.num \/ command'.kind = "eof"
    OBVIOUS
  <2>1. GetLine
    BY OnlyGetLineTakes
  <2>2. lineSet /\ command' = line
    BY <2>1 DEF GetLine
  <2> QED BY <2>2 DEF InOrder, SlotIsNewer
<1> QED BY <1>1, LinesStayInOrder, PTL DEF Spec, ExecutedInOrder

---------------------------------------------------------------------------
(* While a continue or a step runs the program the reader redirects:       *)
(* StartRedirecting comes before the command that lets the program run,    *)
(* and StopRedirecting after the reply that tells it has stopped, in every *)
(* round of a step.  Only start runs the program without.                  *)
Redirected ==
  /\ shell \in {"continue", "running"} => redirecting
  /\ program = "running" => shell \in {"running", "starting"}

LEMMA RedirectedStep == ASSUME Redirected, [Next]_vars PROVE Redirected'
<1> USE DEF Redirected, options, slotVars, flagVars, shellVars, programVars
<1>1. CASE ReadLine \/ ReaderStep
  BY <1>1 DEF ReadLine, ReaderStep, TestExiting, Sample, Write, ResetProceed,
              HandLine, NotifyLine, AwaitProceed
<1>2. CASE NextCommand \/ GetLine \/ RejectLine
  BY <1>2 DEF NextCommand, GetLine, RejectLine
<1>3. CASE Dispatch BY <1>3 DEF Dispatch, FirstStep
<1>4. CASE Start \/ Started BY <1>4 DEF Start, Started
<1>5. CASE StartRedirecting \/ Continue \/ StopRedirecting \/ RunAgain
  BY <1>5 DEF StartRedirecting, Continue, StopRedirecting, RunAgain
<1>6. CASE QuitGdb \/ Exit \/ Join
  BY <1>6 DEF QuitGdb, Exit, Join
<1>7. CASE SpuriousWakeup \/ ProgramStops \/ Ended \/ UNCHANGED vars
  BY <1>7 DEF SpuriousWakeup, ProgramStops, Ended, vars
<1> QED BY <1>1, <1>2, <1>3, <1>4, <1>5, <1>6, <1>7 DEF Next, ShellStep

(* The program runs only while the shell executes the command that runs    *)
(* it, and with its input redirected unless that command is start.         *)
THEOREM RunsAreRedirectedExceptByStart == Spec => []Redirected
<1>1. Init => Redirected
  BY DEF Init, Redirected
<1> QED BY <1>1, RedirectedStep, PTL DEF Spec

(* A line for which the reader samples redirecting while a continue or a   *)
(* step runs the program goes to the program or is refused: it is not      *)
(* executed as a command.                                                  *)
THEOREM LinesSampledInRunsAreNoCommands == Spec => SampledInRunIsNoCommand
<1>1. Redirected /\ [Next]_vars =>
        (reader = "sample" /\ program = "running" /\ shell # "starting" =>
           reader' # "reset" \/ s.kind = "eof")
  <2> SUFFICES ASSUME Redirected, [Next]_vars, reader = "sample",
                      program = "running", shell # "starting"
               PROVE  reader' # "reset" \/ s.kind = "eof"
    OBVIOUS
  <2>1. redirecting
    BY DEF Redirected
  <2>2. CASE Sample
    BY <2>1, <2>2 DEF Sample, AfterLine
  <2>3. CASE ReadLine \/ (ReaderStep /\ ~Sample)
    BY <2>3 DEF ReadLine, ReaderStep, TestExiting, Write, ResetProceed,
                HandLine, NotifyLine, AwaitProceed
  <2>4. CASE ShellStep
    BY <2>4 DEF ShellStep, NextCommand, GetLine, RejectLine, Dispatch, Start,
                Started, StartRedirecting, Continue, StopRedirecting, RunAgain,
                QuitGdb, Exit, Join, Proceed
  <2>5. CASE SpuriousWakeup \/ ProgramStops \/ Ended \/ UNCHANGED vars
    BY <2>5 DEF SpuriousWakeup, ProgramStops, Ended, vars
  <2> QED BY <2>2, <2>3, <2>4, <2>5 DEF Next
<1> QED BY <1>1, RunsAreRedirectedExceptByStart, PTL
        DEF Spec, SampledInRunIsNoCommand
===========================================================================

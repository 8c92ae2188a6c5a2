---------------------------- MODULE InputReader ----------------------------
(***************************************************************************)
(* Cm.Debugger/InputReader and the command loop of Cm.Debugger/Shell: a    *)
(* reader thread reads lines from the console, the IDE or a command file   *)
(* and hands each to the shell thread, or, while the program debugged      *)
(* runs, writes it to the pipe to gdb.  The hand-over uses a one-line slot *)
(* (line, lineSet) and a permission to read on (proceed).                  *)
(*                                                                         *)
(* The flags exiting and redirecting are plain bools that the two threads  *)
(* share; a load returns the latest store.                                 *)
(***************************************************************************)
EXTENDS Naturals

CONSTANTS MaxLines,   \* bound on the lines of a session, or of the file
          MaxPermits, \* bound on the permissions a repeated run adds to
          NoLine      \* the shell has not taken a line yet

ASSUME ReaderAssumption == MaxLines \in Nat /\ MaxPermits \in Nat

(* What a line asks for: "step" is next, step or out, "plain" any command  *)
(* that only talks to gdb, "bad" a line that does not parse; an input      *)
(* command exists in IDE mode only, the empty line and help outside of it  *)
(* only.  "eof" is read at the end of a file.                              *)
BothModes == {"plain", "start", "continue", "step", "quit", "bad"}
IdeKinds == BothModes \cup {"input"}
ConsoleKinds == BothModes \cup {"help", "empty"}
Line == [num : 1..(MaxLines + 1),
         kind : IdeKinds \cup ConsoleKinds \cup {"eof"}]

VARIABLES
  fromFile, ide,   \* the options -file=FILE and -ide
  reader,      \* where the reader thread is in Run
  s,           \* the line read last
  line, lineSet,           \* the slot, guarded by lineMtx
  proceed,                 \* guarded by proceedMtx
  exiting, redirecting,    \* guarded by nothing
  shell,       \* where the shell thread is in Execute
  command,     \* the line the shell took last
  lastCommand, \* the kind an empty line repeats, or "none"
  program,     \* the program debugged: stopped, running; gone: gdb has ended
  started      \* the state of debugInfo is debugging, not idle

options == <<fromFile, ide>>
slotVars == <<line, lineSet>>
flagVars == <<exiting, redirecting>>
shellVars == <<shell, command, lastCommand>>
programVars == <<program, started>>
vars == <<options, reader, s, slotVars, proceed, flagVars, shellVars,
          programVars>>

None == [num |-> 0, kind |-> NoLine]

TypeOK ==
  /\ fromFile \in {"no", "yes"} /\ ide \in {"no", "yes"}
  /\ reader \in {"top", "read", "sample", "write", "reset", "hand", "notify",
                 "wait", "asleep", "ended", "killed"}
  /\ s \in Line \cup {None} /\ line \in Line \cup {None}
  /\ lineSet \in BOOLEAN /\ proceed \in Nat
  /\ exiting \in BOOLEAN /\ redirecting \in BOOLEAN
  /\ shell \in {"proceed", "getline", "asleep", "dispatch", "start", "starting",
                "redirect", "continue", "running", "quit", "exit", "join",
                "closed", "killed"}
  /\ command \in Line \cup {None}
  /\ lastCommand \in {"none", "plain", "start", "continue", "step", "help",
                      "quit"}
  /\ program \in {"stopped", "running", "gone"} /\ started \in BOOLEAN

Init ==
  /\ fromFile \in {"no", "yes"} /\ ide \in {"no", "yes"}
  /\ reader = "top" /\ s = None /\ line = None /\ lineSet = FALSE
  /\ proceed = 0 /\ exiting = FALSE /\ redirecting = FALSE
  /\ shell = "proceed" /\ command = None /\ lastCommand = "none"
  /\ program = "stopped" /\ started = FALSE

Kinds == IF ide = "yes" THEN IdeKinds ELSE ConsoleKinds

---------------------------------------------------------------------------
(* The reader thread: InputReader::Run.                                    *)

TestExiting ==
  /\ reader = "top"
  /\ reader' = IF exiting THEN "ended" ELSE "read"
  /\ UNCHANGED <<options, s, slotVars, proceed, flagVars, shellVars, programVars>>

(* Any line may come next; at the end of a file there are none, and        *)
(* getline fails at once, again and again.                                 *)
ReadLine ==
  /\ reader = "read"
  /\ \/ /\ s.num < MaxLines
        /\ \E k \in Kinds : s' = [num |-> s.num + 1, kind |-> k]
     \/ /\ fromFile = "yes" /\ s.num >= MaxLines
        /\ s' = [num |-> MaxLines + 1, kind |-> "eof"]
  /\ reader' = "sample"
  /\ UNCHANGED <<options, slotVars, proceed, flagVars, shellVars, programVars>>

(* redirect is sampled once.  The IDE's input commands go to the program,  *)
(* any other command of the IDE is refused with an error message.          *)
AfterLine(redirect) ==
  CASE ~redirect -> "reset"
    [] redirect /\ ide = "no" -> "write"
    [] OTHER -> CASE s.kind = "input" -> "write"
                  [] s.kind = "eof" -> "reset"
                  [] OTHER -> "top"

Sample ==
  /\ reader = "sample"
  /\ reader' = AfterLine(redirecting)
  /\ UNCHANGED <<options, s, slotVars, proceed, flagVars, shellVars, programVars>>

(* gdb.Write; it throws when gdb has ended, and an exception that leaves a *)
(* thread ends the debugger.                                               *)
Write ==
  /\ reader = "write"
  /\ IF program = "gone"
       THEN reader' = "killed" /\ shell' = "killed"
       ELSE reader' = "top" /\ UNCHANGED shell
  /\ UNCHANGED <<options, s, slotVars, proceed, flagVars, command, lastCommand,
                 programVars>>

ResetProceed ==
  /\ reader = "reset"
  /\ proceed' = 0 /\ reader' = "hand"
  /\ UNCHANGED <<options, s, slotVars, flagVars, shellVars, programVars>>

(* The slot is filled whether or not it holds a line.                      *)
HandLine ==
  /\ reader = "hand"
  /\ line' = s /\ lineSet' = TRUE /\ reader' = "notify"
  /\ UNCHANGED <<options, s, proceed, flagVars, shellVars, programVars>>

(* Mutant: no notification.                                                *)
NotifyNobody ==
  /\ reader = "notify" /\ reader' = "wait"
  /\ UNCHANGED <<options, s, slotVars, proceed, flagVars, shellVars, programVars>>

(* lineAvailable.notify_one, after lineMtx has been released.              *)
NotifyLine ==
  /\ reader = "notify" /\ reader' = "wait"
  /\ shell' = IF shell = "asleep" THEN "getline" ELSE shell
  /\ UNCHANGED <<options, s, slotVars, proceed, flagVars, command, lastCommand,
                 programVars>>

(* Mutant: a wait without its predicate.                                   *)
AwaitProceedBlindly ==
  /\ reader = "wait" /\ reader' = "asleep"
  /\ UNCHANGED <<options, s, slotVars, proceed, flagVars, shellVars, programVars>>

(* canProceed.wait with its predicate.                                     *)
AwaitProceed ==
  /\ reader = "wait"
  /\ reader' = IF proceed > 0 THEN "top" ELSE "asleep"
  /\ UNCHANGED <<options, s, slotVars, proceed, flagVars, shellVars, programVars>>

---------------------------------------------------------------------------
(* The shell thread: Shell::Execute and the commands it executes.          *)

(* Mutant: the reader is not notified.                                     *)
ProceedSilently == proceed' = proceed + 1 /\ UNCHANGED reader

(* InputReader::Proceed.                                                   *)
Proceed ==
  /\ proceed' = proceed + 1
  /\ reader' = IF reader = "asleep" THEN "wait" ELSE reader

NextCommand ==
  /\ shell = "proceed" /\ Proceed /\ shell' = "getline"
  /\ UNCHANGED <<options, s, slotVars, flagVars, command, lastCommand,
                 programVars>>

(* Mutant: the line stays in the slot.                                     *)
GetLineNoReset ==
  /\ shell = "getline"
  /\ IF lineSet
       THEN command' = line /\ shell' = "dispatch"
       ELSE shell' = "asleep" /\ UNCHANGED command
  /\ UNCHANGED <<options, reader, s, slotVars, proceed, flagVars, lastCommand,
                 programVars>>

(* lineAvailable.wait with its predicate, and the slot emptied.            *)
GetLine ==
  /\ shell = "getline"
  /\ IF lineSet
       THEN command' = line /\ lineSet' = FALSE /\ shell' = "dispatch"
       ELSE shell' = "asleep" /\ UNCHANGED <<command, lineSet>>
  /\ UNCHANGED <<options, reader, s, line, proceed, flagVars, lastCommand,
                 programVars>>

(* The command the line stands for: an empty line, and the end of a file,  *)
(* repeat the last one; the end of an IDE's file quits.                    *)
Meaning ==
  CASE command.kind = "eof" /\ ide = "yes" -> "quit"
    [] command.kind = "empty" \/ (command.kind = "eof" /\ ide # "yes") -> lastCommand
    [] OTHER -> command.kind

(* Lines that do not parse, input commands outside a run and an empty line *)
(* with nothing to repeat end in an error message.                         *)
Rejected == Meaning \in {"bad", "input", "none"}

RejectLine ==
  /\ shell = "dispatch" /\ Rejected
  /\ shell' = "proceed"
  /\ UNCHANGED <<options, reader, s, slotVars, proceed, flagVars, command,
                 lastCommand, programVars>>

(* Command::Execute of the other kinds, up to its first step that matters  *)
(* to the reader: a program is started once, and run only when it is;      *)
(* help calls Proceed itself.                                              *)
FirstStep ==
  CASE Meaning = "start" /\ ~started -> "start"
    [] Meaning \in {"continue", "step"} /\ started -> "redirect"
    [] Meaning = "quit" -> "quit"
    [] OTHER -> "proceed"

Dispatch ==
  /\ shell = "dispatch" /\ ~Rejected
  /\ lastCommand' = Meaning
  /\ IF Meaning = "help" THEN Proceed ELSE UNCHANGED <<proceed, reader>>
  /\ shell' = FirstStep
  /\ UNCHANGED <<options, s, slotVars, flagVars, command, programVars>>

(* StartCommand runs the program to the entry of main; its input is not    *)
(* redirected.                                                             *)
Start ==
  /\ shell = "start"
  /\ program' = "running" /\ started' = TRUE /\ shell' = "starting"
  /\ UNCHANGED <<options, reader, s, slotVars, proceed, flagVars, command,
                 lastCommand>>

Started ==
  /\ shell = "starting" /\ program = "stopped"
  /\ shell' = "proceed"
  /\ UNCHANGED <<options, reader, s, slotVars, proceed, flagVars, command,
                 lastCommand, programVars>>

(* StartRedirecting: the store, then Proceed.                              *)
StartRedirecting ==
  /\ shell = "redirect"
  /\ redirecting' = TRUE /\ shell' = "continue"
  /\ UNCHANGED <<options, reader, s, slotVars, proceed, exiting, command,
                 lastCommand, programVars>>

Continue ==
  /\ shell = "continue" /\ Proceed
  /\ shell' = "running" /\ program' = "running"
  /\ UNCHANGED <<options, s, slotVars, flagVars, command, lastCommand, started>>

(* Mutant: redirecting is stopped before the program has stopped.          *)
StopRedirectingEarly ==
  /\ shell = "running"
  /\ redirecting' = FALSE
  /\ shell' = IF program = "stopped" THEN "proceed" ELSE "running"
  /\ UNCHANGED <<options, reader, s, slotVars, proceed, exiting, command,
                 lastCommand, programVars>>

(* The destructor of ExecContinue at the end of a command; the shell has   *)
(* the reply of gdb, and the program may have come to its end.             *)
StopRedirecting ==
  /\ shell = "running" /\ program = "stopped"
  /\ redirecting' = FALSE /\ shell' = "proceed" /\ started' \in BOOLEAN
  /\ UNCHANGED <<options, reader, s, slotVars, proceed, exiting, command,
                 lastCommand, program>>

(* The destructor at the end of a round of next, step or out: a program    *)
(* that has not come to another line is run once more.                     *)
RunAgain ==
  /\ shell = "running" /\ program = "stopped" /\ lastCommand = "step"
  /\ proceed < MaxPermits
  /\ redirecting' = FALSE /\ shell' = "redirect"
  /\ UNCHANGED <<options, reader, s, slotVars, proceed, exiting, command,
                 lastCommand, programVars>>

(* QuitCommand: gdb.Quit, then InputReader::Exit.                          *)
QuitGdb ==
  /\ shell = "quit"
  /\ program' = "gone" /\ shell' = "exit"
  /\ UNCHANGED <<options, reader, s, slotVars, proceed, flagVars, command,
                 lastCommand, started>>

Exit ==
  /\ shell = "exit"
  /\ exiting' = TRUE /\ Proceed /\ shell' = "join"
  /\ UNCHANGED <<options, s, slotVars, redirecting, command, lastCommand,
                 programVars>>

Join ==
  /\ shell = "join" /\ reader = "ended"
  /\ shell' = "closed"
  /\ UNCHANGED <<options, reader, s, slotVars, proceed, flagVars, command,
                 lastCommand, programVars>>

(* A wake-up nobody asked for: the predicate is tested again.              *)
SpuriousWakeup ==
  /\ \/ shell = "asleep" /\ shell' = "getline" /\ UNCHANGED reader
     \/ reader = "asleep" /\ reader' = "wait" /\ UNCHANGED shell
  /\ UNCHANGED <<options, s, slotVars, proceed, flagVars, command, lastCommand,
                 programVars>>

(* The program reaches a breakpoint or its end.                            *)
ProgramStops ==
  /\ program = "running"
  /\ program' = "stopped"
  /\ UNCHANGED <<options, reader, s, slotVars, proceed, flagVars, shellVars,
                 started>>

---------------------------------------------------------------------------
ReaderStep == TestExiting \/ Sample \/ Write \/ ResetProceed \/ HandLine
                \/ NotifyLine \/ AwaitProceed
ShellStep == NextCommand \/ GetLine \/ RejectLine \/ Dispatch
               \/ Start \/ Started \/ StartRedirecting \/ Continue
               \/ StopRedirecting \/ RunAgain \/ QuitGdb \/ Exit \/ Join

(* The debugger has ended, or is waiting for a user who types no more.     *)
Ended == /\ \/ shell \in {"closed", "killed"}
            \/ fromFile = "no" /\ reader = "read" /\ s.num = MaxLines
         /\ UNCHANGED vars

Next == ReadLine \/ ReaderStep \/ ShellStep \/ SpuriousWakeup
          \/ ProgramStops \/ Ended

(* The threads run; a file always has a next line, or its end, to give,    *)
(* while a user types when he likes; the program does not run for ever,    *)
(* and a step that is always run once more comes to a line at last.        *)
Fairness == /\ WF_vars(ReaderStep) /\ WF_vars(ShellStep)
            /\ WF_vars(fromFile = "yes" /\ ReadLine) /\ WF_vars(ProgramStops)
            /\ SF_vars(StopRedirecting)

Spec == Init /\ [][Next]_vars
LiveSpec == Spec /\ Fairness

---------------------------------------------------------------------------
(* Properties.                                                             *)

(* What the two flags say about who waits for whom; with TypeOK an         *)
(* inductive invariant: a shell that wants a line has given its permission *)
(* to read it, unless a line is there or on its way.                       *)
Handover ==
  /\ reader = "asleep" => proceed = 0
  /\ shell = "asleep" /\ lineSet => reader = "notify"
  /\ shell \in {"getline", "asleep"} /\ proceed = 0 =>
       lineSet \/ reader = "hand"

(* The two threads never sleep at the same time, the reader waiting for    *)
(* permission to read the line the shell is waiting for.                   *)
NoStandoff == ~(shell = "asleep" /\ reader = "asleep")

(* Commands are executed in the order of their lines, none of them twice.  *)
ExecutedInOrder ==
  [][shell = "getline" /\ shell' = "dispatch" =>
       command'.num > command.num \/ command'.kind = "eof"]_vars

(* A line for which the reader samples redirecting while a continue or a   *)
(* step runs the program is input for the program, or refused: it is never *)
(* kept to be executed as a command later.  A line sampled while start     *)
(* runs the program, between two runs of a step, or after the last one is  *)
(* kept, even one that was typed for the program.                          *)
SampledInRunIsNoCommand ==
  [][reader = "sample" /\ program = "running" /\ shell # "starting" =>
       reader' # "reset" \/ s.kind = "eof"]_vars

(* Every line that is handed over makes the shell take a line.             *)
LineTaken ==
  lineSet ~> (~lineSet \/ shell \in {"exit", "join", "closed", "killed"})

(* The reader is always let go on, except by a shell that waits for it to  *)
(* end.                                                                    *)
ReaderReleased ==
  (reader = "asleep") ~> (reader # "asleep" \/ shell = "join")
===========================================================================

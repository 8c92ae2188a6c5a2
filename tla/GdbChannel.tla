---------------------------- MODULE GdbChannel ----------------------------
(***************************************************************************)
(* Cm.Debugger/Gdb: the shell thread hands commands to a gdb thread, which *)
(* owns the pipes to the gdb process.  The hand-over uses two flags        *)
(* (hasCommand, hasReply), two mutexes and two condition variables; the    *)
(* answer is recognised in the byte stream by the prompt of gdb.           *)
(*                                                                         *)
(* Bytes are abstracted to units.  A line by which gdb reports a stop is   *)
(* two units, its beginning and its "rest", and so is the prompt: a read   *)
(* can end inside of them.  Any other line is one unit: cut in two, it is  *)
(* still output.  A unit carries the number of the command that made gdb   *)
(* write it.                                                               *)
(***************************************************************************)
EXTENDS Naturals, Sequences

CONSTANTS MaxCommands,   \* bound on the commands of a session
          MaxConsole,    \* bound on the lines the program prints
          BufUnits,      \* units one read of the pipe returns at most
          GdbMayDie,     \* TRUE if the gdb process can end by itself
          ReadsMayFail,  \* TRUE if a read of the pipe can fail
          None           \* no command

ASSUME ChannelAssumption == /\ MaxCommands \in Nat /\ MaxConsole \in Nat
                            /\ BufUnits \in Nat \ {0}
                            /\ GdbMayDie \in BOOLEAN /\ ReadsMayFail \in BOOLEAN

(* The classes derived from GdbCommand, told apart by ReplyExpected,       *)
(* IsContinueCommand and IsQuitCommand only.                               *)
Kinds == {"plain", "continue", "quit"}

ASSUME NoneAssumption == None \notin [num : Nat, kind : Kinds]

Command == [num : 1..MaxCommands, kind : Kinds]
UnitKinds == {"text", "continuing", "console", "partial", "breakpoint",
              "source", "exit", "signal", "rest", "prompt1", "prompt2"}
Unit == [kind : UnitKinds, of : 0..MaxCommands]

(* The lines the parser looks for, by their beginnings.                    *)
Reports == {"breakpoint", "exit", "signal"}

(* ContinueReplyData: which of exit code and signal have been set.         *)
ReplyData == SUBSET {"exit", "signal"}

VARIABLES
  shell,       \* where the shell thread is in ExecuteCommand
  command,     \* the command the shell is executing
  issued,      \* number of commands issued so far
  hasCommand, hasReply, commandToExecute,
  thread,      \* where the gdb thread is in DoRun
  cmd,         \* the command the gdb thread has taken
  cmdLock,     \* the holder of commandReadyMtx: none or thread
  replyLock,   \* the holder of replyReadyMtx
  message,     \* units of the reply read so far
  chunk,       \* units of the last read not yet scanned
  replyState,  \* ContinueReplyState
  data,        \* ContinueReplyData of the reply being read
  reply,       \* what was attached to the command: units and data
  cut,         \* history: the reports that a read of this reply ended in
  toGdb, fromGdb,   \* the two pipes
  gdb,         \* the gdb process: boot, prompt, running, dead
  current,     \* the command number gdb works for
  unwritten,   \* units gdb is still going to write
  printed,     \* lines the program has printed
  stopped      \* how the program last stopped: none, breakpoint, exit, signal

shellVars == <<shell, command, issued>>
flagVars == <<hasCommand, hasReply, commandToExecute>>
threadVars == <<thread, cmd, cmdLock, replyLock>>
readVars == <<message, chunk, replyState, data, reply, cut>>
gdbVars == <<gdb, current, unwritten, printed, stopped>>
pipeVars == <<toGdb, fromGdb>>
vars == <<shellVars, flagVars, threadVars, readVars, gdbVars, pipeVars>>

(* The control state of the three actors.                                  *)
ControlType ==
  /\ shell \in {"idle", "post", "test", "asleep", "closed", "killed"}
  /\ thread \in {"welcome", "test", "asleep", "lock", "write", "read",
                 "readContinue", "scan", "reply", "unlock", "unlockCommand",
                 "ended", "stopped"}
  /\ cmdLock \in {"none", "thread"} /\ replyLock \in {"none", "thread"}
  /\ hasCommand \in BOOLEAN /\ hasReply \in BOOLEAN
  /\ replyState \in {"start", "breakpoint", "signal", "prompt"}
  /\ gdb \in {"boot", "prompt", "running", "dead"}
  /\ stopped \in {"none", "breakpoint", "exit", "signal"}

(* The commands, and the units that travel through the pipes.              *)
DataType ==
  /\ command \in Command \cup {None}
  /\ issued \in 0..MaxCommands /\ current \in 0..MaxCommands
  /\ commandToExecute \in Command \cup {None}
  /\ cmd \in Command \cup {None}
  /\ message \in Seq(Unit) /\ chunk \in Seq(Unit)
  /\ data \in ReplyData /\ cut \subseteq Reports
  /\ reply \in [units : Seq(Unit), data : ReplyData]
  /\ toGdb \in Seq(Command) /\ fromGdb \in Seq(Unit)
  /\ unwritten \in Seq(Unit)
  /\ printed \in 0..MaxConsole

TypeOK == ControlType /\ DataType

Prompt(k) == <<[kind |-> "prompt1", of |-> k], [kind |-> "prompt2", of |-> k]>>
U(kind, k) == <<[kind |-> kind, of |-> k]>>
Report(kind, k) == U(kind, k) \o U("rest", k)

Init ==
  /\ shell = "idle" /\ command = None /\ issued = 0
  /\ hasCommand = FALSE /\ hasReply = FALSE /\ commandToExecute = None
  /\ thread = "welcome" /\ cmd = None /\ cmdLock = "none" /\ replyLock = "none"
  /\ message = <<>> /\ chunk = <<>> /\ replyState = "start"
  /\ data = {} /\ reply = [units |-> <<>>, data |-> {}] /\ cut = {}
  /\ toGdb = <<>> /\ fromGdb = <<>>
  /\ gdb = "boot" /\ current = 0 /\ unwritten = <<>>
  /\ printed = 0 /\ stopped = "none"

---------------------------------------------------------------------------
(* The shell thread: Gdb::ExecuteCommand, the only caller of it.           *)

(* The two stores that precede the lock of commandMutex.                   *)
ExecuteCommand(k) ==
  /\ shell = "idle" /\ issued < MaxCommands
  /\ issued' = issued + 1
  /\ command' = [num |-> issued + 1, kind |-> k]
  /\ hasReply' = FALSE /\ hasCommand' = FALSE
  /\ shell' = "post"
  /\ UNCHANGED <<commandToExecute, threadVars, readVars, gdbVars, pipeVars>>

(* Mutant: the block without the notification.                             *)
PostCommandSilently ==
  /\ shell = "post" /\ cmdLock = "none"
  /\ commandToExecute' = command /\ hasCommand' = TRUE
  /\ shell' = "test"
  /\ UNCHANGED <<command, issued, hasReply, threadVars, readVars, gdbVars,
                 pipeVars>>

(* The block under commandReadyMtx; notify_one wakes the gdb thread if it  *)
(* sleeps on commandReady.                                                 *)
PostCommand ==
  /\ shell = "post" /\ cmdLock = "none"
  /\ commandToExecute' = command /\ hasCommand' = TRUE
  /\ thread' = IF thread = "asleep" THEN "test" ELSE thread
  /\ shell' = "test"
  /\ UNCHANGED <<command, issued, hasReply, cmd, cmdLock, replyLock,
                 readVars, gdbVars, pipeVars>>

(* Mutant: the flag is left up when the wait is over.                      *)
AwaitReplyNoReset ==
  /\ shell = "test" /\ replyLock = "none"
  /\ shell' = CASE ~hasReply -> "asleep"
                [] hasReply /\ command.kind = "quit" -> "closed"
                [] OTHER -> "idle"
  /\ UNCHANGED <<command, issued, flagVars, threadVars, readVars, gdbVars,
                 pipeVars>>

(* replyReady.wait with its predicate: return if the flag is set, else     *)
(* sleep and give the mutex up.                                            *)
AwaitReply ==
  /\ shell = "test" /\ replyLock = "none"
  /\ IF hasReply
       THEN /\ hasReply' = FALSE
            /\ shell' = IF command.kind = "quit" THEN "closed" ELSE "idle"
       ELSE shell' = "asleep" /\ UNCHANGED hasReply
  /\ UNCHANGED <<command, issued, hasCommand, commandToExecute, threadVars,
                 readVars, gdbVars, pipeVars>>

(* A wake-up nobody asked for: the predicate is tested again.              *)
SpuriousWakeup ==
  /\ \/ shell = "asleep" /\ shell' = "test" /\ UNCHANGED thread
     \/ thread = "asleep" /\ thread' = "test" /\ UNCHANGED shell
  /\ UNCHANGED <<command, issued, flagVars, cmd, cmdLock, replyLock,
                 readVars, gdbVars, pipeVars>>

---------------------------------------------------------------------------
(* The gdb thread: Gdb::DoRun, Read, ReadContinueReply and Write.          *)

(* A read of the pipe returns what is there, up to the size of the buffer. *)
Available == IF Len(fromGdb) < BufUnits THEN Len(fromGdb) ELSE BufUnits

(* Mutant: what the first read returns is taken for the whole reply.       *)
EndsAnyhow(m) == Len(m) >= 1

EndsWithPrompt(m) == /\ Len(m) >= 2
                     /\ m[Len(m)].kind = "prompt2"
                     /\ m[Len(m) - 1].kind = "prompt1"

EndOfFile == gdb = "dead" /\ fromGdb = <<>>

(* One round of the loop of Read; at the end of the file the loop breaks   *)
(* and what was read so far is returned.                                   *)
ReadRound(after) ==
  \/ /\ fromGdb # <<>>
     /\ LET n == Available
            m == message \o SubSeq(fromGdb, 1, n) IN
          /\ fromGdb' = SubSeq(fromGdb, n + 1, Len(fromGdb))
          /\ IF EndsWithPrompt(m)
               THEN thread' = after /\ message' = <<>>
                    /\ reply' = [reply EXCEPT !.units = m]
               ELSE message' = m /\ UNCHANGED <<thread, reply>>
  \/ /\ EndOfFile
     /\ thread' = after /\ message' = <<>>
     /\ reply' = [reply EXCEPT !.units = message]
     /\ UNCHANGED fromGdb

ReadWelcome ==
  /\ thread = "welcome"
  /\ ReadRound("test")
  /\ UNCHANGED <<shellVars, flagVars, cmd, cmdLock, replyLock, chunk,
                 replyState, data, cut, gdbVars, toGdb>>

(* commandReady.wait with its predicate; the command is taken with the     *)
(* mutex held, and it stays held for the rest of the iteration.            *)
AwaitCommand ==
  /\ thread = "test" /\ cmdLock = "none"
  /\ IF hasCommand
       THEN /\ hasCommand' = FALSE
            /\ cmd' = commandToExecute /\ commandToExecute' = None
            /\ cmdLock' = "thread" /\ thread' = "lock"
       ELSE thread' = "asleep" /\ UNCHANGED <<flagVars, cmd, cmdLock>>
  /\ UNCHANGED <<shellVars, hasReply, replyLock, readVars, gdbVars, pipeVars>>

LockReply ==
  /\ thread = "lock" /\ replyLock = "none"
  /\ replyLock' = "thread" /\ thread' = "write"
  /\ UNCHANGED <<shellVars, flagVars, cmd, cmdLock, readVars, gdbVars, pipeVars>>

(* Write of the message; the reply of the kind of command is awaited next. *)
WriteCommand ==
  /\ thread = "write" /\ gdb # "dead"
  /\ toGdb' = Append(toGdb, cmd)
  /\ thread' = CASE cmd.kind = "plain" -> "read"
                 [] cmd.kind = "continue" -> "readContinue"
                 [] OTHER -> "reply"
  /\ replyState' = "start" /\ data' = {} /\ cut' = {}
  /\ reply' = [units |-> <<>>, data |-> {}]
  /\ UNCHANGED <<shellVars, flagVars, cmd, cmdLock, replyLock, message, chunk,
                 gdbVars, fromGdb>>

(* Write fails when nobody reads the pipe: write returns -1, the exception *)
(* leaves the loop, the locks are released and the thread ends; where the  *)
(* system raises SIGPIPE the whole debugger is killed.                     *)
WriteFails ==
  /\ thread = "write" /\ gdb = "dead"
  /\ thread' = "stopped" /\ cmdLock' = "none" /\ replyLock' = "none"
  /\ shell' \in {shell, "killed"}
  /\ UNCHANGED <<command, issued, flagVars, cmd, readVars, gdbVars, pipeVars>>

Read ==
  /\ thread = "read"
  /\ ReadRound("reply")
  /\ UNCHANGED <<shellVars, flagVars, cmd, cmdLock, replyLock, chunk,
                 replyState, data, cut, gdbVars, toGdb>>

(* A read that fails: the exception leaves DoRun as one of Write does.     *)
ReadFails ==
  /\ ReadsMayFail /\ thread \in {"welcome", "read", "readContinue"}
  /\ thread' = "stopped" /\ cmdLock' = "none" /\ replyLock' = "none"
  /\ message' = <<>>
  /\ UNCHANGED <<shellVars, flagVars, cmd, chunk, replyState, data, reply, cut,
                 gdbVars, pipeVars>>

(* One read of the loop of ReadContinueReply.                              *)
ReadContinueReply ==
  /\ thread = "readContinue" /\ fromGdb # <<>>
  /\ LET n == Available IN
       /\ chunk' = SubSeq(fromGdb, 1, n)
       /\ message' = message \o SubSeq(fromGdb, 1, n)
       /\ fromGdb' = SubSeq(fromGdb, n + 1, Len(fromGdb))
       /\ cut' = cut \cup ({fromGdb[n].kind} \cap Reports)
  /\ thread' = "scan"
  /\ UNCHANGED <<shellVars, flagVars, cmd, cmdLock, replyLock, replyState,
                 data, reply, gdbVars, toGdb>>

(* At the end of the file the read returns no bytes: nothing changes and   *)
(* the loop goes on.                                                       *)
ReadNothing == thread = "readContinue" /\ EndOfFile /\ UNCHANGED vars

(* The first line of a chunk, which is split into lines by itself: output  *)
(* that does not end in a newline and the exit message behind it are one   *)
(* line; a report, and the prompt, are whole when the chunk holds both of  *)
(* their units.                                                            *)
LineLength(c) ==
  IF Len(c) > 1 /\ c[1].kind = "partial" /\ c[2].kind = "exit"
  THEN IF Len(c) > 2 /\ c[3].kind = "rest" THEN 3 ELSE 2
  ELSE IF /\ Len(c) > 1
          /\ \/ c[1].kind \in Reports /\ c[2].kind = "rest"
             \/ c[1].kind = "prompt1" /\ c[2].kind = "prompt2"
       THEN 2 ELSE 1

(* What the parser may take that line for.  A report the read has cut is   *)
(* known by its beginning if that was long enough; otherwise the beginning *)
(* passes for output of the program, as the other part does in any case.   *)
LineKinds(c) ==
  CASE c[1].kind = "prompt1" /\ LineLength(c) = 2 -> {"prompt"}
    [] c[1].kind \in Reports /\ Len(c) = 1 -> {c[1].kind, "console"}
    [] c[1].kind \in Reports /\ Len(c) > 1 -> {c[1].kind}
    [] c[1].kind = "continuing" -> {"continuing"}
    [] OTHER -> {"console"}

(* Mutant: the state is not set back after a line of the program's output. *)
NextReplyStateNoReset(kind) ==
  IF replyState = "start" THEN kind ELSE "start"

(* One line of the chunk through the switch: after a breakpoint or signal  *)
(* line the next line is skipped; after the prompt the rest is ignored.    *)
NextReplyState(kind) ==
  CASE replyState = "start" /\ kind \in {"breakpoint", "signal", "prompt"} -> kind
    [] replyState = "prompt" -> "prompt"
    [] OTHER -> "start"

(* Mutant: the data is started afresh for each line.                       *)
NextDataAfresh(kind) ==
  IF replyState = "start" THEN {kind} \cap {"exit", "signal"} ELSE data

NextData(kind) ==
  IF replyState = "start"
    THEN data \cup ({kind} \cap {"exit", "signal"}) ELSE data

ScanLine ==
  /\ thread = "scan" /\ chunk # <<>>
  /\ \E kind \in LineKinds(chunk) :
       replyState' = NextReplyState(kind) /\ data' = NextData(kind)
  /\ chunk' = SubSeq(chunk, LineLength(chunk) + 1, Len(chunk))
  /\ UNCHANGED <<shellVars, flagVars, threadVars, message, reply, cut, gdbVars,
                 pipeVars>>

EndOfChunk ==
  /\ thread = "scan" /\ chunk = <<>>
  /\ IF replyState = "prompt"
       THEN thread' = "reply" /\ message' = <<>>
            /\ reply' = [units |-> message, data |-> data]
       ELSE thread' = "readContinue" /\ UNCHANGED <<message, reply>>
  /\ UNCHANGED <<shellVars, flagVars, cmd, cmdLock, replyLock, chunk,
                 replyState, data, cut, gdbVars, pipeVars>>

(* Mutant: the shell is not notified.                                      *)
SetReplySilently ==
  /\ thread = "reply"
  /\ hasReply' = TRUE
  /\ thread' = "unlock"
  /\ UNCHANGED <<shellVars, hasCommand, commandToExecute, cmd, cmdLock,
                 replyLock, readVars, gdbVars, pipeVars>>

(* hasReply is set and the shell notified with both mutexes held.          *)
SetReply ==
  /\ thread = "reply"
  /\ hasReply' = TRUE
  /\ shell' = IF shell = "asleep" THEN "test" ELSE shell
  /\ thread' = "unlock"
  /\ UNCHANGED <<command, issued, hasCommand, commandToExecute, cmd, cmdLock,
                 replyLock, readVars, gdbVars, pipeVars>>

(* The end of the iteration: the reply lock is released first.             *)
UnlockReply ==
  /\ thread = "unlock"
  /\ replyLock' = "none" /\ thread' = "unlockCommand"
  /\ UNCHANGED <<shellVars, flagVars, cmd, cmdLock, readVars, gdbVars, pipeVars>>

UnlockCommand ==
  /\ thread = "unlockCommand"
  /\ cmdLock' = "none"
  /\ thread' = IF cmd.kind = "quit" THEN "ended" ELSE "test"
  /\ cmd' = None
  /\ UNCHANGED <<shellVars, flagVars, replyLock, readVars, gdbVars, pipeVars>>

---------------------------------------------------------------------------
(* The gdb process and the program it runs, as the code above uses them.   *)

GdbStarts ==
  /\ gdb = "boot"
  /\ gdb' = "prompt"
  /\ unwritten' = U("text", 0) \o Prompt(0)
  /\ UNCHANGED <<current, printed, stopped, shellVars, flagVars, threadVars,
                 readVars, pipeVars>>

(* gdb may write a line in pieces, but the prompt, always last, in one.    *)
GdbWrites ==
  /\ unwritten # <<>> /\ gdb # "dead"
  /\ LET n == IF unwritten[1].kind = "prompt1" THEN Len(unwritten) ELSE 1 IN
       /\ fromGdb' = fromGdb \o SubSeq(unwritten, 1, n)
       /\ unwritten' = SubSeq(unwritten, n + 1, Len(unwritten))
  /\ UNCHANGED <<gdb, current, printed, stopped, shellVars, flagVars,
                 threadVars, readVars, toGdb>>

(* At the prompt gdb reads the next command and executes it.               *)
GdbExecutes ==
  /\ gdb = "prompt" /\ unwritten = <<>> /\ toGdb # <<>>
  /\ toGdb' = Tail(toGdb)
  /\ current' = Head(toGdb).num
  /\ CASE Head(toGdb).kind = "quit" ->
            gdb' = "dead" /\ UNCHANGED <<unwritten, printed>>
       [] Head(toGdb).kind = "continue" ->
            /\ gdb' = "running" /\ printed' = 0
            /\ unwritten' = U("continuing", Head(toGdb).num)
       [] OTHER ->
            /\ unwritten' = U("text", Head(toGdb).num) \o Prompt(Head(toGdb).num)
            /\ UNCHANGED <<gdb, printed>>
  /\ UNCHANGED <<stopped, shellVars, flagVars, threadVars, readVars, fromGdb>>

ProgramPrints ==
  /\ gdb = "running" /\ unwritten = <<>> /\ printed < MaxConsole
  /\ printed' = printed + 1
  /\ unwritten' = U("console", current)
  /\ UNCHANGED <<gdb, current, stopped, shellVars, flagVars, threadVars,
                 readVars, pipeVars>>

(* The program stops; output it left without a newline comes first.        *)
ProgramStops ==
  /\ gdb = "running" /\ unwritten = <<>>
  /\ gdb' = "prompt"
  /\ \E tail \in {<<>>, U("partial", current)} :
       \/ /\ stopped' = "exit"
          /\ unwritten' = tail \o Report("exit", current) \o Prompt(current)
       \/ \E why \in {"breakpoint", "signal"} :
            /\ stopped' = why
            /\ unwritten' = tail \o Report(why, current)
                              \o U("source", current) \o Prompt(current)
  /\ UNCHANGED <<current, printed, shellVars, flagVars, threadVars, readVars,
                 pipeVars>>

(* gdb ends without having been asked to.                                  *)
GdbDies ==
  /\ GdbMayDie /\ gdb \in {"prompt", "running"}
  /\ gdb' = "dead" /\ unwritten' = <<>>
  /\ UNCHANGED <<current, printed, stopped, shellVars, flagVars, threadVars,
                 readVars, pipeVars>>

---------------------------------------------------------------------------
ShellStep == PostCommand \/ AwaitReply
ThreadStep == \/ ReadWelcome \/ AwaitCommand \/ LockReply \/ WriteCommand
              \/ WriteFails \/ Read \/ ReadContinueReply \/ ReadNothing
              \/ ScanLine \/ EndOfChunk \/ SetReply \/ UnlockReply \/ UnlockCommand
GdbStep == GdbStarts \/ GdbWrites \/ GdbExecutes \/ ProgramStops

(* A killed debugger takes no step; a finished session stutters.           *)
Ended == /\ \/ shell \in {"closed", "killed"} /\ thread \in {"ended", "stopped"}
            \/ shell = "idle" /\ issued = MaxCommands
         /\ UNCHANGED vars

Next == \/ \E k \in Kinds : ExecuteCommand(k)
        \/ ShellStep \/ ThreadStep \/ SpuriousWakeup
        \/ GdbStep \/ ProgramPrints \/ GdbDies \/ ReadFails
        \/ Ended

(* Threads and gdb run; the user is free to type, gdb to print and die,    *)
(* reads to fail.                                                          *)
(* ProgramStops is fair: the program debugged does not run for ever.       *)
Fairness == WF_vars(ShellStep) /\ WF_vars(ThreadStep) /\ WF_vars(GdbStep)

Spec == Init /\ [][Next]_vars
LiveSpec == Spec /\ Fairness

---------------------------------------------------------------------------
(* Where the two threads can be with respect to each other; with TypeOK an *)
(* inductive invariant.                                                    *)
Working == {"lock", "write", "read", "readContinue", "scan", "reply"}
Resting == {"welcome", "test", "asleep"}

Handshake ==
  /\ cmdLock = "thread" <=> thread \in Working \cup {"unlock", "unlockCommand"}
  /\ replyLock = "thread" <=> thread \in (Working \ {"lock"}) \cup {"unlock"}
  /\ thread \in Working \cup {"unlock", "unlockCommand"} => cmd \in Command
  /\ shell # "idle" => command \in Command
  /\ hasCommand => commandToExecute = command
  /\ shell \in {"idle", "post"} =>
       /\ ~hasCommand /\ ~hasReply
       /\ thread \in Resting \cup {"unlockCommand", "stopped"}
       /\ thread = "unlockCommand" => cmd.kind # "quit"
  /\ shell \in {"test", "asleep"} =>
       \/ /\ hasCommand /\ ~hasReply
          /\ \/ thread \in {"welcome", "test", "stopped"}
             \/ thread = "unlockCommand" /\ cmd.kind # "quit"
       \/ ~hasCommand /\ ~hasReply /\ thread \in Working /\ cmd = command
       \/ /\ ~hasCommand /\ hasReply /\ shell = "test"
          /\ \/ thread \in {"unlock", "unlockCommand"} /\ cmd = command
             \/ thread \in {"test", "asleep"} /\ command.kind # "quit"
             \/ thread = "ended" /\ command.kind = "quit"
       \/ ~hasCommand /\ ~hasReply /\ thread = "stopped"
  /\ shell = "closed" =>
       /\ command.kind = "quit" /\ ~hasCommand /\ ~hasReply
       /\ \/ thread = "ended"
          \/ thread = "unlockCommand" /\ cmd = command
  /\ shell = "killed" => thread = "stopped" /\ ~hasCommand /\ ~hasReply

---------------------------------------------------------------------------
(* Properties.                                                             *)

Waiting == shell \in {"test", "asleep"}

(* The answer ExecuteCommand is about to return was written by gdb for     *)
(* this very command, and all of it: it ends with the prompt.  A reply     *)
(* left over from an earlier command, or one cut short, would be parsed as *)
(* the answer to a question that was not asked.                            *)
ReplyBelongsToCommand ==
  hasReply =>
    /\ Waiting
    /\ \A i \in DOMAIN reply.units : reply.units[i].of = command.num
    /\ command.kind # "quit" /\ gdb # "dead" => EndsWithPrompt(reply.units)

(* Nobody sleeps through the event it waits for: a posted command finds    *)
(* the gdb thread awake, a posted reply the shell, and the two are never   *)
(* asleep at the same time, each waiting for the other.                    *)
NoLostWakeup ==
  /\ hasCommand => thread # "asleep"
  /\ hasReply => shell # "asleep"
  /\ ~(shell = "asleep" /\ thread = "asleep")

(* ExecuteCommand clears hasReply and hasCommand before it takes any lock, *)
(* while the gdb thread may be testing hasCommand: the stores must never   *)
(* change a value the other thread can see.                                *)
UnlockedStoresChangeNothing ==
  [][shell = "idle" /\ shell' = "post" => UNCHANGED <<hasCommand, hasReply>>]_vars

(* Only a signal that stopped the program is reported, and it is, however  *)
(* the lines of the reply are spread over the reads, unless a read ends    *)
(* inside of the very line that tells of it: then it may be lost.          *)
SignalReported ==
  hasReply /\ command.kind = "continue" /\ gdb # "dead" =>
    /\ "signal" \in reply.data => stopped = "signal"
    /\ stopped = "signal" /\ "signal" \notin cut => "signal" \in reply.data

(* "continue" comes back to the user once the program has stopped.         *)
ContinueReturns ==
  (shell = "test" /\ command.kind = "continue") ~> (shell \in {"idle", "killed"})

(* The channel is the command service: the threads' flags, locks and pipes *)
(* mapped to the phase the caller sees.                                    *)
phase == CASE shell = "idle" -> "idle"
           [] shell \in {"closed", "killed"} -> "closed"
           [] OTHER -> IF hasReply THEN "answered" ELSE "called"
request == IF command = None THEN [num |-> 0, kind |-> None] ELSE command
AnswerOf(units) ==
  IF units # <<>> /\ \A i \in DOMAIN units : units[i].of = units[1].of
    THEN units[1].of ELSE 0
answer == IF phase = "called" THEN 0
          ELSE IF command = None \/ request.kind = "quit" THEN request.num
          ELSE AnswerOf(reply.units)

Service == INSTANCE CommandService WITH Closing <- {"quit"}

(* Every command is answered, once, by its own answer, before the next.    *)
ServiceImplemented == Service!Spec
===========================================================================
